------------------------ MODULE AhPoolAsyncDnsProofs ------------------------
(***************************************************************************)
(* Two parts that queue for something scarce, each for any number of users. *)
(*                                                                         *)
(* The pool of header tables and the records of peers stay sound, and      *)
(* whoever waits for a table is on the list and not beside one it may      *)
(* have, for any number of connections, peers and tables, on one service   *)
(* thread.                                                                 *)
(*                                                                         *)
(* The cache of the resolver stays sound until something it uses is freed, *)
(* and nobody waits for a query that nothing drives, for any number of     *)
(* connections, queries and cached names.                                  *)
(***************************************************************************)
EXTENDS AhPool, AsyncDns, FiniteSetTheorems, SequenceTheorems, WellFoundedInduction, TLAPS

NoDuplicates(list) == \A i, j \in DOMAIN list : list[i] = list[j] => i = j

-----------------------------------------------------------------------------
(* Numbers and lists *)

\* A set of naturals has a least element.
LEMMA LeastNatural ==
  ASSUME NEW T, T \subseteq Nat, T # {}
  PROVE  \E x \in T : \A y \in T : x <= y
<1> DEFINE R == OpToRel(<, Nat)
<1>1. IsWellFoundedOn(R, Nat)
  BY NatLessThanWellFounded
<1>2. \A x, y \in Nat : y < x => <<y, x>> \in R
  BY DEF OpToRel
<1> HIDE DEF R
<1>3. PICK x \in T : \A y \in T : ~(<<y, x>> \in R)
  BY <1>1, WFMin
<1>4. \A y \in T : x \in Nat /\ y \in Nat /\ ~(y < x)
  BY <1>2, <1>3
<1>5. \A y \in T : x <= y
  BY <1>4
<1> QED BY <1>5

\* A set of positions of a list has a greatest element.
LEMMA GreatestPosition ==
  ASSUME NEW n \in Nat, NEW T, T \subseteq 1 .. n, T # {}
  PROVE  \E x \in T : \A y \in T : y <= x
<1> DEFINE U == {k \in Nat : n - k \in T}
<1>1. PICK x \in T : TRUE
  OBVIOUS
<1>2. n - x \in U /\ U \subseteq Nat
  BY <1>1
<1>3. PICK k \in U : \A y \in U : k <= y
  BY <1>2, LeastNatural
<1>4. \A y \in T : n - y \in U
  OBVIOUS
<1> QED BY <1>3, <1>4

\* A connection that is not on the list is put at its head.
LEMMA PushLemma ==
  ASSUME NEW list \in Seq(Conns), NoDuplicates(list), NEW c \in Conns, ~On(c, list)
  PROVE  /\ <<c>> \o list \in Seq(Conns)
         /\ NoDuplicates(<<c>> \o list)
         /\ \A d \in Conns : On(d, <<c>> \o list) <=> d = c \/ On(d, list)
<1> DEFINE l == <<c>> \o list
<1>1. /\ l \in Seq(Conns) /\ Len(l) = Len(list) + 1
      /\ \A i \in 1..Len(l) : l[i] = IF i = 1 THEN c ELSE list[i - 1]
  BY ConcatProperties
<1>2. DOMAIN l = 1..Len(l) /\ DOMAIN list = 1..Len(list) /\ Len(list) \in Nat
  BY <1>1, LenProperties
<1>3. NoDuplicates(l)
  BY <1>1, <1>2 DEF NoDuplicates, On
<1>4. ASSUME NEW d \in Conns PROVE On(d, l) <=> d = c \/ On(d, list)
  <2>1. d = c => On(d, l)
    BY <1>1, <1>2 DEF On
  <2>2. ASSUME NEW i \in DOMAIN list PROVE i + 1 \in DOMAIN l /\ l[i + 1] = list[i]
    BY <1>1, <1>2
  <2>3. On(d, l) => d = c \/ On(d, list)
    BY <1>1, <1>2 DEF On
  <2> QED BY <2>1, <2>2, <2>3 DEF On
<1> QED BY <1>1, <1>3, <1>4 DEF l

\* What is at one place of a list is taken off it.
LEMMA RemoveAtLemma ==
  ASSUME NEW list \in Seq(Conns), NoDuplicates(list), NEW i \in DOMAIN list
  PROVE  LET l == SubSeq(list, 1, i - 1) \o SubSeq(list, i + 1, Len(list))
         IN  /\ l \in Seq(Conns)
             /\ NoDuplicates(l)
             /\ \A d \in Conns : On(d, l) <=> d # list[i] /\ On(d, list)
<1> DEFINE a == SubSeq(list, 1, i - 1)
           b == SubSeq(list, i + 1, Len(list))
           l == a \o b
           n == Len(list)
<1>1. /\ DOMAIN list = 1..n /\ n \in Nat /\ i \in 1..n
      /\ \A j \in 1..n : list[j] \in Conns
  BY LenProperties, ElementOfSeq
<1>2. /\ a \in Seq(Conns) /\ Len(a) = IF 1 <= i - 1 THEN (i - 1) - 1 + 1 ELSE 0
      /\ \A j \in 1..((i - 1) - 1 + 1) : a[j] = list[1 + j - 1]
  BY <1>1, SubSeqProperties
<1>3. /\ b \in Seq(Conns) /\ Len(b) = IF i + 1 <= n THEN n - (i + 1) + 1 ELSE 0
      /\ \A j \in 1..(n - (i + 1) + 1) : b[j] = list[(i + 1) + j - 1]
  BY <1>1, SubSeqProperties
<1>4. /\ l \in Seq(Conns) /\ Len(l) = Len(a) + Len(b)
      /\ \A j \in 1..(Len(a) + Len(b)) :
           l[j] = IF j <= Len(a) THEN a[j] ELSE b[j - Len(a)]
  BY <1>2, <1>3, ConcatProperties
<1> HIDE DEF a, b, l, n
<1>5. Len(a) = i - 1 /\ Len(b) = n - i
  BY <1>1, <1>2, <1>3
<1>6. ASSUME NEW j \in 1..(n - 1)
      PROVE  l[j] = IF j < i THEN list[j] ELSE list[j + 1]
  <2>1. CASE j < i
    <3>1. j \in 1..((i - 1) - 1 + 1) /\ 1 + j - 1 = j
      BY <1>1, <2>1
    <3>2. j \in 1..(Len(a) + Len(b)) /\ j <= Len(a)
      BY <1>1, <1>5, <2>1
    <3> QED BY <1>2, <1>4, <2>1, <3>1, <3>2
  <2>2. CASE ~(j < i)
    <3>1. /\ j - Len(a) \in 1..(n - (i + 1) + 1)
          /\ (i + 1) + (j - Len(a)) - 1 = j + 1
      BY <1>1, <1>5, <2>2
    <3>2. j \in 1..(Len(a) + Len(b)) /\ ~(j <= Len(a))
      BY <1>1, <1>5, <2>2
    <3> QED BY <1>3, <1>4, <2>2, <3>1, <3>2
  <2> QED BY <2>1, <2>2
<1>7. DOMAIN l = 1..(n - 1)
  BY <1>1, <1>4, <1>5, LenProperties
<1>8. NoDuplicates(l)
  <2> SUFFICES ASSUME NEW j \in 1..(n - 1), NEW k \in 1..(n - 1), l[j] = l[k]
               PROVE  j = k
    BY <1>7 DEF NoDuplicates
  <2> DEFINE at(m) == IF m < i THEN m ELSE m + 1
  <2>1. at(j) \in DOMAIN list /\ at(k) \in DOMAIN list /\ list[at(j)] = list[at(k)]
    BY <1>1, <1>6
  <2>2. at(j) = at(k)
    BY <2>1 DEF NoDuplicates
  <2> QED BY <1>1, <2>2
<1>9. ASSUME NEW d \in Conns PROVE On(d, l) <=> d # list[i] /\ On(d, list)
  <2>1. On(d, l) => d # list[i] /\ On(d, list)
    BY <1>1, <1>6, <1>7 DEF On, NoDuplicates
  <2>2. ASSUME NEW j \in DOMAIN list, j # i PROVE On(list[j], l)
    <3>1. CASE j < i
      BY <1>1, <1>6, <1>7, <3>1 DEF On
    <3>2. CASE j > i
      <4>1. j - 1 \in DOMAIN l /\ l[j - 1] = list[j]
        BY <1>1, <1>6, <1>7, <3>2
      <4> QED BY <4>1 DEF On
    <3> QED BY <1>1, <2>2, <3>1, <3>2
  <2> QED BY <2>1, <2>2 DEF On
<1> QED BY <1>4, <1>8, <1>9 DEF l, a, b, n

\* __lws_remove_from_ah_waiting_list() takes a connection, and nothing else, off the list.
LEMMA RemoveLemma ==
  ASSUME NEW list \in Seq(Conns), NoDuplicates(list), NEW c \in Conns
  PROVE  /\ __lws_remove_from_ah_waiting_list(list, c) \in Seq(Conns)
         /\ NoDuplicates(__lws_remove_from_ah_waiting_list(list, c))
         /\ \A d \in Conns : On(d, __lws_remove_from_ah_waiting_list(list, c)) <=> d # c /\ On(d, list)
<1>1. CASE ~On(c, list)
  BY <1>1 DEF __lws_remove_from_ah_waiting_list
<1>2. CASE On(c, list)
  <2> DEFINE i == CHOOSE i \in DOMAIN list : list[i] = c
  <2>1. i \in DOMAIN list /\ list[i] = c
    BY <1>2 DEF On
  <2>2. __lws_remove_from_ah_waiting_list(list, c) = SubSeq(list, 1, i - 1) \o SubSeq(list, i + 1, Len(list))
    BY <1>2 DEF __lws_remove_from_ah_waiting_list
  <2> HIDE DEF i
  <2> QED BY <2>1, <2>2, RemoveAtLemma
<1> QED BY <1>1, <1>2

-----------------------------------------------------------------------------
(* The inductive invariant *)

\* A peer's own count of its tables is no less than what it holds, since a
\* connection that closes gives its table back when wsi->peer is NULL already;
\* the records that are there count their connections.
Counts ==
  /\ \A p \in Peers : /\ Cardinality(Holders(Of(p))) <= ahs[p]
                      /\ limit > 0 => ahs[p] <= limit
  /\ \A p \in Peers : /\ p \in live => wsis[p] = Cardinality(Of(p))
                      /\ Of(p) # {} => p \in live \ reap

\* Only a connection that is there has a table or a peer, and the record that
\* was found for one that is adopted is still there.
Places ==
  /\ \A c \in Conns : has[c] \/ ptr[c] # None => phase[c] # "none"
  /\ \A c \in Conns : adopting = <<c>> =>
       phase[c] = "none" /\ PeerOf[c] \in live \cup {None}

IInv == TypeOK /\ PoolIsExact /\ Counts /\ Places /\ WaitersAreListed

\* the part of it that tables passing from hand to hand can disturb
PoolOK ==
  /\ has \in [Conns -> BOOLEAN]
  /\ wait \in Seq(Conns) /\ NoDuplicates(wait)
  /\ deaf = Listed /\ \A c \in Conns : On(c, wait) => phase[c] = "headers" /\ ~has[c]
  /\ inuse \in 0 .. PoolSize /\ PoolIsExact
  /\ ahs \in [Peers -> Nat]
  /\ \A p \in Peers : /\ Cardinality(Holders(Of(p))) <= ahs[p]
                      /\ limit > 0 => ahs[p] <= limit
  /\ NobodyWaitsInVain

\* Membership of Listed and of the list are the same.
LEMMA ListedIsOn ==
  ASSUME NEW list \in Seq(Conns)
  PROVE  {list[i] : i \in DOMAIN list} = {c \in Conns : On(c, list)}
<1>1. \A i \in DOMAIN list : list[i] \in Conns
  BY ElementOfSeq, LenProperties
<1> QED BY <1>1 DEF On

\* The part about tables.
LEMMA IInvPoolOK == IInv => PoolOK
<1> SUFFICES ASSUME IInv PROVE PoolOK
  OBVIOUS
<1>1. wait \in Seq(Conns) /\ NoDuplicates(wait)
  BY DEF IInv, TypeOK, NoDuplicates
<1>2. \A c \in Conns : On(c, wait) => c \in Listed
  BY DEF On, Listed
<1> QED BY <1>1, <1>2 DEF IInv, TypeOK, PoolOK, Counts, WaitersAreListed, DeafAreListed

\* Somebody may have a table exactly if somebody inherits one.
LEMMA HeirLemma ==
  ASSUME wait \in Seq(Conns), NEW count
  PROVE  /\ \A o \in Heirs(count) : /\ o \in Conns /\ On(o, wait)
                                    /\ lws_peer_confirm_ah_attach_ok(count, ptr[o])
         /\ Heirs(count) = {} =>
              \A d \in Conns : On(d, wait) => ~lws_peer_confirm_ah_attach_ok(count, ptr[d])
<1>1. DOMAIN wait = 1 .. Len(wait) /\ Len(wait) \in Nat /\ \A i \in DOMAIN wait : wait[i] \in Conns
  BY ElementOfSeq, LenProperties
<1>2. Eligible(count) \subseteq 1 .. Len(wait)
  BY <1>1 DEF Eligible
<1>3. \A o \in Heirs(count) : /\ o \in Conns /\ On(o, wait)
                              /\ lws_peer_confirm_ah_attach_ok(count, ptr[o])
  BY <1>1 DEF Heirs, Eligible, On
<1>4. ASSUME Heirs(count) = {}, NEW d \in Conns, On(d, wait),
             lws_peer_confirm_ah_attach_ok(count, ptr[d])
      PROVE  FALSE
  <2>1. Eligible(count) # {}
    BY <1>4 DEF Eligible, On
  <2>2. PICK i \in Eligible(count) : \A j \in Eligible(count) : j <= i
    BY <1>1, <1>2, <2>1, GreatestPosition
  <2>3. wait[i] \in Heirs(count)
    BY <2>2 DEF Heirs
  <2> QED BY <1>4, <2>3
<1> QED BY <1>3, <1>4

\* The same sets of connections with one more or one less.
LEMMA Finite ==
  ASSUME NEW S \in SUBSET Conns
  PROVE  /\ IsFiniteSet(S) /\ Cardinality(S) \in Nat
         /\ \A c \in Conns \ S : Cardinality(S \cup {c}) = Cardinality(S) + 1
         /\ \A c \in S : Cardinality(S \ {c}) = Cardinality(S) - 1
         /\ Cardinality(S) = 0 <=> S = {}
<1>1. IsFiniteSet(S)
  BY AhAssumption, FS_Subset DEF AhAssumption
<1> QED BY <1>1, FS_CardinalityType, FS_AddElement, FS_RemoveElement, FS_EmptySet

\* Who waits although its peer may have more waits for a table.
LEMMA NobodyWaitsLemma ==
  ASSUME wait \in Seq(Conns), NobodyWaitsInVain, NEW d \in Conns, On(d, wait),
         lws_peer_confirm_ah_attach_ok(ahs, ptr[d])
  PROVE  inuse = PoolSize
BY DEF NobodyWaitsInVain, Eligible, On

\* Nobody waits in vain if nobody on the list may have a table, or none is left.
LEMMA NobodyWaitsPrimed ==
  ASSUME wait' \in Seq(Conns),
         \/ inuse' = PoolSize
         \/ \A d \in Conns : On(d, wait') =>
              ~(ptr'[d] = None \/ limit' = 0 \/ ahs'[ptr'[d]] < limit')
  PROVE  NobodyWaitsInVain'
<1>1. \A i \in DOMAIN wait' : wait'[i] \in Conns /\ On(wait'[i], wait')
  BY ElementOfSeq, LenProperties DEF On
<1> QED BY <1>1 DEF NobodyWaitsInVain, Eligible, lws_peer_confirm_ah_attach_ok

\* A connection without a table asks for one: whoever its peer is, it gets it
\* or waits, and all counts stay right.
LEMMA AttachLemma ==
  ASSUME PoolOK, NEW c \in Conns, NEW p \in Peers \cup {None},
         ~has[c], ~On(c, wait), ptr \in [Conns -> Peers \cup {None}],
         limit \in Nat, limit' = limit,
         ptr[c] \in {None, p}, ptr' = [ptr EXCEPT ![c] = p],
         \A d \in Conns \ {c} : phase'[d] = phase[d],
         ~has'[c] => phase'[c] = "headers",
         lws_header_table_attach(c, p)
  PROVE  PoolOK'
<1>1. CASE Granted(c, p)
  <2>1. /\ inuse < PoolSize /\ (p = None \/ limit = 0 \/ ahs[p] < limit)
        /\ has' = [has EXCEPT ![c] = TRUE] /\ inuse' = inuse + 1
        /\ ahs' = Counted(ahs, p) /\ wait' = wait /\ deaf' = deaf
    <3>1. CASE inuse < PoolSize /\ lws_peer_confirm_ah_attach_ok(ahs, p)
      BY <1>1, <3>1 DEF Granted, lws_peer_confirm_ah_attach_ok
    <3>2. CASE ~(inuse < PoolSize /\ lws_peer_confirm_ah_attach_ok(ahs, p))
      <4>1. has' = has
        BY <3>2 DEF lws_header_table_attach, _lws_header_ensure_we_are_on_waiting_list
      <4> QED BY <1>1, <4>1 DEF Granted, PoolOK
    <3> QED BY <3>1, <3>2
  <2>2. has' \in [Conns -> BOOLEAN] /\ \A d \in Conns : has'[d] <=> d = c \/ has[d]
    BY <2>1 DEF PoolOK
  <2>3. inuse' \in 0 .. PoolSize /\ PoolIsExact'
    <3>1. Holders(Conns)' = Holders(Conns) \cup {c} /\ c \notin Holders(Conns)
      BY <2>2 DEF Holders
    <3>2. Cardinality(Holders(Conns) \cup {c}) = Cardinality(Holders(Conns)) + 1
      BY <3>1, Finite DEF Holders
    <3>3. Cardinality(Holders(Conns)') = inuse'
      BY <2>1, <3>1, <3>2 DEF PoolOK, PoolIsExact
    <3>4. inuse' \in 0 .. PoolSize
      BY <2>1, AhAssumption DEF PoolOK, AhAssumption
    <3> QED BY <3>3, <3>4 DEF PoolIsExact
  <2>4. ahs' \in [Peers -> Nat] /\ \A u \in Peers : ahs'[u] = IF u = p THEN ahs[u] + 1 ELSE ahs[u]
    BY <2>1, AhAssumption DEF PoolOK, Counted, AhAssumption
  <2>5. ASSUME NEW u \in Peers
        PROVE  Cardinality(Holders(Of(u)))' <= ahs'[u] /\ (limit' > 0 => ahs'[u] <= limit')
    <3>1. limit' > 0 => ahs'[u] <= limit'
      <4>1. ahs[u] \in Nat /\ (limit > 0 => ahs[u] <= limit)
        BY DEF PoolOK
      <4>2. u = p => limit = 0 \/ ahs[u] < limit
        BY <2>1, AhAssumption DEF AhAssumption
      <4>3. ahs'[u] = IF u = p THEN ahs[u] + 1 ELSE ahs[u]
        BY <2>4
      <4> QED BY <4>1, <4>2, <4>3
    <3>2. CASE u = p
      <4>1. Holders(Of(u))' = Holders(Of(u)) \cup {c} /\ c \notin Holders(Of(u))
        BY <2>2, <3>2, AhAssumption DEF Holders, Of, AhAssumption
      <4>2. Cardinality(Holders(Of(u)) \cup {c}) = Cardinality(Holders(Of(u))) + 1
        BY <4>1, Finite DEF Holders, Of
      <4>3. Cardinality(Holders(Of(u))) \in Nat /\ Cardinality(Holders(Of(u))) <= ahs[u]
        BY Finite DEF Holders, Of, PoolOK
      <4> QED BY <2>4, <3>1, <3>2, <4>1, <4>2, <4>3 DEF PoolOK
    <3>3. CASE u # p
      <4>1. Holders(Of(u))' = Holders(Of(u))
        BY <2>2, <3>3, AhAssumption DEF Holders, Of, AhAssumption
      <4> QED BY <2>4, <3>1, <3>3, <4>1 DEF PoolOK
    <3> QED BY <3>2, <3>3
  <2>6. NobodyWaitsInVain'
    <3>1. ASSUME NEW d \in Conns, On(d, wait)
          PROVE  ~(ptr'[d] = None \/ limit' = 0 \/ ahs'[ptr'[d]] < limit')
      <4>1. ~lws_peer_confirm_ah_attach_ok(ahs, ptr[d])
        BY <2>1, <3>1, NobodyWaitsLemma, AhAssumption DEF PoolOK, AhAssumption
      <4>2. ptr'[d] = ptr[d] /\ ptr[d] \in Peers \cup {None} /\ d # c
        BY <3>1
      <4>3. ptr[d] \in Peers /\ limit # 0 /\ ~(ahs[ptr[d]] < limit)
        BY <4>1, <4>2 DEF lws_peer_confirm_ah_attach_ok
      <4>4. ahs[ptr[d]] \in Nat /\ ahs'[ptr[d]] \in {ahs[ptr[d]], ahs[ptr[d]] + 1}
        BY <2>4, <4>3 DEF PoolOK
      <4>5. ~(ahs'[ptr[d]] < limit)
        BY <4>3, <4>4
      <4> QED BY <4>2, <4>3, <4>5, AhAssumption DEF AhAssumption
    <3> QED BY <2>1, <3>1, NobodyWaitsPrimed DEF PoolOK
  <2>7. \A d \in Conns : On(d, wait') => phase'[d] = "headers" /\ ~has'[d]
    BY <2>1, <2>2 DEF PoolOK
  <2> QED BY <2>1, <2>2, <2>3, <2>4, <2>5, <2>6, <2>7 DEF PoolOK, Listed
<1>2. CASE ~Granted(c, p)
  <2>1. /\ inuse < PoolSize => ~lws_peer_confirm_ah_attach_ok(ahs, p)
        /\ wait' = <<c>> \o wait /\ deaf' = deaf \cup {c}
        /\ has' = has /\ inuse' = inuse /\ ahs' = ahs
    BY <1>2 DEF lws_header_table_attach, _lws_header_ensure_we_are_on_waiting_list
  <2>2. /\ wait' \in Seq(Conns) /\ NoDuplicates(wait')
        /\ \A d \in Conns : On(d, wait') <=> d = c \/ On(d, wait)
    BY <2>1, PushLemma DEF PoolOK
  <2>3. deaf' = Listed'
    <3>1. Listed = {d \in Conns : On(d, wait)}
      BY ListedIsOn DEF Listed, PoolOK
    <3>2. Listed' = {d \in Conns : On(d, wait')}
      BY <2>2, ListedIsOn DEF Listed
    <3> QED BY <2>1, <2>2, <3>1, <3>2 DEF PoolOK
  <2>4. \A d \in Conns : On(d, wait') => phase'[d] = "headers" /\ ~has'[d]
    BY <2>1, <2>2 DEF PoolOK
  <2>5. PoolIsExact'
    BY <2>1 DEF PoolOK, PoolIsExact, Holders
  <2>6. ASSUME NEW u \in Peers
        PROVE  Cardinality(Holders(Of(u)))' <= ahs'[u] /\ (limit' > 0 => ahs'[u] <= limit')
    <3>1. Holders(Of(u))' = Holders(Of(u))
      BY <2>1 DEF Holders, Of
    <3> QED BY <2>1, <3>1 DEF PoolOK
  <2>7. NobodyWaitsInVain'
    <3>1. CASE inuse < PoolSize
      <4>1. ASSUME NEW d \in Conns, On(d, wait')
            PROVE  ~(ptr'[d] = None \/ limit' = 0 \/ ahs'[ptr'[d]] < limit')
        <5>1. CASE d = c
          BY <2>1, <3>1, <5>1 DEF lws_peer_confirm_ah_attach_ok
        <5>2. CASE d # c
          <6>1. On(d, wait)
            BY <2>2, <4>1, <5>2
          <6>2. ~lws_peer_confirm_ah_attach_ok(ahs, ptr[d])
            BY <3>1, <6>1, NobodyWaitsLemma, AhAssumption DEF PoolOK, AhAssumption
          <6> QED BY <2>1, <5>2, <6>2 DEF lws_peer_confirm_ah_attach_ok
        <5> QED BY <5>1, <5>2
      <4> QED BY <2>2, <4>1, NobodyWaitsPrimed
    <3>2. CASE inuse = PoolSize
      BY <2>1, <2>2, <3>2, NobodyWaitsPrimed
    <3> QED BY <3>1, <3>2, AhAssumption DEF PoolOK, AhAssumption
  <2> QED BY <2>1, <2>2, <2>3, <2>4, <2>5, <2>6, <2>7 DEF PoolOK
<1> QED BY <1>1, <1>2

\* A table is given back: it goes to the one that waits longest of those that
\* may have it, or the pool has one more.  The peer that is told is that of
\* the connection, or none when the connection closes.
LEMMA DetachLemma ==
  ASSUME PoolOK, NEW c \in Conns, NEW p \in Peers \cup {None},
         has[c], ptr \in [Conns -> Peers \cup {None}],
         limit \in Nat, limit' = limit,
         \/ p = ptr[c] /\ ptr' = ptr
         \/ p = None /\ ptr' = [ptr EXCEPT ![c] = None],
         \A d \in Conns \ {c} : phase'[d] = phase[d],
         __lws_header_table_detach(c, p)
  PROVE  PoolOK'
<1> DEFINE count == lws_peer_track_ah_detach(p)
           H == Holders(Conns)
<1>1. c \in H /\ Cardinality(H) \in Nat /\ Cardinality(H) = inuse /\ H \subseteq Conns
  BY Finite DEF Holders, PoolOK, PoolIsExact
<1>2. Cardinality(H \ {c}) = inuse - 1 /\ Cardinality(H \ {c}) \in Nat
  BY <1>1, Finite
<1>3. ~On(c, wait)
  BY DEF PoolOK
<1>4. \A d \in Conns \ {c} : ptr'[d] = ptr[d]
  OBVIOUS
<1>5. \A u \in Peers : Of(u)' \subseteq Of(u) /\ Of(u) \ {c} \subseteq Of(u)'
  BY AhAssumption DEF Of, AhAssumption
\* what holds of the counts before anybody inherits
<1>6. ASSUME NEW u \in Peers
      PROVE  /\ count[u] \in Nat /\ count[u] <= ahs[u] /\ (u # p => count[u] = ahs[u])
             /\ Cardinality({d \in Of(u)' : has[d] /\ d # c}) <= count[u]
  <2> DEFINE K == Holders(Of(u))
             L == {d \in Of(u)' : has[d] /\ d # c}
  <2>1. /\ K \subseteq Conns /\ Cardinality(K) \in Nat /\ Cardinality(K) <= ahs[u]
        /\ ahs[u] \in Nat
    BY Finite DEF Holders, Of, PoolOK
  <2>2. L = K \ {c}
    BY <1>4, <1>5 DEF Holders, Of
  <2>3. c \in K => Cardinality(L) = Cardinality(K) - 1 /\ Cardinality(K) > 0
    <3>1. c \in K => Cardinality(K \ {c}) = Cardinality(K) - 1
      BY <2>1, Finite
    <3>2. c \in K => Cardinality(K) # 0
      BY <2>1, Finite
    <3> HIDE DEF K, L
    <3> QED BY <2>1, <2>2, <3>1, <3>2
  <2>4. c \notin K => L = K
    BY <2>2
  <2>5. count[u] = IF u = p THEN ahs[u] - 1 ELSE ahs[u]
    BY AhAssumption DEF lws_peer_track_ah_detach, PoolOK, AhAssumption
  <2>6. u = p => c \in K
    BY AhAssumption DEF Holders, Of, AhAssumption
  <2> HIDE DEF K, L, count
  <2>7. count[u] \in Nat /\ count[u] <= ahs[u] /\ (u # p => count[u] = ahs[u])
    BY <2>1, <2>3, <2>5, <2>6
  <2>8. Cardinality(L) <= count[u]
    BY <2>1, <2>3, <2>4, <2>5, <2>6
  <2> QED BY <2>7, <2>8 DEF L
<1>7. count \in [Peers -> Nat]
  <2>1. DOMAIN count = Peers /\ count = [u \in Peers |-> count[u]]
    BY DEF lws_peer_track_ah_detach, PoolOK
  <2> QED BY <1>6, <2>1
<1> HIDE DEF count
<1>8. CASE Heirs(count) = {}
  <2>1. /\ has' = [has EXCEPT ![c] = FALSE] /\ inuse' = inuse - 1
        /\ ahs' = count /\ wait' = wait /\ deaf' = deaf
    BY <1>8 DEF __lws_header_table_detach, _lws_destroy_ah, count
  <2>2. has' \in [Conns -> BOOLEAN] /\ \A d \in Conns : has'[d] <=> d # c /\ has[d]
    BY <2>1 DEF PoolOK
  <2>3. inuse' \in 0 .. PoolSize /\ PoolIsExact'
    <3>1. Holders(Conns)' = H \ {c}
      BY <2>2 DEF Holders
    <3>2. inuse' \in 0 .. PoolSize
      BY <1>2, <2>1, AhAssumption DEF PoolOK, AhAssumption
    <3> QED BY <1>2, <2>1, <3>1, <3>2 DEF PoolIsExact
  <2>4. ASSUME NEW u \in Peers
        PROVE  Cardinality(Holders(Of(u)))' <= ahs'[u] /\ (limit' > 0 => ahs'[u] <= limit')
    <3>1. Holders(Of(u))' = {d \in Of(u)' : has[d] /\ d # c}
      BY <2>2 DEF Holders, Of
    <3>2. /\ count[u] \in Nat /\ count[u] <= ahs[u]
          /\ Cardinality({d \in Of(u)' : has[d] /\ d # c}) <= count[u]
          /\ ahs[u] \in Nat /\ (limit > 0 => ahs[u] <= limit)
      BY <1>6 DEF PoolOK
    <3>3. Cardinality(Holders(Of(u)))' <= ahs'[u]
      BY <2>1, <3>1, <3>2
    <3>4. limit' > 0 => ahs'[u] <= limit'
      BY <2>1, <3>2
    <3> QED BY <3>3, <3>4
  <2>5. NobodyWaitsInVain'
    <3>1. ASSUME NEW d \in Conns, On(d, wait)
          PROVE  ~(ptr'[d] = None \/ limit' = 0 \/ ahs'[ptr'[d]] < limit')
      <4>1. ~lws_peer_confirm_ah_attach_ok(count, ptr[d])
        BY <1>8, <3>1, HeirLemma DEF PoolOK
      <4> QED BY <1>3, <1>4, <2>1, <3>1, <4>1 DEF lws_peer_confirm_ah_attach_ok
    <3> QED BY <2>1, <3>1, NobodyWaitsPrimed DEF PoolOK
  <2>6. \A d \in Conns : On(d, wait') => phase'[d] = "headers" /\ ~has'[d]
    BY <1>3, <2>1, <2>2 DEF PoolOK
  <2> QED BY <1>7, <2>1, <2>2, <2>3, <2>4, <2>5, <2>6 DEF PoolOK, Listed
<1>9. CASE Heirs(count) # {}
  <2>1. PICK o \in Heirs(count) : Transfer(c, o, count)
    BY <1>9 DEF __lws_header_table_detach, count
  <2>2. o \in Conns /\ On(o, wait) /\ lws_peer_confirm_ah_attach_ok(count, ptr[o])
    BY HeirLemma DEF PoolOK
  <2>3. ~has[o] /\ o # c /\ ptr'[o] = ptr[o] /\ ptr[o] \in Peers \cup {None} /\ phase[o] = "headers"
    BY <1>4, <2>2 DEF PoolOK
  <2>4. /\ has' = [has EXCEPT ![c] = FALSE, ![o] = TRUE]
        /\ wait' = __lws_remove_from_ah_waiting_list(wait, o) /\ deaf' = deaf \ {o}
        /\ ahs' = Counted(count, ptr[o]) /\ inuse' = inuse
    BY <2>1 DEF Transfer
  <2>5. has' \in [Conns -> BOOLEAN] /\ \A d \in Conns : has'[d] <=> d = o \/ (d # c /\ has[d])
    BY <2>2, <2>3, <2>4 DEF PoolOK
  <2>6. /\ wait' \in Seq(Conns) /\ NoDuplicates(wait')
        /\ \A d \in Conns : On(d, wait') <=> d # o /\ On(d, wait)
    BY <2>2, <2>4, RemoveLemma DEF PoolOK
  <2>7. deaf' = Listed'
    <3>1. Listed = {d \in Conns : On(d, wait)}
      BY ListedIsOn DEF Listed, PoolOK
    <3>2. Listed' = {d \in Conns : On(d, wait')}
      BY <2>6, ListedIsOn DEF Listed
    <3> QED BY <2>4, <2>6, <3>1, <3>2 DEF PoolOK
  <2>8. \A d \in Conns : On(d, wait') => phase'[d] = "headers" /\ ~has'[d]
    BY <1>3, <2>5, <2>6 DEF PoolOK
  <2>9. PoolIsExact'
    <3>1. Holders(Conns)' = (H \ {c}) \cup {o} /\ o \notin H \ {c}
      BY <2>2, <2>3, <2>5 DEF Holders
    <3>2. Cardinality((H \ {c}) \cup {o}) = Cardinality(H \ {c}) + 1
      BY <1>1, <2>2, <3>1, Finite
    <3>3. Cardinality((H \ {c}) \cup {o}) = inuse
      BY <1>1, <1>2, <3>2
    <3> QED BY <2>4, <3>1, <3>3 DEF PoolIsExact
  <2>10. /\ ahs' \in [Peers -> Nat]
         /\ \A u \in Peers : ahs'[u] = IF u = ptr[o] THEN count[u] + 1 ELSE count[u]
    BY <1>7, <2>3, <2>4, AhAssumption DEF Counted, AhAssumption
  <2>11. ASSUME NEW u \in Peers
         PROVE  Cardinality(Holders(Of(u)))' <= ahs'[u] /\ (limit' > 0 => ahs'[u] <= limit')
    <3> DEFINE L == {d \in Of(u)' : has[d] /\ d # c}
    <3>1. /\ count[u] \in Nat /\ count[u] <= ahs[u] /\ Cardinality(L) <= count[u]
          /\ ahs[u] \in Nat /\ (limit > 0 => ahs[u] <= limit)
      BY <1>6 DEF PoolOK
    <3>2. CASE u = ptr[o]
      <4>1. Holders(Of(u))' = L \cup {o} /\ o \in Conns \ L /\ L \subseteq Conns
        BY <2>2, <2>3, <2>5, <3>2 DEF Holders, Of
      <4>2. Cardinality(L \cup {o}) = Cardinality(L) + 1 /\ Cardinality(L) \in Nat
        BY <4>1, Finite
      <4>3. limit = 0 \/ count[u] < limit
        BY <2>2, <3>2, AhAssumption DEF lws_peer_confirm_ah_attach_ok, AhAssumption
      <4>4. ahs'[u] = count[u] + 1
        BY <2>10, <3>2
      <4> HIDE DEF L
      <4> QED BY <3>1, <4>1, <4>2, <4>3, <4>4
    <3>3. CASE u # ptr[o]
      <4>1. Holders(Of(u))' = L
        BY <2>2, <2>3, <2>5, <3>3 DEF Holders, Of
      <4>2. ahs'[u] = count[u]
        BY <2>10, <3>3
      <4> HIDE DEF L
      <4> QED BY <3>1, <4>1, <4>2
    <3> QED BY <3>2, <3>3
  <2>12. NobodyWaitsInVain'
    <3>1. CASE inuse = PoolSize
      BY <2>4, <2>6, <3>1, NobodyWaitsPrimed
    <3>2. CASE inuse # PoolSize
      \* then the heir could not have one before, and is of the same peer
      <4>1. ~lws_peer_confirm_ah_attach_ok(ahs, ptr[o])
        BY <2>2, <3>2, NobodyWaitsLemma DEF PoolOK
      <4>2. ptr[o] \in Peers /\ limit # 0 /\ ~(ahs[ptr[o]] < limit) /\ count[ptr[o]] < limit
        BY <2>2, <2>3, <4>1 DEF lws_peer_confirm_ah_attach_ok
      <4>3. p = ptr[o]
        BY <1>6, <4>2
      <4>4. \A u \in Peers : ahs'[u] >= ahs[u]
        <5> SUFFICES ASSUME NEW u \in Peers PROVE ahs'[u] >= ahs[u]
          OBVIOUS
        <5>1. ahs[u] \in Nat /\ count[u] \in Nat /\ (u # p => count[u] = ahs[u])
          BY <1>6 DEF PoolOK
        <5>2. u = p => count[u] + 1 >= ahs[u]
          BY <4>2, <4>3, AhAssumption DEF count, lws_peer_track_ah_detach, PoolOK, AhAssumption
        <5> QED BY <2>10, <4>3, <5>1, <5>2
      <4>5. ASSUME NEW d \in Conns, On(d, wait')
            PROVE  ~(ptr'[d] = None \/ limit' = 0 \/ ahs'[ptr'[d]] < limit')
        <5>1. On(d, wait) /\ d # c
          BY <1>3, <2>6, <4>5
        <5>2. ~lws_peer_confirm_ah_attach_ok(ahs, ptr[d])
          BY <3>2, <5>1, NobodyWaitsLemma DEF PoolOK
        <5>3. ptr[d] \in Peers /\ limit # 0 /\ ~(ahs[ptr[d]] < limit) /\ ptr[d] # None
          BY <5>2 DEF lws_peer_confirm_ah_attach_ok
        <5>4. ahs'[ptr[d]] >= ahs[ptr[d]] /\ ahs[ptr[d]] \in Nat /\ ahs'[ptr[d]] \in Nat
          BY <2>10, <4>4, <5>3 DEF PoolOK
        <5>5. ~(ahs'[ptr[d]] < limit)
          BY <5>3, <5>4
        <5> QED BY <1>4, <5>1, <5>3, <5>5
      <4> QED BY <2>6, <4>5, NobodyWaitsPrimed
    <3> QED BY <3>1, <3>2
  <2> QED BY <2>4, <2>5, <2>6, <2>7, <2>8, <2>9, <2>10, <2>11, <2>12 DEF PoolOK
<1> QED BY <1>8, <1>9

-----------------------------------------------------------------------------
(* Every step preserves the invariant *)

\* the part of it that is about connections and the records of peers
PeersOK ==
  /\ limit \in Limits
  /\ phase \in [Conns -> {"none", "headers", "serving", "upgraded"}]
  /\ more \in [Conns -> BOOLEAN] /\ piped \in 0 .. MaxPipe
  /\ adopting \in Seq(Conns) /\ Len(adopting) <= 1
  /\ ptr \in [Conns -> Peers \cup {None}]
  /\ live \subseteq Peers /\ reap \subseteq live /\ wsis \in [Peers -> Nat]
  /\ \A p \in Peers : /\ p \in live => wsis[p] = Cardinality(Of(p))
                      /\ Of(p) # {} => p \in live \ reap
  /\ Places

\* The part about peers.
LEMMA IInvPeersOK == IInv => PeersOK
BY DEF IInv, TypeOK, PeersOK, Counts

\* Both parts make the invariant.
LEMMA IInvPrimed == PoolOK' /\ PeersOK' => IInv'
<1> SUFFICES ASSUME PoolOK', PeersOK' PROVE IInv'
  OBVIOUS
<1>1. Listed' = {c \in Conns : On(c, wait')}
  BY ListedIsOn DEF Listed, PoolOK
<1>2. deaf' \subseteq Conns /\ DeafAreListed'
  BY <1>1 DEF PoolOK, DeafAreListed
<1>3. TypeOK'
  BY <1>2 DEF PoolOK, PeersOK, TypeOK, NoDuplicates
<1>4. Counts'
  BY DEF PoolOK, PeersOK, Counts
<1> QED BY <1>2, <1>3, <1>4 DEF PoolOK, PeersOK, IInv, WaitersAreListed

\* The limit is a number.
LEMMA LimitIsNat == IInv => limit \in Nat /\ ptr \in [Conns -> Peers \cup {None}]
BY AhAssumption DEF IInv, TypeOK, AhAssumption

\* Nothing but the table of c, its phase and its later request changes: the
\* records of peers stay as they are.
LEMMA PeersUntouched ==
  ASSUME IInv, NEW c \in Conns, phase[c] # "none", Here, ~Smp,
         UNCHANGED <<limit, peering>>,
         phase' \in [Conns -> {"none", "headers", "serving", "upgraded"}],
         phase'[c] # "none", \A d \in Conns \ {c} : phase'[d] = phase[d],
         more' \in [Conns -> BOOLEAN], piped' \in 0 .. MaxPipe,
         has' \in [Conns -> BOOLEAN],
         \A d \in Conns : has'[d] => has[d] \/ d = c \/ On(d, wait)
  PROVE  PeersOK'
<1>1. /\ limit' = limit /\ adopting' = adopting /\ ptr' = ptr /\ live' = live
      /\ reap' = reap /\ wsis' = wsis /\ adopting = <<>>
  BY DEF peering, Here
<1>2. \A p \in Peers : Of(p)' = Of(p)
  BY <1>1 DEF Of
<1>3. \A d \in Conns : On(d, wait) => phase[d] = "headers"
  BY IInvPoolOK DEF PoolOK
<1>4. PeersOK
  BY IInvPeersOK
<1>5. Places'
  BY <1>1, <1>3, <1>4 DEF Places, PeersOK
<1> QED BY <1>1, <1>2, <1>4, <1>5 DEF PeersOK

\* Whoever has a table after an attach asked for it, after a detach waited.
LEMMA NewHolders ==
  ASSUME IInv, NEW c \in Conns, NEW p \in Peers \cup {None},
         lws_header_table_attach(c, p) \/ __lws_header_table_detach(c, p)
  PROVE  /\ has' \in [Conns -> BOOLEAN]
         /\ \A d \in Conns : has'[d] => has[d] \/ d = c \/ On(d, wait)
<1>1. has \in [Conns -> BOOLEAN] /\ wait \in Seq(Conns)
  BY DEF IInv, TypeOK
<1>2. CASE lws_header_table_attach(c, p)
  BY <1>1, <1>2 DEF lws_header_table_attach, Granted, _lws_header_ensure_we_are_on_waiting_list
<1>3. CASE __lws_header_table_detach(c, p)
  <2> DEFINE count == lws_peer_track_ah_detach(p)
  <2>1. CASE Heirs(count) = {}
    BY <1>1, <1>3, <2>1 DEF __lws_header_table_detach, _lws_destroy_ah
  <2>2. CASE Heirs(count) # {}
    <3>1. PICK o \in Heirs(count) : Transfer(c, o, count)
      BY <1>3, <2>2 DEF __lws_header_table_detach
    <3>2. o \in Conns /\ On(o, wait)
      BY <1>1, HeirLemma
    <3> QED BY <1>1, <3>1, <3>2 DEF Transfer
  <2> QED BY <2>1, <2>2
<1> QED BY <1>2, <1>3

\* The search for a peer touches nobody who is there.
LEMMA GetOrCreateStep ==
  ASSUME IInv, NEW c \in Conns, lws_get_or_create_peer(c)
  PROVE  IInv'
<1> DEFINE p == PeerOf[c]
<1>1. /\ adopting = <<>> /\ phase[c] = "none" /\ p \in Peers \cup {None}
      /\ limit' = limit /\ phase' = phase /\ more' = more /\ piped' = piped
      /\ has' = has /\ wait' = wait /\ deaf' = deaf /\ inuse' = inuse /\ ptr' = ptr
      /\ adopting' \in {<<>>, <<c>>}
  BY AhAssumption DEF lws_get_or_create_peer, AhAssumption
<1>2. PoolOK /\ PeersOK /\ limit \in Nat
  BY IInvPoolOK, IInvPeersOK, LimitIsNat
<1>3. \A u \in Peers : Of(u)' = Of(u) /\ Holders(Of(u))' = Holders(Of(u))
  BY <1>1 DEF Of, Holders
<1>4. \A u \in Peers : Of(u) = {} => Cardinality(Of(u)) = 0 /\ Cardinality(Holders(Of(u))) = 0
  <2>1. Cardinality({}) = 0
    BY FS_EmptySet
  <2>2. \A u \in Peers : Of(u) = {} => Holders(Of(u)) = {}
    BY DEF Holders
  <2> QED BY <2>1, <2>2
<1>5. PoolIsExact' /\ Listed' = Listed
  BY <1>1, <1>2 DEF PoolOK, PoolIsExact, Listed, Holders
<1>6. /\ adopting' \in Seq(Conns) /\ Len(adopting') <= 1
      /\ \A d \in Conns : adopting' = <<d>> => d = c
  <2>1. CASE adopting' = <<>>
    BY <2>1
  <2>2. CASE adopting' = <<c>>
    BY <2>2
  <2> QED BY <1>1, <2>1, <2>2
<1>7. CASE p \in Peers \ live
  <2>1. /\ live' = live \cup {p} /\ reap' = reap \cup {p}
        /\ wsis' = [wsis EXCEPT ![p] = 0] /\ ahs' = [ahs EXCEPT ![p] = 0]
    BY <1>7 DEF lws_get_or_create_peer
  <2>2. Of(p) = {}
    BY <1>2, <1>7 DEF PeersOK
  <2>3. /\ ahs' \in [Peers -> Nat]
        /\ \A u \in Peers : ahs'[u] = IF u = p THEN 0 ELSE ahs[u]
        /\ wsis' \in [Peers -> Nat]
        /\ \A u \in Peers : wsis'[u] = IF u = p THEN 0 ELSE wsis[u]
    BY <1>2, <1>7, <2>1 DEF PoolOK, PeersOK
  <2>4. NobodyWaitsInVain'
    <3>1. CASE inuse = PoolSize
      BY <1>1, <1>2, <3>1, NobodyWaitsPrimed DEF PoolOK
    <3>2. CASE inuse # PoolSize
      <4>1. ASSUME NEW d \in Conns, On(d, wait)
            PROVE  ~(ptr'[d] = None \/ limit' = 0 \/ ahs'[ptr'[d]] < limit')
        <5>1. ~lws_peer_confirm_ah_attach_ok(ahs, ptr[d])
          BY <1>2, <3>2, <4>1, NobodyWaitsLemma DEF PoolOK
        <5>2. ptr[d] \in Peers /\ ptr[d] # None /\ ptr[d] # p
          BY <1>2, <2>2, <5>1 DEF lws_peer_confirm_ah_attach_ok, PeersOK, Of
        <5> QED BY <1>1, <2>3, <5>1, <5>2 DEF lws_peer_confirm_ah_attach_ok
      <4> QED BY <1>1, <1>2, <4>1, NobodyWaitsPrimed DEF PoolOK
    <3> QED BY <3>1, <3>2
  <2>5. ASSUME NEW u \in Peers
        PROVE  /\ Cardinality(Holders(Of(u)))' <= ahs'[u] /\ (limit' > 0 => ahs'[u] <= limit')
               /\ u \in live' => wsis'[u] = Cardinality(Of(u))'
               /\ Of(u)' # {} => u \in live' \ reap'
    <3>1. CASE u = p
      BY <1>1, <1>2, <1>3, <1>4, <2>2, <2>3, <3>1
    <3>2. CASE u # p
      BY <1>1, <1>2, <1>3, <2>1, <2>3, <3>2 DEF PoolOK, PeersOK
    <3> QED BY <3>1, <3>2
  <2>6. PoolOK'
    BY <1>1, <1>2, <1>5, <2>3, <2>4, <2>5 DEF PoolOK
  <2>7. Places'
    BY <1>1, <1>2, <1>6, <1>7, <2>1 DEF PeersOK, Places
  <2>8. PeersOK'
    BY <1>1, <1>2, <1>6, <1>7, <2>1, <2>3, <2>5, <2>7 DEF PeersOK
  <2> QED BY <2>6, <2>8, IInvPrimed
<1>8. CASE p \notin Peers \ live
  <2>1. live' = live /\ reap' = reap /\ wsis' = wsis /\ ahs' = ahs
    BY <1>8 DEF lws_get_or_create_peer
  <2>2. PoolOK'
    BY <1>1, <1>2, <1>3, <2>1
       DEF PoolOK, PoolIsExact, Listed, Holders, NobodyWaitsInVain, Eligible,
           lws_peer_confirm_ah_attach_ok
  <2>3. Places'
    BY <1>1, <1>2, <1>6, <1>8, <2>1 DEF PeersOK, Places
  <2>4. PeersOK'
    BY <1>1, <1>2, <1>3, <1>6, <2>1, <2>3 DEF PeersOK
  <2> QED BY <2>2, <2>4, IInvPrimed
<1> QED BY <1>7, <1>8

\* The adopted connection is counted for its peer and asks for a table.
LEMMA AddWsiStep ==
  ASSUME IInv, NEW c \in Conns, lws_peer_add_wsi(c)
  PROVE  IInv'
<1> DEFINE p == PeerOf[c]
<1>1. /\ adopting = <<c>> /\ adopting' = <<>> /\ p \in Peers \cup {None}
      /\ ptr' = [ptr EXCEPT ![c] = p] /\ wsis' = Counted(wsis, p) /\ reap' = reap \ {p}
      /\ phase' = [phase EXCEPT ![c] = "headers"] /\ lws_header_table_attach(c, p)
      /\ limit' = limit /\ more' = more /\ piped' = piped /\ live' = live
  BY AhAssumption DEF lws_peer_add_wsi, AhAssumption
<1>2. PoolOK /\ PeersOK /\ limit \in Nat
  BY IInvPoolOK, IInvPeersOK, LimitIsNat
<1>3. phase[c] = "none" /\ ptr[c] = None /\ ~has[c] /\ ~On(c, wait) /\ p \in live \cup {None}
  BY <1>1, <1>2 DEF PeersOK, Places, PoolOK
<1>4. \A d \in Conns : phase'[d] = IF d = c THEN "headers" ELSE phase[d]
  BY <1>1, <1>2 DEF PeersOK
<1>5. PoolOK'
  BY <1>1, <1>2, <1>3, <1>4, AttachLemma DEF PeersOK
<1>6. /\ has' \in [Conns -> BOOLEAN]
      /\ \A d \in Conns : has'[d] => has[d] \/ d = c \/ On(d, wait)
  BY <1>1, NewHolders
<1>7. wsis' \in [Peers -> Nat] /\ \A u \in Peers : wsis'[u] = IF u = p THEN wsis[u] + 1 ELSE wsis[u]
  BY <1>1, <1>2, AhAssumption DEF Counted, PeersOK, AhAssumption
<1>8. ASSUME NEW u \in Peers
      PROVE  /\ u \in live' => wsis'[u] = Cardinality(Of(u))'
             /\ Of(u)' # {} => u \in live' \ reap'
  <2>1. CASE u = p
    <3>1. Of(u)' = Of(u) \cup {c} /\ c \notin Of(u) /\ Of(u) \subseteq Conns
      BY <1>1, <1>2, <1>3, <2>1, AhAssumption DEF Of, PeersOK, AhAssumption
    <3>2. Cardinality(Of(u) \cup {c}) = Cardinality(Of(u)) + 1
      BY <3>1, Finite
    <3>3. u \in live /\ wsis[u] = Cardinality(Of(u))
      BY <1>2, <1>3, <2>1, AhAssumption DEF PeersOK, AhAssumption
    <3> QED BY <1>1, <1>7, <2>1, <3>1, <3>2, <3>3
  <2>2. CASE u # p
    <3>1. Of(u)' = Of(u)
      BY <1>1, <1>2, <1>3, <2>2, AhAssumption DEF Of, PeersOK, AhAssumption
    <3> QED BY <1>1, <1>2, <1>7, <2>2, <3>1 DEF PeersOK
  <2> QED BY <2>1, <2>2
<1>9. Places'
  <2>1. \A d \in Conns : adopting' # <<d>>
    BY <1>1
  <2>2. \A d \in Conns : On(d, wait) => phase[d] = "headers"
    BY <1>2 DEF PoolOK
  <2>3. ASSUME NEW d \in Conns, has'[d] \/ ptr'[d] # None PROVE phase'[d] # "none"
    BY <1>1, <1>2, <1>4, <1>6, <2>2, <2>3 DEF PeersOK, Places
  <2> QED BY <2>1, <2>3 DEF Places
<1>10. ptr' \in [Conns -> Peers \cup {None}] /\ phase' \in [Conns -> {"none", "headers", "serving", "upgraded"}]
  BY <1>1, <1>2 DEF PeersOK
<1>11. adopting' \in Seq(Conns) /\ Len(adopting') <= 1
  BY <1>1
<1>12. PeersOK'
  BY <1>1, <1>2, <1>7, <1>8, <1>9, <1>10, <1>11 DEF PeersOK
<1> QED BY <1>5, <1>12, IInvPrimed

\* A record is freed only when nobody points to it.
LEMMA CullStep ==
  ASSUME IInv, ~Smp, NEW p \in Peers, lws_peer_cull_peer_wait_list(p)
  PROVE  IInv'
<1>1. /\ adopting = <<>> /\ p \in reap /\ reap' = reap \ {p} /\ live' = live \ {p}
      /\ limit' = limit /\ phase' = phase /\ more' = more /\ piped' = piped
      /\ has' = has /\ wait' = wait /\ deaf' = deaf /\ inuse' = inuse /\ ahs' = ahs
      /\ adopting' = adopting /\ ptr' = ptr /\ wsis' = wsis
  BY DEF lws_peer_cull_peer_wait_list, Here, pool
<1>2. PoolOK /\ PeersOK
  BY IInvPoolOK, IInvPeersOK
<1>3. \A u \in Peers : Of(u)' = Of(u) /\ Holders(Of(u))' = Holders(Of(u))
  BY <1>1 DEF Of, Holders
<1>4. Of(p) = {}
  BY <1>1, <1>2 DEF PeersOK
<1>5. PoolOK'
  BY <1>1, <1>2, <1>3
     DEF PoolOK, PoolIsExact, Listed, Holders, NobodyWaitsInVain, Eligible,
         lws_peer_confirm_ah_attach_ok
<1>6. Places'
  BY <1>1, <1>2 DEF PeersOK, Places
<1>7. PeersOK'
  BY <1>1, <1>2, <1>3, <1>4, <1>6 DEF PeersOK
<1> QED BY <1>5, <1>7, IInvPrimed

\* A connection that closes is no longer counted; its peer may be forgotten
\* when that was the last one.
LEMMA CloseLemma ==
  ASSUME IInv, ~Smp, NEW c \in Conns, Here, phase[c] # "none",
         lws_peer_track_wsi_close(c), Gone(c),
         has' \in [Conns -> BOOLEAN], ~has'[c],
         \A d \in Conns : has'[d] => has[d] \/ d = c \/ On(d, wait)
  PROVE  PeersOK'
<1>1. /\ adopting = <<>> /\ adopting' = adopting /\ live' = live
      /\ ptr' = [ptr EXCEPT ![c] = None]
      /\ phase' = [phase EXCEPT ![c] = "none"] /\ more' = [more EXCEPT ![c] = FALSE]
      /\ limit' = limit /\ piped' = piped
  BY DEF Here, lws_peer_track_wsi_close, Gone
<1>2. PoolOK /\ PeersOK
  BY IInvPoolOK, IInvPeersOK
<1>3. PICK p \in Peers \cup {None} : p = ptr[c]
  BY <1>2 DEF PeersOK
<1>4. /\ phase' \in [Conns -> {"none", "headers", "serving", "upgraded"}]
      /\ more' \in [Conns -> BOOLEAN] /\ ptr' \in [Conns -> Peers \cup {None}]
      /\ \A d \in Conns : /\ phase'[d] = IF d = c THEN "none" ELSE phase[d]
                          /\ ptr'[d] = IF d = c THEN None ELSE ptr[d]
  BY <1>1, <1>2 DEF PeersOK
<1>5. Places'
  <2>1. \A d \in Conns : On(d, wait) => phase[d] = "headers"
    BY <1>2 DEF PoolOK
  <2> QED BY <1>1, <1>2, <1>4, <2>1 DEF PeersOK, Places
<1>6. /\ wsis' \in [Peers -> Nat] /\ reap' \subseteq live'
      /\ \A u \in Peers : /\ u \in live' => wsis'[u] = Cardinality(Of(u))'
                          /\ Of(u)' # {} => u \in live' \ reap'
  <2>1. CASE p = None
    <3>1. wsis' = wsis /\ reap' = reap
      BY <1>3, <2>1 DEF lws_peer_track_wsi_close
    <3>2. \A u \in Peers : Of(u)' = Of(u)
      BY <1>3, <1>4, <2>1, AhAssumption DEF Of, AhAssumption
    <3> QED BY <1>1, <1>2, <3>1, <3>2 DEF PeersOK
  <2>2. CASE p # None
    <3>1. /\ wsis' = [wsis EXCEPT ![p] = @ - 1] /\ p \in Peers
          /\ reap' = IF wsis'[p] = 0 /\ ahs[p] = 0 THEN reap \cup {p} ELSE reap
      BY <1>3, <2>2 DEF lws_peer_track_wsi_close
    <3>2. c \in Of(p) /\ Of(p) \subseteq Conns
      BY <1>3 DEF Of
    <3>3. Of(p)' = Of(p) \ {c}
      BY <1>3, <1>4, <2>2 DEF Of
    <3>4. \A u \in Peers \ {p} : Of(u)' = Of(u)
      BY <1>3, <1>4, AhAssumption DEF Of, AhAssumption
    <3>5. /\ Cardinality(Of(p) \ {c}) = Cardinality(Of(p)) - 1
          /\ Cardinality(Of(p) \ {c}) \in Nat /\ Cardinality(Of(p)) \in Nat
          /\ Cardinality(Of(p) \ {c}) = 0 <=> Of(p) \ {c} = {}
      BY <3>2, Finite
    <3>6. p \in live \ reap /\ wsis[p] = Cardinality(Of(p))
      BY <1>2, <3>1, <3>2 DEF PeersOK
    <3>7. /\ wsis' \in [Peers -> Nat] /\ wsis'[p] = Cardinality(Of(p) \ {c})
          /\ \A u \in Peers \ {p} : wsis'[u] = wsis[u]
      <4>1. \A u \in Peers : wsis'[u] = IF u = p THEN wsis[u] - 1 ELSE wsis[u]
        BY <1>2, <3>1 DEF PeersOK
      <4>2. DOMAIN wsis' = Peers /\ wsis' = [u \in Peers |-> wsis'[u]]
        BY <1>2, <3>1 DEF PeersOK
      <4>3. wsis'[p] = Cardinality(Of(p) \ {c})
        BY <3>1, <3>5, <3>6, <4>1
      <4>4. \A u \in Peers : wsis'[u] \in Nat
        BY <1>2, <3>5, <4>1, <4>3 DEF PeersOK
      <4> QED BY <3>1, <4>1, <4>2, <4>3, <4>4
    <3>8. reap' \subseteq live' /\ \A u \in Peers \ {p} : u \in reap' <=> u \in reap
      BY <1>1, <1>2, <3>1, <3>6 DEF PeersOK
    <3>9. Of(p)' # {} => p \in live' \ reap'
      BY <1>1, <3>1, <3>3, <3>5, <3>6, <3>7
    <3>10. ASSUME NEW u \in Peers
           PROVE  /\ u \in live' => wsis'[u] = Cardinality(Of(u))'
                  /\ Of(u)' # {} => u \in live' \ reap'
      <4>1. CASE u = p
        BY <3>3, <3>7, <3>9, <4>1
      <4>2. CASE u # p
        BY <1>1, <1>2, <3>4, <3>7, <3>8, <4>2 DEF PeersOK
      <4> QED BY <4>1, <4>2
    <3> QED BY <3>7, <3>8, <3>10
  <2> QED BY <2>1, <2>2
<1> QED BY <1>1, <1>2, <1>4, <1>5, <1>6 DEF PeersOK

\* A connection with a table closes: the record of its peer first, then the
\* table, which is not taken off the peer's count.
LEMMA CloseHolderStep ==
  ASSUME IInv, ~Smp, NEW c \in Conns, CloseHolder(c)
  PROVE  IInv'
<1>1. /\ Here /\ has[c] /\ lws_peer_track_wsi_close(c) /\ Gone(c)
      /\ __lws_header_table_detach(c, None)
  BY DEF CloseHolder
<1>2. PoolOK /\ PeersOK /\ limit \in Nat /\ ptr \in [Conns -> Peers \cup {None}]
  BY IInvPoolOK, IInvPeersOK, LimitIsNat
<1>3. /\ phase[c] # "none" /\ ptr' = [ptr EXCEPT ![c] = None] /\ limit' = limit
      /\ \A d \in Conns \ {c} : phase'[d] = phase[d]
  BY <1>1, <1>2 DEF PeersOK, Places, lws_peer_track_wsi_close, Gone
<1>4. PoolOK'
  BY <1>1, <1>2, <1>3, DetachLemma
<1>5. /\ has' \in [Conns -> BOOLEAN]
      /\ \A d \in Conns : has'[d] => has[d] \/ d = c \/ On(d, wait)
  BY <1>1, NewHolders
<1>6. ~has'[c]
  <2> DEFINE count == lws_peer_track_ah_detach(None)
  <2>1. CASE Heirs(count) = {}
    BY <1>1, <1>2, <2>1 DEF __lws_header_table_detach, _lws_destroy_ah, PoolOK
  <2>2. CASE Heirs(count) # {}
    <3>1. PICK o \in Heirs(count) : Transfer(c, o, count)
      BY <1>1, <2>2 DEF __lws_header_table_detach
    <3>2. o \in Conns /\ o # c
      BY <1>1, <1>2, HeirLemma DEF PoolOK
    <3> QED BY <1>2, <3>1, <3>2 DEF Transfer, PoolOK
  <2> QED BY <2>1, <2>2
<1>7. PeersOK'
  BY <1>1, <1>3, <1>5, <1>6, CloseLemma
<1> QED BY <1>4, <1>7, IInvPrimed

\* A connection without a table closes, and leaves the list if it is on it.
LEMMA CloseOtherStep ==
  ASSUME IInv, ~Smp, NEW c \in Conns, CloseOther(c)
  PROVE  IInv'
<1>1. /\ Here /\ phase[c] # "none" /\ ~has[c] /\ lws_peer_track_wsi_close(c) /\ Gone(c)
      /\ wait' = __lws_remove_from_ah_waiting_list(wait, c) /\ deaf' = deaf \ {c}
      /\ has' = has /\ inuse' = inuse /\ ahs' = ahs
  BY DEF CloseOther
<1>2. PoolOK /\ PeersOK /\ limit \in Nat /\ ptr \in [Conns -> Peers \cup {None}]
  BY IInvPoolOK, IInvPeersOK, LimitIsNat
<1>3. /\ ptr' = [ptr EXCEPT ![c] = None] /\ limit' = limit
      /\ \A d \in Conns \ {c} : phase'[d] = phase[d]
  BY <1>1, <1>2 DEF PeersOK, Places, lws_peer_track_wsi_close, Gone
<1>4. PeersOK'
  BY <1>1, <1>2, CloseLemma DEF PoolOK
<1>5. /\ wait' \in Seq(Conns) /\ NoDuplicates(wait')
      /\ \A d \in Conns : On(d, wait') <=> d # c /\ On(d, wait)
  BY <1>1, <1>2, RemoveLemma DEF PoolOK
<1>6. deaf' = Listed'
  <2>1. Listed = {d \in Conns : On(d, wait)}
    BY <1>2, ListedIsOn DEF Listed, PoolOK
  <2>2. Listed' = {d \in Conns : On(d, wait')}
    BY <1>5, ListedIsOn DEF Listed
  <2> QED BY <1>1, <1>2, <1>5, <2>1, <2>2 DEF PoolOK
<1>7. \A d \in Conns : On(d, wait') => phase'[d] = "headers" /\ ~has'[d]
  BY <1>1, <1>2, <1>3, <1>5 DEF PoolOK
<1>8. PoolIsExact'
  BY <1>1, <1>2 DEF PoolOK, PoolIsExact, Holders
<1>9. ASSUME NEW u \in Peers
      PROVE  Cardinality(Holders(Of(u)))' <= ahs'[u] /\ (limit' > 0 => ahs'[u] <= limit')
  <2>1. Holders(Of(u))' = Holders(Of(u))
    BY <1>1, <1>2, <1>3, AhAssumption DEF Holders, Of, AhAssumption
  <2> QED BY <1>1, <1>2, <1>3, <2>1 DEF PoolOK
<1>10. NobodyWaitsInVain'
  <2>1. CASE inuse = PoolSize
    BY <1>1, <1>5, <2>1, NobodyWaitsPrimed
  <2>2. CASE inuse # PoolSize
    <3>1. ASSUME NEW d \in Conns, On(d, wait')
          PROVE  ~(ptr'[d] = None \/ limit' = 0 \/ ahs'[ptr'[d]] < limit')
      <4>1. On(d, wait) /\ d # c /\ ptr'[d] = ptr[d]
        BY <1>2, <1>3, <1>5, <3>1
      <4>2. ~lws_peer_confirm_ah_attach_ok(ahs, ptr[d])
        BY <1>2, <2>2, <4>1, NobodyWaitsLemma DEF PoolOK
      <4> QED BY <1>1, <1>3, <4>1, <4>2 DEF lws_peer_confirm_ah_attach_ok
    <3> QED BY <1>5, <3>1, NobodyWaitsPrimed
  <2> QED BY <2>1, <2>2
<1>11. PoolOK'
  BY <1>1, <1>2, <1>5, <1>6, <1>7, <1>8, <1>9, <1>10 DEF PoolOK
<1> QED BY <1>4, <1>11, IInvPrimed

\* A connection that asks for a table, or gives one back, while it is served.
LEMMA AttachStep ==
  ASSUME IInv, ~Smp, NEW c \in Conns, Here, phase[c] \in {"headers", "serving"},
         ~has[c], ~On(c, wait), lws_header_table_attach(c, ptr[c]),
         phase' \in [Conns -> {"none", "headers", "serving", "upgraded"}],
         phase'[c] # "none", ~has'[c] => phase'[c] = "headers",
         \A d \in Conns \ {c} : phase'[d] = phase[d],
         UNCHANGED <<limit, more, piped, peering>>
  PROVE  IInv'
<1>1. PoolOK /\ PeersOK /\ limit \in Nat /\ ptr \in [Conns -> Peers \cup {None}]
  BY IInvPoolOK, IInvPeersOK, LimitIsNat
<1>2. ptr[c] \in Peers \cup {None} /\ ptr' = [ptr EXCEPT ![c] = ptr[c]]
  BY <1>1 DEF peering
<1>3. PoolOK'
  BY <1>1, <1>2, AttachLemma
<1>4. /\ has' \in [Conns -> BOOLEAN]
      /\ \A d \in Conns : has'[d] => has[d] \/ d = c \/ On(d, wait)
  BY <1>2, NewHolders
<1>5. PeersOK'
  BY <1>1, <1>4, PeersUntouched DEF PeersOK
<1> QED BY <1>3, <1>5, IInvPrimed

\* Giving a table up keeps the invariant, whatever becomes of the connection.
LEMMA DetachStep ==
  ASSUME IInv, ~Smp, NEW c \in Conns, Here, has[c], __lws_header_table_detach(c, ptr[c]),
         phase' \in [Conns -> {"none", "headers", "serving", "upgraded"}],
         phase'[c] # "none", \A d \in Conns \ {c} : phase'[d] = phase[d],
         UNCHANGED <<limit, more, piped, peering>>
  PROVE  IInv'
<1>1. PoolOK /\ PeersOK /\ limit \in Nat /\ ptr \in [Conns -> Peers \cup {None}]
  BY IInvPoolOK, IInvPeersOK, LimitIsNat
<1>2. ptr[c] \in Peers \cup {None} /\ ptr' = ptr /\ phase[c] # "none"
  BY <1>1 DEF peering, PeersOK, Places
<1>3. PoolOK'
  BY <1>1, <1>2, DetachLemma
<1>4. /\ has' \in [Conns -> BOOLEAN]
      /\ \A d \in Conns : has'[d] => has[d] \/ d = c \/ On(d, wait)
  BY <1>2, NewHolders
<1>5. PeersOK'
  BY <1>1, <1>2, <1>4, PeersUntouched DEF PeersOK
<1> QED BY <1>3, <1>5, IInvPrimed

\* Only the phase of a connection that does not wait changes.
LEMMA PhaseStep ==
  ASSUME IInv, ~Smp, NEW c \in Conns, Here, phase[c] # "none", ~On(c, wait),
         phase' \in [Conns -> {"none", "headers", "serving", "upgraded"}],
         phase'[c] # "none", \A d \in Conns \ {c} : phase'[d] = phase[d],
         more' \in [Conns -> BOOLEAN], piped' \in 0 .. MaxPipe,
         UNCHANGED <<limit, pool, peering>>
  PROVE  IInv'
<1>1. PoolOK /\ PeersOK
  BY IInvPoolOK, IInvPeersOK
<1>2. /\ has' = has /\ wait' = wait /\ deaf' = deaf /\ inuse' = inuse /\ ahs' = ahs
      /\ ptr' = ptr /\ limit' = limit
  BY DEF pool, peering
<1>3. PeersOK'
  BY <1>1, <1>2, PeersUntouched DEF PoolOK
<1>4. PoolIsExact' /\ Listed' = Listed /\ NobodyWaitsInVain'
  BY <1>1, <1>2 DEF PoolOK, PoolIsExact, Listed, Holders, NobodyWaitsInVain, Eligible,
                    lws_peer_confirm_ah_attach_ok
<1>5. \A u \in Peers : Holders(Of(u))' = Holders(Of(u))
  BY <1>2 DEF Holders, Of
<1>6. \A d \in Conns : On(d, wait') => phase'[d] = "headers" /\ ~has'[d]
  BY <1>1, <1>2 DEF PoolOK
<1>7. PoolOK'
  BY <1>1, <1>2, <1>4, <1>5, <1>6 DEF PoolOK
<1> QED BY <1>3, <1>7, IInvPrimed

\* Every step of a connection that is served, one action at a time.
LEMMA ConnectionStep ==
  ASSUME IInv, ~Smp, NEW c \in Conns, lws_h1_server_socket_service(c) \/ Serve(c)
  PROVE  IInv'
<1>1. /\ phase \in [Conns -> {"none", "headers", "serving", "upgraded"}]
      /\ PoolOK /\ PeersOK
      /\ more \in [Conns -> BOOLEAN] /\ piped \in 0 .. MaxPipe /\ MaxPipe \in Nat
  BY IInvPoolOK, IInvPeersOK, AhAssumption DEF PeersOK, AhAssumption
<1>2. \A d \in Conns : On(d, wait) => phase[d] = "headers" /\ ~has[d] /\ d \in deaf
  BY <1>1 DEF PoolOK, Listed, On
<1>3. CASE lws_h1_server_socket_service(c)
  <2>1. /\ Here /\ phase[c] = "headers" /\ ~has[c] /\ ~On(c, wait)
        /\ lws_header_table_attach(c, ptr[c]) /\ UNCHANGED <<limit, more, piped, peering>>
    BY <1>2, <1>3 DEF lws_h1_server_socket_service
  <2>2. PICK done \in BOOLEAN :
          phase' = [phase EXCEPT ![c] = IF done /\ has'[c] THEN "serving" ELSE @]
    BY <1>3 DEF lws_h1_server_socket_service
  <2>3. /\ phase' \in [Conns -> {"none", "headers", "serving", "upgraded"}]
        /\ phase'[c] # "none" /\ (~has'[c] => phase'[c] = "headers")
        /\ \A d \in Conns \ {c} : phase'[d] = phase[d]
    BY <1>1, <2>1, <2>2
  <2> QED BY <2>1, <2>3, AttachStep
<1>4. CASE lws_read_h1(c)
  <2>1. /\ Here /\ phase[c] = "headers" /\ has[c]
        /\ phase' = [phase EXCEPT ![c] = "serving"] /\ UNCHANGED <<limit, pool, peering>>
    BY <1>4 DEF lws_read_h1
  <2>2. PICK early \in BOOLEAN : /\ early => piped < MaxPipe
                                 /\ more' = [more EXCEPT ![c] = early]
                                 /\ piped' = piped + (IF early THEN 1 ELSE 0)
    BY <1>4 DEF lws_read_h1
  <2>3. more' \in [Conns -> BOOLEAN] /\ piped' \in 0 .. MaxPipe
    BY <1>1, <2>2
  <2>4. /\ phase' \in [Conns -> {"none", "headers", "serving", "upgraded"}]
        /\ phase'[c] # "none" /\ \A d \in Conns \ {c} : phase'[d] = phase[d]
    BY <1>1, <2>1
  <2> QED BY <1>2, <2>1, <2>3, <2>4, PhaseStep
<1>5. CASE lws_http_headers_detach(c)
  <2>1. /\ Here /\ phase[c] = "serving" /\ has[c] /\ __lws_header_table_detach(c, ptr[c])
        /\ phase' = phase /\ UNCHANGED <<limit, more, piped, peering>>
    BY <1>5 DEF lws_http_headers_detach
  <2> QED BY <1>1, <2>1, DetachStep
<1>6. CASE Upgrade(c)
  <2>1. /\ Here /\ phase[c] = "serving" /\ has[c] /\ __lws_header_table_detach(c, ptr[c])
        /\ phase' = [phase EXCEPT ![c] = "upgraded"] /\ UNCHANGED <<limit, more, piped, peering>>
    BY <1>6 DEF Upgrade
  <2>2. /\ phase' \in [Conns -> {"none", "headers", "serving", "upgraded"}]
        /\ phase'[c] # "none" /\ \A d \in Conns \ {c} : phase'[d] = phase[d]
    BY <1>1, <2>1
  <2> QED BY <2>1, <2>2, DetachStep
<1>7. CASE lws_http_transaction_completed(c)
  <2>1. /\ Here /\ phase[c] = "serving" /\ phase' = [phase EXCEPT ![c] = "headers"]
        /\ UNCHANGED <<limit, more, piped, peering>>
    BY <1>7 DEF lws_http_transaction_completed
  <2>2. /\ phase' \in [Conns -> {"none", "headers", "serving", "upgraded"}]
        /\ phase'[c] = "headers" /\ \A d \in Conns \ {c} : phase'[d] = phase[d]
    BY <1>1, <2>1
  <2>3. ~On(c, wait)
    BY <1>2, <2>1
  <2>4. CASE has[c] /\ ~more[c]
    <3>1. __lws_header_table_detach(c, ptr[c])
      BY <1>7, <2>4 DEF lws_http_transaction_completed
    <3> QED BY <2>1, <2>2, <2>4, <3>1, DetachStep
  <2>5. CASE ~has[c] /\ more[c]
    <3>1. lws_header_table_attach(c, ptr[c])
      BY <1>7, <2>5 DEF lws_http_transaction_completed
    <3> QED BY <2>1, <2>2, <2>3, <2>5, <3>1, AttachStep
  <2>6. CASE ~(has[c] /\ ~more[c]) /\ ~(~has[c] /\ more[c])
    <3>1. UNCHANGED pool
      BY <1>7, <2>6 DEF lws_http_transaction_completed
    <3>2. more' = more /\ piped' = piped
      BY <2>1
    <3> QED BY <1>1, <2>1, <2>2, <2>3, <3>1, <3>2, PhaseStep
  <2> QED BY <2>4, <2>5, <2>6
<1> QED BY <1>3, <1>4, <1>5, <1>6, <1>7 DEF Serve

-----------------------------------------------------------------------------
\* The pool begins right.
LEMMA InitIInv == Init => IInv
<1> SUFFICES ASSUME Init PROVE IInv
  OBVIOUS
<1> Cardinality({}) = 0 /\ DOMAIN wait = {} /\ Holders(Conns) = {} /\ Listed = {}
  BY FS_EmptySet DEF Init, Holders, Listed
<1>1. \A p \in Peers : Of(p) = {} /\ Holders(Of(p)) = {}
  BY AhAssumption DEF AhAssumption, Init, Of, Holders
<1>2. TypeOK
  BY AhAssumption DEF AhAssumption, Init, TypeOK
<1>3. PoolIsExact
  BY DEF PoolIsExact, Init
<1>4. Counts
  <2>1. limit \in Nat /\ live = {} /\ \A p \in Peers : ahs[p] = 0
    BY AhAssumption DEF AhAssumption, Init
  <2>2. \A p \in Peers : Cardinality(Holders(Of(p))) = 0
    BY <1>1, FS_EmptySet
  <2> QED
    BY <1>1, <2>1, <2>2 DEF Counts
<1>5. Places
  BY DEF Places, Init
<1>6. NobodyWaitsInVain /\ DeafAreListed
  BY DEF NobodyWaitsInVain, DeafAreListed, Eligible, Init
<1> QED
  BY <1>2, <1>3, <1>4, <1>5, <1>6 DEF IInv, WaitersAreListed

\* Every step of one service thread keeps the invariant.
LEMMA NextIInv == ASSUME ~Smp, IInv, [Next]_vars PROVE IInv'
<1>1. ASSUME NEW c \in Conns, lws_get_or_create_peer(c) PROVE IInv'
  BY <1>1, GetOrCreateStep
<1>2. ASSUME NEW c \in Conns, lws_peer_add_wsi(c) PROVE IInv'
  BY <1>2, AddWsiStep
<1>3. ASSUME NEW c \in Conns, lws_h1_server_socket_service(c) \/ Serve(c) PROVE IInv'
  BY <1>3, ConnectionStep
<1>4. ASSUME NEW c \in Conns, CloseHolder(c) PROVE IInv'
  BY <1>4, CloseHolderStep
<1>5. ASSUME NEW c \in Conns, CloseOther(c) PROVE IInv'
  BY <1>5, CloseOtherStep
<1>6. ASSUME NEW p \in Peers, lws_peer_cull_peer_wait_list(p) PROVE IInv'
  BY <1>6, CullStep
<1>7. CASE UNCHANGED vars
  <2>1. UNCHANGED <<limit, phase, more, piped, has, wait, deaf, inuse, ahs,
                    adopting, ptr, live, reap, wsis>>
    BY <1>7 DEF vars, pool, peering
  <2>2. TypeOK' /\ PoolIsExact' /\ Places'
    BY <2>1 DEF IInv, TypeOK, PoolIsExact, Places, Holders
  <2>3. Counts'
    BY <2>1 DEF IInv, Counts, Holders, Of
  <2>4. Eligible(ahs)' = Eligible(ahs) /\ Listed' = Listed
    BY <2>1 DEF Eligible, lws_peer_confirm_ah_attach_ok, Listed
  <2>5. WaitersAreListed'
    BY <2>1, <2>4 DEF IInv, WaitersAreListed, NobodyWaitsInVain, DeafAreListed
  <2> QED
    BY <2>2, <2>3, <2>5 DEF IInv
<1> QED
  BY <1>1, <1>2, <1>3, <1>4, <1>5, <1>6, <1>7 DEF Next

\* With one service thread the invariant holds.
LEMMA Invariance == ASSUME ~Smp PROVE Spec => []IInv
<1>1. IInv /\ [Next]_vars => IInv'
  BY NextIInv
<1> QED
  BY InitIInv, <1>1, PTL DEF Spec

(* For every pool and every limit, with one service thread: the tables in  *)
(* use are counted exactly, the record of a peer outlives its connections  *)
(* and counts them, its tables are never counted short, and no peer holds  *)
(* more of them than ip_limit_ah.                                          *)
THEOREM PoolIsSoundHolds == ASSUME ~Smp PROVE Spec => []PoolIsSound
<1>1. IInv => PoolIsSound
  <2> SUFFICES ASSUME IInv PROVE PoolIsSound
    OBVIOUS
  <2>1. PeersAreLive
    BY DEF IInv, Counts, Places, PeersAreLive
  <2>2. PeerWithinLimit
    <3> SUFFICES ASSUME limit > 0, NEW p \in Peers
                 PROVE  Cardinality(Holders(Of(p))) <= limit
      BY DEF PeerWithinLimit
    <3>1. Cardinality(Holders(Of(p))) \in Nat
      BY Finite DEF Holders, Of
    <3>2. ahs[p] \in Nat /\ limit \in Nat
      BY AhAssumption DEF AhAssumption, IInv, TypeOK
    <3> QED
      BY <3>1, <3>2, IInvPoolOK DEF PoolOK
  <2>3. TablesAreCounted
    BY DEF IInv, Counts, TablesAreCounted
  <2> QED
    BY <2>1, <2>2, <2>3 DEF IInv, PoolIsSound
<1> QED
  BY <1>1, Invariance, PTL

(* With one service thread a connection has its input off exactly while it *)
(* is on ah_wait_list, where it has no table and may have none: each table *)
(* that is detached goes to somebody on the list who may have it.          *)
THEOREM WaitersAreListedHolds == ASSUME ~Smp PROVE Spec => []WaitersAreListed
<1>1. IInv => WaitersAreListed
  BY DEF IInv
<1> QED
  BY <1>1, Invariance, PTL

-----------------------------------------------------------------------------
(* Lists of the resolver *)

\* Something new is put at the head of a list.
LEMMA AtHead ==
  ASSUME NEW S, NEW list \in Seq(S), NoDuplicates(list), NEW x \in S, x \notin Range(list)
  PROVE  /\ <<x>> \o list \in Seq(S)
         /\ NoDuplicates(<<x>> \o list)
         /\ Range(<<x>> \o list) = Range(list) \cup {x}
<1> DEFINE l == <<x>> \o list
<1>1. /\ l \in Seq(S) /\ Len(l) = Len(list) + 1
      /\ \A k \in 1..Len(l) : l[k] = IF k = 1 THEN x ELSE list[k - 1]
  BY ConcatProperties
<1>2. DOMAIN l = 1..Len(l) /\ DOMAIN list = 1..Len(list) /\ Len(list) \in Nat
  BY <1>1, LenProperties
<1>3. \A k \in DOMAIN l : k = 1 \/ (k - 1 \in DOMAIN list /\ l[k] = list[k - 1])
  BY <1>1, <1>2
<1>4. \A k \in DOMAIN list : k + 1 \in DOMAIN l /\ l[k + 1] = list[k]
  BY <1>1, <1>2
<1>5. 1 \in DOMAIN l /\ l[1] = x
  BY <1>1, <1>2
<1> HIDE DEF l
<1>6. NoDuplicates(l)
  <2> SUFFICES ASSUME NEW i \in DOMAIN l, NEW j \in DOMAIN l, l[i] = l[j] PROVE i = j
    BY DEF NoDuplicates
  <2>1. CASE i = 1
    BY <1>3, <1>5, <2>1 DEF Range
  <2>2. CASE j = 1
    BY <1>3, <1>5, <2>2 DEF Range
  <2>3. CASE i # 1 /\ j # 1
    <3>1. i - 1 = j - 1
      BY <1>3, <2>3 DEF NoDuplicates
    <3> QED BY <1>2, <3>1
  <2> QED BY <2>1, <2>2, <2>3
<1>7. Range(l) = Range(list) \cup {x}
  BY <1>3, <1>4, <1>5 DEF Range
<1> QED BY <1>1, <1>6, <1>7 DEF l

\* What is at one place of a list is taken off it.
LEMMA TakenOff ==
  ASSUME NEW S, NEW list \in Seq(S), NoDuplicates(list), NEW i \in DOMAIN list
  PROVE  LET l == SubSeq(list, 1, i - 1) \o SubSeq(list, i + 1, Len(list))
         IN  /\ l \in Seq(S)
             /\ NoDuplicates(l)
             /\ Range(l) = Range(list) \ {list[i]}
<1> DEFINE a == SubSeq(list, 1, i - 1)
           b == SubSeq(list, i + 1, Len(list))
           l == a \o b
           n == Len(list)
<1>1. /\ DOMAIN list = 1..n /\ n \in Nat /\ i \in 1..n
      /\ \A j \in 1..n : list[j] \in S
  BY LenProperties, ElementOfSeq
<1>2. /\ a \in Seq(S) /\ Len(a) = IF 1 <= i - 1 THEN (i - 1) - 1 + 1 ELSE 0
      /\ \A j \in 1..((i - 1) - 1 + 1) : a[j] = list[1 + j - 1]
  BY <1>1, SubSeqProperties
<1>3. /\ b \in Seq(S) /\ Len(b) = IF i + 1 <= n THEN n - (i + 1) + 1 ELSE 0
      /\ \A j \in 1..(n - (i + 1) + 1) : b[j] = list[(i + 1) + j - 1]
  BY <1>1, SubSeqProperties
<1>4. /\ l \in Seq(S) /\ Len(l) = Len(a) + Len(b)
      /\ \A j \in 1..(Len(a) + Len(b)) :
           l[j] = IF j <= Len(a) THEN a[j] ELSE b[j - Len(a)]
  BY <1>2, <1>3, ConcatProperties
<1> HIDE DEF a, b, l, n
<1>5. Len(a) = i - 1 /\ Len(b) = n - i
  BY <1>1, <1>2, <1>3
<1>6. ASSUME NEW j \in 1..(n - 1)
      PROVE  l[j] = IF j < i THEN list[j] ELSE list[j + 1]
  <2>1. CASE j < i
    <3>1. j \in 1..((i - 1) - 1 + 1) /\ 1 + j - 1 = j
      BY <1>1, <2>1
    <3>2. j \in 1..(Len(a) + Len(b)) /\ j <= Len(a)
      BY <1>1, <1>5, <2>1
    <3> QED BY <1>2, <1>4, <2>1, <3>1, <3>2
  <2>2. CASE ~(j < i)
    <3>1. /\ j - Len(a) \in 1..(n - (i + 1) + 1)
          /\ (i + 1) + (j - Len(a)) - 1 = j + 1
      BY <1>1, <1>5, <2>2
    <3>2. j \in 1..(Len(a) + Len(b)) /\ ~(j <= Len(a))
      BY <1>1, <1>5, <2>2
    <3> QED BY <1>3, <1>4, <2>2, <3>1, <3>2
  <2> QED BY <2>1, <2>2
<1>7. DOMAIN l = 1..(n - 1)
  BY <1>1, <1>4, <1>5, LenProperties
<1> DEFINE At(j) == IF j < i THEN j ELSE j + 1
<1>8. ASSUME NEW j \in 1..(n - 1)
      PROVE  At(j) \in DOMAIN list /\ At(j) # i /\ l[j] = list[At(j)]
  BY <1>1, <1>6
<1>9. ASSUME NEW j \in 1..(n - 1), NEW k \in 1..(n - 1), At(j) = At(k) PROVE j = k
  BY <1>1, <1>9
<1>10. ASSUME NEW m \in DOMAIN list, m # i PROVE \E j \in 1..(n - 1) : At(j) = m
  <2>1. CASE m < i
    BY <1>1, <2>1
  <2>2. CASE m > i
    <3>1. m - 1 \in 1..(n - 1) /\ ~(m - 1 < i) /\ m - 1 + 1 = m
      BY <1>1, <2>2
    <3> QED BY <3>1
  <2> QED BY <1>1, <1>10, <2>1, <2>2
<1> HIDE DEF At
<1>11. NoDuplicates(l)
  <2> SUFFICES ASSUME NEW j \in 1..(n - 1), NEW k \in 1..(n - 1), l[j] = l[k]
               PROVE  j = k
    BY <1>7 DEF NoDuplicates
  <2>1. At(j) = At(k)
    BY <1>8 DEF NoDuplicates
  <2> QED BY <1>9, <2>1
<1>12. Range(l) = Range(list) \ {list[i]}
  <2>1. ASSUME NEW y \in Range(l) PROVE y \in Range(list) /\ y # list[i]
    <3>1. PICK j \in 1..(n - 1) : y = l[j]
      BY <1>7 DEF Range
    <3> QED BY <1>8, <3>1 DEF Range, NoDuplicates
  <2>2. ASSUME NEW y \in Range(list), y # list[i] PROVE y \in Range(l)
    <3>1. PICK m \in DOMAIN list : y = list[m]
      BY DEF Range
    <3>2. PICK j \in 1..(n - 1) : At(j) = m
      BY <1>10, <2>2, <3>1
    <3> QED BY <1>7, <1>8, <3>1, <3>2 DEF Range
  <2> QED BY <2>1, <2>2
<1> QED BY <1>4, <1>11, <1>12 DEF l, a, b

\* lws_dll2_remove()
LEMMA WithoutLemma ==
  ASSUME NEW S, NEW list \in Seq(S), NoDuplicates(list), NEW x
  PROVE  /\ Without(list, x) \in Seq(S)
         /\ NoDuplicates(Without(list, x))
         /\ Range(Without(list, x)) = Range(list) \ {x}
<1> DEFINE at == CHOOSE k \in DOMAIN list : list[k] = x
<1>1. CASE x \notin Range(list)
  BY <1>1 DEF Without
<1>2. CASE x \in Range(list)
  <2>1. \E k \in DOMAIN list : list[k] = x
    BY <1>2 DEF Range
  <2>2. at \in DOMAIN list /\ list[at] = x
    BY <2>1
  <2>3. Without(list, x) = SubSeq(list, 1, at - 1) \o SubSeq(list, at + 1, Len(list))
    BY <1>2 DEF Without
  <2> HIDE DEF at
  <2> QED BY <2>2, <2>3, TakenOff
<1> QED BY <1>1, <1>2

\* The last of a list is dropped.
LEMMA LastDropped ==
  ASSUME NEW S, NEW list \in Seq(S), NoDuplicates(list), Len(list) # 0
  PROVE  LET l == SubSeq(list, 1, Len(list) - 1)
         IN  /\ l \in Seq(S)
             /\ NoDuplicates(l)
             /\ Range(l) = Range(list) \ {list[Len(list)]}
<1> DEFINE l == SubSeq(list, 1, Len(list) - 1)
           n == Len(list)
<1>1. /\ DOMAIN list = 1..n /\ n \in Nat /\ n # 0
      /\ \A j \in 1..n : list[j] \in S
  BY LenProperties, ElementOfSeq
<1>2. /\ l \in Seq(S) /\ Len(l) = IF 1 <= n - 1 THEN (n - 1) - 1 + 1 ELSE 0
      /\ \A j \in 1..((n - 1) - 1 + 1) : l[j] = list[1 + j - 1]
  BY <1>1, SubSeqProperties
<1>3. DOMAIN l = 1..Len(l)
  BY <1>2, LenProperties
<1> HIDE DEF l, n
<1>4. DOMAIN l = 1..(n - 1) /\ \A j \in 1..(n - 1) : l[j] = list[j]
  BY <1>1, <1>2, <1>3
<1>5. NoDuplicates(l)
  BY <1>1, <1>4 DEF NoDuplicates
<1>6. n \in DOMAIN list /\ \A j \in 1..(n - 1) : j \in DOMAIN list /\ j # n
  BY <1>1
<1>7. \A j \in DOMAIN list : j = n \/ j \in 1..(n - 1)
  BY <1>1
<1>8. Range(l) = Range(list) \ {list[n]}
  BY <1>4, <1>6, <1>7 DEF Range, NoDuplicates
<1> QED BY <1>2, <1>5, <1>8 DEF l, n

-----------------------------------------------------------------------------
(* What holds of the lists and the network whatever else happens *)

\* What has answered is at most one of two families.
QueryOK(i) ==
  /\ q[i].retry >= 1
  /\ q[i].got = {} \/ \E f \in fam : q[i].got = {f} /\ fam # {f}

QueriesOK ==
  /\ fam \in Builds
  /\ Ongoing \subseteq Queries
  /\ \A i \in Ongoing : q[i] \in QueryRec /\ QueryOK(i)
  /\ waiting \in Seq(Queries) /\ NoDuplicates(waiting) /\ Range(waiting) = Ongoing
  /\ net \subseteq [tid : Rand, f : Families, n : 1 .. Retries]
  /\ \A r \in net : r.f \in fam /\ \E i \in Ongoing : q[i].tid = r.tid

CachedOK ==
  /\ DOMAIN ent \subseteq Entries
  /\ cached \in Seq(Entries) /\ NoDuplicates(cached) /\ Range(cached) = DOMAIN ent

PeopleOK ==
  /\ server \in {"up", "none", "crashed"}
  /\ want \in BOOLEAN
  /\ loop \in Seq(Queries)
  /\ bound \in [Wsis -> Queries \cup {NoQuery, Lost, Leaked}]
  /\ hold \in [Wsis -> Entries \cup {NoEntry}]
  /\ dangling \in {"no", "expired", "trimmed", "renamed"}

ListsOK == QueriesOK /\ CachedOK /\ PeopleOK

\* The families of a build.
LEMMA FamLemma ==
  ASSUME QueriesOK
  PROVE  fam \subseteq Families /\ fam # {} /\ (fam = {"A"} \/ fam = Families)
<1>1. Builds \subseteq {{"A"}, {"A", "AAAA"}}
  BY AsyncDnsAssumption
<1>2. fam = {"A"} \/ fam = {"A", "AAAA"}
  BY <1>1 DEF QueriesOK
<1> QED BY <1>2 DEF Families

\* There is memory for the entry that is taken.
LEMMA FreeEntryLemma ==
  ASSUME Room # {}
  PROVE  FreeEntry \in Entries /\ FreeEntry \notin DOMAIN ent /\ FreeEntry # NoEntry
<1>1. Room \subseteq Nat
  BY AsyncDnsAssumption DEF Room, Entries
<1>2. \E x \in Room : \A y \in Room : x <= y
  BY <1>1, LeastNatural
<1>3. FreeEntry \in Room
  BY <1>2 DEF FreeEntry, Min
<1> QED BY <1>3, AsyncDnsAssumption DEF Room, Entries, NoEntry

\* An answer finds a query: that of its tid.
LEMMA ByTidLemma ==
  ASSUME QueriesOK, NEW r \in net
  PROVE  ByTid(r.tid) \in Ongoing /\ q[ByTid(r.tid)].tid = r.tid
<1> DEFINE T == {k \in DOMAIN waiting : q[waiting[k]].tid = r.tid}
           Is(k) == /\ q[waiting[k]].tid = r.tid
                    /\ \A j \in 1 .. (k - 1) : q[waiting[j]].tid # r.tid
<1>1. PICK i \in Ongoing : q[i].tid = r.tid
  BY DEF QueriesOK
<1>2. Ongoing = {waiting[k] : k \in DOMAIN waiting} /\ DOMAIN waiting = 1 .. Len(waiting)
      /\ Len(waiting) \in Nat
  BY LenProperties DEF QueriesOK, Range
<1>3. T # {} /\ T \subseteq Nat
  BY <1>1, <1>2
<1>4. PICK k \in T : \A j \in T : k <= j
  BY <1>3, LeastNatural
<1>5. \A j \in 1 .. (k - 1) : j \in DOMAIN waiting /\ ~(k <= j)
  BY <1>2, <1>4
<1>6. k \in DOMAIN waiting /\ Is(k)
  BY <1>4, <1>5
<1> DEFINE m == CHOOSE x \in DOMAIN waiting : Is(x)
<1>7. m \in DOMAIN waiting /\ Is(m)
  BY <1>6
<1>8. ByTid(r.tid) = waiting[m]
  BY DEF ByTid
<1> QED BY <1>2, <1>7, <1>8

\* A query is destroyed.
LEMMA DestroyLemma ==
  ASSUME QueriesOK, NEW i, lws_adns_q_destroy(i), UNCHANGED fam
  PROVE  /\ QueriesOK'
         /\ DOMAIN q' = DOMAIN q \ {i}
         /\ \A j \in DOMAIN q' : q'[j] = q[j]
<1>1. DOMAIN q' = DOMAIN q \ {i} /\ \A j \in DOMAIN q' : q'[j] = q[j]
  BY DEF lws_adns_q_destroy, Restrict, Ongoing
<1>2. waiting' \in Seq(Queries) /\ NoDuplicates(waiting') /\ Range(waiting') = DOMAIN q'
  <2>1. waiting \in Seq(Queries) /\ NoDuplicates(waiting) /\ Range(waiting) = DOMAIN q
    BY DEF QueriesOK, Ongoing
  <2>2. /\ Without(waiting, i) \in Seq(Queries) /\ NoDuplicates(Without(waiting, i))
        /\ Range(Without(waiting, i)) = DOMAIN q \ {i}
    BY <2>1, WithoutLemma
  <2>3. waiting' = Without(waiting, i)
    BY DEF lws_adns_q_destroy
  <2> QED BY <1>1, <2>2, <2>3
<1>3. \A j \in DOMAIN q' : q'[j] \in QueryRec /\ QueryOK(j)'
  BY <1>1 DEF QueriesOK, QueryOK, Ongoing
<1>4. net' \subseteq net
  BY DEF lws_adns_q_destroy, Abandon
<1>5. ASSUME NEW r \in net' PROVE \E j \in DOMAIN q' : q'[j].tid = r.tid
  <2>1. PICK j \in DOMAIN q : q[j].tid = r.tid
    BY <1>4 DEF QueriesOK, Ongoing
  <2>2. r.tid # q[i].tid \/ \E k \in DOMAIN q \ {i} : q[k].tid = r.tid
    BY DEF lws_adns_q_destroy, Abandon, Ongoing
  <2> QED BY <1>1, <2>1, <2>2
<1> QED BY <1>1, <1>2, <1>3, <1>4, <1>5 DEF QueriesOK, Ongoing

\* The entry of a query is purged.
LEMMA PurgeLemma ==
  ASSUME CachedOK, NEW i, Purge(i)
  PROVE  /\ CachedOK'
         /\ DOMAIN ent' = DOMAIN ent \ {q[i].first}
         /\ \A c \in DOMAIN ent' : ent'[c] = ent[c]
<1>1. DOMAIN ent' = DOMAIN ent \ {q[i].first} /\ \A c \in DOMAIN ent' : ent'[c] = ent[c]
  BY DEF Purge, Restrict
<1>2. cached \in Seq(Entries) /\ NoDuplicates(cached) /\ Range(cached) = DOMAIN ent
  BY DEF CachedOK
<1> DEFINE l == Without(cached, q[i].first)
<1>3. l \in Seq(Entries) /\ NoDuplicates(l) /\ Range(l) = DOMAIN ent \ {q[i].first}
  BY <1>2, WithoutLemma
<1>4. cached' = l
  BY DEF Purge
<1> HIDE DEF l
<1> QED BY <1>1, <1>3, <1>4 DEF CachedOK

\* There is a new entry, and some that were not in use are gone.
Makes(c, entry) ==
  \E old \in SUBSET DOMAIN ent :
    /\ \A d \in old : ~(ent[d].ref > 0)
    /\ DOMAIN ent' = (DOMAIN ent \ old) \cup {c}
    /\ ent'[c] = entry
    /\ \A d \in DOMAIN ent \ old : ent'[d] = ent[d]
    /\ dangling' = "no" => old \cap Filling = {}

\* A new entry is added, and one that is not in use may go.
LEMMA AddLemma ==
  ASSUME CachedOK, NEW c \in Entries, c \notin DOMAIN ent, NEW entry, AddToCache(c, entry)
  PROVE  CachedOK' /\ Makes(c, entry)
<1> DEFINE old == lws_async_dns_trim_cache(cached)
           last == cached[Len(cached)]
           rest == SubSeq(cached, 1, Len(cached) - Cardinality(old))
<1>0. /\ cached \in Seq(Entries) /\ NoDuplicates(cached) /\ Range(cached) = DOMAIN ent
      /\ Len(cached) \in Nat /\ DOMAIN cached = 1 .. Len(cached)
  BY LenProperties DEF CachedOK
<1>1. \/ old = {}
      \/ old = {last} /\ Len(cached) # 0 /\ last \in DOMAIN ent /\ ~(ent[last].ref > 0)
  <2>1. CASE Len(cached) + 1 < MaxCached \/ ent[last].ref > 0
    BY <2>1 DEF lws_async_dns_trim_cache
  <2>2. CASE ~(Len(cached) + 1 < MaxCached \/ ent[last].ref > 0)
    <3>1. old = {last}
      BY <2>2 DEF lws_async_dns_trim_cache
    <3>2. Len(cached) # 0
      BY <1>0, <2>2, AsyncDnsAssumption
    <3>3. last \in Range(cached)
      BY <1>0, <3>2 DEF Range
    <3> QED BY <1>0, <2>2, <3>1, <3>2, <3>3
  <2> QED BY <2>1, <2>2
<1>2. /\ cached' = <<c>> \o rest
      /\ ent' = [d \in (DOMAIN ent \ old) \cup {c} |-> IF d = c THEN entry ELSE ent[d]]
  BY DEF AddToCache
<1>3. rest \in Seq(Entries) /\ NoDuplicates(rest) /\ Range(rest) = DOMAIN ent \ old
  <2>1. CASE old = {}
    <3>1. Cardinality(old) = 0
      BY <2>1, FS_EmptySet
    <3>2. rest = cached
      BY <1>0, <3>1
    <3> QED BY <1>0, <2>1, <3>2
  <2>2. CASE old = {last} /\ Len(cached) # 0
    <3>1. Cardinality(old) = 1
      BY <2>2, FS_Singleton
    <3> QED BY <1>0, <2>2, <3>1, LastDropped
  <2> QED BY <1>1, <2>1, <2>2
<1> HIDE DEF rest, old, last
<1>4. cached' \in Seq(Entries) /\ NoDuplicates(cached') /\ Range(cached') = (DOMAIN ent \ old) \cup {c}
  BY <1>2, <1>3, AtHead
<1>5. DOMAIN ent' = (DOMAIN ent \ old) \cup {c} /\ ent'[c] = entry
      /\ \A d \in DOMAIN ent \ old : ent'[d] = ent[d]
  BY <1>2
<1>6. CachedOK'
  BY <1>4, <1>5 DEF CachedOK
<1>7. old \in SUBSET DOMAIN ent /\ \A d \in old : ~(ent[d].ref > 0)
  BY <1>1
<1>8. dangling' = "no" => old \cap Filling = {}
  BY DEF AddToCache, old
<1>9. Makes(c, entry)
  BY <1>5, <1>7, <1>8 DEF Makes
<1> QED BY <1>6, <1>9

LEMMA QueriesSame ==
  ASSUME QueriesOK, UNCHANGED <<fam, q, waiting, net>> PROVE QueriesOK'
BY DEF QueriesOK, QueryOK, Ongoing

LEMMA CachedSame ==
  ASSUME CachedOK, UNCHANGED cached, DOMAIN ent' = DOMAIN ent PROVE CachedOK'
BY DEF CachedOK

\* The record of a query changes, and a request may be added for it.
LEMMA QueryChanges ==
  ASSUME QueriesOK, NEW i \in Ongoing, UNCHANGED <<fam, waiting>>,
         DOMAIN q' = DOMAIN q, \A j \in DOMAIN q : j # i => q'[j] = q[j],
         q'[i] \in QueryRec, QueryOK(i)',
         net' \subseteq [tid : Rand, f : Families, n : 1 .. Retries],
         \A r \in net' : r.f \in fam /\ \E j \in Ongoing : q'[j].tid = r.tid
  PROVE  QueriesOK'
<1>1. \A j \in DOMAIN q' : q'[j] \in QueryRec /\ QueryOK(j)'
  BY DEF QueriesOK, QueryOK, Ongoing
<1> QED BY <1>1 DEF QueriesOK, Ongoing

\* A lookup keeps the lists.
LEMMA AskLists ==
  ASSUME ListsOK, NEW w \in Wsis,
         \/ QueryCached(w) \/ QueryNumeric(w) \/ QueryFails(w)
         \/ QueryPiggyback(w) \/ QueryNew(w) \/ QueryNoTid(w)
  PROVE  ListsOK'
<1>1. CASE QueryCached(w)
  <2>1. PICK c \in lws_adns_get_cache :
          /\ cached' = <<c>> \o Without(cached, c)
          /\ IF ent[c].res = "none" THEN UNCHANGED <<ent, hold>>
             ELSE /\ ent' = [ent EXCEPT ![c].ref = @ + 1]
                  /\ hold' = [hold EXCEPT ![w] = c]
    BY <1>1 DEF QueryCached
  <2>2. c \in Range(cached)
    BY DEF lws_adns_get_cache, Range
  <2>3. /\ cached \in Seq(Entries) /\ NoDuplicates(cached)
        /\ Range(cached) = DOMAIN ent /\ c \in Entries
    BY <2>2 DEF ListsOK, CachedOK
  <2> DEFINE l == Without(cached, c)
  <2>4. l \in Seq(Entries) /\ NoDuplicates(l) /\ Range(l) = Range(cached) \ {c}
    BY <2>3, WithoutLemma
  <2> HIDE DEF l
  <2>5. /\ <<c>> \o l \in Seq(Entries) /\ NoDuplicates(<<c>> \o l)
        /\ Range(<<c>> \o l) = Range(l) \cup {c}
    BY <2>3, <2>4, AtHead
  <2>6. DOMAIN ent' = DOMAIN ent
    BY <2>1
  <2>7. cached' = <<c>> \o l
    BY <2>1 DEF l
  <2>8. CachedOK'
    BY <2>2, <2>3, <2>4, <2>5, <2>6, <2>7 DEF ListsOK, CachedOK
  <2>9. PeopleOK'
    BY <1>1, <2>1, <2>3 DEF ListsOK, PeopleOK, QueryCached
  <2>10. QueriesOK'
    BY <1>1, QueriesSame DEF ListsOK, QueryCached
  <2> QED BY <2>8, <2>9, <2>10 DEF ListsOK
<1>2. CASE QueryNumeric(w)
  <2>1. FreeEntry \in Entries /\ FreeEntry \notin DOMAIN ent
    BY <1>2, FreeEntryLemma DEF QueryNumeric
  <2>2. \E entry : AddToCache(FreeEntry, entry)
    BY <1>2 DEF QueryNumeric
  <2>3. CachedOK'
    BY <2>1, <2>2, AddLemma DEF ListsOK
  <2>4. PeopleOK'
    BY <1>2, <2>1 DEF ListsOK, PeopleOK, QueryNumeric, AddToCache
  <2>5. QueriesOK'
    BY <1>2, QueriesSame DEF ListsOK, QueryNumeric
  <2> QED BY <2>3, <2>4, <2>5 DEF ListsOK
<1>3. CASE QueryPiggyback(w)
  <2>1. QueriesOK' /\ CachedOK'
    BY <1>3, QueriesSame, CachedSame DEF ListsOK, QueryPiggyback
  <2>2. lws_adns_get_query \subseteq Queries
    BY DEF ListsOK, QueriesOK, lws_adns_get_query
  <2>3. PeopleOK'
    BY <1>3, <2>2 DEF ListsOK, PeopleOK, QueryPiggyback, lws_async_dns_init
  <2> QED BY <2>1, <2>3 DEF ListsOK
<1>4. CASE QueryNew(w)
  <2>1. PICK i \in Queries \ Ongoing, t \in lws_async_dns_get_new_tid :
          /\ q' = [j \in Ongoing \cup {i} |-> IF j = i THEN NewQuery(t) ELSE q[j]]
          /\ waiting' = <<i>> \o waiting
          /\ bound' = [bound EXCEPT ![w] = i]
    BY <1>4 DEF QueryNew
  <2>2. t \in Rand
    BY AsyncDnsAssumption DEF lws_async_dns_get_new_tid, Even
  <2>3. DOMAIN q' = DOMAIN q \cup {i} /\ q'[i] = NewQuery(t) /\ \A j \in DOMAIN q : q'[j] = q[j]
    BY <2>1 DEF Ongoing
  <2>4. NewQuery(t) \in QueryRec
    BY <2>2 DEF NewQuery, QueryRec, Families, NoEntry
  <2>5. UNCHANGED <<fam, net, ent, cached, loop, hold, dangling>> /\ want' = TRUE
    BY <1>4 DEF QueryNew
  <2>6. \A j \in DOMAIN q' : q'[j] \in QueryRec /\ QueryOK(j)'
    <3>1. NewQuery(t).retry = 1 /\ NewQuery(t).got = {}
      BY DEF NewQuery
    <3>2. ASSUME NEW j \in DOMAIN q PROVE q'[j] \in QueryRec /\ QueryOK(j)'
      BY <2>3, <2>5 DEF ListsOK, QueriesOK, QueryOK, Ongoing
    <3>3. q'[i] \in QueryRec /\ QueryOK(i)'
      BY <2>3, <2>4, <3>1 DEF QueryOK
    <3> QED BY <2>3, <3>2, <3>3
  <2>7. waiting \in Seq(Queries) /\ NoDuplicates(waiting) /\ Range(waiting) = DOMAIN q
    BY DEF ListsOK, QueriesOK, Ongoing
  <2>8. waiting' \in Seq(Queries) /\ NoDuplicates(waiting') /\ Range(waiting') = DOMAIN q'
    <3>1. /\ <<i>> \o waiting \in Seq(Queries) /\ NoDuplicates(<<i>> \o waiting)
          /\ Range(<<i>> \o waiting) = Range(waiting) \cup {i}
      BY <2>7, AtHead DEF Ongoing
    <3>2. waiting' = <<i>> \o waiting
      BY <2>1
    <3> QED BY <2>3, <2>7, <3>1, <3>2
  <2>9. QueriesOK'
    BY <2>1, <2>3, <2>5, <2>6, <2>8 DEF ListsOK, QueriesOK, Ongoing
  <2>10. CachedOK'
    BY <2>5, CachedSame DEF ListsOK
  <2>11. PeopleOK'
    BY <1>4, <2>1, <2>5 DEF ListsOK, PeopleOK, QueryNew, lws_async_dns_init
  <2> QED BY <2>9, <2>10, <2>11 DEF ListsOK
<1>5. CASE QueryFails(w) \/ QueryNoTid(w)
  <2>1. QueriesOK' /\ CachedOK'
    BY <1>5, QueriesSame, CachedSame DEF ListsOK, QueryFails, QueryNoTid, dnsVars
  <2>2. PeopleOK'
    BY <1>5 DEF ListsOK, PeopleOK, QueryFails, QueryNoTid, lws_async_dns_init, dnsVars
  <2> QED BY <2>1, <2>2 DEF ListsOK
<1> QED BY <1>1, <1>2, <1>3, <1>4, <1>5

\* A close keeps the lists.
LEMMA CloseLists ==
  ASSUME ListsOK, NEW w \in Wsis, Close(w) PROVE ListsOK'
<1>1. QueriesOK'
  <2>1. CASE UNCHANGED <<q, waiting, net>>
    BY <2>1, QueriesSame DEF ListsOK, Close
  <2>2. CASE lws_adns_q_destroy(bound[w])
    BY <2>2, DestroyLemma DEF ListsOK, Close
  <2> QED BY <2>1, <2>2 DEF Close, lws_async_dns_cancel
<1>2. CachedOK'
  BY CachedSame DEF ListsOK, Close, lws_async_dns_freeaddrinfo
<1>3. PeopleOK'
  BY DEF ListsOK, PeopleOK, Close
<1> QED BY <1>1, <1>2, <1>3 DEF ListsOK

\* The request that is written is for a family that has not answered.
LEMMA WhichLemma ==
  ASSUME QueriesOK, NEW i \in Ongoing PROVE Which(i) \in fam
<1>1. fam = {"A"} \/ fam = Families
  BY FamLemma
<1>2. QueryOK(i)
  BY DEF QueriesOK
<1>3. CASE fam = {"A"}
  BY <1>3 DEF Which
<1>4. CASE fam = Families /\ q[i].got = {}
  BY <1>4 DEF Which, Families
<1>5. CASE fam = Families /\ q[i].got # {}
  <2>1. \E f \in fam : f \notin q[i].got
    BY <1>2, <1>5 DEF QueryOK, Families
  <2>2. fam # {"A"}
    BY <1>5 DEF Families
  <2> QED BY <1>5, <2>1, <2>2 DEF Which
<1> QED BY <1>1, <1>3, <1>4, <1>5

\* What a query that ends leaves, whoever is told.
LEMMA CompletePeople ==
  ASSUME PeopleOK, NEW i, NEW c \in Entries \cup {NoEntry}, NEW res, NEW back,
         lws_async_dns_complete(i, c, res, back)
  PROVE  /\ bound' \in [Wsis -> Queries \cup {NoQuery, Lost, Leaked}]
         /\ hold' \in [Wsis -> Entries \cup {NoEntry}]
BY DEF PeopleOK, lws_async_dns_complete

\* The timer and the pass over the queries keep the lists.
LEMMA SendLists ==
  ASSUME ListsOK, Send \/ \E i \in Queries : lws_async_dns_sul_cb_retry(i)
  PROVE  ListsOK'
<1>1. ASSUME NEW i \in Queries, lws_async_dns_sul_cb_retry(i) PROVE ListsOK'
  <2>1. i \in Ongoing /\ q[i] \in QueryRec /\ QueryOK(i)
    BY <1>1 DEF lws_async_dns_sul_cb_retry, ListsOK, QueriesOK
  <2>2. /\ DOMAIN q' = DOMAIN q /\ \A j \in DOMAIN q : j # i => q'[j] = q[j]
        /\ q'[i] = [q[i] EXCEPT !.sul = FALSE]
    BY <1>1, <2>1 DEF lws_async_dns_sul_cb_retry, Ongoing
  <2>3. UNCHANGED <<fam, waiting, loop, net, ent, cached, bound, hold, dangling>>
    BY <1>1 DEF lws_async_dns_sul_cb_retry
  <2>4. q'[i] \in QueryRec /\ QueryOK(i)'
    BY <2>1, <2>2, <2>3 DEF QueryRec, QueryOK
  <2>5. \A j \in DOMAIN q : q'[j].tid = q[j].tid
    BY <2>1, <2>2 DEF QueryRec
  <2>6. QueriesOK'
    <3>1. /\ net' \subseteq [tid : Rand, f : Families, n : 1 .. Retries]
          /\ \A r \in net' : r.f \in fam /\ \E j \in Ongoing : q'[j].tid = r.tid
      BY <2>3, <2>5 DEF ListsOK, QueriesOK, Ongoing
    <3>2. QueriesOK
      BY DEF ListsOK
    <3> QED BY <2>1, <2>2, <2>3, <2>4, <3>1, <3>2, QueryChanges
  <2>7. PeopleOK'
    BY <1>1, <2>3 DEF ListsOK, PeopleOK, lws_async_dns_sul_cb_retry
  <2> QED BY <2>3, <2>6, <2>7, CachedSame DEF ListsOK
<1>2. CASE callback_async_dns
  <2>1. QueriesOK' /\ CachedOK'
    BY <1>2, QueriesSame, CachedSame DEF ListsOK, callback_async_dns
  <2>2. PeopleOK'
    BY <1>2 DEF ListsOK, QueriesOK, PeopleOK, callback_async_dns
  <2> QED BY <2>1, <2>2 DEF ListsOK
<1>3. loop # <<>> => Head(loop) \in Queries /\ Tail(loop) \in Seq(Queries)
  BY HeadTailProperties DEF ListsOK, PeopleOK
<1>4. CASE Skip
  <2>1. QueriesOK' /\ CachedOK'
    BY <1>4, QueriesSame, CachedSame DEF ListsOK, Skip
  <2>2. PeopleOK'
    BY <1>3, <1>4 DEF ListsOK, PeopleOK, Skip
  <2> QED BY <2>1, <2>2 DEF ListsOK
<1>5. CASE WriteRequest
  <2>0. PICK i : i = Head(loop)
    OBVIOUS
  <2>1. i \in Ongoing /\ q[i] \in QueryRec /\ QueryOK(i) /\ Tail(loop) \in Seq(Queries)
    BY <1>3, <1>5, <2>0 DEF WriteRequest, NotDue, ListsOK, QueriesOK
  <2>2. Which(i) \in fam /\ fam \subseteq Families
    BY <2>1, WhichLemma, FamLemma DEF ListsOK
  <2> DEFINE r == [tid |-> q[i].tid, f |-> Which(i), n |-> q[i].retry]
             up == IF q[i].got = {} THEN q[i].sent[Which(i)] + 1 ELSE q[i].sent[Which(i)]
  <2>3. /\ q[i].retry < Retries /\ net' = net \cup {r}
        /\ want' \in BOOLEAN /\ loop' = Tail(loop)
        /\ UNCHANGED <<fam, server, waiting, ent, cached, bound, hold, dangling>>
    BY <1>5, <2>0 DEF WriteRequest, ListsOK, PeopleOK
  <2>4. /\ DOMAIN q' = DOMAIN q /\ \A j \in DOMAIN q : j # i => q'[j] = q[j]
        /\ q'[i] = [q[i] EXCEPT !.retry = @ + 1, !.sul = TRUE, !.asked = TRUE,
                                 !.sent = [@ EXCEPT ![Which(i)] = up]]
    BY <1>5, <2>0, <2>1 DEF WriteRequest, Ongoing, QueryRec
  <2>5. up \in Nat
    BY <2>1, <2>2 DEF QueryRec
  <2> HIDE DEF up
  <2>6. q'[i] \in QueryRec /\ QueryOK(i)' /\ q'[i].tid = q[i].tid
    <3> DEFINE extra == [q[i].sent EXCEPT ![Which(i)] = up]
    <3>1. extra \in [Families -> Nat]
      BY <2>1, <2>2, <2>5 DEF QueryRec
    <3>2. q'[i] = [q[i] EXCEPT !.retry = @ + 1, !.sul = TRUE, !.asked = TRUE, !.sent = extra]
      BY <2>1, <2>4 DEF QueryRec
    <3> HIDE DEF extra
    <3>3. /\ q'[i] \in QueryRec /\ q'[i].tid = q[i].tid
          /\ q'[i].retry = q[i].retry + 1 /\ q'[i].got = q[i].got /\ q[i].retry \in Nat
      <4>1. q[i].retry \in Nat /\ q[i].retry + 1 \in Nat
        BY <2>1 DEF QueryRec
      <4>2. /\ q'[i].retry = q[i].retry + 1 /\ q'[i].got = q[i].got
            /\ q'[i].tid = q[i].tid
        BY <2>1, <3>2 DEF QueryRec
      <4> DEFINE up1 == q[i].retry + 1
      <4> HIDE DEF up1
      <4>3. [q[i] EXCEPT !.retry = up1, !.sul = TRUE, !.asked = TRUE, !.sent = extra] \in QueryRec
        <5>1. up1 \in Nat
          BY <4>1 DEF up1
        <5> QED BY <2>1, <3>1, <5>1 DEF QueryRec
      <4>4. q'[i] \in QueryRec
        BY <3>2, <4>3 DEF up1
      <4> QED BY <4>1, <4>2, <4>4
    <3>4. QueryOK(i)'
      BY <2>1, <2>3, <3>3 DEF QueryOK
    <3> QED BY <3>3, <3>4
  <2>7. r \in [tid : Rand, f : Families, n : 1 .. Retries]
    <3>1. q[i].tid \in Rand /\ q[i].retry \in Nat /\ q[i].retry >= 1
      BY <2>1 DEF QueryRec, QueryOK
    <3>2. q[i].retry \in 1 .. Retries
      BY <2>3, <3>1, AsyncDnsAssumption
    <3> QED BY <2>2, <3>1, <3>2
  <2>8. ASSUME NEW s \in net' PROVE s.f \in fam /\ \E j \in Ongoing : q'[j].tid = s.tid
    <3>1. CASE s = r
      BY <2>1, <2>2, <2>6, <3>1
    <3>2. CASE s \in net
      <4>1. s.f \in fam /\ \E j \in Ongoing : q[j].tid = s.tid
        BY <3>2 DEF ListsOK, QueriesOK
      <4> QED BY <2>4, <2>6, <4>1 DEF Ongoing
    <3> QED BY <2>3, <3>1, <3>2
  <2>9. net' \subseteq [tid : Rand, f : Families, n : 1 .. Retries]
    BY <2>3, <2>7 DEF ListsOK, QueriesOK
  <2> HIDE DEF r
  <2>10. QueriesOK'
    <3>1. QueriesOK /\ UNCHANGED <<fam, waiting>>
      BY <2>3 DEF ListsOK
    <3> QED BY <2>1, <2>4, <2>6, <2>8, <2>9, <3>1, QueryChanges
  <2>11. PeopleOK'
    BY <2>1, <2>3 DEF ListsOK, PeopleOK
  <2> QED BY <2>3, <2>10, <2>11, CachedSame DEF ListsOK
<1>6. CASE WriteFails
  <2> DEFINE i == Head(loop)
  <2>1. PICK back : lws_async_dns_complete(i, NoEntry, "none", back)
    BY <1>6 DEF WriteFails
  <2>2. /\ Purge(i) /\ lws_adns_q_destroy(i) /\ loop' = Tail(loop) /\ UNCHANGED <<fam, dangling>>
        /\ server' \in {"up", "none", "crashed"} /\ Tail(loop) \in Seq(Queries)
        /\ want' \in BOOLEAN
    BY <1>3, <1>6 DEF WriteFails, lws_async_dns_drop_server, ListsOK, PeopleOK
  <2> HIDE DEF i
  <2>3. QueriesOK' /\ CachedOK'
    BY <2>2, DestroyLemma, PurgeLemma DEF ListsOK
  <2>4. PeopleOK'
    BY <2>1, <2>2, CompletePeople DEF ListsOK, PeopleOK
  <2> QED BY <2>3, <2>4 DEF ListsOK
<1> QED BY <1>1, <1>2, <1>4, <1>5, <1>6 DEF Send

\* A query that is dropped without a word keeps the lists.
LEMMA FailOutLists ==
  ASSUME ListsOK, NEW i, FailOut(i) PROVE ListsOK'
<1>1. QueriesOK'
  BY DestroyLemma DEF ListsOK, FailOut
<1>2. CachedOK'
  BY CachedSame DEF ListsOK, FailOut
<1>3. PeopleOK'
  BY DEF ListsOK, PeopleOK, FailOut
<1> QED BY <1>1, <1>2, <1>3 DEF ListsOK

\* A query that goes on for an alias keeps the lists.
LEMMA RenamedLemma ==
  ASSUME QueriesOK, NEW i \in Ongoing, NEW t \in Rand,
         q' = [q EXCEPT ![i] = Renamed(i, t)], net' = Abandon(net, i), UNCHANGED <<fam, waiting>>
  PROVE  QueriesOK'
<1>1. q[i] \in QueryRec /\ QueryOK(i)
  BY DEF QueriesOK
<1>2. /\ DOMAIN q' = DOMAIN q /\ \A j \in DOMAIN q : j # i => q'[j] = q[j]
      /\ q'[i] = Renamed(i, t)
  BY DEF Ongoing
<1>3. Renamed(i, t) \in QueryRec /\ Renamed(i, t).got = {} /\ Renamed(i, t).retry = q[i].retry
  <2> DEFINE zero == [f \in Families |-> 0]
             extra == q[i].rec + 1
  <2>1. zero \in [Families -> Nat] /\ extra \in Nat
    BY <1>1 DEF QueryRec
  <2>2. Renamed(i, t) = [q[i] EXCEPT !.tid = t, !.asked = FALSE, !.got = {}, !.sent = zero,
                                     !.rec = extra, !.first = NoEntry, !.alias = TRUE]
    BY DEF Renamed
  <2> HIDE DEF zero, extra
  <2>3. NoEntry \in Entries \cup {NoEntry} /\ {} \in SUBSET Families
    OBVIOUS
  <2> HIDE DEF NoEntry
  <2> QED BY <1>1, <2>1, <2>2, <2>3 DEF QueryRec
<1>4. QueryOK(i)'
  BY <1>1, <1>2, <1>3 DEF QueryOK
<1>5. net' \subseteq net
  BY DEF Abandon
<1>6. ASSUME NEW r \in net' PROVE r.f \in fam /\ \E j \in Ongoing : q'[j].tid = r.tid
  <2>1. r.f \in fam /\ \E j \in Ongoing : q[j].tid = r.tid
    BY <1>5 DEF QueriesOK
  <2>2. r.tid # q[i].tid \/ \E j \in Ongoing \ {i} : q[j].tid = r.tid
    BY DEF Abandon
  <2> QED BY <1>2, <2>1, <2>2 DEF Ongoing
<1>7. net' \subseteq [tid : Rand, f : Families, n : 1 .. Retries]
  BY <1>5 DEF QueriesOK
<1> QED BY <1>2, <1>3, <1>4, <1>6, <1>7, QueryChanges

\* Answers keep the lists.
LEMMA NetworkLists ==
  ASSUME ListsOK, NEW r \in net,
         \/ AnswerRefused(r) \/ AnswerCname(r)
         \/ \E records \in BOOLEAN : Answer(r, records)
  PROVE  ListsOK'
<1>1. PICK i : i = ByTid(r.tid)
  OBVIOUS
<1>2. i \in Ongoing /\ q[i] \in QueryRec /\ QueryOK(i) /\ q[i].tid = r.tid /\ r.f \in fam
  BY <1>1, ByTidLemma DEF ListsOK, QueriesOK
<1>3. CASE AnswerRefused(r)
  BY <1>1, <1>3, FailOutLists DEF AnswerRefused
<1>4. CASE AnswerCname(r)
  <2>1. CASE FailOut(i)
    BY <2>1, FailOutLists
  <2>2. CASE ~FailOut(i)
    <3>1. /\ \E t \in lws_async_dns_get_new_tid : q' = [q EXCEPT ![i] = Renamed(i, t)]
          /\ net' = Abandon(net, i) /\ Purge(i) /\ want' = TRUE
          /\ dangling' = (IF q[i].last = NoEntry THEN "no" ELSE "renamed")
          /\ UNCHANGED <<fam, server, waiting, loop, bound, hold>>
      BY <1>1, <1>4, <2>2, Zenon DEF AnswerCname
    <3>2. lws_async_dns_get_new_tid \subseteq Rand
      BY AsyncDnsAssumption DEF lws_async_dns_get_new_tid, Even
    <3>3. QueriesOK'
      BY <1>2, <3>1, <3>2, RenamedLemma DEF ListsOK
    <3>4. CachedOK'
      BY <3>1, PurgeLemma DEF ListsOK
    <3>5. PeopleOK'
      BY <3>1 DEF ListsOK, PeopleOK
    <3> QED BY <3>3, <3>4, <3>5 DEF ListsOK
  <2> QED BY <2>1, <2>2
<1>5. ASSUME NEW records \in BOOLEAN, Answer(r, records) PROVE ListsOK'
  <2>1. UNCHANGED <<fam, server, want, loop>>
    BY <1>5 DEF Answer
  <2>a. dangling' \in {"no", "expired", "trimmed", "renamed"}
    BY <1>5 DEF Answer, FirstAnswer, SecondAnswer, AddToCache, ListsOK, PeopleOK
  <2>2. ASSUME NEW c \in Entries, NEW entry, Finish(i, c, entry) PROVE QueriesOK' /\ PeopleOK'
    <3>1. PICK back : lws_async_dns_complete(i, c, entry.res, back)
      BY <2>2 DEF Finish
    <3>2. lws_adns_q_destroy(i)
      BY <2>2 DEF Finish
    <3>3. QueriesOK'
      BY <2>1, <3>2, DestroyLemma DEF ListsOK
    <3>4. PeopleOK'
      BY <2>1, <2>a, <3>1, CompletePeople DEF ListsOK, PeopleOK
    <3> QED BY <3>3, <3>4
  <2>3. CASE FirstAnswer(r, records)
    <3> DEFINE c == FreeEntry
    <3>1. c \in Entries /\ c \notin DOMAIN ent
      BY <2>3, FreeEntryLemma DEF FirstAnswer
    <3>2. \E entry : AddToCache(c, entry)
      BY <2>3 DEF FirstAnswer
    <3>3. CachedOK'
      BY <3>1, <3>2, AddLemma DEF ListsOK
    <3>4. CASE {r.f} # fam
      <4> DEFINE last == IF records THEN c ELSE q[i].last
      <4>1. /\ q' = [q EXCEPT ![i].got = {r.f}, ![i].first = c, ![i].last = last]
            /\ net' = net \ {r} /\ UNCHANGED <<waiting, bound, hold>>
        BY <1>1, <2>3, <3>4 DEF FirstAnswer
      <4>2. /\ DOMAIN q' = DOMAIN q /\ \A j \in DOMAIN q : j # i => q'[j] = q[j]
            /\ q'[i] = [q[i] EXCEPT !.got = {r.f}, !.first = c, !.last = last]
        BY <1>2, <4>1 DEF Ongoing
      <4>3. last \in Entries \cup {NoEntry} /\ {r.f} \in SUBSET Families /\ c \in Entries
        BY <1>2, <3>1, FamLemma DEF QueryRec, ListsOK
      <4> HIDE DEF last, c
      <4>4. /\ q'[i] \in QueryRec /\ q'[i].got = {r.f} /\ q'[i].tid = q[i].tid
            /\ q'[i].retry = q[i].retry
        BY <1>2, <4>2, <4>3 DEF QueryRec
      <4>5. QueryOK(i)'
        BY <1>2, <2>1, <3>4, <4>4 DEF QueryOK
      <4>6. /\ net' \subseteq [tid : Rand, f : Families, n : 1 .. Retries]
            /\ \A s \in net' : s.f \in fam /\ \E j \in Ongoing : q'[j].tid = s.tid
        BY <4>1, <4>2, <4>4 DEF ListsOK, QueriesOK, Ongoing
      <4>7. QueriesOK /\ UNCHANGED <<fam, waiting>>
        BY <2>1, <4>1 DEF ListsOK
      <4>8. QueriesOK'
        BY <1>2, <4>2, <4>4, <4>5, <4>6, <4>7, QueryChanges
      <4>9. PeopleOK'
        BY <2>1, <2>a, <4>1 DEF ListsOK, PeopleOK
      <4> QED BY <3>3, <4>8, <4>9 DEF ListsOK
    <3>5. CASE {r.f} = fam
      <4>1. \E entry : Finish(i, c, entry)
        BY <1>1, <2>3, <3>5 DEF FirstAnswer
      <4> QED BY <2>2, <3>1, <3>3, <4>1 DEF ListsOK
    <3> QED BY <3>4, <3>5
  <2>4. CASE SecondAnswer(r, records)
    <3> DEFINE c == q[i].first
    <3>1. c \in Entries
      BY <1>1, <1>2, <2>4 DEF SecondAnswer, QueryRec
    <3>2. \E entry : Finish(i, c, entry)
      BY <1>1, <2>4 DEF SecondAnswer
    <3>3. UNCHANGED cached /\ DOMAIN ent' = DOMAIN ent
      BY <1>1, <2>4 DEF SecondAnswer
    <3>4. CachedOK'
      BY <3>3, CachedSame DEF ListsOK
    <3> QED BY <2>2, <3>1, <3>2, <3>4 DEF ListsOK
  <2> QED BY <1>5, <2>3, <2>4 DEF Answer
<1> QED BY <1>3, <1>4, <1>5

\* The expiry of an entry keeps the lists.
LEMMA ExpireLists ==
  ASSUME ListsOK, NEW c, sul_cb_expire(c) PROVE ListsOK'
<1>1. QueriesOK'
  BY QueriesSame DEF ListsOK, sul_cb_expire
<1>2. PeopleOK'
  BY DEF ListsOK, PeopleOK, sul_cb_expire
<1> DEFINE l == Without(cached, c)
<1>3. DOMAIN ent' = DOMAIN ent \ {c} /\ cached' = l
  BY DEF sul_cb_expire, Restrict
<1>4. cached \in Seq(Entries) /\ NoDuplicates(cached) /\ Range(cached) = DOMAIN ent
  BY DEF ListsOK, CachedOK
<1>5. l \in Seq(Entries) /\ NoDuplicates(l) /\ Range(l) = Range(cached) \ {c}
  BY <1>4, WithoutLemma
<1> HIDE DEF l
<1>6. CachedOK'
  BY <1>3, <1>4, <1>5 DEF ListsOK, CachedOK
<1> QED BY <1>1, <1>2, <1>6 DEF ListsOK

LEMMA ListsInit == DnsInit => ListsOK
<1> SUFFICES ASSUME DnsInit PROVE ListsOK
  OBVIOUS
<1>1. DOMAIN q = {} /\ DOMAIN ent = {} /\ waiting = <<>> /\ cached = <<>> /\ net = {}
  BY DEF DnsInit
<1>2. QueriesOK
  BY <1>1 DEF DnsInit, QueriesOK, NoDuplicates, Range, Ongoing
<1>3. CachedOK
  BY <1>1 DEF CachedOK, NoDuplicates, Range
<1>4. PeopleOK
  <2>0. <<>> \in Seq(Queries)
    OBVIOUS
  <2>1. loop \in Seq(Queries) /\ want \in BOOLEAN /\ server \in {"up", "none", "crashed"}
    BY <2>0 DEF DnsInit
  <2>2. /\ bound \in [Wsis -> Queries \cup {NoQuery, Lost, Leaked}]
        /\ hold \in [Wsis -> Entries \cup {NoEntry}] /\ dangling = "no"
    BY DEF DnsInit
  <2> QED BY <2>1, <2>2 DEF PeopleOK
<1> QED BY <1>2, <1>3, <1>4 DEF ListsOK

LEMMA ListsNext == ASSUME ListsOK, [DnsNext]_dnsVars PROVE ListsOK'
<1>1. CASE UNCHANGED dnsVars
  <2>1. QueriesOK' /\ CachedOK'
    BY <1>1, QueriesSame, CachedSame DEF ListsOK, dnsVars
  <2>2. PeopleOK'
    BY <1>1 DEF ListsOK, PeopleOK, dnsVars
  <2> QED BY <2>1, <2>2 DEF ListsOK
<1> QED BY <1>1, AskLists, NetworkLists, SendLists, CloseLists, ExpireLists
        DEF DnsNext, Ask, Network, Undefined

LEMMA ListsInvariant == DnsSpec => []ListsOK
<1>1. DnsInit => ListsOK
  BY ListsInit
<1>2. ListsOK /\ [DnsNext]_dnsVars => ListsOK'
  BY ListsNext
<1> QED BY <1>1, <1>2, PTL DEF DnsSpec

-----------------------------------------------------------------------------
(* Nobody waits for a query that nothing drives *)

\* What drives a query: its timer, or between callbacks a WRITEABLE that comes,
\* and in the pass over the queries the visit that comes.
Driven(i) == q[i].sul \/ IF loop = <<>> THEN want /\ server = "up" ELSE i \in Range(loop)

BoundOK == \A w \in Wsis : bound[w] \in Queries => bound[w] \in Ongoing
WaitedFor == \A i \in Ongoing : Waiters(i) # {}
DrivenOK == \A i \in Ongoing : Driven(i)

DrivenInv == ListsOK /\ (Running => BoundOK /\ WaitedFor /\ DrivenOK)

\* Who is on which list stays, and so do the queries.
LEMMA PeopleSame ==
  ASSUME BoundOK, WaitedFor, DOMAIN q' = DOMAIN q, UNCHANGED bound
  PROVE  BoundOK' /\ WaitedFor'
BY DEF BoundOK, WaitedFor, Waiters, Ongoing

\* A query is destroyed and everybody leaves its list.
LEMMA PeopleLeave ==
  ASSUME BoundOK, WaitedFor, NEW i \in Ongoing, ListsOK,
         DOMAIN q' = DOMAIN q \ {i},
         \A w \in Wsis : \/ bound[w] \in Ongoing \ {i} /\ bound'[w] = bound[w]
                         \/ bound[w] \notin Ongoing \ {i} /\ bound'[w] \notin Queries
  PROVE  BoundOK' /\ WaitedFor'
<1>1. BoundOK'
  BY DEF BoundOK, Ongoing
<1>2. WaitedFor'
  BY DEF WaitedFor, Waiters, Ongoing
<1> QED BY <1>1, <1>2

\* Everybody is told, and some ask again.
LEMMA PeopleTold ==
  ASSUME BoundOK, WaitedFor, ListsOK, NEW i \in Ongoing, NEW c, NEW res, NEW found,
         NEW back \in Back(i, found), lws_async_dns_complete(i, c, res, back),
         DOMAIN q' = DOMAIN q \ {i}
  PROVE  BoundOK' /\ WaitedFor'
<1>1. NoQuery \notin Queries /\ Lost \notin Queries /\ Ongoing \subseteq Queries
  BY NoQueryAssumption DEF ListsOK, QueriesOK
<1>2. \A w \in back : bound[w] = NoQuery \/ bound[w] = i
  BY DEF Back
<1>3. \A w \in Wsis : bound'[w] = IF w \in back THEN Lost
                                  ELSE IF bound[w] = i THEN NoQuery ELSE bound[w]
  BY DEF lws_async_dns_complete, Waiters
<1>4. ASSUME NEW w \in Wsis
      PROVE  \/ bound[w] \in Ongoing \ {i} /\ bound'[w] = bound[w]
             \/ bound[w] \notin Ongoing \ {i} /\ bound'[w] \notin Queries
  <2>1. bound[w] \in Queries => bound[w] \in Ongoing
    BY DEF BoundOK
  <2> QED BY <1>1, <1>2, <1>3, <2>1
<1> QED BY <1>4, PeopleLeave

\* What drives the queries that stay is left alone.
LEMMA DrivenSame ==
  ASSUME DrivenOK, DOMAIN q' \subseteq DOMAIN q, \A j \in DOMAIN q' : q'[j].sul = q[j].sul,
         UNCHANGED loop, loop # <<>> \/ (want /\ server = "up" => want' /\ server' = "up")
  PROVE  DrivenOK'
BY DEF DrivenOK, Driven, Ongoing

\* Lookups.
LEMMA AskDriven ==
  ASSUME ListsOK, BoundOK, WaitedFor, DrivenOK, NEW v \in Wsis,
         \/ QueryCached(v) \/ QueryNumeric(v) \/ QueryFails(v)
         \/ QueryPiggyback(v) \/ QueryNew(v) \/ QueryNoTid(v)
  PROVE  BoundOK' /\ WaitedFor' /\ DrivenOK'
<1>0. /\ bound \in [Wsis -> Queries \cup {NoQuery, Lost, Leaked}]
      /\ NoQuery \notin Queries /\ Leaked \notin Queries /\ Ongoing \subseteq Queries
  BY NoQueryAssumption DEF ListsOK, PeopleOK, QueriesOK
<1>1. loop = <<>> /\ bound[v] = NoQuery /\ UNCHANGED loop
  BY DEF QueryCached, QueryNumeric, QueryFails, QueryPiggyback, QueryNew, QueryNoTid, Idle,
         dnsVars
<1>2. CASE QueryCached(v) \/ QueryNumeric(v) \/ QueryFails(v)
  <2>1. UNCHANGED <<q, bound, want, server, loop>>
    BY <1>2 DEF QueryCached, QueryNumeric, QueryFails, dnsVars
  <2> QED BY <2>1, PeopleSame, DrivenSame
<1>3. CASE QueryPiggyback(v)
  <2>1. UNCHANGED <<q, want>> /\ server' = "up"
    BY <1>3 DEF QueryPiggyback, lws_async_dns_init
  <2>2. PICK i \in Ongoing : bound' = [bound EXCEPT ![v] = i]
    BY <1>3 DEF QueryPiggyback, lws_adns_get_query
  <2>3. \A w \in Wsis : bound'[w] = IF w = v THEN i ELSE bound[w]
    BY <1>0, <2>2
  <2>4. BoundOK'
    BY <2>1, <2>3 DEF BoundOK, Ongoing
  <2>5. WaitedFor'
    BY <1>0, <1>1, <2>1, <2>3 DEF WaitedFor, Waiters, Ongoing
  <2> QED BY <1>1, <2>1, <2>4, <2>5, DrivenSame
<1>4. CASE QueryNew(v)
  <2>1. PICK i \in Queries \ Ongoing, t \in lws_async_dns_get_new_tid :
          /\ q' = [j \in Ongoing \cup {i} |-> IF j = i THEN NewQuery(t) ELSE q[j]]
          /\ bound' = [bound EXCEPT ![v] = i]
    BY <1>4 DEF QueryNew
  <2>2. want' = TRUE /\ server' = "up"
    BY <1>4 DEF QueryNew, lws_async_dns_init
  <2>3. \A w \in Wsis : bound'[w] = IF w = v THEN i ELSE bound[w]
    BY <1>0, <2>1
  <2>4. DOMAIN q' = DOMAIN q \cup {i}
    BY <2>1 DEF Ongoing
  <2>5. BoundOK'
    BY <2>3, <2>4 DEF BoundOK, Ongoing
  <2>6. WaitedFor'
    BY <1>0, <1>1, <2>3, <2>4 DEF WaitedFor, Waiters, Ongoing
  <2>7. DrivenOK'
    BY <1>1, <2>2 DEF DrivenOK, Driven
  <2> QED BY <2>5, <2>6, <2>7
<1>5. CASE QueryNoTid(v)
  <2>1. UNCHANGED <<q, want>> /\ server' = "up"
    BY <1>5 DEF QueryNoTid, lws_async_dns_init
  <2>2. \A w \in Wsis : bound'[w] = IF w = v THEN Leaked ELSE bound[w]
    BY <1>0, <1>5 DEF QueryNoTid
  <2>3. BoundOK'
    BY <1>0, <2>1, <2>2 DEF BoundOK, Ongoing
  <2>4. WaitedFor'
    BY <1>0, <1>1, <2>1, <2>2 DEF WaitedFor, Waiters, Ongoing
  <2> QED BY <1>1, <2>1, <2>3, <2>4, DrivenSame
<1> QED BY <1>2, <1>3, <1>4, <1>5

\* Close of a connection: the last one takes the query with it.
LEMMA CloseDriven ==
  ASSUME ListsOK, BoundOK, WaitedFor, DrivenOK, NEW v \in Wsis, Close(v)
  PROVE  BoundOK' /\ WaitedFor' /\ DrivenOK'
<1>0. /\ bound \in [Wsis -> Queries \cup {NoQuery, Lost, Leaked}]
      /\ NoQuery \notin Queries /\ Ongoing \subseteq Queries
  BY NoQueryAssumption DEF ListsOK, PeopleOK, QueriesOK
<1>1. /\ \A w \in Wsis : bound'[w] = IF w = v THEN NoQuery ELSE bound[w]
      /\ UNCHANGED <<want, server, loop>>
  BY <1>0 DEF Close
<1>2. CASE bound[v] \in Queries /\ Waiters(bound[v]) = {v}
  <2>1. bound[v] \in Ongoing /\ DOMAIN q' = DOMAIN q \ {bound[v]}
        /\ \A j \in DOMAIN q' : q'[j] = q[j]
    <3>1. lws_adns_q_destroy(bound[v]) /\ UNCHANGED fam
      BY <1>2 DEF Close, lws_async_dns_cancel
    <3> QED BY <1>2, <3>1, DestroyLemma DEF ListsOK, BoundOK
  <2>2. BoundOK'
    BY <1>0, <1>1, <1>2, <2>1 DEF BoundOK, Waiters, Ongoing
  <2>3. WaitedFor'
    BY <1>1, <2>1 DEF WaitedFor, Waiters, Ongoing
  <2> QED BY <1>1, <2>1, <2>2, <2>3, DrivenSame
<1>3. CASE ~(bound[v] \in Queries /\ Waiters(bound[v]) = {v})
  <2>1. UNCHANGED q
    BY <1>3 DEF Close, lws_async_dns_cancel
  <2>2. BoundOK'
    BY <1>0, <1>1, <2>1 DEF BoundOK, Ongoing
  <2>3. ASSUME NEW i \in Ongoing PROVE Waiters(i)' # {}
    <3>1. \E w \in Waiters(i) : w # v
      BY <1>0, <1>3 DEF WaitedFor, Waiters
    <3> QED BY <1>1, <3>1 DEF Waiters
  <2>4. WaitedFor'
    BY <2>1, <2>3 DEF WaitedFor, Ongoing
  <2> QED BY <1>1, <2>1, <2>2, <2>4, DrivenSame
<1> QED BY <1>2, <1>3

\* The timer and the pass over the queries.
LEMMA SendDriven ==
  ASSUME ListsOK, BoundOK, WaitedFor, DrivenOK, Running',
         Send \/ \E i \in Queries : lws_async_dns_sul_cb_retry(i)
  PROVE  BoundOK' /\ WaitedFor' /\ DrivenOK'
<1>1. ASSUME NEW i \in Queries, lws_async_dns_sul_cb_retry(i)
      PROVE  BoundOK' /\ WaitedFor' /\ DrivenOK'
  <2>1. loop = <<>> /\ UNCHANGED <<loop, bound>> /\ DOMAIN q' = DOMAIN q
    BY <1>1 DEF lws_async_dns_sul_cb_retry
  <2>2. server' = "up" /\ want' = TRUE
    BY <1>1 DEF lws_async_dns_sul_cb_retry, Running
  <2>3. DrivenOK'
    BY <2>1, <2>2 DEF DrivenOK, Driven
  <2> QED BY <2>1, <2>3, PeopleSame
<1>2. CASE callback_async_dns
  <2>1. UNCHANGED <<q, bound>> /\ loop = <<>> /\ loop' = waiting
    BY <1>2 DEF callback_async_dns
  <2>2. DrivenOK'
    <3>1. Range(waiting) = Ongoing
      BY DEF ListsOK, QueriesOK
    <3>2. Range(<<>>) = {}
      BY DEF Range
    <3> QED BY <2>1, <3>1, <3>2 DEF DrivenOK, Driven, Ongoing
  <2> QED BY <2>1, <2>2, PeopleSame
<1>3. ASSUME loop # <<>>, NEW x \in Range(loop) PROVE x = Head(loop) \/ x \in Range(Tail(loop))
  <2>1. loop \in Seq(Queries)
    BY DEF ListsOK, PeopleOK
  <2>2. /\ Len(loop) \in Nat /\ Len(Tail(loop)) = Len(loop) - 1
        /\ \A k \in 1 .. Len(Tail(loop)) : Tail(loop)[k] = loop[k + 1]
        /\ Head(loop) = loop[1] /\ Tail(loop) \in Seq(Queries)
    BY <1>3, <2>1, HeadTailProperties, LenProperties
  <2>3. PICK k \in 1 .. Len(loop) : x = loop[k]
    BY <2>1, LenProperties DEF Range
  <2>4. CASE k = 1
    BY <2>2, <2>3, <2>4
  <2>5. CASE k # 1
    <3>1. k - 1 \in 1 .. Len(Tail(loop)) /\ Tail(loop)[k - 1] = loop[(k - 1) + 1]
      BY <2>2, <2>5
    <3>2. (k - 1) + 1 = k /\ DOMAIN Tail(loop) = 1 .. Len(Tail(loop))
      BY <2>2, LenProperties
    <3> QED BY <2>3, <3>1, <3>2 DEF Range
  <2> QED BY <2>4, <2>5
<1>4. ASSUME loop # <<>>, loop' = Tail(loop), DOMAIN q' \subseteq DOMAIN q,
             \A j \in DOMAIN q' : j # Head(loop) => q'[j].sul = q[j].sul,
             Head(loop) \in DOMAIN q' => q'[Head(loop)].sul
      PROVE  DrivenOK'
  <2>1. \A j \in DOMAIN q : q[j].sul \/ j \in Range(loop)
    BY <1>4 DEF DrivenOK, Driven, Ongoing
  <2>2. ASSUME NEW j \in DOMAIN q' PROVE q'[j].sul \/ j \in Range(loop')
    BY <1>3, <1>4, <2>1
  <2>3. loop' = <<>> => Range(loop') = {}
    BY DEF Range
  <2> QED BY <2>2, <2>3 DEF DrivenOK, Driven, Ongoing
<1>5. CASE Skip
  <2>1. /\ UNCHANGED <<q, bound>> /\ loop # <<>> /\ loop' = Tail(loop)
        /\ NotDue(Head(loop))
    BY <1>5 DEF Skip
  <2>2. Head(loop) \in DOMAIN q => q[Head(loop)].sul
    <3>1. ASSUME NEW i \in Ongoing PROVE q[i].got # fam
      BY FamLemma DEF ListsOK, QueriesOK, QueryOK
    <3> QED BY <2>1, <3>1 DEF NotDue, Ongoing
  <2>3. DrivenOK'
    BY <1>4, <2>1, <2>2
  <2> QED BY <2>1, <2>3, PeopleSame
<1>6. CASE WriteRequest
  <2>1. PICK i : i = Head(loop)
    OBVIOUS
  <2>2. i \in Ongoing /\ q[i] \in QueryRec /\ loop # <<>> /\ loop' = Tail(loop)
    BY <1>6, <2>1 DEF WriteRequest, NotDue, ListsOK, QueriesOK
  <2>3. /\ UNCHANGED bound
        /\ \E n : q' = [q EXCEPT ![i].retry = @ + 1, ![i].sul = TRUE, ![i].asked = TRUE,
                                 ![i].sent[Which(i)] = n]
    BY <1>6, <2>1 DEF WriteRequest
  <2>4. DOMAIN q' = DOMAIN q /\ \A j \in DOMAIN q : j # i => q'[j] = q[j]
    BY <2>3
  <2>5. q'[i].sul
    BY <2>2, <2>3 DEF Ongoing, QueryRec
  <2>6. DrivenOK'
    BY <1>4, <2>1, <2>2, <2>4, <2>5
  <2> QED BY <2>3, <2>4, <2>6, PeopleSame
<1>7. CASE WriteFails
  <2>1. PICK i : i = Head(loop)
    OBVIOUS
  <2>2. PICK back \in Back(i, FALSE) : lws_async_dns_complete(i, NoEntry, "none", back)
    BY <1>7, <2>1 DEF WriteFails
  <2>3. /\ lws_adns_q_destroy(i) /\ UNCHANGED fam /\ i \in Ongoing
        /\ loop # <<>> /\ loop' = Tail(loop)
    BY <1>7, <2>1 DEF WriteFails, NotDue
  <2>4. DOMAIN q' = DOMAIN q \ {i} /\ \A j \in DOMAIN q' : q'[j] = q[j]
    BY <2>3, DestroyLemma DEF ListsOK
  <2>5. DrivenOK'
    BY <1>4, <2>1, <2>3, <2>4
  <2> QED BY <2>2, <2>3, <2>4, <2>5, PeopleTold
<1> QED BY <1>1, <1>2, <1>5, <1>6, <1>7 DEF Send

\* Answers.
LEMMA NetworkDriven ==
  ASSUME ListsOK, BoundOK, WaitedFor, DrivenOK, NEW r \in net,
         \/ AnswerRefused(r) \/ AnswerCname(r)
         \/ \E records \in BOOLEAN : Answer(r, records)
  PROVE  BoundOK' /\ WaitedFor' /\ DrivenOK'
<1>1. PICK i : i = ByTid(r.tid)
  OBVIOUS
<1>2. i \in Ongoing /\ q[i] \in QueryRec
  BY <1>1, ByTidLemma DEF ListsOK, QueriesOK
<1>3. loop = <<>> /\ server = "up"
  BY DEF AnswerRefused, AnswerCname, Answer, Answered
<1>4. ASSUME FailOut(i) PROVE BoundOK' /\ WaitedFor' /\ DrivenOK'
  <2>1. /\ lws_adns_q_destroy(i) /\ UNCHANGED <<fam, loop, want, server>>
        /\ \A w \in Wsis : bound'[w] = IF bound[w] = i THEN Lost ELSE bound[w]
    BY <1>4 DEF FailOut
  <2>2. DOMAIN q' = DOMAIN q \ {i} /\ \A j \in DOMAIN q' : q'[j] = q[j]
    BY <2>1, DestroyLemma DEF ListsOK
  <2>3. Lost \notin Queries /\ Ongoing \subseteq Queries
    BY NoQueryAssumption DEF ListsOK, QueriesOK
  <2>4. ASSUME NEW w \in Wsis
        PROVE  \/ bound[w] \in Ongoing \ {i} /\ bound'[w] = bound[w]
               \/ bound[w] \notin Ongoing \ {i} /\ bound'[w] \notin Queries
    <3>1. bound[w] \in Queries => bound[w] \in Ongoing
      BY DEF BoundOK
    <3> QED BY <2>1, <2>3, <3>1
  <2>5. BoundOK' /\ WaitedFor'
    BY <1>2, <2>2, <2>4, PeopleLeave
  <2> QED BY <2>1, <2>2, <2>5, DrivenSame
<1>5. CASE AnswerRefused(r)
  BY <1>1, <1>4, <1>5 DEF AnswerRefused
<1>6. CASE AnswerCname(r)
  <2>1. CASE FailOut(i)
    BY <1>4, <2>1
  <2>2. CASE ~FailOut(i)
    <3>1. /\ \E t \in lws_async_dns_get_new_tid : q' = [q EXCEPT ![i] = Renamed(i, t)]
          /\ want' = TRUE /\ UNCHANGED <<server, loop, bound>>
      BY <1>1, <1>6, <2>2, Zenon DEF AnswerCname
    <3>2. DOMAIN q' = DOMAIN q
      BY <3>1
    <3>3. DrivenOK'
      BY <1>3, <3>1 DEF DrivenOK, Driven
    <3> QED BY <3>1, <3>2, <3>3, PeopleSame
  <2> QED BY <2>1, <2>2
<1>7. ASSUME NEW records \in BOOLEAN, Answer(r, records) PROVE BoundOK' /\ WaitedFor' /\ DrivenOK'
  <2>1. UNCHANGED <<fam, server, want, loop>>
    BY <1>7 DEF Answer
  <2>2. ASSUME NEW c, NEW entry, Finish(i, c, entry) PROVE BoundOK' /\ WaitedFor' /\ DrivenOK'
    <3> DEFINE found == entry.res # "none" \/ (~entry.inc /\ entry.named)
    <3>1. PICK back \in Back(i, found) : lws_async_dns_complete(i, c, entry.res, back)
      BY <2>2 DEF Finish
    <3> HIDE DEF found
    <3>2. lws_adns_q_destroy(i)
      BY <2>2 DEF Finish
    <3>3. DOMAIN q' = DOMAIN q \ {i} /\ \A j \in DOMAIN q' : q'[j] = q[j]
      BY <2>1, <3>2, DestroyLemma DEF ListsOK
    <3>4. BoundOK' /\ WaitedFor'
      BY <1>2, <3>1, <3>3, PeopleTold
    <3> QED BY <2>1, <3>3, <3>4, DrivenSame
  <2>3. CASE FirstAnswer(r, records)
    <3>1. CASE {r.f} # fam
      <4>1. UNCHANGED bound /\ \E c, l : q' = [q EXCEPT ![i].got = {r.f}, ![i].first = c, ![i].last = l]
        BY <1>1, <2>3, <3>1 DEF FirstAnswer
      <4>2. DOMAIN q' = DOMAIN q /\ \A j \in DOMAIN q : q'[j].sul = q[j].sul
        BY <1>2, <4>1 DEF QueryRec
      <4> QED BY <2>1, <4>1, <4>2, PeopleSame, DrivenSame
    <3>2. CASE {r.f} = fam
      <4>1. \E c, entry : Finish(i, c, entry)
        BY <1>1, <2>3, <3>2 DEF FirstAnswer
      <4> QED BY <2>2, <4>1
    <3> QED BY <3>1, <3>2
  <2>4. CASE SecondAnswer(r, records)
    <3>1. \E c, entry : Finish(i, c, entry)
      BY <1>1, <2>4 DEF SecondAnswer
    <3> QED BY <2>2, <3>1
  <2> QED BY <1>7, <2>3, <2>4 DEF Answer
<1> QED BY <1>5, <1>6, <1>7

LEMMA DrivenNext == ASSUME DrivenInv, [DnsNext]_dnsVars PROVE DrivenInv'
<1>1. ListsOK /\ ListsOK'
  BY ListsNext DEF DrivenInv
<1> SUFFICES ASSUME Running' PROVE BoundOK' /\ WaitedFor' /\ DrivenOK'
  BY <1>1 DEF DrivenInv
<1>2. CASE UNCHANGED dnsVars
  <2>1. Running /\ UNCHANGED <<q, bound, loop, want, server>>
    BY <1>2 DEF Running, dnsVars
  <2> QED BY <2>1, PeopleSame, DrivenSame DEF DrivenInv
<1>3. CASE ~UNCHANGED dnsVars
  <2>1. DnsNext /\ ~Undefined
    BY <1>3 DEF Undefined
  <2>2. Running
    BY <2>1, Zenon
       DEF DnsNext, Ask, Network, Send, Idle, Answered, QueryCached, QueryNumeric,
           QueryFails, QueryPiggyback, QueryNew, QueryNoTid, AnswerRefused, AnswerCname,
           Answer, callback_async_dns, Skip, WriteRequest, WriteFails,
           lws_async_dns_sul_cb_retry, Close, sul_cb_expire
  <2>3. BoundOK /\ WaitedFor /\ DrivenOK
    BY <2>2 DEF DrivenInv
  <2>4. ASSUME NEW c \in Entries, sul_cb_expire(c) PROVE BoundOK' /\ WaitedFor' /\ DrivenOK'
    <3>1. UNCHANGED <<q, bound, loop, want, server>>
      BY <2>4 DEF sul_cb_expire
    <3> QED BY <2>3, <3>1, PeopleSame, DrivenSame
  <2> QED BY <1>1, <2>1, <2>3, <2>4, AskDriven, NetworkDriven, SendDriven, CloseDriven
          DEF DnsNext, Ask, Network
<1> QED BY <1>2, <1>3

\* Whoever waits is on the list of a query that goes on, which its timer, the
\* pass or WRITEABLE of the server will drive, and no query goes on for nobody,
\* for any number of connections and queries: through lost, late, refused and
\* CNAME answers, dropped servers and closes, and callbacks that ask again
\* (lws_async_dns_writeable(), lws_adns_q_destroy(), lws_async_dns_cancel()).
THEOREM WaitersAreDrivenHolds == DnsSpec => []WaitersAreDriven
<1>1. DnsInit => DrivenInv
  <2> SUFFICES ASSUME DnsInit PROVE BoundOK /\ WaitedFor /\ DrivenOK
    BY ListsInit DEF DrivenInv
  <2>1. DOMAIN q = {} /\ \A w \in Wsis : bound[w] = NoQuery
    BY DEF DnsInit
  <2> QED BY <2>1, NoQueryAssumption DEF BoundOK, WaitedFor, DrivenOK, Ongoing
<1>2. DrivenInv /\ [DnsNext]_dnsVars => DrivenInv'
  BY DrivenNext
<1>3. DrivenInv => WaitersAreDriven
  BY DEF DrivenInv, BoundOK, WaitedFor, DrivenOK, Driven, WaitersAreDriven
<1> QED BY <1>1, <1>2, <1>3, PTL DEF DnsSpec
-----------------------------------------------------------------------------
(* The cache is sound *)

HeldBy(c) == {w \in Wsis : hold[w] = c}

CountsOK == \A c \in DOMAIN ent : ent[c] \in EntryRec /\ ent[c].ref = Cardinality(HeldBy(c))

\* Who keeps results waits for nothing.
HoldOK == \A w \in Wsis : hold[w] # NoEntry => hold[w] \in DOMAIN ent /\ bound[w] = NoQuery

\* The entry a query fills is marked incomplete and nobody keeps it.
FillsOK(i) ==
  /\ q[i].last \in {NoEntry, q[i].first}
  /\ q[i].first # NoEntry => /\ q[i].got # {}
                             /\ q[i].first \in DOMAIN ent
                             /\ ent[q[i].first].inc /\ ent[q[i].first].ref = 0

\* No two queries fill the same one.
FillOK ==
  /\ \A i \in Ongoing : FillsOK(i)
  /\ \A i, j \in Ongoing : i # j => q[i].first = NoEntry \/ q[i].first # q[j].first

\* What holds until a pointer is left to a freed entry, and what always does.
CacheInv == ListsOK /\ CountsOK /\ HoldOK /\ FillOK
CacheInd == ListsOK /\ CountsOK /\ (dangling = "no" => HoldOK /\ FillOK)

LEMMA HoldersFinite == \A c : IsFiniteSet(HeldBy(c)) /\ Cardinality(HeldBy(c)) \in Nat
<1> SUFFICES ASSUME NEW c PROVE IsFiniteSet(HeldBy(c)) /\ Cardinality(HeldBy(c)) \in Nat
  OBVIOUS
<1>1. HeldBy(c) \subseteq Wsis /\ IsFiniteSet(Wsis)
  BY AsyncDnsAssumption DEF HeldBy
<1>2. IsFiniteSet(HeldBy(c))
  BY <1>1, FS_Subset
<1> QED BY <1>2, FS_CardinalityType

\* An entry with no references is kept by nobody.
LEMMA NoneHolds ==
  ASSUME CountsOK, NEW c \in DOMAIN ent, ~(ent[c].ref > 0)
  PROVE  \A w \in Wsis : hold[w] # c
<1>1. Cardinality(HeldBy(c)) = 0
  <2>1. ent[c].ref = Cardinality(HeldBy(c)) /\ Cardinality(HeldBy(c)) \in Nat
    BY HoldersFinite DEF CountsOK
  <2> QED BY <2>1
<1>2. HeldBy(c) = {}
  BY <1>1, HoldersFinite, FS_EmptySet
<1> QED BY <1>2 DEF HeldBy

\* Connections that keep nothing come to keep the results of one entry.
LEMMA TakeResults ==
  ASSUME NEW c, NEW W \in SUBSET Wsis, NEW d, c # NoEntry, d # NoEntry,
         \A w \in W : hold[w] = NoEntry,
         \A w \in Wsis : hold'[w] = IF w \in W THEN c ELSE hold[w]
  PROVE  /\ Cardinality(HeldBy(c)') = Cardinality(HeldBy(c)) + Cardinality(W)
         /\ d # c => HeldBy(d)' = HeldBy(d)
<1>1. HeldBy(c)' = HeldBy(c) \cup W /\ HeldBy(c) \cap W = {}
  BY DEF HeldBy
<1>2. IsFiniteSet(W) /\ IsFiniteSet(HeldBy(c))
  BY AsyncDnsAssumption, HoldersFinite, FS_Subset
<1>3. /\ Cardinality(W) \in Nat /\ Cardinality(HeldBy(c)) \in Nat
      /\ Cardinality(HeldBy(c) \cap W) = 0
  BY <1>1, <1>2, FS_CardinalityType, FS_EmptySet
<1>4. Cardinality(HeldBy(c) \cup W)
        = Cardinality(HeldBy(c)) + Cardinality(W) - Cardinality(HeldBy(c) \cap W)
  BY <1>2, FS_Union
<1>5. d # c => HeldBy(d)' = HeldBy(d)
  BY DEF HeldBy
<1> QED BY <1>1, <1>3, <1>4, <1>5

\* The cache and its users are as they were.
LEMMA CacheSame ==
  ASSUME CountsOK, HoldOK, UNCHANGED <<ent, hold>>,
         \A w \in Wsis : bound'[w] = bound[w] \/ hold[w] = NoEntry \/ bound'[w] = NoQuery
  PROVE  CountsOK' /\ HoldOK'
<1>1. CountsOK'
  BY DEF CountsOK, HeldBy
<1>2. HoldOK'
  BY DEF HoldOK
<1> QED BY <1>1, <1>2

\* What a query fills stays what it is.
LEMMA FillSame ==
  ASSUME FillOK, DOMAIN q' \subseteq DOMAIN q,
         \A j \in DOMAIN q' : /\ q'[j].last = q[j].last
                              /\ q'[j].first = q[j].first /\ q'[j].got = q[j].got,
         \A j \in DOMAIN q' : q[j].first # NoEntry =>
           q[j].first \in DOMAIN ent' /\ ent'[q[j].first] = ent[q[j].first]
  PROVE  FillOK'
BY DEF FillOK, FillsOK, Ongoing

\* An entry that nobody keeps goes.
LEMMA EntryGoes ==
  ASSUME CountsOK, NEW c, c \in DOMAIN ent => ~(ent[c].ref > 0),
         DOMAIN ent' = DOMAIN ent \ {c}, \A d \in DOMAIN ent' : ent'[d] = ent[d],
         UNCHANGED hold
  PROVE  /\ CountsOK'
         /\ \A w \in Wsis : hold[w] \in DOMAIN ent => hold'[w] \in DOMAIN ent'
<1>1. CountsOK'
  BY DEF CountsOK, HeldBy
<1>2. ASSUME NEW w \in Wsis, hold[w] \in DOMAIN ent PROVE hold'[w] \in DOMAIN ent'
  BY <1>2, NoneHolds
<1> QED BY <1>1, <1>2

\* A new entry has the references of those who are told of it, W.
LEMMA EntryComes ==
  ASSUME CachedOK, CountsOK, NEW c \in Entries, c \notin DOMAIN ent, NEW entry \in EntryRec,
         AddToCache(c, entry), NEW W \in SUBSET Wsis, entry.ref = Cardinality(W),
         \A w \in W : hold[w] = NoEntry,
         \A w \in Wsis : hold[w] # NoEntry => hold[w] \in DOMAIN ent,
         \A w \in Wsis : hold'[w] = IF w \in W THEN c ELSE hold[w]
  PROVE  /\ CountsOK' /\ ent'[c] = entry /\ c \in DOMAIN ent'
         /\ \A w \in Wsis : hold'[w] # NoEntry => hold'[w] \in DOMAIN ent'
         /\ dangling' = "no" => \A d \in DOMAIN ent \cap Filling :
                                  d \in DOMAIN ent' /\ ent'[d] = ent[d]
<1>1. PICK old \in SUBSET DOMAIN ent :
        /\ \A d \in old : ~(ent[d].ref > 0)
        /\ DOMAIN ent' = (DOMAIN ent \ old) \cup {c}
        /\ ent'[c] = entry
        /\ \A d \in DOMAIN ent \ old : ent'[d] = ent[d]
        /\ dangling' = "no" => old \cap Filling = {}
  <2>1. Makes(c, entry)
    BY AddLemma
  <2> QED BY <2>1 DEF Makes
<1>2. c # NoEntry /\ NoEntry \notin DOMAIN ent
  BY DEF CachedOK, Entries, NoEntry
<1>3. Cardinality(HeldBy(c)) = 0
  <2>1. HeldBy(c) = {}
    BY <1>2 DEF HeldBy
  <2> QED BY <2>1, FS_EmptySet
<1>4. \A d : d # NoEntry => /\ Cardinality(HeldBy(c)') = Cardinality(HeldBy(c)) + Cardinality(W)
                            /\ d # c => HeldBy(d)' = HeldBy(d)
  BY <1>2, TakeResults
<1>5. Cardinality(HeldBy(c)') = Cardinality(W)
  <2>1. Cardinality(W) \in Nat
    BY AsyncDnsAssumption, FS_Subset, FS_CardinalityType
  <2> QED BY <1>2, <1>3, <1>4, <2>1
<1>6. ASSUME NEW d \in DOMAIN ent'
      PROVE  ent'[d] \in EntryRec /\ ent'[d].ref = Cardinality(HeldBy(d)')
  <2>1. CASE d = c
    BY <1>1, <1>5, <2>1
  <2>2. CASE d # c
    <3>1. d \in DOMAIN ent /\ ent'[d] = ent[d] /\ d # NoEntry
      BY <1>1, <1>2, <2>2
    <3>2. HeldBy(d)' = HeldBy(d)
      BY <1>4, <2>2, <3>1
    <3> QED BY <3>1, <3>2 DEF CountsOK
  <2> QED BY <2>1, <2>2
<1>7. ASSUME NEW w \in Wsis, hold'[w] # NoEntry PROVE hold'[w] \in DOMAIN ent'
  BY <1>1, <1>7, NoneHolds
<1>8. ASSUME dangling' = "no", NEW d \in DOMAIN ent \cap Filling
      PROVE  d \in DOMAIN ent' /\ ent'[d] = ent[d]
  BY <1>1, <1>8
<1> QED BY <1>1, <1>6, <1>7, <1>8 DEF CountsOK

\* A query that is destroyed, with nothing else in the cache changed.
LEMMA FillDestroyed ==
  ASSUME ListsOK, FillOK, NEW i, lws_adns_q_destroy(i), UNCHANGED fam,
         \A j \in DOMAIN q \ {i} : q[j].first # NoEntry =>
           q[j].first \in DOMAIN ent' /\ ent'[q[j].first] = ent[q[j].first]
  PROVE  FillOK'
<1>1. DOMAIN q' = DOMAIN q \ {i} /\ \A j \in DOMAIN q' : q'[j] = q[j]
  BY DestroyLemma DEF ListsOK
<1> QED BY <1>1, FillSame

\* What is asked for.
LEMMA AskCache ==
  ASSUME CacheInv, NEW v \in Wsis,
         \/ QueryCached(v) \/ QueryNumeric(v) \/ QueryFails(v)
         \/ QueryPiggyback(v) \/ QueryNew(v) \/ QueryNoTid(v)
  PROVE  CountsOK' /\ HoldOK' /\ (dangling' = "no" => FillOK')
<1>0. CachedOK /\ CountsOK /\ HoldOK /\ FillOK /\ hold \in [Wsis -> Entries \cup {NoEntry}]
      /\ bound \in [Wsis -> Queries \cup {NoQuery, Lost, Leaked}]
  BY DEF CacheInv, ListsOK, PeopleOK
<1>1. hold[v] = NoEntry /\ bound[v] = NoQuery
  BY DEF QueryCached, QueryNumeric, QueryFails, QueryPiggyback, QueryNew, QueryNoTid, Idle
<1>2. CASE QueryCached(v)
  <2>1. PICK c \in lws_adns_get_cache :
          IF ent[c].res = "none" THEN UNCHANGED <<ent, hold>>
          ELSE ent' = [ent EXCEPT ![c].ref = @ + 1] /\ hold' = [hold EXCEPT ![v] = c]
    BY <1>2 DEF QueryCached
  <2>2. UNCHANGED <<q, bound>>
    BY <1>2 DEF QueryCached
  <2>3. CASE UNCHANGED <<ent, hold>>
    BY <1>0, <2>2, <2>3, CacheSame, FillSame DEF FillOK, FillsOK, Ongoing
  <2>4. CASE ent' = [ent EXCEPT ![c].ref = @ + 1] /\ hold' = [hold EXCEPT ![v] = c]
    <3>1. c \in DOMAIN ent /\ ~ent[c].inc
      <4>1. c \in Range(cached) /\ Findable(c)
        BY DEF lws_adns_get_cache, Range
      <4> QED BY <1>0, <4>1 DEF CachedOK, Findable
    <3>2. /\ DOMAIN ent' = DOMAIN ent /\ ent'[c] = [ent[c] EXCEPT !.ref = ent[c].ref + 1]
          /\ \A d \in DOMAIN ent : d # c => ent'[d] = ent[d]
      BY <2>4, <3>1
    <3>3. \A w \in Wsis : hold'[w] = IF w \in {v} THEN c ELSE hold[w]
      BY <1>0, <2>4
    <3>4. c # NoEntry /\ NoEntry \notin DOMAIN ent
      BY <1>0, <3>1 DEF CachedOK, Entries, NoEntry
    <3>5. \A d : d # NoEntry => /\ Cardinality(HeldBy(c)') = Cardinality(HeldBy(c)) + Cardinality({v})
                                /\ d # c => HeldBy(d)' = HeldBy(d)
      BY <1>1, <3>3, <3>4, TakeResults
    <3>6. ent'[c] \in EntryRec /\ ent'[c].ref = Cardinality(HeldBy(c)')
      <4>1. Cardinality({v}) = 1 /\ ent[c] \in EntryRec /\ ent[c].ref = Cardinality(HeldBy(c))
        BY <1>0, <3>1, FS_Singleton DEF CountsOK
      <4>2. ent[c].ref \in Nat
        BY <4>1 DEF EntryRec
      <4> DEFINE n == ent[c].ref + 1
      <4>3. n \in Nat /\ ent'[c] = [ent[c] EXCEPT !.ref = n] /\ Cardinality(HeldBy(c)') = n
        BY <3>2, <3>4, <3>5, <4>1, <4>2
      <4> HIDE DEF n
      <4> QED BY <4>1, <4>3 DEF EntryRec
    <3>7. CountsOK'
      BY <1>0, <3>2, <3>4, <3>5, <3>6 DEF CountsOK
    <3>8. HoldOK'
      BY <1>0, <1>1, <2>2, <3>1, <3>2, <3>3 DEF HoldOK
    <3>9. FillOK'
      <4>1. \A j \in DOMAIN q : q[j].first # NoEntry => q[j].first \in DOMAIN ent /\ q[j].first # c
        BY <1>0, <3>1 DEF FillOK, FillsOK, Ongoing
      <4> QED BY <1>0, <2>2, <3>2, <4>1, FillSame
    <3> QED BY <3>7, <3>8, <3>9
  <2> QED BY <2>1, <2>3, <2>4
<1>3. CASE QueryNumeric(v)
  <2> DEFINE c == FreeEntry
             entry == [named |-> FALSE, res |-> "own", inc |-> FALSE, ref |-> 1, chain |-> FALSE]
  <2>1. /\ Room # {} /\ AddToCache(c, entry) /\ hold' = [hold EXCEPT ![v] = c]
        /\ UNCHANGED <<q, bound>>
    BY <1>3 DEF QueryNumeric
  <2>2. c \in Entries /\ c \notin DOMAIN ent
    BY <2>1, FreeEntryLemma
  <2>3. entry \in EntryRec /\ entry.ref = Cardinality({v})
    BY FS_Singleton DEF EntryRec
  <2>4. \A w \in Wsis : hold'[w] = IF w \in {v} THEN c ELSE hold[w]
    BY <1>0, <2>1
  <2>5. \A w \in Wsis : hold[w] # NoEntry => hold[w] \in DOMAIN ent
    BY <1>0 DEF HoldOK
  <2> HIDE DEF c, entry
  <2>6. /\ CountsOK'
        /\ \A w \in Wsis : hold'[w] # NoEntry => hold'[w] \in DOMAIN ent'
        /\ dangling' = "no" => \A d \in DOMAIN ent \cap Filling :
                                 d \in DOMAIN ent' /\ ent'[d] = ent[d]
    BY <1>0, <1>1, <2>1, <2>2, <2>3, <2>4, <2>5, EntryComes
  <2>7. HoldOK'
    BY <1>0, <1>1, <2>1, <2>4, <2>6 DEF HoldOK
  <2>8. ASSUME dangling' = "no" PROVE FillOK'
    <3>1. \A j \in DOMAIN q : q[j].first # NoEntry => q[j].first \in DOMAIN ent \cap Filling
      BY <1>0 DEF FillOK, FillsOK, Ongoing, Filling
    <3> QED BY <1>0, <2>1, <2>6, <2>8, <3>1, FillSame
  <2> QED BY <2>6, <2>7, <2>8
<1>4. CASE QueryPiggyback(v)
  <2>1. UNCHANGED <<q, ent, hold>> /\ \A w \in Wsis : w # v => bound'[w] = bound[w]
    BY <1>0, <1>4 DEF QueryPiggyback
  <2> QED BY <1>0, <1>1, <2>1, CacheSame, FillSame DEF FillOK, FillsOK, Ongoing
<1>5. CASE QueryNew(v)
  <2>1. PICK i \in Queries \ Ongoing, t \in lws_async_dns_get_new_tid :
          /\ q' = [j \in Ongoing \cup {i} |-> IF j = i THEN NewQuery(t) ELSE q[j]]
          /\ bound' = [bound EXCEPT ![v] = i]
    BY <1>5 DEF QueryNew
  <2>2. UNCHANGED <<ent, hold>> /\ \A w \in Wsis : w # v => bound'[w] = bound[w]
    BY <1>0, <1>5, <2>1 DEF QueryNew
  <2>3. /\ DOMAIN q' = DOMAIN q \cup {i} /\ \A j \in DOMAIN q' : j # i => q'[j] = q[j]
        /\ q'[i].last = NoEntry /\ q'[i].first = NoEntry
    BY <2>1 DEF Ongoing, NewQuery
  <2>4. CountsOK' /\ HoldOK'
    BY <1>0, <1>1, <2>2, CacheSame
  <2>5. FillOK'
    BY <1>0, <2>2, <2>3 DEF FillOK, FillsOK, Ongoing
  <2> QED BY <2>4, <2>5
<1>6. CASE QueryFails(v) \/ QueryNoTid(v)
  <2>1. UNCHANGED <<q, ent, hold>> /\ \A w \in Wsis : w # v => bound'[w] = bound[w]
    BY <1>0, <1>6 DEF QueryFails, QueryNoTid, dnsVars
  <2> QED BY <1>0, <1>1, <2>1, CacheSame, FillSame DEF FillOK, FillsOK, Ongoing
<1> QED BY <1>2, <1>3, <1>4, <1>5, <1>6

\* Close of a connection gives its reference back.
LEMMA CloseCache ==
  ASSUME CacheInv, NEW v \in Wsis, Close(v)
  PROVE  CountsOK' /\ HoldOK' /\ FillOK'
<1>0. CachedOK /\ CountsOK /\ HoldOK /\ FillOK /\ hold \in [Wsis -> Entries \cup {NoEntry}]
      /\ bound \in [Wsis -> Queries \cup {NoQuery, Lost, Leaked}]
  BY DEF CacheInv, ListsOK, PeopleOK
<1>1. /\ \A w \in Wsis : bound'[w] = IF w = v THEN NoQuery ELSE bound[w]
      /\ \A w \in Wsis : hold'[w] = IF w = v THEN NoEntry ELSE hold[w]
  BY <1>0 DEF Close
<1>2. NoEntry \notin DOMAIN ent
  BY <1>0 DEF CachedOK, Entries, NoEntry
<1>3. /\ DOMAIN ent' = DOMAIN ent
      /\ \A d \in DOMAIN ent : d # hold[v] => ent'[d] = ent[d]
      /\ hold[v] \in DOMAIN ent => ent'[hold[v]] = [ent[hold[v]] EXCEPT !.ref = ent[hold[v]].ref - 1]
  BY DEF Close, lws_async_dns_freeaddrinfo
<1>4. ASSUME NEW d \in DOMAIN ent, d # hold[v]
      PROVE  ent'[d] \in EntryRec /\ ent'[d].ref = Cardinality(HeldBy(d)')
  <2>1. HeldBy(d)' = HeldBy(d)
    BY <1>1, <1>2, <1>4 DEF HeldBy
  <2> QED BY <1>0, <1>3, <1>4, <2>1 DEF CountsOK
<1>5. ASSUME hold[v] \in DOMAIN ent
      PROVE  ent'[hold[v]] \in EntryRec /\ ent'[hold[v]].ref = Cardinality(HeldBy(hold[v]) \ {v})
             /\ ent[hold[v]].ref > 0
  <2> DEFINE c == hold[v]
  <2>1. v \in HeldBy(c)
    BY DEF HeldBy
  <2>2. Cardinality(HeldBy(c) \ {v}) = Cardinality(HeldBy(c)) - 1
    BY <2>1, HoldersFinite, FS_RemoveElement
  <2>3. Cardinality(HeldBy(c) \ {v}) \in Nat /\ Cardinality(HeldBy(c)) \in Nat
    BY HoldersFinite, FS_Subset, FS_CardinalityType
  <2>4. ent[c] \in EntryRec /\ ent[c].ref = Cardinality(HeldBy(c))
    BY <1>0, <1>5 DEF CountsOK
  <2> DEFINE n == ent[c].ref - 1
  <2>5. n \in Nat /\ n = Cardinality(HeldBy(c) \ {v}) /\ ent[c].ref > 0
    BY <2>2, <2>3, <2>4
  <2>6. ent'[c] = [ent[c] EXCEPT !.ref = n]
    BY <1>3, <1>5
  <2> HIDE DEF n, c
  <2>7. ent'[c] \in EntryRec /\ ent'[c].ref = n
    BY <2>4, <2>5, <2>6 DEF EntryRec
  <2> QED BY <2>5, <2>7 DEF c
<1>6. CountsOK'
  <2>1. ASSUME NEW d \in DOMAIN ent, d = hold[v]
        PROVE  ent'[d] \in EntryRec /\ ent'[d].ref = Cardinality(HeldBy(d)')
    <3>1. HeldBy(d)' = HeldBy(d) \ {v}
      BY <1>1, <1>2, <2>1 DEF HeldBy
    <3> QED BY <1>5, <2>1, <3>1
  <2> QED BY <1>3, <1>4, <2>1 DEF CountsOK
<1>7. HoldOK'
  BY <1>0, <1>1, <1>3 DEF HoldOK
<1>8. FillOK'
  <2>1. \A j \in DOMAIN q : q[j].first # NoEntry =>
          q[j].first \in DOMAIN ent' /\ ent'[q[j].first] = ent[q[j].first]
    BY <1>0, <1>3, <1>5 DEF FillOK, FillsOK, Ongoing
  <2>2. UNCHANGED q \/ lws_adns_q_destroy(bound[v])
    BY DEF Close, lws_async_dns_cancel
  <2>3. CASE UNCHANGED q
    BY <1>0, <2>1, <2>3, FillSame
  <2>4. CASE lws_adns_q_destroy(bound[v])
    BY <1>0, <2>1, <2>4, FillDestroyed DEF CacheInv, Close
  <2> QED BY <2>2, <2>3, <2>4
<1> QED BY <1>6, <1>7, <1>8
\* What is sent, and the failure of a query.
LEMMA SendCache ==
  ASSUME CacheInv, Send \/ \E i \in Queries : lws_async_dns_sul_cb_retry(i)
  PROVE  CountsOK' /\ HoldOK' /\ FillOK'
<1>0. CachedOK /\ CountsOK /\ HoldOK /\ FillOK /\ ListsOK /\ \A w \in Wsis : bound[w] \in Queries \cup {NoQuery, Lost, Leaked}
  BY DEF CacheInv, ListsOK, PeopleOK
<1>1. ASSUME UNCHANGED <<ent, bound, hold>>, DOMAIN q' = DOMAIN q,
             \A j \in DOMAIN q : /\ q'[j].last = q[j].last
                                 /\ q'[j].first = q[j].first /\ q'[j].got = q[j].got
      PROVE  CountsOK' /\ HoldOK' /\ FillOK'
  <2>1. CountsOK' /\ HoldOK'
    BY <1>0, <1>1, CacheSame
  <2>2. FillOK'
    BY <1>0, <1>1, FillSame DEF FillOK, FillsOK, Ongoing
  <2> QED BY <2>1, <2>2
<1>2. CASE callback_async_dns \/ Skip
  BY <1>1, <1>2 DEF callback_async_dns, Skip
<1>3. CASE WriteRequest
  <2>1. PICK i : i = Head(loop)
    OBVIOUS
  <2>2. i \in Ongoing /\ q[i] \in QueryRec
    BY <1>0, <1>3, <2>1 DEF WriteRequest, NotDue, ListsOK, QueriesOK
  <2>3. /\ UNCHANGED <<ent, bound, hold>>
        /\ \E n : q' = [q EXCEPT ![i].retry = @ + 1, ![i].sul = TRUE, ![i].asked = TRUE,
                                 ![i].sent[Which(i)] = n]
    BY <1>3, <2>1 DEF WriteRequest
  <2>4. DOMAIN q' = DOMAIN q /\ \A j \in DOMAIN q : j # i => q'[j] = q[j]
    BY <2>3
  <2>5. q'[i].last = q[i].last /\ q'[i].first = q[i].first /\ q'[i].got = q[i].got
    BY <2>2, <2>3 DEF Ongoing, QueryRec
  <2> QED BY <1>1, <2>3, <2>4, <2>5
<1>4. CASE WriteFails
  <2>1. PICK i : i = Head(loop)
    OBVIOUS
  <2>2. PICK back \in Back(i, FALSE) : lws_async_dns_complete(i, NoEntry, "none", back)
    BY <1>4, <2>1 DEF WriteFails
  <2>3. Purge(i) /\ lws_adns_q_destroy(i) /\ UNCHANGED fam /\ i \in Ongoing
    BY <1>4, <2>1 DEF WriteFails, NotDue
  <2>4. /\ DOMAIN ent' = DOMAIN ent \ {q[i].first}
        /\ \A c \in DOMAIN ent' : ent'[c] = ent[c]
    BY <1>0, <2>3, PurgeLemma
  <2>5. q[i].first \in DOMAIN ent => ent[q[i].first].ref = 0
    <3>1. NoEntry \notin DOMAIN ent
      BY <1>0 DEF CachedOK, Entries, NoEntry
    <3> QED BY <1>0, <2>3, <3>1 DEF FillOK, FillsOK
  <2>6. UNCHANGED hold
    BY <1>0, <2>2 DEF lws_async_dns_complete, CacheInv, ListsOK, PeopleOK
  <2>7. /\ CountsOK'
        /\ \A w \in Wsis : hold[w] \in DOMAIN ent => hold'[w] \in DOMAIN ent'
    BY <1>0, <2>4, <2>5, <2>6, EntryGoes
  <2>8. \A w \in Wsis : hold[w] # NoEntry => bound'[w] = NoQuery
    <3>1. \A w \in back : hold[w] = NoEntry
      BY <2>2 DEF Back
    <3>2. \A w \in Wsis : bound'[w] = IF w \in back THEN Lost
                                     ELSE IF w \in Waiters(i) THEN NoQuery ELSE bound[w]
      BY <2>2 DEF lws_async_dns_complete
    <3> QED BY <1>0, <3>1, <3>2 DEF HoldOK
  <2>9. HoldOK'
    BY <1>0, <2>6, <2>7, <2>8 DEF HoldOK
  <2>10. \A j \in DOMAIN q \ {i} : q[j].first # NoEntry =>
           q[j].first \in DOMAIN ent' /\ ent'[q[j].first] = ent[q[j].first]
    BY <1>0, <2>3, <2>4 DEF FillOK, FillsOK, Ongoing
  <2>11. FillOK'
    BY <1>0, <2>3, <2>10, FillDestroyed
  <2> QED BY <2>7, <2>9, <2>11
<1>5. ASSUME NEW i \in Queries, lws_async_dns_sul_cb_retry(i)
      PROVE  CountsOK' /\ HoldOK' /\ FillOK'
  <2>1. i \in Ongoing /\ q[i] \in QueryRec
    BY <1>0, <1>5 DEF lws_async_dns_sul_cb_retry, ListsOK, QueriesOK
  <2>2. UNCHANGED <<ent, bound, hold>> /\ q' = [q EXCEPT ![i].sul = FALSE]
    BY <1>5 DEF lws_async_dns_sul_cb_retry
  <2>3. DOMAIN q' = DOMAIN q /\ \A j \in DOMAIN q : j # i => q'[j] = q[j]
    BY <2>2
  <2>4. q'[i].last = q[i].last /\ q'[i].first = q[i].first /\ q'[i].got = q[i].got
    BY <2>1, <2>2 DEF Ongoing, QueryRec
  <2> QED BY <1>1, <2>2, <2>3, <2>4
<1> QED BY <1>2, <1>3, <1>4, <1>5 DEF Send

\* An entry expires, in use or not.
LEMMA ExpireCache ==
  ASSUME CacheInv, NEW c, sul_cb_expire(c)
  PROVE  CountsOK' /\ (dangling' = "no" => HoldOK' /\ FillOK')
<1>0. CountsOK /\ HoldOK /\ FillOK
  BY DEF CacheInv
<1>1. UNCHANGED <<q, bound, hold>>
  BY DEF sul_cb_expire
<1>2. DOMAIN ent' = DOMAIN ent \ {c} /\ \A d \in DOMAIN ent' : ent'[d] = ent[d]
  BY DEF sul_cb_expire, Restrict
<1>3. CountsOK'
  BY <1>0, <1>1, <1>2 DEF CountsOK, HeldBy
<1>4. ASSUME dangling' = "no" PROVE HoldOK' /\ FillOK'
  <2>1. ent[c].ref = 0 /\ c \notin Filling
    BY <1>4 DEF sul_cb_expire
  <2>2. \A w \in Wsis : hold[w] \in DOMAIN ent => hold'[w] \in DOMAIN ent'
    BY <1>0, <1>1, <1>2, <2>1, EntryGoes
  <2>3. HoldOK'
    BY <1>0, <1>1, <2>2 DEF HoldOK
  <2>4. \A j \in DOMAIN q : q[j].first # NoEntry => q[j].first \in DOMAIN ent'
    BY <1>0, <1>2, <2>1 DEF FillOK, FillsOK, Ongoing, Filling
  <2>5. FillOK'
    BY <1>0, <1>1, <1>2, <2>4, FillSame
  <2> QED BY <2>3, <2>5
<1> QED BY <1>3, <1>4

\* A query that is dropped without a word.
LEMMA FailOutCache ==
  ASSUME CacheInv, NEW i \in Ongoing, FailOut(i)
  PROVE  CountsOK' /\ HoldOK' /\ FillOK'
<1>0. CountsOK /\ HoldOK /\ FillOK /\ ListsOK
  BY DEF CacheInv
<1>1. UNCHANGED <<fam, ent, hold>> /\ lws_adns_q_destroy(i)
  BY DEF FailOut
<1>2. i # NoQuery
  BY <1>0, NoQueryAssumption DEF ListsOK, QueriesOK
<1>3. \A w \in Wsis : bound'[w] = bound[w] \/ hold[w] = NoEntry
  BY <1>0, <1>2 DEF FailOut, HoldOK
<1>4. CountsOK' /\ HoldOK'
  BY <1>0, <1>1, <1>3, CacheSame
<1>5. FillOK'
  BY <1>0, <1>1, FillDestroyed DEF FillOK, FillsOK, Ongoing
<1> QED BY <1>4, <1>5

\* Everybody on the list of a query is told of its entry.
LEMMA FinishHold ==
  ASSUME CacheInv, NEW i \in Ongoing, NEW c, NEW entry, Finish(i, c, entry)
  PROVE  LET W == IF entry.res = "none" THEN {} ELSE Waiters(i)
         IN  /\ W \in SUBSET Wsis
             /\ \A w \in W : hold[w] = NoEntry
             /\ \A w \in Wsis : hold'[w] = IF w \in W THEN c ELSE hold[w]
             /\ \A w \in Wsis : hold'[w] # NoEntry => bound'[w] = NoQuery
<1> DEFINE W == IF entry.res = "none" THEN {} ELSE Waiters(i)
<1> DEFINE found == entry.res # "none" \/ (~entry.inc /\ entry.named)
<1>1. PICK back \in Back(i, found) : lws_async_dns_complete(i, c, entry.res, back)
  BY DEF Finish
<1>2. /\ \A w \in Wsis : bound'[w] = IF w \in back THEN Lost
                                     ELSE IF w \in Waiters(i) THEN NoQuery ELSE bound[w]
      /\ \A w \in Wsis : hold'[w] = IF w \in Waiters(i) \ back /\ entry.res # "none"
                                    THEN c ELSE hold[w]
  BY <1>1 DEF lws_async_dns_complete
<1>3. (entry.res # "none" => back = {}) /\ \A w \in back : hold[w] = NoEntry
  BY <1>1 DEF Back
<1>4. i # NoQuery
  BY NoQueryAssumption DEF CacheInv, ListsOK, QueriesOK
<1>5. \A w \in Waiters(i) : hold[w] = NoEntry
  BY <1>4 DEF Waiters, CacheInv, HoldOK
<1>6. Waiters(i) \subseteq Wsis
  BY DEF Waiters
<1>7. \A w \in Wsis : hold[w] # NoEntry => bound[w] = NoQuery
  BY DEF CacheInv, HoldOK
<1>8. CASE entry.res = "none"
  BY <1>2, <1>3, <1>7, <1>8
<1>9. CASE entry.res # "none"
  BY <1>2, <1>3, <1>5, <1>6, <1>7, <1>9
<1> QED BY <1>8, <1>9
\* Those who are told are counted.
LEMMA ToldLemma ==
  ASSUME NEW i, NEW entry \in EntryRec, entry.ref = 0
  PROVE  LET W == IF entry.res = "none" THEN {} ELSE Waiters(i)
         IN  Told(i, entry) \in EntryRec /\ Told(i, entry).ref = Cardinality(W)
<1>1. CASE entry.res = "none"
  BY <1>1, FS_EmptySet DEF Told
<1>2. CASE entry.res # "none"
  <2> DEFINE n == Cardinality(Waiters(i))
  <2>1. n \in Nat
    BY AsyncDnsAssumption, FS_Subset, FS_CardinalityType DEF Waiters
  <2>2. Told(i, entry) = [entry EXCEPT !.ref = n]
    BY <1>2, <2>1 DEF Told
  <2> HIDE DEF n
  <2>3. Told(i, entry) \in EntryRec /\ Told(i, entry).ref = n
    BY <2>1, <2>2 DEF EntryRec
  <2> QED BY <1>2, <2>3 DEF n
<1> QED BY <1>1, <1>2

\* Answers.
LEMMA NetworkCache ==
  ASSUME CacheInv, NEW r \in net,
         \/ AnswerRefused(r) \/ AnswerCname(r)
         \/ \E records \in BOOLEAN : Answer(r, records)
  PROVE  CountsOK' /\ HoldOK' /\ (dangling' = "no" => FillOK')
<1>0. CachedOK /\ CountsOK /\ HoldOK /\ FillOK /\ ListsOK
  BY DEF CacheInv, ListsOK
<1>1. PICK i : i = ByTid(r.tid)
  OBVIOUS
<1>2. i \in Ongoing /\ q[i] \in QueryRec /\ QueryOK(i) /\ r.f \in fam
  BY <1>0, <1>1, ByTidLemma DEF ListsOK, QueriesOK
<1>a. /\ NoEntry \notin DOMAIN ent
      /\ \A w \in Wsis : hold[w] # NoEntry => hold[w] \in DOMAIN ent
  BY <1>0 DEF CachedOK, Entries, NoEntry, HoldOK
<1>b. \A j \in DOMAIN q \ {i} :
        q[j].first # NoEntry => q[j].first \in DOMAIN ent \cap Filling /\ q[j].first # q[i].first
  BY <1>0, <1>2 DEF FillOK, FillsOK, Ongoing, Filling
<1>3. CASE AnswerRefused(r)
  BY <1>1, <1>2, <1>3, FailOutCache DEF AnswerRefused
<1>4. CASE AnswerCname(r)
  <2>1. CASE FailOut(i)
    BY <1>2, <2>1, FailOutCache
  <2>2. CASE ~FailOut(i)
    <3>1. /\ \E t \in lws_async_dns_get_new_tid : q' = [q EXCEPT ![i] = Renamed(i, t)]
          /\ Purge(i) /\ UNCHANGED <<bound, hold>>
          /\ dangling' = (IF q[i].last = NoEntry THEN "no" ELSE "renamed")
      BY <1>1, <1>4, <2>2, Zenon DEF AnswerCname
    <3>2. q[i].first \in DOMAIN ent => ~(ent[q[i].first].ref > 0)
      BY <1>0, <1>2, <1>a DEF FillOK, FillsOK
    <3>3. DOMAIN ent' = DOMAIN ent \ {q[i].first} /\ \A c \in DOMAIN ent' : ent'[c] = ent[c]
      BY <1>0, <3>1, PurgeLemma, Zenon
    <3>4. /\ CountsOK'
          /\ \A w \in Wsis : hold[w] \in DOMAIN ent => hold'[w] \in DOMAIN ent'
      BY <1>0, <3>1, <3>2, <3>3, EntryGoes
    <3>5. HoldOK'
      BY <1>0, <3>1, <3>4 DEF HoldOK
    <3>6. DOMAIN q' = DOMAIN q /\ \A j \in DOMAIN q : j # i => q'[j] = q[j]
      BY <3>1
    <3>7. q'[i].first = NoEntry /\ q'[i].last = q[i].last
      <4>1. PICK t : q' = [q EXCEPT ![i] = Renamed(i, t)]
        BY <3>1
      <4>2. q'[i] = Renamed(i, t)
        BY <1>2, <4>1 DEF Ongoing
      <4>3. Renamed(i, t).first = NoEntry /\ Renamed(i, t).last = q[i].last
        BY <1>2 DEF Renamed, QueryRec
      <4> QED BY <4>2, <4>3
    <3>8. ASSUME dangling' = "no" PROVE FillOK'
      <4>1. q'[i].last = NoEntry
        BY <3>1, <3>7, <3>8
      <4>2. FillsOK(i)'
        BY <3>7, <4>1 DEF FillsOK
      <4>3. ASSUME NEW j \in DOMAIN q, j # i PROVE FillsOK(j)'
        <5>1. FillsOK(j) /\ q'[j] = q[j]
          BY <1>0, <3>6, <4>3 DEF FillOK, Ongoing
        <5>2. q[j].first # NoEntry =>
                q[j].first \in DOMAIN ent' /\ ent'[q[j].first] = ent[q[j].first]
          BY <1>b, <3>3, <4>3
        <5> QED BY <5>1, <5>2 DEF FillsOK
      <4>4. \A j, k \in DOMAIN q : j # k => q'[j].first = NoEntry \/ q'[j].first # q'[k].first
        BY <1>0, <3>6, <3>7 DEF FillOK, Ongoing
      <4> QED BY <3>6, <4>2, <4>3, <4>4 DEF FillOK, Ongoing
    <3> QED BY <3>4, <3>5, <3>8
  <2> QED BY <2>1, <2>2
<1>5. ASSUME NEW records \in BOOLEAN, Answer(r, records)
      PROVE  CountsOK' /\ HoldOK' /\ (dangling' = "no" => FillOK')
  <2>1. UNCHANGED fam
    BY <1>5 DEF Answer
  <2>2. ASSUME NEW c, NEW entry, Finish(i, c, entry),
               \A j \in DOMAIN q \ {i} : q[j].first # NoEntry =>
                 q[j].first \in DOMAIN ent' /\ ent'[q[j].first] = ent[q[j].first]
        PROVE  FillOK'
    BY <1>0, <2>1, <2>2, FillDestroyed DEF Finish
  <2>3. CASE FirstAnswer(r, records)
    <3> DEFINE c == FreeEntry
               entry == [named |-> ~records, res |-> IF records THEN "own" ELSE "none",
                         inc |-> {r.f} # fam, ref |-> 0, chain |-> FALSE]
    <3>1. c \in Entries /\ c \notin DOMAIN ent /\ c # NoEntry
      BY <2>3, FreeEntryLemma DEF FirstAnswer
    <3>2. q[i].first = NoEntry
      BY <1>1, <2>3 DEF FirstAnswer
    <3>3. entry \in EntryRec /\ entry.ref = 0 /\ entry.inc = ({r.f} # fam)
      BY DEF EntryRec
    <3>4. CASE {r.f} # fam
      <4>1. /\ AddToCache(c, entry) /\ UNCHANGED <<bound, hold>>
            /\ q' = [q EXCEPT ![i].got = {r.f}, ![i].first = c,
                              ![i].last = IF records THEN c ELSE @]
        BY <1>1, <2>3, <3>4 DEF FirstAnswer
      <4> HIDE DEF c, entry
      <4>2. Cardinality({}) = 0 /\ {} \in SUBSET Wsis
        BY FS_EmptySet
      <4>3. /\ CountsOK' /\ ent'[c] = entry /\ c \in DOMAIN ent'
            /\ \A w \in Wsis : hold'[w] # NoEntry => hold'[w] \in DOMAIN ent'
            /\ dangling' = "no" => \A d \in DOMAIN ent \cap Filling :
                                     d \in DOMAIN ent' /\ ent'[d] = ent[d]
        BY <1>0, <1>a, <3>1, <3>3, <4>1, <4>2, EntryComes
      <4>4. HoldOK'
        BY <1>0, <4>1, <4>3 DEF HoldOK
      <4>5. DOMAIN q' = DOMAIN q /\ \A j \in DOMAIN q : j # i => q'[j] = q[j]
        BY <4>1
      <4>6. q[i].last = NoEntry
        BY <1>0, <1>2, <3>2 DEF FillOK, FillsOK
      <4>7. q'[i].first = c /\ q'[i].got = {r.f} /\ q'[i].last \in {NoEntry, c}
        BY <1>2, <4>1, <4>6 DEF Ongoing, QueryRec
      <4>8. FillsOK(i)'
        BY <3>3, <3>4, <4>3, <4>7 DEF FillsOK
      <4>9. ASSUME dangling' = "no", NEW j \in DOMAIN q, j # i PROVE FillsOK(j)'
        <5>1. FillsOK(j) /\ q'[j] = q[j]
          BY <1>0, <4>5, <4>9 DEF FillOK, Ongoing
        <5>2. q[j].first # NoEntry =>
                q[j].first \in DOMAIN ent' /\ ent'[q[j].first] = ent[q[j].first]
          BY <1>b, <4>3, <4>9
        <5> QED BY <5>1, <5>2 DEF FillsOK
      <4>10. ASSUME NEW j \in DOMAIN q, NEW k \in DOMAIN q, j # k
             PROVE  q'[j].first = NoEntry \/ q'[j].first # q'[k].first
        BY <1>0, <1>b, <3>1, <4>5, <4>7, <4>10 DEF FillOK, Ongoing
      <4>11. dangling' = "no" => FillOK'
        BY <4>5, <4>8, <4>9, <4>10 DEF FillOK, Ongoing
      <4> QED BY <4>3, <4>4, <4>11
    <3>5. CASE {r.f} = fam
      <4>1. AddToCache(c, Told(i, entry)) /\ Finish(i, c, entry)
        BY <1>1, <2>3, <3>5 DEF FirstAnswer
      <4> HIDE DEF c, entry
      <4> DEFINE W == IF entry.res = "none" THEN {} ELSE Waiters(i)
      <4>2. /\ W \in SUBSET Wsis /\ \A w \in W : hold[w] = NoEntry
            /\ \A w \in Wsis : hold'[w] = IF w \in W THEN c ELSE hold[w]
            /\ \A w \in Wsis : hold'[w] # NoEntry => bound'[w] = NoQuery
        BY <1>2, <4>1, FinishHold
      <4>3. Told(i, entry) \in EntryRec /\ Told(i, entry).ref = Cardinality(W)
        BY <3>3, <4>2, ToldLemma
      <4> HIDE DEF W
      <4>4. /\ CountsOK'
            /\ \A w \in Wsis : hold'[w] # NoEntry => hold'[w] \in DOMAIN ent'
            /\ dangling' = "no" => \A d \in DOMAIN ent \cap Filling :
                                     d \in DOMAIN ent' /\ ent'[d] = ent[d]
        BY <1>0, <1>a, <3>1, <4>1, <4>2, <4>3, EntryComes
      <4>5. HoldOK'
        BY <4>2, <4>4 DEF HoldOK
      <4>6. ASSUME dangling' = "no" PROVE FillOK'
        BY <1>b, <2>2, <4>1, <4>4, <4>6
      <4> QED BY <4>4, <4>5, <4>6
    <3> QED BY <3>4, <3>5
  <2>4. CASE SecondAnswer(r, records)
    <3>0. PICK c : c = q[i].first
      OBVIOUS
    <3> DEFINE res == IF records /\ q[i].last = NoEntry THEN "chain" ELSE ent[c].res
           entry == [ent[c] EXCEPT !.res = res, !.chain = TRUE]
    <3>1. /\ c # NoEntry /\ ent' = [ent EXCEPT ![c] = Told(i, entry)]
          /\ Finish(i, c, entry)
      BY <1>1, <2>4, <3>0 DEF SecondAnswer
    <3>2. c \in DOMAIN ent /\ ent[c].ref = 0 /\ ent[c] \in EntryRec
      BY <1>0, <1>2, <3>0, <3>1 DEF FillOK, FillsOK, CountsOK
    <3>3. res \in {"none", "own", "chain"}
      BY <3>2 DEF EntryRec
    <3>4. entry = [ent[c] EXCEPT !.res = res, !.chain = TRUE]
      OBVIOUS
    <3> HIDE DEF res, entry
    <3>5. entry \in EntryRec /\ entry.ref = 0
      BY <3>2, <3>3, <3>4 DEF EntryRec
    <3> DEFINE W == IF entry.res = "none" THEN {} ELSE Waiters(i)
    <3>6. /\ W \in SUBSET Wsis /\ \A w \in W : hold[w] = NoEntry
          /\ \A w \in Wsis : hold'[w] = IF w \in W THEN c ELSE hold[w]
          /\ \A w \in Wsis : hold'[w] # NoEntry => bound'[w] = NoQuery
      BY <1>2, <3>1, FinishHold
    <3>7. Told(i, entry) \in EntryRec /\ Told(i, entry).ref = Cardinality(W)
      BY <3>5, <3>6, ToldLemma
    <3> HIDE DEF W
    <3>8. DOMAIN ent' = DOMAIN ent /\ ent'[c] = Told(i, entry)
          /\ \A d \in DOMAIN ent : d # c => ent'[d] = ent[d]
      BY <3>1, <3>2
    <3>9. \A d : d # NoEntry => /\ Cardinality(HeldBy(c)') = Cardinality(HeldBy(c)) + Cardinality(W)
                                /\ d # c => HeldBy(d)' = HeldBy(d)
      BY <3>1, <3>6, TakeResults
    <3>10. Cardinality(HeldBy(c)') = Cardinality(W)
      <4>1. Cardinality(HeldBy(c)) = 0
        BY <1>0, <3>2 DEF CountsOK
      <4>2. Cardinality(W) \in Nat
        BY <3>6, AsyncDnsAssumption, FS_Subset, FS_CardinalityType
      <4> QED BY <3>1, <3>9, <4>1, <4>2
    <3>11. CountsOK'
      <4>1. ASSUME NEW d \in DOMAIN ent, d # c
            PROVE  ent'[d] \in EntryRec /\ ent'[d].ref = Cardinality(HeldBy(d)')
        <5>1. HeldBy(d)' = HeldBy(d)
          BY <1>a, <3>9, <4>1
        <5> QED BY <1>0, <3>8, <4>1, <5>1 DEF CountsOK
      <4>2. ent'[c] \in EntryRec /\ ent'[c].ref = Cardinality(HeldBy(c)')
        BY <3>7, <3>8, <3>10
      <4> QED BY <3>8, <4>1, <4>2 DEF CountsOK
    <3>12. HoldOK'
      BY <1>a, <3>2, <3>6, <3>8 DEF HoldOK
    <3>13. FillOK'
      <4>1. \A j \in DOMAIN q \ {i} : q[j].first # NoEntry =>
              q[j].first \in DOMAIN ent' /\ ent'[q[j].first] = ent[q[j].first]
        BY <1>b, <3>0, <3>8
      <4> QED BY <2>2, <3>1, <4>1
    <3> QED BY <3>11, <3>12, <3>13
  <2> QED BY <1>5, <2>3, <2>4 DEF Answer
<1> QED BY <1>3, <1>4, <1>5

LEMMA CacheNext ==
  ASSUME CacheInd, [DnsNext]_dnsVars PROVE CacheInd'
<1>1. ListsOK'
  BY ListsNext DEF CacheInd
<1>2. CASE UNCHANGED dnsVars
  <2>1. CountsOK'
    BY <1>2 DEF CacheInd, CountsOK, HeldBy, dnsVars
  <2>2. HoldOK => HoldOK'
    BY <1>2 DEF HoldOK, dnsVars
  <2>3. FillOK => FillOK'
    BY <1>2 DEF FillOK, FillsOK, Ongoing, dnsVars
  <2>4. UNCHANGED dangling
    BY <1>2 DEF dnsVars
  <2> QED BY <1>1, <2>1, <2>2, <2>3, <2>4 DEF CacheInd
<1>3. CASE ~UNCHANGED dnsVars
  <2>1. dangling = "no"
    <3>1. DnsNext /\ ~Undefined
      BY <1>3 DEF Undefined
    <3> QED BY <3>1, Zenon
            DEF DnsNext, Ask, Network, Send, Running, Idle, Answered, QueryCached, QueryNumeric,
                QueryFails, QueryPiggyback, QueryNew, QueryNoTid, AnswerRefused, AnswerCname,
                Answer, callback_async_dns, Skip, WriteRequest, WriteFails,
                lws_async_dns_sul_cb_retry, Close, sul_cb_expire
  <2>2. CacheInv
    BY <2>1 DEF CacheInd, CacheInv
  <2>3. CountsOK' /\ (dangling' = "no" => HoldOK' /\ FillOK')
    BY <1>3, <2>2, AskCache, NetworkCache, SendCache, CloseCache, ExpireCache
       DEF DnsNext, Ask, Network, Undefined
  <2> QED BY <1>1, <2>3 DEF CacheInd
<1> QED BY <1>2, <1>3

\* The cache is sound for any number of connections, queries and entries,
\* through answers, retries, trims, closes and failures in any order, until an
\* entry expires that is in use, one is trimmed that a query is filling, or a
\* CNAME comes behind results: reference counts are those of the connections
\* that keep results, nothing that is pointed to is freed
\* (lws_async_dns_trim_cache(), lws_async_dns_freeaddrinfo()), and an entry
\* still being filled is not found.
THEOREM CacheIsSoundHolds == DnsSpec => []CacheIsSound
<1>1. DnsInit => CacheInd
  <2> SUFFICES ASSUME DnsInit PROVE CountsOK /\ HoldOK /\ FillOK
    BY ListsInit DEF CacheInd
  <2>1. DOMAIN ent = {} /\ DOMAIN q = {} /\ \A w \in Wsis : hold[w] = NoEntry
    BY DEF DnsInit
  <2> QED BY <2>1 DEF CountsOK, HoldOK, FillOK, Ongoing
<1>2. CacheInd /\ [DnsNext]_dnsVars => CacheInd'
  BY CacheNext
<1>3. CacheInd => CacheIsSound
  <2> SUFFICES ASSUME CacheInd PROVE CacheIsSound
    OBVIOUS
  <2>1. DnsTypeOK
    BY DEF DnsTypeOK, CacheInd, ListsOK, QueriesOK, CachedOK, PeopleOK, CountsOK
  <2>2. CountsAreExact
    BY DEF CacheInd, CountsOK, HeldBy, CountsAreExact
  <2>3. dangling = "no" => PointersAreLive
    BY DEF CacheInd, HoldOK, FillOK, FillsOK, PointersAreLive
  <2>4. dangling = "no" => CacheIsComplete
    BY DEF CacheInd, FillOK, FillsOK, CacheIsComplete, Findable
  <2> QED BY <2>1, <2>2, <2>3, <2>4 DEF CacheIsSound
<1> QED BY <1>1, <1>2, <1>3, PTL DEF DnsSpec
=============================================================================
