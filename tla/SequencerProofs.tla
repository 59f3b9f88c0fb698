-------------------------- MODULE SequencerProofs --------------------------
(***************************************************************************)
(* The timer list of a service thread stays sorted and only reaches        *)
(* sequencers that are there, and lws_seq_check_wsi() is right, for any    *)
(* number of sequencers, timeouts and queued events.                       *)
(***************************************************************************)
EXTENDS Sequencer, SequenceTheorems, WellFoundedInduction, TLAPS

-----------------------------------------------------------------------------
(* Lists: what lws_dll2_remove() and lws_dll2_add_sorted() leave where *)

\* A list without what was at place i: the places before it stay, those after
\* move up.
LEMMA CutAt ==
  ASSUME NEW S, NEW list \in Seq(S), NEW i \in DOMAIN list
  PROVE  LET l == SubSeq(list, 1, i - 1) \o SubSeq(list, i + 1, Len(list))
         IN  /\ l \in Seq(S) /\ DOMAIN l = 1 .. Len(list) - 1 /\ Len(list) \in Nat
             /\ \A j \in DOMAIN l : l[j] = IF j < i THEN list[j] ELSE list[j + 1]
<1> DEFINE a == SubSeq(list, 1, i - 1)
           b == SubSeq(list, i + 1, Len(list))
           l == a \o b
           n == Len(list)
<1>1. DOMAIN list = 1 .. n /\ n \in Nat /\ i \in 1 .. n /\ \A j \in 1 .. n : list[j] \in S
  BY LenProperties, ElementOfSeq
<1>2. /\ a \in Seq(S) /\ Len(a) = IF 1 <= i - 1 THEN (i - 1) - 1 + 1 ELSE 0
      /\ \A j \in 1 .. ((i - 1) - 1 + 1) : a[j] = list[1 + j - 1]
  BY <1>1, SubSeqProperties
<1>3. /\ b \in Seq(S) /\ Len(b) = IF i + 1 <= n THEN n - (i + 1) + 1 ELSE 0
      /\ \A j \in 1 .. (n - (i + 1) + 1) : b[j] = list[(i + 1) + j - 1]
  BY <1>1, SubSeqProperties
<1>4. /\ l \in Seq(S) /\ Len(l) = Len(a) + Len(b)
      /\ \A j \in 1 .. (Len(a) + Len(b)) : l[j] = IF j <= Len(a) THEN a[j] ELSE b[j - Len(a)]
  BY <1>2, <1>3, ConcatProperties
<1> HIDE DEF a, b, l, n
<1>5. Len(a) = i - 1 /\ Len(b) = n - i
  BY <1>1, <1>2, <1>3
<1>6. ASSUME NEW j \in 1 .. (n - 1)
      PROVE  l[j] = IF j < i THEN list[j] ELSE list[j + 1]
  <2>1. CASE j < i
    <3>1. j \in 1 .. ((i - 1) - 1 + 1) /\ 1 + j - 1 = j
      BY <1>1, <2>1
    <3>2. j \in 1 .. (Len(a) + Len(b)) /\ j <= Len(a)
      BY <1>1, <1>5, <2>1
    <3> QED BY <1>2, <1>4, <2>1, <3>1, <3>2
  <2>2. CASE ~(j < i)
    <3>1. j - Len(a) \in 1 .. (n - (i + 1) + 1) /\ (i + 1) + (j - Len(a)) - 1 = j + 1
      BY <1>1, <1>5, <2>2
    <3>2. j \in 1 .. (Len(a) + Len(b)) /\ ~(j <= Len(a))
      BY <1>1, <1>5, <2>2
    <3> QED BY <1>3, <1>4, <2>2, <3>1, <3>2
  <2> QED BY <2>1, <2>2
<1>7. DOMAIN l = 1 .. (n - 1)
  BY <1>1, <1>4, <1>5, LenProperties
<1> QED BY <1>1, <1>4, <1>6, <1>7 DEF l, a, b, n

\* l is list with e put before its i-th
IsPut(l, S, list, i, e) ==
  /\ l \in Seq(S) /\ DOMAIN l = 1 .. Len(list) + 1
  /\ \A j \in DOMAIN l : l[j] = IF j < i THEN list[j] ELSE IF j = i THEN e ELSE list[j - 1]

\* A list with e put at place i: the places from i on move down.
LEMMA PutAt ==
  ASSUME NEW S, NEW list \in Seq(S), NEW i \in 1 .. Len(list) + 1, NEW e \in S
  PROVE  IsPut(SubSeq(list, 1, i - 1) \o <<e>> \o SubSeq(list, i, Len(list)), S, list, i, e)
<1> DEFINE a == SubSeq(list, 1, i - 1)
           b == SubSeq(list, i, Len(list))
           d == <<e>>
           c == a \o d
           l == c \o b
           n == Len(list)
<1>1. DOMAIN list = 1 .. n /\ n \in Nat /\ i \in 1 .. n + 1 /\ \A j \in 1 .. n : list[j] \in S
  BY LenProperties, ElementOfSeq
<1>2. /\ a \in Seq(S) /\ Len(a) = IF 1 <= i - 1 THEN (i - 1) - 1 + 1 ELSE 0
      /\ \A j \in 1 .. ((i - 1) - 1 + 1) : a[j] = list[1 + j - 1]
  BY <1>1, SubSeqProperties
<1>3. /\ b \in Seq(S) /\ Len(b) = IF i <= n THEN n - i + 1 ELSE 0
      /\ \A j \in 1 .. (n - i + 1) : b[j] = list[i + j - 1]
  BY <1>1, SubSeqProperties
<1>4. d \in Seq(S) /\ Len(d) = 1 /\ d[1] = e
  OBVIOUS
<1> HIDE DEF d
<1>5. /\ c \in Seq(S) /\ Len(c) = Len(a) + 1
      /\ \A j \in 1 .. (Len(a) + 1) : c[j] = IF j <= Len(a) THEN a[j] ELSE d[j - Len(a)]
  <2>1. /\ c \in Seq(S) /\ Len(c) = Len(a) + Len(d)
        /\ \A j \in 1 .. (Len(a) + Len(d)) : c[j] = IF j <= Len(a) THEN a[j] ELSE d[j - Len(a)]
    BY <1>2, <1>4, ConcatProperties
  <2> QED BY <1>4, <2>1
<1> HIDE DEF c
<1>6. /\ l \in Seq(S) /\ Len(l) = Len(c) + Len(b)
      /\ \A j \in 1 .. (Len(c) + Len(b)) : l[j] = IF j <= Len(c) THEN c[j] ELSE b[j - Len(c)]
  <2>1. c \in Seq(S) /\ b \in Seq(S)
    BY <1>3, <1>5
  <2> QED BY <2>1, ConcatProperties
<1> HIDE DEF a, b, l, n
<1>7. Len(a) = i - 1 /\ Len(c) = i /\ Len(b) = n - i + 1
  BY <1>1, <1>2, <1>3, <1>5
<1>8. ASSUME NEW j \in 1 .. (n + 1)
      PROVE  l[j] = IF j < i THEN list[j] ELSE IF j = i THEN e ELSE list[j - 1]
  <2>0. j \in 1 .. (Len(c) + Len(b))
    BY <1>1, <1>7
  <2>1. CASE j < i
    <3>1. j \in 1 .. ((i - 1) - 1 + 1) /\ 1 + j - 1 = j
      BY <1>1, <2>1
    <3>2. j \in 1 .. (Len(a) + 1) /\ j <= Len(a) /\ j <= Len(c)
      BY <1>1, <1>7, <2>1
    <3> QED BY <1>2, <1>5, <1>6, <2>0, <2>1, <3>1, <3>2
  <2>2. CASE j = i
    <3>1. j \in 1 .. (Len(a) + 1) /\ ~(j <= Len(a)) /\ j <= Len(c) /\ j - Len(a) = 1
      BY <1>1, <1>7, <2>2
    <3>2. l[j] = c[j] /\ c[j] = d[1]
      BY <1>5, <1>6, <2>0, <3>1
    <3> QED BY <1>1, <1>4, <2>2, <3>2
  <2>3. CASE j > i
    <3>1. j - Len(c) \in 1 .. (n - i + 1) /\ i + (j - Len(c)) - 1 = j - 1 /\ ~(j <= Len(c))
      BY <1>1, <1>7, <2>3
    <3>2. ~(j < i) /\ j # i
      BY <1>1, <2>3
    <3> QED BY <1>3, <1>6, <2>0, <3>1, <3>2
  <2> QED BY <1>1, <2>1, <2>2, <2>3
<1>9. DOMAIN l = 1 .. (n + 1)
  BY <1>1, <1>6, <1>7, LenProperties
<1>10. IsPut(l, S, list, i, e)
  BY <1>6, <1>8, <1>9 DEF IsPut, n
<1> QED BY <1>10 DEF l, a, b, c, d

-----------------------------------------------------------------------------
(* The sorted list of timers *)

Entry == [sul : SulIds, us : Int]

InOrder(l) == \A i, j \in DOMAIN l : i < j => l[i].us <= l[j].us /\ l[i].sul # l[j].sul

\* every entry of l is one of k
Within(l, k) == \A i \in DOMAIN l : \E j \in DOMAIN k : l[i] = k[j]

\* lws_dll2_remove() of a timer leaves the list in order, without the timer.
LEMMA Removed ==
  ASSUME NEW list \in Seq(Entry), InOrder(list), NEW sul
  PROVE  LET l == lws_dll2_remove(list, Places(list, sul))
         IN  /\ l \in Seq(Entry) /\ InOrder(l) /\ Within(l, list)
             /\ \A i \in DOMAIN l : l[i].sul # sul
<1> DEFINE l == lws_dll2_remove(list, Places(list, sul))
<1>1. CASE Places(list, sul) = {}
  BY <1>1 DEF lws_dll2_remove, Places, Within
<1>2. CASE Places(list, sul) # {}
  <2> DEFINE i == CHOOSE i \in Places(list, sul) : TRUE
  <2>1. i \in DOMAIN list /\ list[i].sul = sul
    BY <1>2 DEF Places
  <2>2. l = SubSeq(list, 1, i - 1) \o SubSeq(list, i + 1, Len(list))
    BY <1>2 DEF lws_dll2_remove
  <2> HIDE DEF l, i
  <2>3. /\ l \in Seq(Entry) /\ DOMAIN l = 1 .. Len(list) - 1 /\ Len(list) \in Nat
        /\ \A j \in DOMAIN l : l[j] = IF j < i THEN list[j] ELSE list[j + 1]
    BY <2>1, <2>2, CutAt
  <2>4. DOMAIN list = 1 .. Len(list)
    BY LenProperties
  <2> DEFINE at(j) == IF j < i THEN j ELSE j + 1
  <2>5. \A j \in DOMAIN l : at(j) \in DOMAIN list /\ at(j) # i /\ l[j] = list[at(j)]
    BY <2>1, <2>3, <2>4
  <2>6. \A j, k \in DOMAIN l : j < k => at(j) < at(k)
    BY <2>1, <2>3, <2>4
  <2> HIDE DEF at
  <2>7. InOrder(l) /\ Within(l, list)
    BY <2>5, <2>6 DEF InOrder, Within
  <2>8. ASSUME NEW j \in DOMAIN l PROVE l[j].sul # sul
    <3>1. at(j) < i \/ i < at(j)
      BY <2>1, <2>4, <2>5
    <3> QED BY <2>1, <2>5, <3>1 DEF InOrder
  <2> QED BY <2>3, <2>7, <2>8 DEF l
<1> QED BY <1>1, <1>2

\* A set of naturals has a least element.
LEMMA LeastOf ==
  ASSUME NEW T, T \subseteq Nat, T # {}
  PROVE  \E x \in T : \A y \in T : x <= y
<1> DEFINE R == OpToRel(<, Nat)
<1>1. IsWellFoundedOn(R, Nat)
  BY NatLessThanWellFounded
<1>2. \A x, y \in Nat : y < x => <<y, x>> \in R
  BY DEF OpToRel
<1> HIDE DEF R
<1>3. PICK x \in T : \A y \in T : ~(<<y, x>> \in R)
  BY <1>1, WFMin
<1>4. \A y \in T : x \in Nat /\ y \in Nat /\ ~(y < x)
  BY <1>2, <1>3
<1>5. \A y \in T : x <= y
  BY <1>4
<1> QED BY <1>5

\* lws_dll2_add_sorted() of a timer that is not listed leaves the list in
\* order.
LEMMA Added ==
  ASSUME NEW list \in Seq(Entry), InOrder(list), NEW e \in Entry,
         \A i \in DOMAIN list : list[i].sul # e.sul
  PROVE  LET l == lws_dll2_add_sorted(list, e)
         IN  /\ l \in Seq(Entry) /\ InOrder(l)
             /\ \A i \in DOMAIN l : l[i] = e \/ \E j \in DOMAIN list : l[i] = list[j]
<1> DEFINE n == Len(list)
           P(i) == /\ \A j \in 1 .. i - 1 : list[j].us < e.us
                   /\ i <= n => list[i].us >= e.us
           i == CHOOSE i \in 1 .. n + 1 : P(i)
           l == lws_dll2_add_sorted(list, e)
           T == {k \in 1 .. n + 1 : k <= n => list[k].us >= e.us}
<1>1. DOMAIN list = 1 .. n /\ n \in Nat /\ \A j \in 1 .. n : list[j] \in Entry
  BY LenProperties, ElementOfSeq
<1>2. e.us \in Int /\ \A j \in 1 .. n : list[j].us \in Int
  BY <1>1 DEF Entry
<1>3. \E k \in 1 .. n + 1 : P(k)
  <2>1. T \subseteq Nat /\ n + 1 \in T
    BY <1>1
  <2>2. PICK k \in T : \A y \in T : k <= y
    BY <2>1, LeastOf
  <2>3. ASSUME NEW j \in 1 .. k - 1 PROVE list[j].us < e.us
    BY <1>1, <1>2, <2>2
  <2> QED BY <2>2, <2>3
<1>4. i \in 1 .. n + 1 /\ P(i)
  BY <1>3
<1> DEFINE m == SubSeq(list, 1, i - 1) \o <<e>> \o SubSeq(list, i, Len(list))
<1>5. l = m
  BY DEF lws_dll2_add_sorted
<1> HIDE DEF i, l, P
<1>6. i \in 1 .. Len(list) + 1 /\ i \in 1 .. n + 1 /\ i \in Nat
  BY <1>1, <1>4
<1>7. /\ l \in Seq(Entry) /\ DOMAIN l = 1 .. n + 1
      /\ \A j \in 1 .. n + 1 : l[j] = IF j < i THEN list[j] ELSE IF j = i THEN e ELSE list[j - 1]
  <2>1. IsPut(m, Entry, list, i, e)
    BY <1>6, PutAt, Zenon
  <2> HIDE DEF m
  <2> QED BY <1>5, <2>1 DEF IsPut
<1> HIDE DEF n
<1>8. /\ \A j \in 1 .. i - 1 : list[j].us < e.us /\ j \in DOMAIN list
      /\ \A j \in i .. n : list[j].us >= e.us /\ j \in DOMAIN list
  <2>1. \A j \in 1 .. i - 1 : list[j].us < e.us /\ j \in DOMAIN list
    BY <1>1, <1>4 DEF P
  <2>2. ASSUME NEW j \in i .. n PROVE list[j].us >= e.us /\ j \in DOMAIN list
    <3>1. j \in 1 .. n /\ i \in 1 .. n /\ list[i].us >= e.us
      BY <1>1, <1>4, <1>6 DEF P
    <3>2. CASE j = i
      BY <1>1, <3>1, <3>2
    <3>3. CASE i < j
      <4>1. list[i].us <= list[j].us
        BY <1>1, <3>1, <3>3 DEF InOrder
      <4> QED BY <1>1, <1>2, <3>1, <4>1
    <3> QED BY <1>1, <3>1, <3>2, <3>3
  <2> QED BY <2>1, <2>2
<1>9. InOrder(l)
  <2> SUFFICES ASSUME NEW j \in 1 .. n + 1, NEW k \in 1 .. n + 1, j < k
               PROVE  l[j].us <= l[k].us /\ l[j].sul # l[k].sul
    BY <1>7 DEF InOrder
  <2>1. CASE k < i
    <3>1. j \in 1 .. n /\ k \in 1 .. n /\ j < i
      BY <1>1, <1>6, <2>1
    <3>2. l[j] = list[j] /\ l[k] = list[k]
      BY <1>7, <2>1, <3>1
    <3> QED BY <1>1, <3>1, <3>2 DEF InOrder
  <2>2. CASE k = i
    <3>1. j \in 1 .. i - 1 /\ l[j] = list[j] /\ l[k] = e
      BY <1>1, <1>6, <1>7, <2>2
    <3> QED BY <1>1, <1>2, <1>8, <3>1
  <2>3. CASE i < k /\ j < i
    <3>1. j \in DOMAIN list /\ k - 1 \in DOMAIN list /\ j < k - 1
      BY <1>1, <1>6, <2>3
    <3>2. ~(k < i) /\ k # i
      BY <1>1, <1>6, <2>3
    <3>3. l[j] = list[j] /\ l[k] = list[k - 1]
      BY <1>7, <2>3, <3>2
    <3> QED BY <3>1, <3>3 DEF InOrder
  <2>4. CASE i < k /\ j = i
    <3>1. k - 1 \in i .. n /\ ~(k < i) /\ k # i /\ ~(j < i)
      BY <1>1, <1>6, <2>4
    <3>2. l[j] = e /\ l[k] = list[k - 1]
      BY <1>7, <2>4, <3>1
    <3> QED BY <1>1, <1>2, <1>8, <3>1, <3>2
  <2>5. CASE i < k /\ i < j
    <3>1. /\ j - 1 \in DOMAIN list /\ k - 1 \in DOMAIN list /\ j - 1 < k - 1
      BY <1>1, <1>6, <2>5
    <3>2. ~(k < i) /\ k # i /\ ~(j < i) /\ j # i
      BY <1>1, <1>6, <2>5
    <3>3. l[j] = list[j - 1] /\ l[k] = list[k - 1]
      BY <1>7, <3>2
    <3> QED BY <3>1, <3>3 DEF InOrder
  <2> QED BY <1>1, <1>6, <2>1, <2>2, <2>3, <2>4, <2>5
<1>10. ASSUME NEW j \in DOMAIN l PROVE l[j] = e \/ \E k \in DOMAIN list : l[j] = list[k]
  <2>1. j \in 1 .. n + 1
    BY <1>7
  <2>2. CASE j < i
    <3>1. j \in DOMAIN list
      BY <1>1, <1>6, <2>1, <2>2
    <3> QED BY <1>7, <2>1, <2>2, <3>1
  <2>3. CASE j = i
    <3>1. ~(j < i)
      BY <1>1, <1>6, <2>3
    <3> QED BY <1>7, <2>1, <2>3, <3>1
  <2>4. CASE i < j
    <3>1. j - 1 \in DOMAIN list /\ ~(j < i) /\ j # i
      BY <1>1, <1>6, <2>1, <2>4
    <3> QED BY <1>7, <2>1, <3>1
  <2> QED BY <1>1, <1>6, <2>1, <2>2, <2>3, <2>4
<1> QED BY <1>7, <1>9, <1>10 DEF l

-----------------------------------------------------------------------------
(* What may be on the list *)

\* what a sequencer may be that a timer, a list or another thread reaches
Reachable == {"live", "going"} \cup (IF Racing THEN {"freed"} ELSE {})
Active == IF Racing THEN {"live", "going", "freed"} ELSE {"live"}

EntryOK(e, lives, inPass) ==
  /\ e.sul # Heartbeat => lives[e.sul[2]] \in Reachable
  /\ ~inPass => e.us > 0

\* the timers on the list l, when the sequencers are as lives says
ListOK(l, lives, inPass) ==
  /\ l \in Seq(Entry) /\ InOrder(l)
  /\ \A i \in DOMAIN l : EntryOK(l[i], lives, inPass)

\* Taking a timer off leaves the list right.
LEMMA RemovedList ==
  ASSUME NEW lives, NEW p, NEW list, ListOK(list, lives, p), NEW sul
  PROVE  LET l == lws_dll2_remove(list, Places(list, sul))
         IN  /\ ListOK(l, lives, p) /\ Within(l, list)
             /\ \A i \in DOMAIN l : l[i].sul # sul
BY Removed DEF ListOK, Within

\* __lws_sul_insert() moves a timer, or cancels it, and leaves the list
\* right.
LEMMA InsertedList ==
  ASSUME NEW lives, NEW p, NEW list, ListOK(list, lives, p), NEW sul \in SulIds,
         NEW now \in Nat, NEW us \in Int,
         us = Cancel \/ EntryOK([sul |-> sul, us |-> now + us], lives, p)
  PROVE  ListOK(__lws_sul_insert(list, sul, now, us), lives, p)
<1> DEFINE r == lws_dll2_remove(list, Places(list, sul))
           e == [sul |-> sul, us |-> now + us]
<1>1. ListOK(r, lives, p) /\ \A i \in DOMAIN r : r[i].sul # sul
  BY RemovedList
<1>2. e \in Entry /\ e.sul = sul
  BY DEF Entry
<1>3. CASE us = Cancel
  BY <1>1, <1>3 DEF __lws_sul_insert
<1>4. CASE us # Cancel
  <2>1. __lws_sul_insert(list, sul, now, us) = lws_dll2_add_sorted(r, e) /\ EntryOK(e, lives, p)
    BY <1>4 DEF __lws_sul_insert
  <2> HIDE DEF r, e
  <2> DEFINE l == lws_dll2_add_sorted(r, e)
  <2>2. r \in Seq(Entry) /\ InOrder(r) /\ \A i \in DOMAIN r : r[i].sul # e.sul
    BY <1>1, <1>2 DEF ListOK
  <2>3. /\ l \in Seq(Entry) /\ InOrder(l)
        /\ \A i \in DOMAIN l : l[i] = e \/ \E j \in DOMAIN r : l[i] = r[j]
    BY <1>2, <2>2, Added
  <2> HIDE DEF l
  <2>4. \A i \in DOMAIN l : EntryOK(l[i], lives, p)
    BY <1>1, <2>1, <2>3 DEF ListOK
  <2> QED BY <2>1, <2>3, <2>4 DEF ListOK, l
<1> QED BY <1>3, <1>4

\* Serving the first timer leaves the list right.
LEMMA TailList ==
  ASSUME NEW lives, NEW p, NEW list, ListOK(list, lives, p), list # <<>>
  PROVE  /\ ListOK(Tail(list), lives, p) /\ Within(Tail(list), list)
         /\ Head(list) = list[1] /\ 1 \in DOMAIN list
<1>1. list \in Seq(Entry) /\ InOrder(list)
  BY DEF ListOK
<1>2. /\ Tail(list) \in Seq(Entry) /\ Len(Tail(list)) = Len(list) - 1 /\ Len(list) \in Nat
      /\ \A i \in 1 .. Len(Tail(list)) : Tail(list)[i] = list[i + 1]
      /\ DOMAIN list = 1 .. Len(list) /\ Len(list) # 0
  BY <1>1, HeadTailProperties, LenProperties, EmptySeq
<1>3. DOMAIN Tail(list) = 1 .. Len(list) - 1
  BY <1>2, LenProperties
<1>4. \A i \in DOMAIN Tail(list) : Tail(list)[i] = list[i + 1] /\ i + 1 \in DOMAIN list
  BY <1>2, <1>3
<1>5. InOrder(Tail(list))
  BY <1>1, <1>2, <1>3, <1>4 DEF InOrder
<1>6. Within(Tail(list), list)
  BY <1>4 DEF Within
<1> QED BY <1>1, <1>2, <1>4, <1>5, <1>6 DEF ListOK, Within

-----------------------------------------------------------------------------
(* The heartbeat's walk over the sequencers *)

Woke(lists, n) == {__lws_sul_insert(l, Pending(seq_owner[n]), lag, 1) : l \in lists}

\* g is what Woken's recursive function is up to k
IsAfter(g, k, list) ==
  g = [n \in 0 .. k |-> IF n = 0 THEN {list} ELSE Woke(g[n - 1], n)]

\* There is a list after k steps of the heartbeat: by the least k without
\* one.
LEMMA AfterExists ==
  ASSUME NEW list, NEW k \in Nat
  PROVE  \E g : IsAfter(g, k, list)
<1> DEFINE T == {m \in Nat : ~ \E g : IsAfter(g, m, list)}
<1> SUFFICES ASSUME T # {} PROVE FALSE
  OBVIOUS
<1>1. T \subseteq Nat
  OBVIOUS
<1>2. PICK m \in T : \A y \in T : m <= y
  BY <1>1, LeastOf
<1>3. m \in Nat /\ ~ \E g : IsAfter(g, m, list)
  BY <1>2
<1>4. CASE m = 0
  <2> DEFINE g == [n \in 0 .. 0 |-> {list}]
  <2>1. \A n \in 0 .. 0 : n = 0
    OBVIOUS
  <2>2. g = [n \in 0 .. 0 |-> IF n = 0 THEN {list} ELSE Woke(g[n - 1], n)]
    BY <2>1
  <2>3. IsAfter(g, 0, list)
    BY <2>2 DEF IsAfter
  <2> QED BY <1>3, <1>4, <2>3
<1>5. CASE m # 0
  <2>1. m - 1 \in Nat /\ ~(m <= m - 1) /\ m - 1 + 1 = m
    BY <1>3, <1>5
  <2>2. m - 1 \notin T
    BY <1>2, <2>1
  <2>3. PICK g : IsAfter(g, m - 1, list)
    BY <2>1, <2>2
  <2> DEFINE F(f) == [n \in 0 .. m |-> IF n = 0 THEN {list} ELSE Woke(f[n - 1], n)]
             h == F(g)
  <2>4. \A n \in 0 .. (m - 1) : g[n] = IF n = 0 THEN {list} ELSE Woke(g[n - 1], n)
    BY <2>3 DEF IsAfter
  <2>5. \A n \in 0 .. (m - 1) : n \in 0 .. m
    BY <1>3
  <2>6. \A n \in 0 .. (m - 1) : h[n] = g[n]
    BY <2>4, <2>5
  <2>7. \A n \in 0 .. m : n # 0 => n - 1 \in 0 .. (m - 1)
    BY <1>3
  <2> HIDE DEF h
  <2>8. F(g) = F(h)
    BY <2>6, <2>7
  <2>9. IsAfter(h, m, list)
    BY <2>8 DEF IsAfter, h
  <2> QED BY <1>3, <2>9
<1> QED BY <1>4, <1>5

\* The heartbeat leaves what is there after one step for each sequencer.
LEMMA WokenAfter ==
  ASSUME NEW list, Len(seq_owner) \in Nat
  PROVE  \E g : IsAfter(g, Len(seq_owner), list) /\ Woken(list) = g[Len(seq_owner)]
<1> DEFINE N == Len(seq_owner)
           c == CHOOSE g : g = [n \in 0 .. N |-> IF n = 0 THEN {list}
                                 ELSE {__lws_sul_insert(l, Pending(seq_owner[n]), lag, 1) : l \in g[n - 1]}]
           d == CHOOSE g : IsAfter(g, N, list)
<1>1. Woken(list) = c[N]
  BY DEF Woken
<1>2. c = d
  BY DEF IsAfter, Woke
<1>3. IsAfter(d, N, list)
  BY AfterExists
<1> HIDE DEF c, d
<1> QED BY <1>1, <1>2, <1>3

\* Whatever lists the heartbeat can leave are right.
LEMMA WokenList ==
  ASSUME NEW list, ListOK(list, life, pass), lag \in Nat, seq_owner \in Seq(Seqs),
         \A i \in DOMAIN seq_owner : life[seq_owner[i]] \in Reachable,
         NEW l \in Woken(list)
  PROVE  ListOK(l, life, pass)
<1> DEFINE N == Len(seq_owner)
<1>1. N \in Nat /\ DOMAIN seq_owner = 1 .. N /\ \A i \in 1 .. N : seq_owner[i] \in Seqs
  BY LenProperties, ElementOfSeq
<1>2. PICK g : IsAfter(g, N, list) /\ Woken(list) = g[N]
  BY <1>1, WokenAfter
<1> DEFINE T == {m \in 0 .. N : \E k \in g[m] : ~ListOK(k, life, pass)}
<1> SUFFICES ASSUME T # {} PROVE FALSE
  BY <1>1, <1>2
<1> HIDE DEF N
<1>3. T \subseteq Nat
  BY <1>1
<1>4. PICK m \in T : \A y \in T : m <= y
  BY <1>3, LeastOf
<1>5. PICK k \in g[m] : ~ListOK(k, life, pass)
  BY <1>4
<1>6. m \in 0 .. N /\ g[m] = IF m = 0 THEN {list} ELSE Woke(g[m - 1], m)
  BY <1>2, <1>4 DEF IsAfter
<1>7. CASE m = 0
  BY <1>5, <1>6, <1>7
<1>8. CASE m # 0
  <2>1. m - 1 \in 0 .. N /\ ~(m <= m - 1) /\ m \in 1 .. N
    BY <1>1, <1>6, <1>8
  <2>2. \A j \in g[m - 1] : ListOK(j, life, pass)
    BY <1>4, <2>1
  <2>3. PICK j \in g[m - 1] : k = __lws_sul_insert(j, Pending(seq_owner[m]), lag, 1)
    BY <1>5, <1>6, <1>8 DEF Woke
  <2>4. EntryOK([sul |-> Pending(seq_owner[m]), us |-> lag + 1], life, pass)
    BY <1>1, <2>1 DEF EntryOK, Pending
  <2>5. Pending(seq_owner[m]) \in SulIds
    BY <1>1, <2>1 DEF Pending, SulIds
  <2>6. ListOK(j, life, pass)
    BY <2>2, <2>3
  <2> QED BY <1>5, <2>3, <2>4, <2>5, <2>6, InsertedList
<1> QED BY <1>7, <1>8

\* Counting time from now on leaves the list right, and a pass begins.
LEMMA RebasedList ==
  ASSUME NEW lives, NEW p, NEW list, ListOK(list, lives, p), NEW now \in Nat
  PROVE  ListOK(Rebase(list, now), lives, TRUE)
<1> DEFINE l == Rebase(list, now)
<1>1. list \in Seq(Entry) /\ InOrder(list)
  BY DEF ListOK
<1>2. DOMAIN list = 1 .. Len(list) /\ Len(list) \in Nat /\ \A i \in DOMAIN list : list[i] \in Entry
  BY <1>1, LenProperties, ElementOfSeq
<1>3. DOMAIN l = DOMAIN list /\ \A i \in DOMAIN list : l[i] = [list[i] EXCEPT !.us = @ - now]
  BY DEF Rebase
<1> HIDE DEF l
<1>4. ASSUME NEW i \in DOMAIN list
      PROVE  /\ l[i] \in Entry /\ l[i].sul = list[i].sul /\ l[i].us = list[i].us - now
             /\ list[i].us \in Int
  <2>1. list[i] \in Entry
    BY <1>2
  <2> QED BY <1>3, <2>1 DEF Entry
<1>5. l \in Seq(Entry)
  <2>1. l = [i \in DOMAIN l |-> l[i]]
    BY DEF l, Rebase
  <2>2. l \in [1 .. Len(list) -> Entry]
    BY <1>2, <1>3, <1>4, <2>1
  <2> QED BY <1>2, <2>2, SeqDef
<1>6. InOrder(l)
  <2> SUFFICES ASSUME NEW i \in DOMAIN list, NEW j \in DOMAIN list, i < j
               PROVE  l[i].us <= l[j].us /\ l[i].sul # l[j].sul
    BY <1>3 DEF InOrder
  <2>1. list[i].us <= list[j].us /\ list[i].sul # list[j].sul
    BY <1>1 DEF InOrder
  <2> QED BY <1>4, <2>1
<1>7. \A i \in DOMAIN l : EntryOK(l[i], lives, TRUE)
  BY <1>3, <1>4 DEF ListOK, EntryOK
<1> QED BY <1>5, <1>6, <1>7 DEF ListOK, l

-----------------------------------------------------------------------------
(* The inductive invariant *)

\* the events of the queue q that no callback was told of yet
Waiting(q, c) == {i \in DOMAIN q : c => i > 1}

\* what the queue says of the connection, c if its head is being handled
WsiOK(q, c, w, h) ==
  /\ w = "none" => ~h /\ \A i \in Waiting(q, c) : q[i] = "other"
  /\ \A i \in Waiting(q, c) :
       q[i] = "WSI_CONN_CLOSE" => w = "closed" /\ \A j \in DOMAIN q : j > i => q[j] = "other"
  /\ w = "closed" => \E i \in Waiting(q, c) : q[i] = "WSI_CONN_CLOSE"
  /\ c /\ q # <<>> /\ q[1] = "WSI_CONN_CLOSE" => ~h

\* the callbacks that run and the threads that are inside
CallsOK ==
  /\ cb # None => pass /\ queue[cb] # <<>> /\ life[cb] \in Active /\ cb # dying
  /\ dying # None => life[dying] = "going"
  /\ \A s \in Seqs : life[s] = "going" => dying = s
  /\ foreign # None => life[foreign] \in Active
  /\ ending => ~pass

OwnerOK(own, lives) ==
  /\ own \in Seq(Seqs)
  /\ \A i, j \in DOMAIN own : own[i] = own[j] => i = j
  /\ \A i \in DOMAIN own : lives[own[i]] \in {"live", "going"}

\* a sequencer l whose queue is q, and its connection
SeqOK(l, q, c, w, h) ==
  /\ l = "none" => q = <<>> /\ w = "none"
  /\ l \in {"none", "live"} => WsiOK(q, c, w, h)

IInv ==
  /\ TypeOK
  /\ ListOK(suls, life, pass)
  /\ OwnerOK(seq_owner, life)
  /\ CallsOK
  /\ \A s \in Seqs : SeqOK(life[s], queue[s], cb = s, wsi[s], held[s])

(* Each event that is queued or handled keeps the queue true *)

\* An event that is queued comes last.
LEMMA QueuedAt ==
  ASSUME NEW q \in Seq(Events), NEW e \in Events
  PROVE  /\ Append(q, e) \in Seq(Events) /\ Append(q, e) # <<>>
         /\ DOMAIN Append(q, e) = DOMAIN q \cup {Len(q) + 1}
         /\ DOMAIN q \subseteq Nat \ {0} /\ Len(q) \in Nat /\ Len(q) + 1 \notin DOMAIN q
         /\ \A i \in DOMAIN q : Append(q, e)[i] = q[i] /\ i < Len(q) + 1
         /\ Append(q, e)[Len(q) + 1] = e
<1> DEFINE r == Append(q, e)
<1>1. /\ r \in Seq(Events) /\ r # <<>> /\ Len(r) = Len(q) + 1
      /\ \A i \in 1 .. Len(q) : r[i] = q[i]
      /\ r[Len(q) + 1] = e
  BY AppendProperties
<1>2. DOMAIN q = 1 .. Len(q) /\ Len(q) \in Nat
  BY LenProperties
<1>3. DOMAIN r = 1 .. Len(q) + 1
  BY <1>1, LenProperties
<1> HIDE DEF r
<1>4. 1 .. Len(q) + 1 = (1 .. Len(q)) \cup {Len(q) + 1}
  BY <1>2
<1> QED BY <1>1, <1>2, <1>3, <1>4 DEF r

\* An event that is not about the connection changes nothing for it.
LEMMA QueuedOther ==
  ASSUME NEW q \in Seq(Events), NEW c \in BOOLEAN, NEW w, NEW h \in BOOLEAN, WsiOK(q, c, w, h)
  PROVE  WsiOK(Append(q, "other"), c, w, h)
<1> DEFINE r == Append(q, "other")
           n == Len(q) + 1
<1>1. /\ r \in Seq(Events) /\ r # <<>> /\ DOMAIN r = DOMAIN q \cup {n} /\ n \notin DOMAIN q
      /\ DOMAIN q \subseteq Nat \ {0} /\ n \in Nat
      /\ \A i \in DOMAIN q : r[i] = q[i] /\ i < n
      /\ r[n] = "other"
  BY QueuedAt DEF Events
<1> HIDE DEF r, n
<1>2. Waiting(q, c) \subseteq Waiting(r, c) /\ Waiting(q, c) \subseteq DOMAIN q
  BY <1>1 DEF Waiting
<1>3. Waiting(r, c) \subseteq Waiting(q, c) \cup {n}
  BY <1>1 DEF Waiting
<1>4. w = "none" => ~h /\ \A i \in Waiting(r, c) : r[i] = "other"
  BY <1>1, <1>2, <1>3 DEF WsiOK
<1>5. \A i \in Waiting(r, c) :
        r[i] = "WSI_CONN_CLOSE" => w = "closed" /\ \A j \in DOMAIN r : j > i => r[j] = "other"
  BY <1>1, <1>2, <1>3 DEF WsiOK
<1>6. w = "closed" => \E i \in Waiting(r, c) : r[i] = "WSI_CONN_CLOSE"
  BY <1>1, <1>2 DEF WsiOK
<1>7. c /\ r # <<>> /\ r[1] = "WSI_CONN_CLOSE" => ~h
  <2> SUFFICES ASSUME c, r[1] = "WSI_CONN_CLOSE" PROVE ~h
    OBVIOUS
  <2>1. n # 1
    BY <1>1
  <2>2. 1 \in DOMAIN q
    BY <2>1, QueuedAt, LenProperties DEF n
  <2>3. q # <<>> /\ q[1] = "WSI_CONN_CLOSE"
    BY <1>1, <2>2
  <2> QED BY <2>3 DEF WsiOK
<1> QED BY <1>4, <1>5, <1>6, <1>7 DEF WsiOK, r

\* The connection is bound, and its event queued.
LEMMA QueuedConnect ==
  ASSUME NEW q \in Seq(Events), NEW h \in BOOLEAN, WsiOK(q, FALSE, "none", h)
  PROVE  WsiOK(Append(q, "WSI_CONNECTED"), FALSE, "open", h)
<1> DEFINE r == Append(q, "WSI_CONNECTED")
           n == Len(q) + 1
<1>1. /\ DOMAIN r = DOMAIN q \cup {n}
      /\ \A i \in DOMAIN q : r[i] = q[i]
      /\ r[n] = "WSI_CONNECTED"
  BY QueuedAt DEF Events
<1>2. \A i \in DOMAIN q : q[i] = "other"
  BY DEF WsiOK, Waiting
<1> HIDE DEF r, n
<1>3. \A i \in DOMAIN r : r[i] # "WSI_CONN_CLOSE"
  BY <1>1, <1>2
<1> QED BY <1>3 DEF WsiOK, Waiting, r

\* The connection is closed, and its event queued.
LEMMA QueuedClose ==
  ASSUME NEW q \in Seq(Events), NEW h \in BOOLEAN, WsiOK(q, FALSE, "open", h)
  PROVE  WsiOK(Append(q, "WSI_CONN_CLOSE"), FALSE, "closed", h)
<1> DEFINE r == Append(q, "WSI_CONN_CLOSE")
           n == Len(q) + 1
<1>1. /\ DOMAIN r = DOMAIN q \cup {n} /\ n \in Nat
      /\ \A i \in DOMAIN q : r[i] = q[i] /\ i < n /\ i \in Nat
      /\ r[n] = "WSI_CONN_CLOSE"
  BY QueuedAt DEF Events
<1>2. \A i \in DOMAIN q : q[i] # "WSI_CONN_CLOSE"
  BY DEF WsiOK, Waiting
<1> HIDE DEF r, n
<1>3. \A i \in DOMAIN r : r[i] = "WSI_CONN_CLOSE" => i = n
  BY <1>1, <1>2
<1>4. \A j \in DOMAIN r : ~(j > n)
  BY <1>1
<1>5. n \in Waiting(r, FALSE) /\ Waiting(r, FALSE) = DOMAIN r
  BY <1>1 DEF Waiting
<1> QED BY <1>1, <1>3, <1>4, <1>5 DEF WsiOK, r

\* The callback is told of the head of the queue.
LEMMA ToldOf ==
  ASSUME NEW q \in Seq(Events), q # <<>>, NEW w, NEW h \in BOOLEAN, WsiOK(q, FALSE, w, h)
  PROVE  WsiOK(q, TRUE, IF Head(q) = "WSI_CONN_CLOSE" THEN "none" ELSE w,
               CASE Head(q) = "WSI_CONNECTED" -> TRUE
                 [] Head(q) = "WSI_CONN_CLOSE" -> FALSE
                 [] OTHER -> h)
<1>1. Head(q) = q[1] /\ 1 \in DOMAIN q /\ DOMAIN q \subseteq Nat \ {0} /\ q[1] \in Events
  BY HeadTailProperties, LenProperties, EmptySeq, ElementOfSeq
<1>3. \A i \in DOMAIN q \ {1} : i > 1
  BY <1>1
<1>2. Waiting(q, FALSE) = DOMAIN q /\ Waiting(q, TRUE) = DOMAIN q \ {1}
  <2>1. Waiting(q, FALSE) = DOMAIN q
    BY DEF Waiting
  <2>2. \A i \in DOMAIN q : i > 1 <=> i # 1
    BY <1>1, <1>3
  <2>3. Waiting(q, TRUE) = DOMAIN q \ {1}
    BY <2>2 DEF Waiting
  <2> QED BY <2>1, <2>3
<1>4. CASE q[1] = "WSI_CONN_CLOSE"
  <2>1. \A i \in DOMAIN q \ {1} : q[i] = "other"
    BY <1>1, <1>2, <1>3, <1>4 DEF WsiOK
  <2>2. WsiOK(q, TRUE, "none", FALSE)
    BY <1>2, <2>1 DEF WsiOK
  <2> QED BY <1>1, <1>4, <2>2
<1>5. CASE q[1] = "WSI_CONNECTED"
  <2>1. w # "none"
    BY <1>1, <1>2, <1>5 DEF WsiOK
  <2>2. WsiOK(q, TRUE, w, TRUE)
    BY <1>1, <1>2, <1>5, <2>1 DEF WsiOK
  <2> QED BY <1>1, <1>5, <2>2
<1>6. CASE q[1] = "other"
  <2>1. WsiOK(q, TRUE, w, h)
    BY <1>1, <1>2, <1>6 DEF WsiOK
  <2> QED BY <1>1, <1>6, <2>1
<1> QED BY <1>1, <1>4, <1>5, <1>6 DEF Events

\* The event that was handled is the oldest.
LEMMA Handled ==
  ASSUME NEW q \in Seq(Events), q # <<>>, NEW w, NEW h \in BOOLEAN, WsiOK(q, TRUE, w, h)
  PROVE  WsiOK(Tail(q), FALSE, w, h)
<1> DEFINE r == Tail(q)
<1>1. /\ r \in Seq(Events) /\ Len(r) = Len(q) - 1 /\ Len(q) \in Nat
      /\ \A i \in 1 .. Len(r) : r[i] = q[i + 1]
      /\ DOMAIN q = 1 .. Len(q) /\ Len(q) # 0
  BY HeadTailProperties, LenProperties, EmptySeq
<1>2. DOMAIN r = 1 .. Len(q) - 1
  BY <1>1, LenProperties
<1> HIDE DEF r
<1>3. \A i \in DOMAIN r : r[i] = q[i + 1] /\ i + 1 \in Waiting(q, TRUE) /\ i + 1 \in DOMAIN q
  BY <1>1, <1>2 DEF Waiting
<1>4. \A i \in Waiting(q, TRUE) : i - 1 \in DOMAIN r /\ (i - 1) + 1 = i
  BY <1>1, <1>2 DEF Waiting
<1>5. Waiting(r, FALSE) = DOMAIN r
  BY DEF Waiting
<1>6. w = "none" => ~h /\ \A i \in DOMAIN r : r[i] = "other"
  BY <1>3 DEF WsiOK
<1>7. \A i, j \in DOMAIN r : j > i => j + 1 > i + 1
  BY <1>1, <1>2
<1>8. \A i \in DOMAIN r :
        r[i] = "WSI_CONN_CLOSE" => w = "closed" /\ \A j \in DOMAIN r : j > i => r[j] = "other"
  BY <1>3, <1>7 DEF WsiOK
<1>9. w = "closed" => \E i \in DOMAIN r : r[i] = "WSI_CONN_CLOSE"
  <2> SUFFICES ASSUME w = "closed" PROVE \E i \in DOMAIN r : r[i] = "WSI_CONN_CLOSE"
    OBVIOUS
  <2>1. PICK i \in Waiting(q, TRUE) : q[i] = "WSI_CONN_CLOSE"
    BY DEF WsiOK
  <2>2. i - 1 \in DOMAIN r /\ r[i - 1] = q[i]
    BY <1>3, <1>4
  <2> QED BY <2>1, <2>2
<1> QED BY <1>5, <1>6, <1>8, <1>9 DEF WsiOK, r

-----------------------------------------------------------------------------
(* What becomes of the lists when a sequencer is made, used or destroyed *)

\* A timer that is not the heartbeat is one sequencer's.
LEMMA EntryKinds ==
  ASSUME NEW l \in Seq(Entry), NEW i \in DOMAIN l, l[i].sul # Heartbeat
  PROVE  \E t \in Seqs : l[i].sul \in {Pending(t), Timeout(t)} /\ l[i].sul[2] = t
<1>1. l[i] \in Entry
  BY LenProperties, ElementOfSeq
<1>2. l[i].sul \in {"pending", "timeout"} \X Seqs
  BY <1>1 DEF Entry, SulIds
<1> QED BY <1>2 DEF Pending, Timeout

\* No sequencer that a timer reaches is lost.
LEMMA LivesChange ==
  ASSUME NEW lives, NEW p, NEW list, ListOK(list, lives, p), NEW after,
         \A t \in Seqs : lives[t] \in Reachable => after[t] \in Reachable
  PROVE  ListOK(list, after, p)
<1>1. ASSUME NEW i \in DOMAIN list PROVE EntryOK(list[i], after, p)
  <2>1. EntryOK(list[i], lives, p) /\ list \in Seq(Entry)
    BY DEF ListOK
  <2>2. list[i].sul # Heartbeat => \E t \in Seqs : list[i].sul[2] = t
    BY <2>1, EntryKinds
  <2> QED BY <2>1, <2>2 DEF EntryOK
<1> QED BY <1>1 DEF ListOK

\* Asking for the events of a sequencer that is there leaves the list right.
LEMMA PendingList ==
  ASSUME NEW lives, NEW p, NEW list, ListOK(list, lives, p), NEW now \in Nat,
         NEW s \in Seqs, lives[s] \in Reachable
  PROVE  ListOK(__lws_sul_insert(list, Pending(s), now, 1), lives, p)
<1>1. Pending(s) \in SulIds /\ Pending(s)[2] = s
  BY DEF Pending, SulIds
<1>2. EntryOK([sul |-> Pending(s), us |-> now + 1], lives, p)
  BY <1>1 DEF EntryOK
<1> QED BY <1>1, <1>2, InsertedList

\* A sequencer that goes leaves no timer behind.
LEMMA DestroyedList ==
  ASSUME NEW lives, NEW p, NEW list, ListOK(list, lives, p), NEW s \in Seqs, NEW after,
         \A t \in Seqs \ {s} : after[t] = lives[t]
  PROVE  ListOK(Unscheduled(Unscheduled(list, Timeout(s)), Pending(s)), after, p)
<1> DEFINE k == Unscheduled(list, Timeout(s))
           l == Unscheduled(k, Pending(s))
<1>1. ListOK(k, lives, p) /\ \A i \in DOMAIN k : k[i].sul # Timeout(s)
  BY RemovedList DEF Unscheduled
<1> HIDE DEF k
<1>2. ListOK(l, lives, p) /\ Within(l, k) /\ \A i \in DOMAIN l : l[i].sul # Pending(s)
  BY <1>1, RemovedList DEF Unscheduled
<1> HIDE DEF l
<1>3. ASSUME NEW i \in DOMAIN l PROVE EntryOK(l[i], after, p)
  <2>1. EntryOK(l[i], lives, p) /\ l \in Seq(Entry) /\ l[i].sul # Pending(s) /\ l[i].sul # Timeout(s)
    BY <1>1, <1>2 DEF ListOK, Within
  <2>2. CASE l[i].sul # Heartbeat
    <3>1. PICK t \in Seqs : l[i].sul \in {Pending(t), Timeout(t)} /\ l[i].sul[2] = t
      BY <2>1, <2>2, EntryKinds
    <3>2. t # s
      BY <2>1, <3>1
    <3> QED BY <2>1, <2>2, <3>1, <3>2 DEF EntryOK
  <2> QED BY <2>1, <2>2 DEF EntryOK
<1> QED BY <1>2, <1>3 DEF ListOK, l, k

\* A pass that ends leaves no ripe timer.
LEMMA EndedList ==
  ASSUME NEW lives, NEW list, ListOK(list, lives, TRUE),
         ~(list # <<>> /\ Ripe(Head(list)))
  PROVE  ListOK(list, lives, FALSE)
<1>1. list \in Seq(Entry) /\ InOrder(list)
  BY DEF ListOK
<1>2. ASSUME NEW i \in DOMAIN list PROVE EntryOK(list[i], lives, FALSE)
  <2>1. /\ DOMAIN list = 1 .. Len(list) /\ Len(list) \in Nat
        /\ \A j \in DOMAIN list : list[j] \in Entry
    BY <1>1, LenProperties, ElementOfSeq
  <2>2. list # <<>>
    BY <2>1
  <2>3. 1 \in DOMAIN list /\ Head(list) = list[1]
    BY <2>2, TailList
  <2>4. list[1].us \in Int /\ list[i].us \in Int /\ i \in Nat /\ (i = 1 \/ 1 < i)
    BY <2>1, <2>3 DEF Entry
  <2>5. ~(list[1].us <= 0)
    BY <2>2, <2>3 DEF Ripe
  <2>6. list[1].us <= list[i].us
    BY <1>1, <2>3, <2>4 DEF InOrder
  <2>7. list[i].us > 0
    BY <2>4, <2>5, <2>6
  <2> QED BY <2>7 DEF EntryOK, ListOK
<1> QED BY <1>1, <1>2 DEF ListOK

\* A new sequencer is listed with its owner.
LEMMA OwnerAppended ==
  ASSUME NEW own, NEW lives, OwnerOK(own, lives), NEW s \in Seqs, lives[s] = "none", NEW after,
         \A t \in Seqs \ {s} : after[t] = lives[t], after[s] = "live"
  PROVE  OwnerOK(Append(own, s), after)
<1> DEFINE r == Append(own, s)
<1>0. own \in Seq(Seqs)
  BY DEF OwnerOK
<1>1. /\ r \in Seq(Seqs) /\ Len(r) = Len(own) + 1
      /\ \A i \in 1 .. Len(own) : r[i] = own[i]
      /\ r[Len(own) + 1] = s
  BY <1>0, AppendProperties
<1>2. /\ DOMAIN own = 1 .. Len(own) /\ Len(own) \in Nat
      /\ \A i \in DOMAIN own : own[i] \in Seqs
  BY <1>0, LenProperties, ElementOfSeq
<1>3. DOMAIN r = 1 .. Len(own) + 1
  BY <1>1, LenProperties
<1> HIDE DEF r
<1>4. \A i \in DOMAIN r : i = Len(own) + 1 \/ i \in DOMAIN own
  BY <1>2, <1>3
<1>5. \A i \in DOMAIN own : own[i] # s /\ r[i] = own[i]
  BY <1>1, <1>2 DEF OwnerOK
<1>6. \A i, j \in DOMAIN r : r[i] = r[j] => i = j
  BY <1>1, <1>4, <1>5 DEF OwnerOK
<1>7. \A i \in DOMAIN r : after[r[i]] \in {"live", "going"}
  BY <1>1, <1>2, <1>4, <1>5 DEF OwnerOK
<1> QED BY <1>1, <1>6, <1>7 DEF OwnerOK, r

\* A sequencer that is about to go is still listed with its owner.
LEMMA OwnerChange ==
  ASSUME NEW own, NEW lives, OwnerOK(own, lives), NEW after,
         \A t \in Seqs : after[t] = lives[t] \/ after[t] = "going"
  PROVE  OwnerOK(own, after)
<1>1. own \in Seq(Seqs)
  BY DEF OwnerOK
<1>2. \A i \in DOMAIN own : own[i] \in Seqs
  BY <1>1, LenProperties, ElementOfSeq
<1> QED BY <1>1, <1>2 DEF OwnerOK

\* A sequencer that has gone is not.
LEMMA OwnerUnlisted ==
  ASSUME NEW own, NEW lives, OwnerOK(own, lives), NEW s \in Seqs, NEW after,
         \A t \in Seqs \ {s} : after[t] = lives[t]
  PROVE  OwnerOK(lws_dll2_remove(own, {i \in DOMAIN own : own[i] = s}), after)
<1> DEFINE P == {i \in DOMAIN own : own[i] = s}
           l == lws_dll2_remove(own, P)
<1>0. own \in Seq(Seqs)
  BY DEF OwnerOK
<1>1. /\ DOMAIN own = 1 .. Len(own) /\ Len(own) \in Nat
      /\ \A i \in DOMAIN own : own[i] \in Seqs
  BY <1>0, LenProperties, ElementOfSeq
<1>2. CASE P = {}
  <2>1. l = own /\ \A i \in DOMAIN own : own[i] # s
    BY <1>2 DEF lws_dll2_remove
  <2> QED BY <1>0, <1>1, <2>1 DEF OwnerOK
<1>3. CASE P # {}
  <2> DEFINE i == CHOOSE i \in P : TRUE
  <2>1. i \in DOMAIN own /\ own[i] = s
    BY <1>3
  <2>2. l = SubSeq(own, 1, i - 1) \o SubSeq(own, i + 1, Len(own))
    BY <1>3 DEF lws_dll2_remove
  <2> HIDE DEF l, i
  <2>3. /\ l \in Seq(Seqs) /\ DOMAIN l = 1 .. Len(own) - 1
        /\ \A j \in DOMAIN l : l[j] = IF j < i THEN own[j] ELSE own[j + 1]
    BY <1>0, <2>1, <2>2, CutAt
  <2> DEFINE at(j) == IF j < i THEN j ELSE j + 1
  <2>4. \A j \in DOMAIN l : at(j) \in DOMAIN own /\ at(j) # i /\ l[j] = own[at(j)]
    BY <1>1, <2>1, <2>3
  <2>5. \A j, k \in DOMAIN l : at(j) = at(k) => j = k
    BY <1>1, <2>1, <2>3
  <2> HIDE DEF at
  <2>6. \A j \in DOMAIN l : own[at(j)] \in Seqs \ {s}
    BY <1>1, <2>1, <2>4 DEF OwnerOK
  <2>7. \A j, k \in DOMAIN l : l[j] = l[k] => j = k
    BY <2>4, <2>5 DEF OwnerOK
  <2>8. \A j \in DOMAIN l : after[l[j]] \in {"live", "going"}
    BY <2>4, <2>6 DEF OwnerOK
  <2> QED BY <2>3, <2>7, <2>8 DEF OwnerOK, l
<1> QED BY <1>2, <1>3

-----------------------------------------------------------------------------
(* IInv is inductive *)

\* The service thread begins right.
LEMMA InitOK == Init => IInv
<1> SUFFICES ASSUME Init PROVE IInv
  OBVIOUS
<1> DEFINE e == [sul |-> Heartbeat, us |-> Period]
           d == <<e>>
<1>1. e \in Entry /\ Period > 0
  BY SequencerAssumption DEF Entry, SulIds
<1>2. e.sul = Heartbeat /\ e.us = Period
  OBVIOUS
<1> HIDE DEF e
<1>3. d \in Seq(Entry) /\ DOMAIN d = {1} /\ d[1] = e
  BY <1>1
<1> HIDE DEF d
<1>4. suls = d
  BY DEF Init, d, e
<1>5. ListOK(d, life, FALSE)
  BY <1>1, <1>2, <1>3 DEF ListOK, InOrder, EntryOK
<1>6. TypeOK
  <2>1. suls \in Seq([sul : SulIds, us : Int])
    BY <1>3, <1>4 DEF Entry
  <2>2. \A S : <<>> \in Seq(S)
    BY EmptySeq
  <2>3. lag \in 0 .. MaxLag
    BY SequencerAssumption DEF Init
  <2>4. seq_owner \in Seq(Seqs) /\ queue \in [Seqs -> Seq(Events)]
    BY <2>2 DEF Init
  <2> QED BY <2>1, <2>3, <2>4 DEF Init, TypeOK
<1>7. OwnerOK(seq_owner, life)
  <2>1. seq_owner \in Seq(Seqs) /\ DOMAIN seq_owner = {}
    BY EmptySeq DEF Init
  <2> QED BY <2>1 DEF OwnerOK
<1>8. CallsOK
  BY DEF Init, CallsOK
<1>9. \A s \in Seqs : SeqOK(life[s], queue[s], cb = s, wsi[s], held[s])
  <2>1. \A s \in Seqs : /\ life[s] = "none" /\ queue[s] = <<>> /\ wsi[s] = "none" /\ ~held[s]
                        /\ DOMAIN queue[s] = {}
    BY DEF Init
  <2> QED BY <2>1 DEF SeqOK, WsiOK, Waiting
<1>10. pass = FALSE
  BY DEF Init
<1> QED BY <1>4, <1>5, <1>6, <1>7, <1>8, <1>9, <1>10 DEF IInv

\* Time is a number.
LEMMA LagIsNat == ASSUME TypeOK PROVE lag \in Nat
BY SequencerAssumption DEF TypeOK

\* A right list has the type of the list.
LEMMA SulsType == ASSUME NEW l, NEW lives, NEW p, ListOK(l, lives, p)
                  PROVE  l \in Seq([sul : SulIds, us : Int])
BY DEF ListOK, Entry

\* A sequencer that may be used is one that is there.
LEMMA ActiveIsReachable == Active \subseteq Reachable /\ "none" \notin Reachable /\ "live" \in Active
BY SequencerAssumption DEF Active, Reachable

\* Nothing but the time and the lock of a pass.
LEMMA ClockOK == ASSUME IInv, Clock PROVE IInv'
<1>1. TypeOK'
  BY SequencerAssumption DEF IInv, TypeOK, Clock
<1>2. ListOK(suls', life', pass') /\ OwnerOK(seq_owner', life')
  BY DEF IInv, Clock
<1>3. CallsOK'
  BY DEF IInv, CallsOK, Clock
<1>4. \A s \in Seqs : SeqOK(life'[s], queue'[s], (cb = s)', wsi'[s], held'[s])
  BY DEF IInv, Clock
<1> QED BY <1>1, <1>2, <1>3, <1>4 DEF IInv

\* ServiceBegin keeps the invariant.
LEMMA ServiceBeginOK == ASSUME IInv, ServiceBegin PROVE IInv'
<1>1. ListOK(suls', life', pass')
  BY RebasedList, LagIsNat DEF IInv, ServiceBegin
<1>2. TypeOK'
  <2>1. suls' \in Seq([sul : SulIds, us : Int])
    BY <1>1, SulsType
  <2>2. lag' \in 0 .. MaxLag /\ pass' \in BOOLEAN
    BY SequencerAssumption DEF ServiceBegin
  <2> QED BY <2>1, <2>2 DEF IInv, TypeOK, ServiceBegin
<1>3. OwnerOK(seq_owner', life')
  BY DEF IInv, ServiceBegin
<1>4. CallsOK'
  BY DEF IInv, CallsOK, ServiceBegin
<1>5. \A s \in Seqs : SeqOK(life'[s], queue'[s], (cb = s)', wsi'[s], held'[s])
  BY DEF IInv, ServiceBegin
<1> QED BY <1>1, <1>2, <1>3, <1>4, <1>5 DEF IInv

\* ServiceEnd keeps the invariant.
LEMMA ServiceEndOK == ASSUME IInv, ServiceEnd PROVE IInv'
<1>1. ListOK(suls', life', pass')
  <2>1. ListOK(suls, life, TRUE)
    BY DEF IInv, ServiceEnd, ListOK, EntryOK
  <2> QED BY <2>1, EndedList DEF ServiceEnd
<1>2. TypeOK'
  BY DEF IInv, TypeOK, ServiceEnd
<1>3. OwnerOK(seq_owner', life')
  BY DEF IInv, ServiceEnd
<1>4. CallsOK'
  BY DEF IInv, CallsOK, ServiceEnd
<1>5. \A s \in Seqs : SeqOK(life'[s], queue'[s], (cb = s)', wsi'[s], held'[s])
  BY DEF IInv, ServiceEnd
<1> QED BY <1>1, <1>2, <1>3, <1>4, <1>5 DEF IInv

\* An "other" event on some of the queues that are there, and nothing else
\* but the timers.
LEMMA OthersQueued ==
  ASSUME IInv, NEW S, S \subseteq Seqs, \A t \in S : life[t] # "none",
         queue' = [t \in Seqs |-> IF t \in S THEN Append(queue[t], "other") ELSE queue[t]],
         ListOK(suls', life, pass),
         UNCHANGED <<lag, pass, seq_owner, life, cb, dying, wsi, held, ending>>,
         foreign' \in {foreign, None}
  PROVE  IInv'
<1>0. TypeOK /\ "other" \in Events
  BY DEF IInv, Events
<1>1. \A t \in Seqs : queue[t] \in Seq(Events)
  BY <1>0 DEF TypeOK
<1>2. \A t \in Seqs : Append(queue[t], "other") \in Seq(Events) /\ Append(queue[t], "other") # <<>>
  BY <1>0, <1>1, QueuedAt
<1>3. TypeOK'
  <2>1. queue' \in [Seqs -> Seq(Events)]
    BY <1>1, <1>2
  <2>2. suls' \in Seq([sul : SulIds, us : Int])
    BY SulsType
  <2> QED BY <1>0, <2>1, <2>2 DEF TypeOK
<1>4. CallsOK'
  <2>1. \A t \in Seqs : queue[t] # <<>> => queue'[t] # <<>>
    BY <1>2
  <2> QED BY <1>0, <2>1 DEF IInv, CallsOK, TypeOK
<1>5. ASSUME NEW t \in Seqs PROVE SeqOK(life'[t], queue'[t], (cb = t)', wsi'[t], held'[t])
  <2>1. SeqOK(life[t], queue[t], cb = t, wsi[t], held[t])
    BY DEF IInv
  <2>2. CASE t \in S
    <3>1. life[t] # "none" /\ queue'[t] = Append(queue[t], "other") /\ held[t] \in BOOLEAN
      BY <1>0, <2>2 DEF TypeOK
    <3>2. WsiOK(queue[t], cb = t, wsi[t], held[t])
          => WsiOK(Append(queue[t], "other"), cb = t, wsi[t], held[t])
      BY <1>1, <3>1, QueuedOther
    <3> QED BY <2>1, <3>1, <3>2 DEF SeqOK
  <2>3. CASE t \notin S
    BY <2>1, <2>3
  <2> QED BY <2>2, <2>3
<1>6. ListOK(suls', life', pass') /\ OwnerOK(seq_owner', life')
  BY DEF IInv
<1> QED BY <1>3, <1>4, <1>5, <1>6 DEF IInv

\* lws_seq_queue_event() of any thread keeps the invariant.
LEMMA OneQueued ==
  ASSUME IInv, NEW s \in Seqs, life[s] \in Reachable,
         NEW list, ListOK(list, life, pass),
         queue' = [queue EXCEPT ![s] = Append(@, "other")],
         suls' = __lws_sul_insert(list, Pending(s), lag, 1),
         UNCHANGED <<lag, pass, seq_owner, life, cb, dying, wsi, held, ending>>,
         foreign' \in {foreign, None}
  PROVE  IInv'
<1>1. ListOK(suls', life, pass)
  BY LagIsNat, PendingList DEF IInv
<1>2. queue' = [t \in Seqs |-> IF t \in {s} THEN Append(queue[t], "other") ELSE queue[t]]
  BY DEF IInv, TypeOK
<1>3. {s} \subseteq Seqs /\ \A t \in {s} : life[t] # "none"
  BY ActiveIsReachable
<1> QED BY <1>1, <1>2, <1>3, OthersQueued

\* The head of the list of timers reaches a sequencer that is there.
LEMMA RipeHead ==
  ASSUME IInv, NEW sul, RipeIs(sul)
  PROVE  /\ ListOK(Tail(suls), life, pass)
         /\ \A s \in Seqs : sul \in {Pending(s), Timeout(s)} => life[s] \in Reachable
<1>1. ListOK(suls, life, pass) /\ suls # <<>> /\ Head(suls).sul = sul
  BY DEF IInv, RipeIs
<1>2. ListOK(Tail(suls), life, pass) /\ Head(suls) = suls[1] /\ 1 \in DOMAIN suls
  BY <1>1, TailList
<1>3. EntryOK(suls[1], life, pass)
  BY <1>1, <1>2 DEF ListOK
<1>4. \A s \in Seqs : sul \in {Pending(s), Timeout(s)} => sul # Heartbeat /\ sul[2] = s
  BY DEF Pending, Timeout, Heartbeat
<1> QED BY <1>1, <1>2, <1>3, <1>4 DEF EntryOK

\* lws_sul_seq_heartbeat_cb keeps the invariant.
LEMMA HeartbeatOK == ASSUME IInv, lws_sul_seq_heartbeat_cb PROVE IInv'
<1>1. ListOK(Tail(suls), life, pass) /\ lag \in Nat /\ seq_owner \in Seq(Seqs)
  BY RipeHead, LagIsNat DEF lws_sul_seq_heartbeat_cb, IInv, TypeOK
<1>2. PICK list \in Woken(Tail(suls)) : suls' = __lws_sul_insert(list, Heartbeat, lag, Period)
  BY DEF lws_sul_seq_heartbeat_cb
<1>3. \A i \in DOMAIN seq_owner : life[seq_owner[i]] \in Reachable
  BY DEF IInv, OwnerOK, Reachable
<1>4. ListOK(list, life, pass)
  BY <1>1, <1>2, <1>3, WokenList
<1>5. Heartbeat \in SulIds /\ Period \in Int /\ EntryOK([sul |-> Heartbeat, us |-> lag + Period], life, pass)
  BY <1>1, SequencerAssumption DEF SulIds, EntryOK
<1>6. ListOK(suls', life, pass)
  BY <1>1, <1>2, <1>4, <1>5, InsertedList
<1> DEFINE S == {t \in Seqs : life[t] = "live"}
<1>7. queue' = [t \in Seqs |-> IF t \in S THEN Append(queue[t], "other") ELSE queue[t]]
  BY DEF lws_sul_seq_heartbeat_cb
<1>8. S \subseteq Seqs /\ \A t \in S : life[t] # "none"
  OBVIOUS
<1>9. UNCHANGED <<lag, pass, seq_owner, life, cb, dying, wsi, held, ending>> /\ foreign' \in {foreign, None}
  BY DEF lws_sul_seq_heartbeat_cb
<1> HIDE DEF S
<1> QED BY <1>6, <1>7, <1>8, <1>9, OthersQueued

\* lws_seq_sul_timeout_cb() keeps the invariant.
LEMMA TimeoutOK == ASSUME IInv, NEW s \in Seqs, lws_seq_sul_timeout_cb(s) PROVE IInv'
<1>1. ListOK(Tail(suls), life, pass) /\ life[s] \in Reachable
  BY RipeHead DEF lws_seq_sul_timeout_cb
<1> QED BY <1>1, OneQueued DEF lws_seq_sul_timeout_cb

\* PendingBegin() keeps the invariant.
LEMMA PendingBeginOK == ASSUME IInv, NEW s \in Seqs, PendingBegin(s) PROVE IInv'
<1>0. TypeOK /\ cb = None /\ pass /\ dying = None
  BY DEF IInv, PendingBegin, RipeIs
<1>1. ListOK(Tail(suls), life, pass) /\ life[s] \in Reachable
  BY RipeHead DEF PendingBegin
<1>2. /\ suls' = Tail(suls) /\ OwnerOK(seq_owner', life') /\ ListOK(suls', life', pass')
  BY <1>1 DEF IInv, PendingBegin
<1>3. suls' \in Seq([sul : SulIds, us : Int])
  BY <1>2, SulsType
<1>4. CASE queue[s] = <<>>
  <2>1. TypeOK'
    BY <1>0, <1>3, <1>4 DEF TypeOK, PendingBegin
  <2>2. CallsOK'
    BY <1>4 DEF IInv, CallsOK, PendingBegin
  <2>3. \A t \in Seqs : SeqOK(life'[t], queue'[t], (cb = t)', wsi'[t], held'[t])
    BY <1>4 DEF IInv, PendingBegin
  <2> QED BY <1>2, <2>1, <2>2, <2>3 DEF IInv
<1>5. CASE queue[s] # <<>>
  <2> DEFINE q == queue[s]
             w == IF Head(q) = "WSI_CONN_CLOSE" THEN "none" ELSE wsi[s]
             h == CASE Head(q) = "WSI_CONNECTED" -> TRUE
                    [] Head(q) = "WSI_CONN_CLOSE" -> FALSE
                    [] OTHER -> held[s]
  <2>1. /\ cb' = s /\ held' = [held EXCEPT ![s] = h] /\ wsi' = [wsi EXCEPT ![s] = w]
        /\ UNCHANGED <<lag, pass, seq_owner, life, queue, dying, foreign, ending>>
    BY <1>5 DEF PendingBegin
  <2>2. q \in Seq(Events) /\ held[s] \in BOOLEAN /\ wsi[s] \in {"none", "open", "closed"}
    BY <1>0 DEF TypeOK
  <2>3. w \in {"none", "open", "closed"} /\ h \in BOOLEAN
    BY <2>2
  <2>4. WsiOK(q, FALSE, wsi[s], held[s]) => WsiOK(q, TRUE, w, h)
    BY <1>5, <2>2, ToldOf
  <2> HIDE DEF w, h
  <2>5. TypeOK'
    BY <1>0, <1>3, <2>1, <2>3 DEF TypeOK
  <2>6. CallsOK'
    <3>0. life[s] # "going"
      BY <1>0, NoneAssumption DEF IInv, CallsOK
    <3>1. life[s] \in Active
      BY <1>1, <3>0 DEF Reachable, Active
    <3> QED BY <1>0, <1>5, <2>1, <3>1, NoneAssumption DEF IInv, CallsOK
  <2>7. ASSUME NEW t \in Seqs PROVE SeqOK(life'[t], queue'[t], (cb = t)', wsi'[t], held'[t])
    <3>1. SeqOK(life[t], queue[t], cb = t, wsi[t], held[t]) /\ cb # t
      BY <1>0, NoneAssumption DEF IInv
    <3>2. CASE t = s
      <4>1. life[s] # "none" /\ wsi'[t] = w /\ held'[t] = h /\ queue'[t] = q
        BY <1>0, <1>1, <2>1, <3>2, ActiveIsReachable DEF TypeOK
      <4> QED BY <2>1, <2>4, <3>1, <3>2, <4>1 DEF SeqOK
    <3>3. CASE t # s
      <4>1. wsi'[t] = wsi[t] /\ held'[t] = held[t]
        BY <1>0, <2>1, <3>3 DEF TypeOK
      <4> QED BY <2>1, <3>1, <3>3, <4>1
    <3> QED BY <3>2, <3>3
  <2> QED BY <1>2, <2>5, <2>6, <2>7 DEF IInv
<1> QED BY <1>4, <1>5

\* PendingEnd() keeps the invariant.
LEMMA PendingEndOK == ASSUME IInv, NEW s \in Seqs, NEW n \in BOOLEAN, PendingEnd(s, n) PROVE IInv'
<1>0. TypeOK /\ cb = s /\ cb # None /\ dying = None
  BY NoneAssumption DEF IInv, PendingEnd
<1>1. pass /\ queue[s] # <<>> /\ life[s] \in Active
  BY <1>0 DEF IInv, CallsOK
<1>2. /\ cb' = None /\ queue' = [queue EXCEPT ![s] = Tail(@)]
      /\ UNCHANGED <<suls, lag, pass, seq_owner, foreign, wsi, held, ending>>
      /\ \/ dying' = dying /\ life' = life
         \/ MayDestroy(s) /\ dying' = s /\ life' = [life EXCEPT ![s] = "going"]
  BY DEF PendingEnd
<1>3. Tail(queue[s]) \in Seq(Events)
  BY <1>0, <1>1, HeadTailProperties DEF TypeOK
<1>4. TypeOK'
  BY <1>0, <1>2, <1>3 DEF TypeOK
<1>5. \A t \in Seqs : life'[t] = life[t] \/ life'[t] = "going"
  BY <1>0, <1>2 DEF TypeOK
<1>6. ListOK(suls', life', pass')
  <2>1. \A t \in Seqs : life[t] \in Reachable => life'[t] \in Reachable
    BY <1>5 DEF Reachable
  <2> QED BY <1>2, <2>1, LivesChange DEF IInv
<1>7. OwnerOK(seq_owner', life')
  BY <1>2, <1>5, OwnerChange DEF IInv
<1>8. CallsOK'
  <2>1. CASE life' = life /\ dying' = dying
    BY <1>2, <2>1 DEF IInv, CallsOK
  <2>2. CASE MayDestroy(s) /\ dying' = s /\ life' = [life EXCEPT ![s] = "going"]
    <3>1. \A t \in Seqs : life[t] # "going"
      BY <1>0, NoneAssumption DEF IInv, CallsOK
    <3>2. life'[s] = "going" /\ \A t \in Seqs \ {s} : life'[t] = life[t]
      BY <1>0, <2>2 DEF TypeOK
    <3>3. foreign # None => life'[foreign] \in Active
      BY <1>0, <2>2, <3>2, SequencerAssumption DEF IInv, CallsOK, MayDestroy, Active, TypeOK
    <3> QED BY <1>2, <2>2, <3>1, <3>2, <3>3 DEF IInv, CallsOK
  <2> QED BY <1>2, <2>1, <2>2
<1>9. ASSUME NEW t \in Seqs PROVE SeqOK(life'[t], queue'[t], (cb = t)', wsi'[t], held'[t])
  <2>1. SeqOK(life[t], queue[t], cb = t, wsi[t], held[t])
    BY DEF IInv
  <2>2. ~(cb = t)'
    BY <1>2, NoneAssumption
  <2>3. CASE t = s
    <3>1. queue'[s] = Tail(queue[s]) /\ queue[s] \in Seq(Events) /\ held[s] \in BOOLEAN
      BY <1>0, <1>2 DEF TypeOK
    <3>2. WsiOK(queue[s], TRUE, wsi[s], held[s]) => WsiOK(Tail(queue[s]), FALSE, wsi[s], held[s])
      BY <1>1, <3>1, Handled
    <3>3. life'[s] # "none" /\ (life'[s] = "live" => life[s] = "live")
      BY <1>1, <1>5, ActiveIsReachable
    <3> QED BY <1>0, <1>2, <2>1, <2>2, <2>3, <3>1, <3>2, <3>3 DEF SeqOK
  <2>4. CASE t # s
    <3>1. queue'[t] = queue[t] /\ life'[t] = life[t] /\ cb # t
      BY <1>0, <1>2, <2>4 DEF TypeOK
    <3> QED BY <1>2, <2>1, <2>2, <3>1
  <2> QED BY <2>3, <2>4
<1> QED BY <1>4, <1>6, <1>7, <1>8, <1>9 DEF IInv

\* lws_seq_create() keeps the invariant.
LEMMA CreateOK == ASSUME IInv, NEW s \in Seqs, lws_seq_create(s) PROVE IInv'
<1>0. TypeOK /\ life[s] = "none" /\ "other" \in Events /\ lag \in Nat
  BY LagIsNat DEF IInv, lws_seq_create, Events
<1>1. /\ life' = [life EXCEPT ![s] = "live"] /\ seq_owner' = Append(seq_owner, s)
      /\ queue' = [queue EXCEPT ![s] = Append(@, "other")]
      /\ suls' = __lws_sul_insert(suls, Pending(s), lag, 1)
      /\ UNCHANGED <<lag, pass, cb, dying, foreign, wsi, held, ending>>
  BY DEF lws_seq_create, lws_seq_queue_event
<1>2. life'[s] = "live" /\ \A t \in Seqs \ {s} : life'[t] = life[t]
  BY <1>0, <1>1 DEF TypeOK
<1>3. ListOK(suls', life', pass')
  <2>1. \A t \in Seqs : life[t] \in Reachable => life'[t] \in Reachable
    BY <1>0, <1>2 DEF Reachable
  <2>2. ListOK(suls, life', pass)
    BY <2>1, LivesChange DEF IInv
  <2>3. life'[s] \in Reachable
    BY <1>2 DEF Reachable
  <2> QED BY <1>0, <1>1, <2>2, <2>3, PendingList
<1>4. OwnerOK(seq_owner', life')
  <2>1. OwnerOK(seq_owner, life) /\ \A t \in Seqs \ {s} : life'[t] = life[t]
    BY <1>2 DEF IInv
  <2>2. OwnerOK(Append(seq_owner, s), life')
    BY <1>0, <1>2, <2>1, OwnerAppended
  <2> QED BY <1>1, <2>2
<1>5. queue[s] \in Seq(Events) /\ Append(queue[s], "other") \in Seq(Events) /\ Append(queue[s], "other") # <<>>
  BY <1>0, QueuedAt DEF TypeOK
<1>6. TypeOK'
  <2>1. suls' \in Seq([sul : SulIds, us : Int]) /\ seq_owner' \in Seq(Seqs)
    BY <1>3, <1>4, SulsType DEF OwnerOK
  <2> QED BY <1>0, <1>1, <1>5, <2>1 DEF TypeOK
<1>7. CallsOK'
  <2>1. cb # s /\ dying # s /\ foreign # s
    BY <1>0, ActiveIsReachable, NoneAssumption DEF IInv, CallsOK
  <2>2. \A t \in Seqs \ {s} : queue'[t] = queue[t]
    BY <1>0, <1>1 DEF TypeOK
  <2> QED BY <1>0, <1>1, <1>2, <2>1, <2>2 DEF IInv, CallsOK, TypeOK
<1>8. ASSUME NEW t \in Seqs PROVE SeqOK(life'[t], queue'[t], (cb = t)', wsi'[t], held'[t])
  <2>1. SeqOK(life[t], queue[t], cb = t, wsi[t], held[t]) /\ held[t] \in BOOLEAN
    BY <1>0 DEF IInv, TypeOK
  <2>2. CASE t = s
    <3>1. queue'[t] = Append(queue[t], "other") /\ WsiOK(queue[t], cb = t, wsi[t], held[t])
      BY <1>0, <1>1, <2>1, <2>2 DEF TypeOK, SeqOK
    <3>2. WsiOK(queue'[t], cb = t, wsi[t], held[t])
      BY <1>5, <2>1, <2>2, <3>1, QueuedOther
    <3> QED BY <1>1, <1>2, <2>2, <3>2 DEF SeqOK
  <2>3. CASE t # s
    <3>1. queue'[t] = queue[t] /\ life'[t] = life[t]
      BY <1>0, <1>1, <2>3 DEF TypeOK
    <3> QED BY <1>1, <2>1, <3>1
  <2> QED BY <2>2, <2>3
<1> QED BY <1>3, <1>4, <1>6, <1>7, <1>8 DEF IInv

\* UserQueues() keeps the invariant.
LEMMA UserQueuesOK == ASSUME IInv, NEW s \in Seqs, UserQueues(s) PROVE IInv'
<1>1. life[s] \in Reachable /\ ListOK(suls, life, pass)
  BY ActiveIsReachable DEF UserQueues, IInv
<1> QED BY <1>1, OneQueued DEF UserQueues, lws_seq_queue_event

\* lws_seq_timeout_us() keeps the invariant.
LEMMA TimeoutSetOK == ASSUME IInv, NEW s \in Seqs, lws_seq_timeout_us(s) PROVE IInv'
<1>0. TypeOK /\ cb = s /\ cb # None /\ lag \in Nat
  BY LagIsNat, NoneAssumption DEF IInv, lws_seq_timeout_us
<1>1. pass /\ life[s] \in Reachable
  BY <1>0, ActiveIsReachable DEF IInv, CallsOK
<1>2. PICK us \in Timeouts \cup {Cancel} : suls' = __lws_sul_insert(suls, Timeout(s), lag, us)
  BY DEF lws_seq_timeout_us
<1>3. us \in Int /\ Timeout(s) \in SulIds
  BY SequencerAssumption DEF Cancel, Timeout, SulIds
<1>4. EntryOK([sul |-> Timeout(s), us |-> lag + us], life, pass)
  BY <1>1 DEF EntryOK, Timeout
<1>5. ListOK(suls', life, pass)
  BY <1>0, <1>2, <1>3, <1>4, InsertedList DEF IInv
<1>6. UNCHANGED <<lag, pass, seq_owner, life, queue, cb, dying, foreign, wsi, held, ending>>
  BY DEF lws_seq_timeout_us
<1>7. suls' \in Seq([sul : SulIds, us : Int])
  BY <1>5, SulsType
<1>8. TypeOK'
  BY <1>0, <1>6, <1>7 DEF TypeOK
<1>9. CallsOK'
  BY <1>6 DEF IInv, CallsOK
<1>10. \A t \in Seqs : SeqOK(life'[t], queue'[t], (cb = t)', wsi'[t], held'[t])
  BY <1>6 DEF IInv
<1> QED BY <1>5, <1>6, <1>8, <1>9, <1>10 DEF IInv

\* A sequencer begins to go down.
LEMMA GoingDown ==
  ASSUME IInv, NEW s \in Seqs, dying = None, cb # s, MayDestroy(s), life[s] # "none",
         life' = [life EXCEPT ![s] = "going"], dying' = s,
         UNCHANGED <<suls, lag, pass, seq_owner, queue, cb, foreign, wsi, held, ending>>
  PROVE  IInv'
<1>0. TypeOK
  BY DEF IInv
<1>1. life'[s] = "going" /\ \A t \in Seqs \ {s} : life'[t] = life[t]
  BY <1>0 DEF TypeOK
<1>2. TypeOK'
  BY <1>0 DEF TypeOK
<1>3. ListOK(suls', life', pass')
  <2>1. \A t \in Seqs : life[t] \in Reachable => life'[t] \in Reachable
    BY <1>1 DEF Reachable
  <2> QED BY <2>1, LivesChange DEF IInv
<1>4. OwnerOK(seq_owner', life')
  <2>1. \A t \in Seqs : life'[t] = life[t] \/ life'[t] = "going"
    BY <1>1
  <2>2. OwnerOK(seq_owner, life) /\ seq_owner' = seq_owner
    BY DEF IInv
  <2> DEFINE after == life'
  <2>3. \A t \in Seqs : after[t] = life[t] \/ after[t] = "going"
    BY <2>1
  <2> HIDE DEF after
  <2>4. OwnerOK(seq_owner, after)
    BY <2>2, <2>3, OwnerChange
  <2> QED BY <2>2, <2>4 DEF after
<1>5. CallsOK'
  <2>1. \A t \in Seqs : life[t] # "going"
    BY NoneAssumption DEF IInv, CallsOK
  <2>2. foreign # None => life'[foreign] \in Active
    BY <1>0, <1>1, SequencerAssumption DEF IInv, CallsOK, MayDestroy, Active, TypeOK
  <2>3. cb # None => life'[cb] = life[cb]
    BY <1>0, <1>1 DEF TypeOK
  <2> QED BY <1>1, <2>1, <2>2, <2>3 DEF IInv, CallsOK
<1>6. ASSUME NEW t \in Seqs PROVE SeqOK(life'[t], queue'[t], (cb = t)', wsi'[t], held'[t])
  <2>1. SeqOK(life[t], queue[t], cb = t, wsi[t], held[t])
    BY DEF IInv
  <2> QED BY <1>1, <2>1 DEF SeqOK
<1> QED BY <1>2, <1>3, <1>4, <1>5, <1>6 DEF IInv

\* DestroyBegin() keeps the invariant.
LEMMA DestroyBeginOK == ASSUME IInv, NEW s \in Seqs, DestroyBegin(s) PROVE IInv'
BY GoingDown DEF DestroyBegin

\* lws_seq_destroy_all_on_pt keeps the invariant.
LEMMA DestroyAllOK == ASSUME IInv, lws_seq_destroy_all_on_pt PROVE IInv'
<1> DEFINE s == Head(seq_owner)
<1>0. ending /\ dying = None /\ seq_owner # <<>> /\ MayDestroy(s) /\ seq_owner \in Seq(Seqs)
  BY DEF lws_seq_destroy_all_on_pt, IInv, OwnerOK
<1>1. s = seq_owner[1] /\ 1 \in DOMAIN seq_owner /\ s \in Seqs
  BY <1>0, HeadTailProperties, LenProperties, EmptySeq
<1>2. life[s] # "none"
  BY <1>1 DEF IInv, OwnerOK
<1>3. cb = None
  BY <1>0 DEF IInv, CallsOK
<1>4. cb # s
  BY <1>1, <1>3, NoneAssumption
<1>5. /\ life' = [life EXCEPT ![s] = "going"] /\ dying' = s
      /\ UNCHANGED <<suls, lag, pass, seq_owner, queue, cb, foreign, wsi, held, ending>>
  BY DEF lws_seq_destroy_all_on_pt
<1> HIDE DEF s
<1> QED BY <1>0, <1>1, <1>2, <1>4, <1>5, GoingDown

\* DestroyEnd() keeps the invariant.
LEMMA DestroyEndOK == ASSUME IInv, NEW s \in Seqs, DestroyEnd(s) PROVE IInv'
<1>0. TypeOK /\ dying = s /\ dying # None
  BY NoneAssumption DEF IInv, DestroyEnd
<1>1. /\ dying' = None /\ life' = [life EXCEPT ![s] = "freed"]
      /\ seq_owner' = lws_dll2_remove(seq_owner, {i \in DOMAIN seq_owner : seq_owner[i] = s})
      /\ suls' = Unscheduled(Unscheduled(suls, Timeout(s)), Pending(s))
      /\ queue' = [queue EXCEPT ![s] = <<>>]
      /\ UNCHANGED <<lag, pass, cb, foreign, wsi, held, ending>>
  BY DEF DestroyEnd, Unlisted
<1>2. life'[s] = "freed" /\ \A t \in Seqs \ {s} : life'[t] = life[t] /\ queue'[t] = queue[t]
  BY <1>0, <1>1 DEF TypeOK
<1>3. ListOK(suls', life', pass')
  BY <1>1, <1>2, DestroyedList DEF IInv
<1>4. OwnerOK(seq_owner', life')
  <2>1. OwnerOK(seq_owner, life) /\ \A t \in Seqs \ {s} : life'[t] = life[t]
    BY <1>2 DEF IInv
  <2>2. OwnerOK(lws_dll2_remove(seq_owner, {i \in DOMAIN seq_owner : seq_owner[i] = s}), life')
    BY <2>1, OwnerUnlisted
  <2> QED BY <1>1, <2>2
<1>5. TypeOK'
  <2>1. suls' \in Seq([sul : SulIds, us : Int]) /\ seq_owner' \in Seq(Seqs)
    BY <1>3, <1>4, SulsType DEF OwnerOK
  <2>2. <<>> \in Seq(Events)
    BY EmptySeq
  <2>3. queue' \in [Seqs -> Seq(Events)] /\ life' \in [Seqs -> {"none", "live", "going", "freed"}]
    BY <1>0, <1>1, <2>2 DEF TypeOK
  <2> QED BY <1>0, <1>1, <2>1, <2>3 DEF TypeOK
<1>6. CallsOK'
  <2>1. cb # s /\ life[s] = "going"
    BY <1>0 DEF IInv, CallsOK
  <2>2. foreign # None => life'[foreign] \in Active
    BY <1>0, <1>2, <2>1, SequencerAssumption DEF IInv, CallsOK, Active, TypeOK
  <2>3. cb # None => life'[cb] = life[cb] /\ queue'[cb] = queue[cb]
    BY <1>0, <1>2, <2>1 DEF TypeOK
  <2>4. \A t \in Seqs : life'[t] # "going"
    BY <1>0, <1>2 DEF IInv, CallsOK
  <2> QED BY <1>0, <1>1, <2>2, <2>3, <2>4, NoneAssumption DEF IInv, CallsOK, TypeOK
<1>7. ASSUME NEW t \in Seqs PROVE SeqOK(life'[t], queue'[t], (cb = t)', wsi'[t], held'[t])
  <2>1. SeqOK(life[t], queue[t], cb = t, wsi[t], held[t])
    BY DEF IInv
  <2> QED BY <1>1, <1>2, <2>1 DEF SeqOK
<1> QED BY <1>3, <1>4, <1>5, <1>6, <1>7 DEF IInv

\* ContextDestroy keeps the invariant.
LEMMA ContextDestroyOK == ASSUME IInv, ContextDestroy PROVE IInv'
<1>1. TypeOK'
  BY DEF IInv, TypeOK, ContextDestroy
<1>2. CallsOK'
  BY DEF IInv, CallsOK, ContextDestroy
<1>3. \A s \in Seqs : SeqOK(life'[s], queue'[s], (cb = s)', wsi'[s], held'[s])
  BY DEF IInv, ContextDestroy
<1> QED BY <1>1, <1>2, <1>3 DEF IInv, ContextDestroy

\* ForeignChecks() keeps the invariant.
LEMMA ForeignChecksOK == ASSUME IInv, NEW s \in Seqs, ForeignChecks(s) PROVE IInv'
<1>1. TypeOK'
  BY DEF IInv, TypeOK, ForeignChecks
<1>2. CallsOK'
  BY ActiveIsReachable DEF IInv, CallsOK, ForeignChecks
<1>3. \A t \in Seqs : SeqOK(life'[t], queue'[t], (cb = t)', wsi'[t], held'[t])
  BY DEF IInv, ForeignChecks
<1> QED BY <1>1, <1>2, <1>3 DEF IInv, ForeignChecks

\* ForeignQueues keeps the invariant.
LEMMA ForeignQueuesOK == ASSUME IInv, ForeignQueues PROVE IInv'
<1>1. foreign # None /\ foreign \in Seqs /\ life[foreign] \in Reachable /\ ListOK(suls, life, pass)
  BY ActiveIsReachable DEF ForeignQueues, IInv, CallsOK, TypeOK
<1>2. /\ queue' = [queue EXCEPT ![foreign] = Append(@, "other")]
      /\ suls' = __lws_sul_insert(suls, Pending(foreign), lag, 1)
      /\ foreign' \in {foreign, None}
      /\ UNCHANGED <<lag, pass, seq_owner, life, cb, dying, wsi, held, ending>>
  BY DEF ForeignQueues, lws_seq_queue_event
<1> QED BY <1>1, <1>2, OneQueued

\* An event of the bound connection is queued, on a live sequencer outside
\* of a pass.
LEMMA WsiQueued ==
  ASSUME IInv, NEW s \in Seqs, NEW e \in Events, NEW w \in {"open", "closed"}, ~pass,
         life[s] = "live", WsiOK(Append(queue[s], e), FALSE, w, held[s]),
         wsi' = [wsi EXCEPT ![s] = w], lws_seq_queue_event(s, e),
         UNCHANGED <<lag, pass, seq_owner, life, cb, dying, foreign, held, ending>>
  PROVE  IInv'
<1>0. TypeOK /\ cb = None /\ lag \in Nat
  BY LagIsNat DEF IInv, CallsOK
<1>1. /\ queue' = [queue EXCEPT ![s] = Append(@, e)]
      /\ suls' = __lws_sul_insert(suls, Pending(s), lag, 1)
  BY DEF lws_seq_queue_event
<1>2. ListOK(suls', life, pass)
  BY <1>0, <1>1, PendingList DEF IInv, Reachable
<1>3. TypeOK'
  <2>1. Append(queue[s], e) \in Seq(Events)
    BY <1>0, QueuedAt DEF TypeOK
  <2>2. suls' \in Seq([sul : SulIds, us : Int])
    BY <1>2, SulsType
  <2>3. queue' \in [Seqs -> Seq(Events)] /\ wsi' \in [Seqs -> {"none", "open", "closed"}]
    BY <1>0, <1>1, <2>1 DEF TypeOK
  <2> QED BY <1>0, <2>2, <2>3 DEF TypeOK
<1>4. CallsOK'
  BY <1>0 DEF IInv, CallsOK
<1>5. ASSUME NEW t \in Seqs PROVE SeqOK(life'[t], queue'[t], (cb = t)', wsi'[t], held'[t])
  <2>1. SeqOK(life[t], queue[t], cb = t, wsi[t], held[t]) /\ ~(cb = t)
    BY <1>0, NoneAssumption DEF IInv
  <2>2. CASE t = s
    <3>1. queue'[t] = Append(queue[t], e) /\ wsi'[t] = w
      BY <1>0, <1>1, <2>2 DEF TypeOK
    <3> QED BY <2>1, <2>2, <3>1 DEF SeqOK
  <2>3. CASE t # s
    <3>1. queue'[t] = queue[t] /\ wsi'[t] = wsi[t]
      BY <1>0, <1>1, <2>3 DEF TypeOK
    <3> QED BY <2>1, <3>1
  <2> QED BY <2>2, <2>3
<1>6. ListOK(suls', life', pass') /\ OwnerOK(seq_owner', life')
  BY <1>2 DEF IInv
<1> QED BY <1>3, <1>4, <1>5, <1>6 DEF IInv

\* What is waiting on a live sequencer outside of a pass.
LEMMA LiveQueue ==
  ASSUME IInv, NEW s \in Seqs, ~pass, life[s] = "live"
  PROVE  WsiOK(queue[s], FALSE, wsi[s], held[s]) /\ queue[s] \in Seq(Events) /\ held[s] \in BOOLEAN
<1>1. TypeOK /\ ~(cb = s) /\ SeqOK(life[s], queue[s], cb = s, wsi[s], held[s])
  BY NoneAssumption DEF IInv, CallsOK
<1> QED BY <1>1 DEF SeqOK, TypeOK

\* WsiConnected() keeps the invariant.
LEMMA WsiConnectedOK == ASSUME IInv, NEW s \in Seqs, WsiConnected(s) PROVE IInv'
<1>1. ~pass /\ life[s] = "live" /\ wsi[s] = "none" /\ "WSI_CONNECTED" \in Events
  BY DEF WsiConnected, Events
<1>2. WsiOK(Append(queue[s], "WSI_CONNECTED"), FALSE, "open", held[s])
  BY <1>1, LiveQueue, QueuedConnect
<1>3. /\ wsi' = [wsi EXCEPT ![s] = "open"] /\ lws_seq_queue_event(s, "WSI_CONNECTED")
      /\ UNCHANGED <<lag, pass, seq_owner, life, cb, dying, foreign, held, ending>>
  BY DEF WsiConnected
<1> QED BY <1>1, <1>2, <1>3, WsiQueued

\* WsiClosed() keeps the invariant.
LEMMA WsiClosedOK == ASSUME IInv, NEW s \in Seqs, WsiClosed(s) PROVE IInv'
<1>1. ~pass /\ wsi[s] = "open" /\ "WSI_CONN_CLOSE" \in Events /\ TypeOK
  BY DEF WsiClosed, Events, IInv
<1>2. /\ wsi' = [wsi EXCEPT ![s] = "closed"]
      /\ UNCHANGED <<lag, pass, seq_owner, life, cb, dying, foreign, held, ending>>
  BY DEF WsiClosed
<1>3. CASE life[s] = "live"
  <2>1. lws_seq_queue_event(s, "WSI_CONN_CLOSE")
    BY <1>3 DEF WsiClosed
  <2>2. WsiOK(Append(queue[s], "WSI_CONN_CLOSE"), FALSE, "closed", held[s])
    BY <1>1, <1>3, LiveQueue, QueuedClose
  <2> QED BY <1>1, <1>2, <1>3, <2>1, <2>2, WsiQueued
<1>4. CASE life[s] # "live"
  <2>1. queue' = queue /\ suls' = suls
    BY <1>4 DEF WsiClosed
  <2>2. TypeOK'
    BY <1>1, <1>2, <2>1 DEF TypeOK
  <2>3. CallsOK'
    BY <1>2, <2>1 DEF IInv, CallsOK
  <2>4. life[s] # "none"
    BY <1>1 DEF IInv, SeqOK
  <2>5. ASSUME NEW t \in Seqs PROVE SeqOK(life'[t], queue'[t], (cb = t)', wsi'[t], held'[t])
    <3>1. SeqOK(life[t], queue[t], cb = t, wsi[t], held[t])
      BY DEF IInv
    <3>2. t # s => wsi'[t] = wsi[t]
      BY <1>1, <1>2 DEF TypeOK
    <3> QED BY <1>2, <1>4, <2>1, <2>4, <3>1, <3>2 DEF SeqOK
  <2> QED BY <1>2, <2>1, <2>2, <2>3, <2>5 DEF IInv
<1> QED BY <1>3, <1>4

\* Every step keeps the invariant.
LEMMA NextOK == IInv /\ [Next]_vars => IInv'
<1> SUFFICES ASSUME IInv, [Next]_vars PROVE IInv'
  OBVIOUS
<1>1. CASE Clock
  BY <1>1, ClockOK
<1>2. CASE Service
  BY <1>2, ServiceBeginOK, ServiceEndOK, HeartbeatOK, TimeoutOK, PendingBeginOK, PendingEndOK,
     DestroyEndOK DEF Service
<1>3. CASE User
  BY <1>3, ContextDestroyOK, CreateOK, UserQueuesOK, TimeoutSetOK, DestroyBeginOK, WsiConnectedOK,
     WsiClosedOK DEF User
<1>4. CASE lws_seq_destroy_all_on_pt
  BY <1>4, DestroyAllOK
<1>5. CASE Others
  BY <1>5, ForeignQueuesOK, ForeignChecksOK DEF Others
<1>6. CASE UNCHANGED vars
  <2>1. TypeOK'
    BY <1>6 DEF vars, IInv, TypeOK
  <2>2. CallsOK'
    BY <1>6 DEF vars, IInv, CallsOK
  <2>3. \A s \in Seqs : SeqOK(life'[s], queue'[s], (cb = s)', wsi'[s], held'[s])
    BY <1>6 DEF vars, IInv
  <2> QED BY <1>6, <2>1, <2>2, <2>3 DEF vars, IInv
<1> QED BY <1>1, <1>2, <1>3, <1>4, <1>5, <1>6 DEF Next

-----------------------------------------------------------------------------
(* The theorems *)

\* The invariant holds.
LEMMA IInvHolds == Spec => []IInv
BY InitOK, NextOK, PTL DEF Spec

\* The list of timers is sorted with each timer on it once, a pass leaves none
\* that was ripe, and no timer or callback reaches a sequencer that was freed,
\* as long as no other thread is still inside lws_seq_queue_event() when a
\* sequencer is destroyed (sorted-usec-list.c, sequencer.c).
THEOREM TimersAreSoundHolds ==
  ASSUME ~Racing
  PROVE  Spec => []TimersAreSound
<1>1. IInv => TimersAreSound
  <2> SUFFICES ASSUME IInv PROVE TimersAreSound
    OBVIOUS
  <2>1. ListOK(suls, life, pass) /\ CallsOK /\ TypeOK
    BY DEF IInv
  <2>2. TimersInOrder
    <3>1. ASSUME ~pass, NEW i \in DOMAIN suls PROVE ~Ripe(suls[i])
      <4>1. suls[i] \in Entry /\ suls[i].us > 0
        BY <2>1, <3>1, LenProperties, ElementOfSeq DEF ListOK, EntryOK
      <4> QED BY <4>1 DEF Ripe, Entry
    <3> QED BY <2>1, <3>1 DEF ListOK, InOrder, TimersInOrder
  <2>3. NothingFreedIsUsed
    BY <2>1 DEF ListOK, EntryOK, CallsOK, NothingFreedIsUsed, Reachable, Active
  <2> QED BY <2>1, <2>2, <2>3 DEF TimersAreSound
<1> QED BY <1>1, IInvHolds, PTL

\* A sequencer that was told of its connection and not of its close learns from
\* lws_seq_check_wsi() exactly whether the connection closed, however many
\* events are queued and however late they are handled (sequencer.c).
THEOREM CheckWsiIsRightHolds == Spec => []CheckWsiIsRight
<1>1. IInv => CheckWsiIsRight
  <2> SUFFICES ASSUME IInv, NEW s \in Seqs, held[s], life[s] = "live"
               PROVE  lws_seq_check_wsi(s) <=> wsi[s] = "closed"
    BY DEF CheckWsiIsRight
  <2> DEFINE q == queue[s]
             c == cb = s
  <2>1. WsiOK(q, c, wsi[s], held[s]) /\ q \in Seq(Events)
    BY DEF IInv, SeqOK, TypeOK
  <2>2. DOMAIN q = 1 .. Len(q) /\ Len(q) \in Nat
    BY <2>1, LenProperties
  <2>3. ASSUME NEW i \in DOMAIN q, q[i] = "WSI_CONN_CLOSE" PROVE wsi[s] = "closed"
    <3>1. CASE i \in Waiting(q, c)
      BY <2>1, <2>3, <3>1 DEF WsiOK
    <3>2. CASE i \notin Waiting(q, c)
      <4>1. c /\ i = 1 /\ q # <<>>
        BY <2>2, <2>3, <3>2 DEF Waiting
      <4> QED BY <2>1, <2>3, <4>1 DEF WsiOK
    <3> QED BY <3>1, <3>2
  <2>4. wsi[s] = "closed" => \E i \in DOMAIN q : q[i] = "WSI_CONN_CLOSE"
    BY <2>1 DEF WsiOK, Waiting
  <2> QED BY <2>3, <2>4 DEF lws_seq_check_wsi
<1> QED BY <1>1, IInvHolds, PTL

=============================================================================
