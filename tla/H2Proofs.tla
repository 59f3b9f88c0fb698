------------------------------ MODULE H2Proofs ------------------------------
(***************************************************************************)
(* An http/2 connection: both ends agree on every window, nothing is sent  *)
(* beyond one, and no stream that could send is left without POLLOUT, for  *)
(* any streams, lengths and windows, when frames are read whole.           *)
(***************************************************************************)
EXTENDS H2, FiniteSetTheorems, SequenceTheorems, TLAPS

-----------------------------------------------------------------------------
(* The inductive invariant *)

NoDuplicates(list) == \A i, j \in DOMAIN list : list[i] = list[j] => i = j

(* what the peer has sent and lws has not dealt with, oldest first *)
Line == part \o flight

Count(line, t, s) == Cardinality(Matching(line, t, s))

FrameOK(f) ==
  /\ f.t \in {"update", "data"} => f.n = 1
  /\ f.t = "settings" => f.n \in Windows
  /\ f.t \in {"settings", "ping"} => f.sid = 0
  /\ f.t = "headers" => f.sid \in Sids /\ f.k \in Kinds

(* A child c of stream s, p being what the peer has of it: the body that   *)
(* has not come is what the child waits for, and the windows differ by the *)
(* credit that is on its way.  i and q are the initial windows either end  *)
(* goes by.  A stream that was reset for too much credit may have less.    *)
ChildOK(s, c, p, line, i, q) ==
  /\ p.s # "idle"
  /\ Matching(line, "headers", s) = {}
  /\ c.buf + Count(line, "data", s) + p.body <= c.left
  /\ c.k = "get" => Count(line, "data", s) + p.body = 0
  /\ c.lrs # "deferring" => c.buf = 0
  /\ c.lrs = "file" => c.k = "get" /\ (c.tx > 0 => c.req)
  /\ p.s = "open" => c.tx - i + Count(line, "update", s) <= p.win - q
  /\ p.s = "open" /\ c.h2 # "closed" => c.tx - i + Count(line, "update", s) = p.win - q

(* A stream whose HEADERS are at place h of the line *)
NewOK(s, h, p, line, q) ==
  /\ p.s # "idle"
  /\ \A j \in DOMAIN line : line[j].sid = s => h <= j
  /\ Matching(line, "headers", s) = {h}
  /\ Count(line, "data", s) + p.body <= IF line[h].k = "post" THEN BodyLen ELSE 0
  /\ p.s = "open" => Count(line, "update", s) = p.win - q

StreamOK(s, children, p, line, i, q) ==
  /\ p.s = "idle" => s \notin DOMAIN children /\ \A j \in DOMAIN line : line[j].sid # s
  /\ s \in DOMAIN children => ChildOK(s, children[s], p, line, i, q)
  /\ \A h \in Matching(line, "headers", s) : NewOK(s, h, p, line, q)

FramesOK(line) == \A j \in DOMAIN line : FrameOK(line[j])
StreamsOK(children, p, line, i, q) ==
  \A s \in Sids : StreamOK(s, children, p[s], line, i, q)

(* SETTINGS are on their way, then acknowledged in the queue although they *)
(* are still to be read, then applied, until the acknowledgement is sent.  *)
(* If a frame may come in two reads it may be sent before they are         *)
(* applied, and the peer may have sent others by then.                     *)
Acks(queue) == {j \in DOMAIN queue : queue[j].t = "ack"}
Settled(frames) == \A j \in DOMAIN frames : frames[j].t # "settings"
OneSetting(frames, v) ==
  \E j \in DOMAIN frames : /\ frames[j].t = "settings" /\ frames[j].n = v
                           /\ \A k \in DOMAIN frames : frames[k].t = "settings" => k = j
OneAck(queue) == \E j \in DOMAIN queue : Acks(queue) = {j}

SettingsOK(o, i, q, frames, line, queue) ==
  \/ /\ o = <<>> /\ i = q
     /\ Settled(frames) /\ Settled(line) /\ Acks(queue) = {}
  \/ /\ o # <<>> /\ i = q
     /\ Settled(frames) /\ OneSetting(line, o[1]) /\ Acks(queue) = {}
  \/ /\ o # <<>> /\ i = q
     /\ OneSetting(frames, o[1]) /\ Settled(line) /\ OneAck(queue)
  \/ /\ o # <<>> /\ i = o[1]
     /\ Settled(frames) /\ Settled(line) /\ OneAck(queue)
  \/ /\ Split /\ o = <<>>
     /\ OneSetting(frames, q) /\ Settled(line) /\ Acks(queue) = {}
  \/ /\ Split /\ o # <<>>
     /\ OneSetting(frames, q) /\ OneSetting(line, o[1]) /\ Acks(queue) = {}

Typed ==
  /\ conn \in {"open", "closed"}
  /\ flight \in Seq(Frame) /\ Len(flight) <= MaxFlight
  /\ part \in Seq(Frame) /\ Len(part) <= 1
  /\ pps \in Seq(PpsRec)
  /\ tx \in Int /\ pwin \in Int /\ pcred \in Int
  /\ pollout \in BOOLEAN
  /\ turn \in {"no", "first", "again", "end"}
  /\ opened \in Sids \cup {0}
  /\ init \in Windows \cup {Default} /\ pinit \in Windows \cup {Default}
  /\ ps \in [Sids -> PeerRec]
  /\ offer \in Seq(Windows) /\ Len(offer) <= 1
  /\ spent \in 0 .. MaxRare

ChildrenOK(children) ==
  DOMAIN children \subseteq Sids /\ \A s \in DOMAIN children : children[s] \in ChildRec

KidsOK(list, S) == list \in Seq(Sids) /\ NoDuplicates(list) /\ Range(list) = S

(* credit on all streams: there is never too much of it *)
ConnOK == conn = "open" =>
  tx >= 0 /\ pwin = tx + Count(Line, "update", 0) /\ pwin <= MaxWindow

(* what the peer does not accept is sent only where frames come in parts *)
OverOK == over \in BOOLEAN /\ (over => Split)

TurnOK ==
  /\ turn # "no" => conn = "open" /\ pps = <<>> /\ (part = <<>> \/ Split)
  /\ PolloutIsAsked

IInv ==
  /\ Typed /\ ChildrenOK(st) /\ KidsOK(kids, DOMAIN st)
  /\ FramesOK(Line) /\ StreamsOK(st, ps, Line, init, pinit)
  /\ ConnOK /\ OverOK
  /\ conn = "open" => SettingsOK(offer, init, pinit, part, flight, pps)
  /\ TurnOK

-----------------------------------------------------------------------------
(* Lists *)

(* m is the list l with f added at the end, or l is m with f in front *)
Pushed(l, f, m) ==
  /\ Len(m) = Len(l) + 1 /\ m[Len(l) + 1] = f
  /\ \A i \in 1 .. Len(l) : m[i] = l[i]

Popped(l, f, m) ==
  /\ Len(l) = Len(m) + 1 /\ l[1] = f
  /\ \A i \in 1 .. Len(m) : l[i + 1] = m[i]

\* Append adds at the end.
LEMMA AppendPushes ==
  ASSUME NEW S, NEW l \in Seq(S), NEW f \in S
  PROVE  Append(l, f) \in Seq(S) /\ Pushed(l, f, Append(l, f))
BY AppendProperties DEF Pushed

\* Tail takes the first one off.
LEMMA TailPops ==
  ASSUME NEW S, NEW l \in Seq(S), l # <<>>
  PROVE  Tail(l) \in Seq(S) /\ Head(l) \in S /\ Popped(l, Head(l), Tail(l))
<1>1. Len(l) \in Nat \ {0} /\ Head(l) = l[1]
  BY EmptySeq
<1> QED BY <1>1, HeadTailProperties DEF Popped

\* What the peer sends goes to the end of the line.
LEMMA LinePushed ==
  ASSUME NEW S, NEW p \in Seq(S), NEW l \in Seq(S), NEW f \in S
  PROVE  /\ p \o l \in Seq(S) /\ p \o Append(l, f) \in Seq(S)
         /\ Pushed(p \o l, f, p \o Append(l, f))
<1>1. <<f>> \in Seq(S)
  OBVIOUS
<1>2. p \o l \in Seq(S) /\ p \o Append(l, f) = Append(p \o l, f)
  BY <1>1, AppendIsConcat, ConcatAssociative, ConcatProperties
<1> QED BY <1>2, AppendPushes

\* A frame whose header is parsed keeps its place in the line.
LEMMA LineKept ==
  ASSUME NEW S, NEW l \in Seq(S), l # <<>>
  PROVE  <<Head(l)>> \o Tail(l) = <<>> \o l
<1>1. <<Head(l)>> \in Seq(S) /\ Tail(l) \in Seq(S) /\ Len(l) \in Nat \ {0} /\ Head(l) = l[1]
  BY EmptySeq, HeadTailProperties
<1> DEFINE m == <<Head(l)>> \o Tail(l)
<1>2. /\ m \in Seq(S) /\ Len(m) = 1 + Len(Tail(l)) /\ Len(Tail(l)) = Len(l) - 1
      /\ \A i \in 1 .. 1 + Len(Tail(l)) : m[i] = IF i <= 1 THEN <<Head(l)>>[i] ELSE Tail(l)[i - 1]
  BY <1>1, ConcatProperties, HeadTailProperties
<1>3. \A i \in 1 .. Len(Tail(l)) : Tail(l)[i] = l[i + 1]
  BY HeadTailProperties
<1> HIDE DEF m
<1>4. ASSUME NEW i \in 1 .. Len(m) PROVE m[i] = l[i]
  <2>1. CASE i = 1
    BY <1>1, <1>2, <2>1
  <2>2. CASE i > 1
    <3>1. i - 1 \in 1 .. Len(Tail(l)) /\ (i - 1) + 1 = i
      BY <1>1, <1>2, <2>2
    <3> QED BY <1>1, <1>2, <1>3, <2>2, <3>1
  <2> QED BY <2>1, <2>2
<1>5. m = l
  BY <1>1, <1>2, <1>4, SeqEqual
<1> QED BY <1>5, ConcatEmptySeq DEF m

\* The frame that is parsed is the first of the line.
LEMMA LinePopped ==
  ASSUME NEW S, NEW p \in Seq(S), p # <<>>, Len(p) <= 1, NEW l \in Seq(S)
  PROVE  /\ p \o l \in Seq(S) /\ <<>> \o l \in Seq(S) /\ p[1] \in S
         /\ Popped(p \o l, p[1], <<>> \o l)
<1>0. Len(p) \in Nat \ {0} /\ Len(l) \in Nat
  BY EmptySeq, LenProperties
<1>1. Len(p) = 1 /\ p[1] \in S /\ Len(l) \in Nat
  <2> DEFINE n == Len(p)
  <2>0. n \in Nat /\ n # 0 /\ n <= 1
    BY <1>0
  <2> HIDE DEF n
  <2>1. n = 1 /\ 1 \in 1 .. n
    BY <2>0
  <2>2. p[1] \in S
    BY <2>1, ElementOfSeq DEF n
  <2> QED BY <1>0, <2>1, <2>2 DEF n
<1>2. <<>> \o l = l
  BY ConcatEmptySeq
<1>3. /\ p \o l \in Seq(S) /\ Len(p \o l) = Len(p) + Len(l)
      /\ \A i \in 1 .. Len(p) + Len(l) : (p \o l)[i] = IF i <= Len(p) THEN p[i] ELSE l[i - Len(p)]
  BY ConcatProperties
<1> DEFINE m == p \o l
<1> HIDE DEF m
<1>4. Popped(m, p[1], l)
  BY <1>1, <1>3 DEF m, Popped
<1> QED BY <1>1, <1>2, <1>3, <1>4 DEF m

-----------------------------------------------------------------------------
(* Counting frames *)

\* The frames of a kind are counted.
LEMMA CountIsNat ==
  ASSUME NEW l \in Seq(Frame), NEW t, NEW s
  PROVE  /\ IsFiniteSet(Matching(l, t, s)) /\ Matching(l, t, s) \subseteq 1 .. Len(l)
         /\ Count(l, t, s) \in Nat
         /\ Count(l, t, s) = 0 <=> Matching(l, t, s) = {}
<1>1. Matching(l, t, s) \subseteq 1 .. Len(l) /\ Len(l) \in Nat
  BY LenProperties DEF Matching
<1>2. IsFiniteSet(Matching(l, t, s))
  <2>1. IsFiniteSet(1 .. Len(l))
    BY <1>1, FS_Interval
  <2> QED BY <1>1, <2>1, FS_Subset
<1> QED BY <1>1, <1>2, FS_CardinalityType, FS_EmptySet DEF Count

\* A frame at the end is counted if it is of the kind.
LEMMA CountPushed ==
  ASSUME NEW l \in Seq(Frame), NEW m \in Seq(Frame), NEW f, Pushed(l, f, m), NEW t, NEW s
  PROVE  /\ f.t = t /\ f.sid = s => /\ Count(m, t, s) = Count(l, t, s) + 1
                                    /\ Matching(m, t, s) = Matching(l, t, s) \cup {Len(l) + 1}
         /\ f.t # t \/ f.sid # s => /\ Count(m, t, s) = Count(l, t, s)
                                    /\ Matching(m, t, s) = Matching(l, t, s)
<1>1. DOMAIN m = 1 .. Len(l) + 1 /\ DOMAIN l = 1 .. Len(l) /\ Len(l) \in Nat
  BY LenProperties DEF Pushed
<1>2. Matching(m, t, s) = Matching(l, t, s) \cup
                          (IF f.t = t /\ f.sid = s THEN {Len(l) + 1} ELSE {})
  BY <1>1 DEF Pushed, Matching
<1>3. /\ IsFiniteSet(Matching(l, t, s)) /\ Len(l) + 1 \notin Matching(l, t, s)
      /\ Count(l, t, s) \in Nat
  BY <1>1, CountIsNat
<1>4. CASE f.t = t /\ f.sid = s
  <2>1. Matching(m, t, s) = Matching(l, t, s) \cup {Len(l) + 1}
    BY <1>2, <1>4
  <2>2. Cardinality(Matching(m, t, s)) = Cardinality(Matching(l, t, s)) + 1
    BY <1>3, <2>1, FS_AddElement
  <2> QED BY <1>4, <2>1, <2>2 DEF Count
<1>5. CASE ~(f.t = t /\ f.sid = s)
  <2>1. Matching(m, t, s) = Matching(l, t, s)
    BY <1>2, <1>5
  <2>2. Count(m, t, s) = Count(l, t, s)
    BY <2>1 DEF Count
  <2> QED BY <1>3, <1>5, <2>1, <2>2
<1> QED BY <1>4, <1>5

\* A frame in front is counted if it is of the kind; the others move up.
LEMMA CountPopped ==
  ASSUME NEW l \in Seq(Frame), NEW m \in Seq(Frame), NEW f, Popped(l, f, m), NEW t, NEW s
  PROVE  /\ f.t = t /\ f.sid = s => Count(l, t, s) = Count(m, t, s) + 1
         /\ f.t # t \/ f.sid # s => Count(l, t, s) = Count(m, t, s)
         /\ \A i \in 1 .. Len(m) : i \in Matching(m, t, s) <=> i + 1 \in Matching(l, t, s)
<1>1. DOMAIN l = 1 .. Len(m) + 1 /\ DOMAIN m = 1 .. Len(m) /\ Len(m) \in Nat
  BY LenProperties DEF Popped
<1>2. \A i \in 1 .. Len(m) : i \in Matching(m, t, s) <=> i + 1 \in Matching(l, t, s)
  BY <1>1 DEF Popped, Matching
<1>3. 1 \in Matching(l, t, s) <=> f.t = t /\ f.sid = s
  BY <1>1 DEF Popped, Matching
<1> DEFINE a == Matching(m, t, s)
           b == Matching(l, t, s)
           up == [i \in a |-> i + 1]
<1>4. /\ IsFiniteSet(a) /\ a \subseteq 1 .. Len(m) /\ Count(m, t, s) = Cardinality(a)
      /\ IsFiniteSet(b) /\ b \subseteq 1 .. Len(m) + 1 /\ Count(l, t, s) = Cardinality(b)
      /\ Cardinality(a) \in Nat /\ Cardinality(b) \in Nat
  BY <1>1, CountIsNat DEF Count, Popped
<1>5. \A i \in 1 .. Len(m) : i \in a <=> i + 1 \in b
  BY <1>2
<1> HIDE DEF a, b
<1>6. \A i \in b \ {1} : i - 1 \in a /\ (i - 1) + 1 = i
  BY <1>1, <1>4, <1>5
<1>7. up \in Bijection(a, b \ {1})
  <2>1. up \in [a -> b \ {1}]
    BY <1>1, <1>4, <1>5
  <2>2. \A i, j \in a : up[i] = up[j] => i = j
    BY <1>4
  <2>3. \A i \in b \ {1} : \E j \in a : up[j] = i
    BY <1>6
  <2> HIDE DEF up
  <2> QED BY <2>1, <2>2, <2>3 DEF Bijection, Injection, Surjection, IsInjective
<1>8. Cardinality(b \ {1}) = Cardinality(a)
  BY <1>4, <1>7, FS_Bijection DEF ExistsBijection
<1>9. Cardinality(b \ {1}) = IF 1 \in b THEN Cardinality(b) - 1 ELSE Cardinality(b)
  BY <1>4, FS_RemoveElement
<1>10. 1 \in b <=> f.t = t /\ f.sid = s
  BY <1>3 DEF b
<1> QED BY <1>2, <1>4, <1>8, <1>9, <1>10

-----------------------------------------------------------------------------
(* The list of children *)

\* What is on a list, place by place.
LEMMA KidsFacts ==
  ASSUME NEW list, NEW S, KidsOK(list, S)
  PROVE  /\ list \in Seq(Sids) /\ DOMAIN list = 1 .. Len(list) /\ Len(list) \in Nat
         /\ \A i \in 1 .. Len(list) : list[i] \in S
         /\ \A x \in S : \E i \in 1 .. Len(list) : list[i] = x
         /\ S \subseteq Sids
<1>1. list \in Seq(Sids) /\ Range(list) = S
  BY DEF KidsOK
<1>2. DOMAIN list = 1 .. Len(list) /\ Len(list) \in Nat
  BY <1>1, LenProperties
<1>3. \A i \in 1 .. Len(list) : list[i] \in S
  BY <1>1, <1>2 DEF Range
<1>4. \A x \in S : \E i \in 1 .. Len(list) : list[i] = x
  BY <1>1, <1>2 DEF Range
<1>5. S \subseteq Sids
  BY <1>1, <1>4, ElementOfSeq
<1> QED BY <1>1, <1>2, <1>3, <1>4, <1>5

\* There are as many places as children.
LEMMA KidsCardinality ==
  ASSUME NEW list, NEW S, KidsOK(list, S)
  PROVE  Len(list) = Cardinality(S)
<1>1. /\ list \in [1 .. Len(list) -> S] /\ Len(list) \in Nat
      /\ \A x \in S : \E i \in 1 .. Len(list) : list[i] = x
      /\ \A i, j \in 1 .. Len(list) : list[i] = list[j] => i = j
  <2>1. list \in [1 .. Len(list) -> Sids] /\ \A i \in 1 .. Len(list) : list[i] \in S
    BY KidsFacts, LenProperties
  <2>2. \A i, j \in 1 .. Len(list) : list[i] = list[j] => i = j
    BY KidsFacts DEF KidsOK, NoDuplicates
  <2> QED BY <2>1, <2>2, KidsFacts
<1>2. list \in Bijection(1 .. Len(list), S)
  BY <1>1 DEF Bijection, Injection, Surjection, IsInjective
<1> QED BY <1>1, <1>2, FS_CountingElements DEF ExistsBijection

\* A new child goes to the head of the list.
LEMMA KidAdded ==
  ASSUME NEW list, NEW S, KidsOK(list, S), NEW s \in Sids, s \notin S
  PROVE  KidsOK(<<s>> \o list, S \cup {s})
<1> DEFINE l == <<s>> \o list
<1>1. /\ l \in Seq(Sids) /\ Len(l) = Len(list) + 1
      /\ \A i \in 1 .. Len(l) : l[i] = IF i = 1 THEN s ELSE list[i - 1]
  <2>1. <<s>> \in Seq(Sids) /\ Len(<<s>>) = 1 /\ list \in Seq(Sids) /\ Len(list) \in Nat
    BY KidsFacts
  <2>2. /\ l \in Seq(Sids) /\ Len(l) = 1 + Len(list)
        /\ \A i \in 1 .. 1 + Len(list) : l[i] = IF i <= 1 THEN <<s>>[i] ELSE list[i - 1]
    BY <2>1, ConcatProperties
  <2> QED BY <2>1, <2>2
<1>2. DOMAIN l = 1 .. Len(l)
  BY <1>1, LenProperties
<1> HIDE DEF l
<1>3. NoDuplicates(l)
  <2> SUFFICES ASSUME NEW i \in 1 .. Len(l), NEW j \in 1 .. Len(l), l[i] = l[j] PROVE i = j
    BY <1>2 DEF NoDuplicates
  <2>1. \A k \in 1 .. Len(l) : k # 1 => k - 1 \in 1 .. Len(list) /\ l[k] = list[k - 1] /\ l[k] # s
    BY <1>1, KidsFacts
  <2>2. l[1] = s
    BY <1>1, KidsFacts
  <2>3. CASE i # 1 /\ j # 1
    <3>1. i - 1 = j - 1
      BY <2>1, <2>3, KidsFacts DEF KidsOK, NoDuplicates
    <3> QED BY <3>1
  <2> QED BY <2>1, <2>2, <2>3
<1>4. ASSUME NEW x PROVE x \in S \cup {s} <=> \E i \in DOMAIN l : l[i] = x
  <2>1. ASSUME NEW i \in 1 .. Len(list) PROVE i + 1 \in DOMAIN l /\ l[i + 1] = list[i]
    BY <1>1, <1>2, KidsFacts
  <2>2. 1 \in DOMAIN l /\ l[1] = s
    BY <1>1, <1>2, KidsFacts
  <2>3. ASSUME NEW i \in DOMAIN l, i # 1 PROVE i - 1 \in 1 .. Len(list) /\ l[i] = list[i - 1]
    BY <1>1, <1>2, <2>3, KidsFacts
  <2> QED BY <2>1, <2>2, <2>3, KidsFacts
<1>5. Range(l) = S \cup {s}
  BY <1>4 DEF Range
<1> QED BY <1>1, <1>3, <1>5 DEF KidsOK, l

\* What is at one place of a list is taken off it.
LEMMA KidCutAt ==
  ASSUME NEW list, NEW S, KidsOK(list, S), NEW i \in DOMAIN list
  PROVE  KidsOK(SubSeq(list, 1, i - 1) \o SubSeq(list, i + 1, Len(list)), S \ {list[i]})
<1> DEFINE a == SubSeq(list, 1, i - 1)
           b == SubSeq(list, i + 1, Len(list))
           l == a \o b
           n == Len(list)
<1>1. /\ DOMAIN list = 1 .. n /\ n \in Nat /\ i \in 1 .. n
      /\ \A j \in 1 .. n : list[j] \in Sids
  BY KidsFacts
<1>2. /\ a \in Seq(Sids) /\ Len(a) = IF 1 <= i - 1 THEN (i - 1) - 1 + 1 ELSE 0
      /\ \A j \in 1 .. ((i - 1) - 1 + 1) : a[j] = list[1 + j - 1]
  BY <1>1, SubSeqProperties
<1>3. /\ b \in Seq(Sids) /\ Len(b) = IF i + 1 <= n THEN n - (i + 1) + 1 ELSE 0
      /\ \A j \in 1 .. (n - (i + 1) + 1) : b[j] = list[(i + 1) + j - 1]
  BY <1>1, SubSeqProperties
<1>4. /\ l \in Seq(Sids) /\ Len(l) = Len(a) + Len(b)
      /\ \A j \in 1 .. (Len(a) + Len(b)) : l[j] = IF j <= Len(a) THEN a[j] ELSE b[j - Len(a)]
  BY <1>2, <1>3, ConcatProperties
<1> HIDE DEF a, b, l, n
<1>5. Len(a) = i - 1 /\ Len(b) = n - i
  BY <1>1, <1>2, <1>3
<1>6. ASSUME NEW j \in 1 .. (n - 1)
      PROVE  l[j] = IF j < i THEN list[j] ELSE list[j + 1]
  <2>1. CASE j < i
    <3>1. j \in 1 .. ((i - 1) - 1 + 1) /\ 1 + j - 1 = j
      BY <1>1, <2>1
    <3>2. j \in 1 .. (Len(a) + Len(b)) /\ j <= Len(a)
      BY <1>1, <1>5, <2>1
    <3> QED BY <1>2, <1>4, <2>1, <3>1, <3>2
  <2>2. CASE ~(j < i)
    <3>1. j - Len(a) \in 1 .. (n - (i + 1) + 1) /\ (i + 1) + (j - Len(a)) - 1 = j + 1
      BY <1>1, <1>5, <2>2
    <3>2. j \in 1 .. (Len(a) + Len(b)) /\ ~(j <= Len(a))
      BY <1>1, <1>5, <2>2
    <3> QED BY <1>3, <1>4, <2>2, <3>1, <3>2
  <2> QED BY <2>1, <2>2
<1>7. DOMAIN l = 1 .. (n - 1)
  BY <1>1, <1>4, <1>5, LenProperties
<1>8. \A j, k \in 1 .. n : list[j] = list[k] => j = k
  BY <1>1 DEF KidsOK, NoDuplicates
<1>9. NoDuplicates(l)
  <2> SUFFICES ASSUME NEW j \in 1 .. (n - 1), NEW k \in 1 .. (n - 1), l[j] = l[k]
               PROVE  j = k
    BY <1>7 DEF NoDuplicates
  <2> DEFINE at(m) == IF m < i THEN m ELSE m + 1
  <2>1. at(j) \in 1 .. n /\ at(k) \in 1 .. n /\ list[at(j)] = list[at(k)]
    BY <1>1, <1>6
  <2>2. at(j) = at(k)
    BY <1>8, <2>1
  <2> QED BY <1>1, <2>2
<1>10. ASSUME NEW x PROVE x \in S \ {list[i]} <=> \E j \in DOMAIN l : l[j] = x
  <2>1. ASSUME NEW j \in DOMAIN l PROVE l[j] \in S \ {list[i]}
    <3>1. l[j] = IF j < i THEN list[j] ELSE list[j + 1]
      BY <1>6, <1>7
    <3>2. PICK k \in 1 .. n : k # i /\ l[j] = list[k]
      BY <1>1, <1>7, <3>1
    <3> QED BY <1>1, <1>8, <3>2, KidsFacts DEF n
  <2>2. ASSUME NEW k \in 1 .. n, k # i PROVE \E j \in DOMAIN l : l[j] = list[k]
    <3>1. CASE k < i
      BY <1>1, <1>6, <1>7, <3>1
    <3>2. CASE k > i
      <4>1. k - 1 \in DOMAIN l /\ l[k - 1] = list[k]
        BY <1>1, <1>6, <1>7, <3>2
      <4> QED BY <4>1
    <3> QED BY <1>1, <2>2, <3>1, <3>2
  <2>3. ASSUME x \in S \ {list[i]} PROVE \E k \in 1 .. n : k # i /\ list[k] = x
    BY <2>3, KidsFacts DEF n
  <2> QED BY <2>1, <2>2, <2>3
<1>11. Range(l) = S \ {list[i]}
  BY <1>10 DEF Range
<1> QED BY <1>4, <1>9, <1>11 DEF KidsOK, l, a, b, n

\* A child is taken off the list, if it is there.
LEMMA KidRemoved ==
  ASSUME NEW list, NEW S, KidsOK(list, S), NEW s
  PROVE  KidsOK(lws_wsi_mux_sibling_disconnect(list, s), S \ {s})
<1> DEFINE places == {i \in DOMAIN list : list[i] = s}
           i == CHOOSE i \in places : TRUE
<1>1. CASE places = {}
  <2>1. s \notin S
    BY <1>1, KidsFacts
  <2> QED BY <1>1, <2>1 DEF lws_wsi_mux_sibling_disconnect
<1>2. CASE places # {}
  <2>1. i \in places
    BY <1>2
  <2>2. i \in DOMAIN list /\ list[i] = s
    BY <2>1
  <2>3. lws_wsi_mux_sibling_disconnect(list, s)
          = SubSeq(list, 1, i - 1) \o SubSeq(list, i + 1, Len(list))
    BY <1>2 DEF lws_wsi_mux_sibling_disconnect
  <2> HIDE DEF i, places
  <2>4. KidsOK(SubSeq(list, 1, i - 1) \o SubSeq(list, i + 1, Len(list)), S \ {list[i]})
    BY <2>2, KidCutAt
  <2> QED BY <2>2, <2>3, <2>4
<1> QED BY <1>1, <1>2

\* A child that was served is moved to the tail.
LEMMA KidMoved ==
  ASSUME NEW list, NEW S, KidsOK(list, S), NEW s \in S
  PROVE  KidsOK(Append(lws_wsi_mux_sibling_disconnect(list, s), s), S)
<1> DEFINE l == lws_wsi_mux_sibling_disconnect(list, s)
           m == Append(l, s)
<1>1. KidsOK(l, S \ {s}) /\ s \in Sids
  BY KidRemoved, KidsFacts
<1> HIDE DEF l
<1>2. /\ l \in Seq(Sids) /\ DOMAIN l = 1 .. Len(l) /\ Len(l) \in Nat
      /\ \A i \in 1 .. Len(l) : l[i] \in S \ {s}
      /\ \A x \in S \ {s} : \E i \in 1 .. Len(l) : l[i] = x
  BY <1>1, KidsFacts
<1>3. /\ m \in Seq(Sids) /\ Len(m) = Len(l) + 1 /\ m[Len(l) + 1] = s
      /\ \A i \in 1 .. Len(l) : m[i] = l[i]
  BY <1>1, <1>2, AppendProperties
<1>4. DOMAIN m = 1 .. Len(l) + 1
  BY <1>3, LenProperties
<1> HIDE DEF m
<1>5. NoDuplicates(m)
  BY <1>1, <1>2, <1>3, <1>4 DEF NoDuplicates, KidsOK
<1>6. ASSUME NEW x PROVE x \in S <=> \E i \in DOMAIN m : m[i] = x
  BY <1>2, <1>3, <1>4
<1>7. Range(m) = S
  BY <1>6 DEF Range
<1> QED BY <1>3, <1>5, <1>7 DEF KidsOK, m, l

-----------------------------------------------------------------------------
(* Streams: what a step does to one of them *)

(* the child of s, if there is one afterwards, is as it was but may ask *)
KeptChild(before, after, s) ==
  s \in DOMAIN after => /\ s \in DOMAIN before
                        /\ after[s] \in {before[s], [before[s] EXCEPT !.req = TRUE]}

\* Asking, or going, does not disturb a stream.
LEMMA StreamKept ==
  ASSUME NEW s, NEW a, NEW b, NEW p \in PeerRec, NEW l, NEW i, NEW q,
         StreamOK(s, a, p, l, i, q), ChildrenOK(a), KeptChild(a, b, s)
  PROVE  StreamOK(s, b, p, l, i, q)
<1>1. p.s = "idle" => s \notin DOMAIN b /\ \A j \in DOMAIN l : l[j].sid # s
  BY DEF StreamOK, KeptChild
<1>2. ASSUME s \in DOMAIN b PROVE ChildOK(s, b[s], p, l, i, q)
  <2>1. ChildOK(s, a[s], p, l, i, q) /\ a[s] \in ChildRec
    BY <1>2 DEF StreamOK, KeptChild, ChildrenOK
  <2>2. CASE b[s] = a[s]
    BY <2>1, <2>2
  <2>3. CASE b[s] = [a[s] EXCEPT !.req = TRUE]
    BY <2>1, <2>3 DEF ChildOK, ChildRec
  <2> QED BY <1>2, <2>2, <2>3 DEF KeptChild
<1>3. \A h \in Matching(l, "headers", s) : NewOK(s, h, p, l, q)
  BY DEF StreamOK
<1> QED BY <1>1, <1>2, <1>3 DEF StreamOK

\* A child that is right by itself is right as a stream.
LEMMA ChildIsStream ==
  ASSUME NEW s, NEW b, NEW p, NEW l, NEW i, NEW q, s \in DOMAIN b, ChildOK(s, b[s], p, l, i, q)
  PROVE  StreamOK(s, b, p, l, i, q)
BY DEF StreamOK, ChildOK

\* A frame for another stream changes nothing.
LEMMA StreamPushedOther ==
  ASSUME NEW s, NEW a, NEW p, NEW l \in Seq(Frame), NEW m \in Seq(Frame), NEW f, NEW i, NEW q,
         StreamOK(s, a, p, l, i, q), Pushed(l, f, m), f.sid # s
  PROVE  StreamOK(s, a, p, m, i, q)
<1>1. ASSUME NEW t PROVE Count(m, t, s) = Count(l, t, s) /\ Matching(m, t, s) = Matching(l, t, s)
  BY CountPushed
<1>2. DOMAIN m = 1 .. Len(l) + 1 /\ DOMAIN l = 1 .. Len(l) /\ Len(l) \in Nat
  BY LenProperties DEF Pushed
<1>3. \A j \in DOMAIN m : m[j].sid = s => j \in DOMAIN l /\ m[j] = l[j]
  BY <1>2 DEF Pushed
<1>4. \A h \in Matching(l, "headers", s) : m[h] = l[h]
  BY <1>2 DEF Matching, Pushed
<1>5. ASSUME s \in DOMAIN a PROVE ChildOK(s, a[s], p, m, i, q)
  BY <1>1, <1>5 DEF StreamOK, ChildOK
<1>6. ASSUME NEW h \in Matching(m, "headers", s) PROVE NewOK(s, h, p, m, q)
  <2>1. NewOK(s, h, p, l, q) /\ m[h] = l[h]
    BY <1>1, <1>4 DEF StreamOK
  <2> QED BY <1>1, <1>3, <2>1 DEF NewOK
<1> QED BY <1>3, <1>5, <1>6 DEF StreamOK

\* The same when it is read.
LEMMA StreamPoppedOther ==
  ASSUME NEW s, NEW a, NEW p, NEW l \in Seq(Frame), NEW m \in Seq(Frame), NEW f, NEW i, NEW q,
         StreamOK(s, a, p, l, i, q), Popped(l, f, m), f.sid # s
  PROVE  StreamOK(s, a, p, m, i, q)
<1>1. ASSUME NEW t PROVE Count(m, t, s) = Count(l, t, s)
  BY CountPopped
<1>2. DOMAIN l = 1 .. Len(m) + 1 /\ DOMAIN m = 1 .. Len(m) /\ Len(m) \in Nat
  BY LenProperties DEF Popped
<1>3. \A j \in DOMAIN m : j + 1 \in DOMAIN l /\ m[j] = l[j + 1]
  BY <1>2 DEF Popped
<1>4. \A h \in Matching(m, "headers", s) : h \in 1 .. Len(m) /\ h + 1 \in Matching(l, "headers", s)
  BY <1>2, <1>3 DEF Matching
<1>5. ASSUME s \in DOMAIN a PROVE ChildOK(s, a[s], p, m, i, q)
  <2>1. ChildOK(s, a[s], p, l, i, q)
    BY <1>5 DEF StreamOK
  <2>2. Matching(m, "headers", s) = {}
    BY <1>4, <2>1 DEF ChildOK
  <2> QED BY <1>1, <2>1, <2>2 DEF ChildOK
<1>6. ASSUME NEW h \in Matching(m, "headers", s) PROVE NewOK(s, h, p, m, q)
  <2>1. NewOK(s, h + 1, p, l, q) /\ h \in DOMAIN m /\ m[h] = l[h + 1]
    BY <1>2, <1>3, <1>4 DEF StreamOK
  <2>2. \A j \in DOMAIN m : m[j].sid = s => h <= j
    BY <1>2, <1>3, <2>1 DEF NewOK
  <2>3. ASSUME NEW k \in Matching(m, "headers", s) PROVE k = h
    <3>1. k \in 1 .. Len(m) /\ k + 1 = h + 1
      BY <1>4, <2>1 DEF NewOK
    <3> QED BY <1>2, <2>1, <3>1
  <2> QED BY <1>1, <2>1, <2>2, <2>3 DEF NewOK
<1>7. p.s = "idle" => s \notin DOMAIN a /\ \A j \in DOMAIN m : m[j].sid # s
  BY <1>3 DEF StreamOK
<1> QED BY <1>5, <1>6, <1>7 DEF StreamOK

\* The peer sends credit, data or a reset for a stream it has opened.
LEMMA StreamSent ==
  ASSUME NEW s, NEW a, NEW p \in PeerRec, NEW p2 \in PeerRec, NEW f, NEW i, NEW q \in Int,
         NEW l \in Seq(Frame), NEW m \in Seq(Frame), ChildrenOK(a), i \in Int,
         StreamOK(s, a, p, l, i, q), Pushed(l, f, m), f.sid = s, f.t # "headers", p.s # "idle", p2.s # "idle",
         p2.s = "open" => p.s = "open",
         f.t = "data" => p.body = p2.body + 1, f.t # "data" => p.body = p2.body,
         f.t = "update" => p2.win = p.win + 1, f.t # "update" => p2.win = p.win
  PROVE  StreamOK(s, a, p2, m, i, q)
<1>1. Matching(m, "headers", s) = Matching(l, "headers", s)
  BY CountPushed
<1>2. /\ Count(m, "data", s) \in Nat /\ Count(m, "update", s) \in Nat
      /\ Count(l, "data", s) \in Nat /\ Count(l, "update", s) \in Nat
  BY CountIsNat
<1>3. /\ p.body \in Nat /\ p2.body \in Nat /\ p.win \in Int /\ p2.win \in Int
  BY DEF PeerRec
<1> DEFINE d == Count(l, "data", s)
           u == Count(l, "update", s)
           dm == Count(m, "data", s)
           um == Count(m, "update", s)
           b == p.body
           w == p.win
           b2 == p2.body
           w2 == p2.win
<1>4. /\ (dm = d + 1 /\ b = b2 + 1) \/ (dm = d /\ b = b2)
      /\ (um = u + 1 /\ w2 = w + 1) \/ (um = u /\ w2 = w)
  BY CountPushed
<1>5. /\ d \in Nat /\ u \in Nat /\ dm \in Nat /\ um \in Nat
      /\ b \in Nat /\ b2 \in Nat /\ w \in Int /\ w2 \in Int
  BY <1>2, <1>3
<1>7. /\ d \in Nat /\ u \in Nat /\ dm \in Nat /\ um \in Nat
      /\ b \in Nat /\ b2 \in Nat /\ w \in Int /\ w2 \in Int
      /\ dm + b2 = d + b /\ w2 - um = w - u
  <2> HIDE DEF d, u, dm, um, b, w, b2, w2
  <2> QED BY <1>4, <1>5
<1>6. DOMAIN m = 1 .. Len(l) + 1 /\ DOMAIN l = 1 .. Len(l) /\ Len(l) \in Nat
  BY LenProperties DEF Pushed
<1>8. ASSUME s \in DOMAIN a PROVE ChildOK(s, a[s], p2, m, i, q)
  <2> DEFINE c == a[s]
             buf == c.buf
             left == c.left
             t == c.tx
  <2>1. c \in ChildRec /\ ChildOK(s, c, p, l, i, q)
    BY <1>8 DEF StreamOK, ChildrenOK
  <2>2. /\ Matching(m, "headers", s) = {}
        /\ buf + d + b <= left
        /\ c.k = "get" => d + b = 0
        /\ c.lrs # "deferring" => buf = 0
        /\ c.lrs = "file" => c.k = "get" /\ (c.tx > 0 => c.req)
        /\ p.s = "open" => t - i + u <= w - q
        /\ p.s = "open" /\ c.h2 # "closed" => t - i + u = w - q
    BY <1>1, <2>1 DEF ChildOK
  <2>3. buf \in Nat /\ left \in Nat /\ t \in Int
    BY <2>1 DEF ChildRec
  <2> HIDE DEF c, d, u, dm, um, b, w, b2, w2, buf, left, t
  <2>4. /\ buf + dm + b2 <= left
        /\ c.k = "get" => dm + b2 = 0
        /\ p2.s = "open" => t - i + um <= w2 - q
        /\ p2.s = "open" /\ c.h2 # "closed" => t - i + um = w2 - q
    <3>1. buf + dm + b2 <= left /\ (d + b = 0 => dm + b2 = 0)
      BY <1>7, <2>2, <2>3
    <3>2. t - i + u <= w - q => t - i + um <= w2 - q
      BY <1>7, <2>3
    <3>3. t - i + u = w - q => t - i + um = w2 - q
      BY <1>7, <2>3
    <3> QED BY <2>2, <3>1, <3>2, <3>3
  <2> QED BY <2>2, <2>4 DEF ChildOK, c, dm, um, b2, w2, buf, left, t
<1>9. ASSUME NEW h \in Matching(m, "headers", s) PROVE NewOK(s, h, p2, m, q)
  <2>1. NewOK(s, h, p, l, q) /\ h \in DOMAIN l /\ m[h] = l[h]
    BY <1>1, <1>6 DEF StreamOK, Matching, Pushed
  <2>2. \A j \in DOMAIN m : m[j].sid = s => h <= j
    <3> SUFFICES ASSUME NEW j \in DOMAIN m, m[j].sid = s PROVE h <= j
      OBVIOUS
    <3>1. CASE j \in DOMAIN l
      BY <1>6, <2>1, <3>1 DEF NewOK, Pushed
    <3>2. CASE j = Len(l) + 1
      BY <1>6, <2>1, <3>2
    <3> QED BY <1>6, <3>1, <3>2
  <2> DEFINE most == IF l[h].k = "post" THEN BodyLen ELSE 0
  <2>3. d + b <= most /\ (p.s = "open" => u = w - q)
    BY <2>1 DEF NewOK
  <2> HIDE DEF d, u, dm, um, most, b, w, b2, w2
  <2>4. dm + b2 <= most /\ (p2.s = "open" => um = w2 - q)
    BY <1>7, <2>3
  <2> QED BY <1>1, <2>1, <2>2, <2>4 DEF NewOK, most, dm, um, b2, w2
<1>10. p2.s = "idle" => s \notin DOMAIN a /\ \A j \in DOMAIN m : m[j].sid # s
  OBVIOUS
<1> QED BY <1>8, <1>9, <1>10 DEF StreamOK

(* how a stream begins to the peer: it expects to be sent what it expects  *)
(* of all streams, and has the body to send                                *)
Opened(k, q) ==
  [s |-> "open", body |-> IF k = "post" THEN BodyLen ELSE 0, win |-> q, cred |-> 0]

\* The peer opens a stream.
LEMMA StreamOpened ==
  ASSUME NEW s, NEW a, NEW p, NEW f, NEW i, NEW q \in Int,
         NEW l \in Seq(Frame), NEW m \in Seq(Frame),
         StreamOK(s, a, p, l, i, q), Pushed(l, f, m), p.s = "idle",
         f.sid = s, f.t = "headers"
  PROVE  StreamOK(s, a, Opened(f.k, q), m, i, q)
<1> DEFINE p2 == Opened(f.k, q)
           h == Len(l) + 1
<1>1. s \notin DOMAIN a /\ \A j \in DOMAIN l : l[j].sid # s
  BY DEF StreamOK
<1>2. \A t : Matching(l, t, s) = {}
  BY <1>1 DEF Matching
<1>3. Count(l, "data", s) = 0 /\ Count(l, "update", s) = 0
  BY <1>2, CountIsNat
<1>4. Count(m, "data", s) = 0 /\ Count(m, "update", s) = 0 /\ Matching(m, "headers", s) = {h}
  <2>1. Count(m, "data", s) = 0 /\ Count(m, "update", s) = 0
    BY <1>3, CountPushed
  <2>2. Matching(m, "headers", s) = Matching(l, "headers", s) \cup {h}
    BY CountPushed
  <2> HIDE DEF h
  <2> QED BY <1>2, <2>1, <2>2
<1>5. DOMAIN m = 1 .. Len(l) + 1 /\ DOMAIN l = 1 .. Len(l) /\ Len(l) \in Nat
  BY LenProperties DEF Pushed
<1>6. /\ p2.s = "open" /\ p2.win = q /\ m[h] = f
      /\ p2.body = IF f.k = "post" THEN BodyLen ELSE 0
  BY DEF Opened, Pushed
<1>7. \A j \in DOMAIN m : m[j].sid = s => h <= j
  BY <1>1, <1>5 DEF Pushed
<1>8. /\ 0 + p2.body <= IF m[h].k = "post" THEN BodyLen ELSE 0
      /\ 0 = p2.win - q
  BY <1>6, H2Assumption DEF H2Assumption
<1> HIDE DEF p2, h
<1>9. NewOK(s, h, p2, m, q)
  BY <1>4, <1>6, <1>7, <1>8 DEF NewOK
<1> QED BY <1>1, <1>4, <1>6, <1>9 DEF StreamOK, p2

(* a child whose headers have come *)
Accepted(k, i) ==
  [k |-> k, h2 |-> IF k = "get" THEN "half_remote" ELSE "open",
   lrs |-> "deferring", req |-> TRUE, tx |-> i,
   left |-> IF k = "get" THEN FileLen ELSE BodyLen, buf |-> 0, est |-> OurCredit]

\* HEADERS that are read make a child: nothing for it has been read before.
LEMMA StreamAccepted ==
  ASSUME NEW s, NEW a, NEW b, NEW p \in PeerRec, NEW f, NEW i \in Int, NEW q \in Int,
         NEW l \in Seq(Frame), NEW m \in Seq(Frame),
         StreamOK(s, a, p, l, i, q), Popped(l, f, m),
         f.sid = s, f.t = "headers", f.k \in Kinds,
         s \in DOMAIN b, b[s] = Accepted(f.k, i)
  PROVE  s \notin DOMAIN a /\ StreamOK(s, b, p, m, i, q)
<1>1. 1 \in Matching(l, "headers", s) /\ l[1] = f
  BY LenProperties DEF Matching, Popped
<1>2. NewOK(s, 1, p, l, q) /\ s \notin DOMAIN a
  BY <1>1 DEF StreamOK, ChildOK
<1>3. Matching(m, "headers", s) = {}
  <2> SUFFICES ASSUME NEW j \in Matching(m, "headers", s) PROVE FALSE
    OBVIOUS
  <2>1. j \in 1 .. Len(m) /\ j + 1 \in Matching(l, "headers", s) /\ Len(m) \in Nat
    BY CountPopped, CountIsNat, LenProperties
  <2>2. j + 1 = 1
    BY <1>2, <2>1 DEF NewOK
  <2> QED BY <2>1, <2>2
<1>4. Count(m, "data", s) = Count(l, "data", s) /\ Count(m, "update", s) = Count(l, "update", s)
  BY CountPopped
<1> DEFINE d == Count(m, "data", s)
           u == Count(m, "update", s)
           body == p.body
           w == p.win
           c == b[s]
<1>5. /\ d \in Nat /\ u \in Nat /\ body \in Nat /\ w \in Int /\ p.s # "idle"
      /\ d + body <= IF f.k = "post" THEN BodyLen ELSE 0
      /\ p.s = "open" => u = w - q
  BY <1>1, <1>2, <1>4, CountIsNat DEF NewOK, PeerRec
<1>6. /\ c.buf = 0 /\ c.tx = i /\ c.lrs = "deferring" /\ c.k = f.k
      /\ c.left = IF f.k = "get" THEN FileLen ELSE BodyLen
  BY DEF Accepted
<1>7. FileLen \in Nat /\ BodyLen \in Nat /\ f.k \in {"get", "post"}
  BY H2Assumption DEF H2Assumption
<1> HIDE DEF d, u, body, w, c
<1>8. /\ c.buf + d + body <= c.left
      /\ c.k = "get" => d + body = 0
      /\ p.s = "open" => c.tx - i + u = w - q /\ c.tx - i + u <= w - q
  <2>1. 0 + d + body <= IF f.k = "get" THEN FileLen ELSE BodyLen
    BY <1>5, <1>7
  <2>2. f.k = "get" => d + body = 0
    BY <1>5, <1>7
  <2>3. p.s = "open" => i - i + u = w - q /\ i - i + u <= w - q
    BY <1>5
  <2> QED BY <1>6, <2>1, <2>2, <2>3
<1>9. ChildOK(s, c, p, m, i, q)
  BY <1>3, <1>5, <1>6, <1>8 DEF ChildOK, d, u, body, w
<1> QED BY <1>2, <1>9, ChildIsStream DEF c

\* Only the difference of a window to the initial one matters, and only
\* while the stream is open to the peer.
LEMMA StreamWindow ==
  ASSUME NEW s, NEW a, NEW p, NEW p2, NEW l, NEW i, NEW q, NEW q2,
         StreamOK(s, a, p, l, i, q), p2.s = p.s, p2.body = p.body,
         p.s = "open" => p2.win - q2 = p.win - q
  PROVE  StreamOK(s, a, p2, l, i, q2)
<1>1. ASSUME s \in DOMAIN a PROVE ChildOK(s, a[s], p2, l, i, q2)
  <2>1. ChildOK(s, a[s], p, l, i, q)
    BY <1>1 DEF StreamOK
  <2>2. CASE p.s = "open"
    BY <2>1, <2>2 DEF ChildOK
  <2>3. CASE p.s # "open"
    BY <2>1, <2>3 DEF ChildOK
  <2> QED BY <2>2, <2>3
<1>2. ASSUME NEW h \in Matching(l, "headers", s) PROVE NewOK(s, h, p2, l, q2)
  <2>1. NewOK(s, h, p, l, q)
    BY DEF StreamOK
  <2> QED BY <2>1 DEF NewOK
<1>3. p2.s = "idle" => s \notin DOMAIN a /\ \A j \in DOMAIN l : l[j].sid # s
  BY DEF StreamOK
<1> QED BY <1>1, <1>2, <1>3 DEF StreamOK

\* Of a stream that is over the windows do not matter.
LEMMA StreamOver ==
  ASSUME NEW s, NEW a, NEW p, NEW p2, NEW l, NEW i, NEW q,
         StreamOK(s, a, p, l, i, q), p2.s \notin {"idle", "open"}, p2.body = p.body
  PROVE  StreamOK(s, a, p2, l, i, q)
<1>1. ASSUME s \in DOMAIN a PROVE ChildOK(s, a[s], p2, l, i, q)
  <2>1. ChildOK(s, a[s], p, l, i, q)
    BY <1>1 DEF StreamOK
  <2> QED BY <2>1 DEF ChildOK
<1>2. ASSUME NEW h \in Matching(l, "headers", s) PROVE NewOK(s, h, p2, l, q)
  <2>1. NewOK(s, h, p, l, q)
    BY DEF StreamOK
  <2> QED BY <2>1 DEF NewOK
<1> QED BY <1>1, <1>2 DEF StreamOK

\* SETTINGS move each window by the difference, and wake who may send now.
LEMMA StreamSettings ==
  ASSUME NEW s, NEW a, NEW b, NEW p \in PeerRec, NEW l, NEW i \in Int, NEW v \in Int, NEW q,
         StreamOK(s, a, p, l, i, q), ChildrenOK(a), DOMAIN b = DOMAIN a,
         s \in DOMAIN a =>
           LET new == a[s].tx + (v - i)
           IN  b[s] = [a[s] EXCEPT !.tx = new, !.req = @ \/ (new > 0 /\ new <= v - i)]
  PROVE  StreamOK(s, b, p, l, v, q)
<1>1. ASSUME s \in DOMAIN a PROVE ChildOK(s, b[s], p, l, v, q)
  <2> DEFINE c == a[s]
             new == c.tx + (v - i)
  <2>1. ChildOK(s, c, p, l, i, q) /\ c \in ChildRec
    BY <1>1 DEF StreamOK, ChildrenOK
  <2>2. b[s] = [c EXCEPT !.tx = new, !.req = @ \/ (new > 0 /\ new <= v - i)]
    BY <1>1
  <2>3. /\ b[s].k = c.k /\ b[s].h2 = c.h2 /\ b[s].lrs = c.lrs /\ b[s].left = c.left
        /\ b[s].buf = c.buf /\ b[s].tx = new
        /\ b[s].req = (c.req \/ (new > 0 /\ new <= v - i))
    BY <2>1, <2>2 DEF ChildRec
  <2>4. c.tx \in Int /\ c.req \in BOOLEAN
    BY <2>1 DEF ChildRec
  <2>5. new - v = c.tx - i
    BY <2>4
  <2>6. new > 0 => c.tx > 0 \/ new <= v - i
    BY <2>4
  <2> HIDE DEF new, c
  <2>7. c.lrs = "file" => (b[s].tx > 0 => b[s].req)
    BY <2>1, <2>3, <2>6 DEF ChildOK
  <2> QED BY <2>1, <2>3, <2>5, <2>7 DEF ChildOK
<1>2. \A h \in Matching(l, "headers", s) : NewOK(s, h, p, l, q)
  BY DEF StreamOK
<1>3. p.s = "idle" => s \notin DOMAIN b /\ \A j \in DOMAIN l : l[j].sid # s
  BY DEF StreamOK
<1> QED BY <1>1, <1>2, <1>3 DEF StreamOK

(* what reading a frame of kind t for it may do to a child *)
Read(c, c2, t) ==
  /\ c2.k = c.k
  /\ t = "data" => c.left - c.buf <= c2.left - c2.buf + 1
  /\ t # "data" => c.left - c.buf <= c2.left - c2.buf
  /\ c2.lrs # "deferring" => c2.buf = 0
  /\ c2.lrs = "file" => c2.k = "get" /\ (c2.tx > 0 => c2.req)
  /\ t = "update" => c2.tx <= c.tx + 1
  /\ t # "update" => c2.tx <= c.tx
  /\ c2.h2 # "closed" => /\ c.h2 # "closed"
                         /\ t = "update" => c2.tx = c.tx + 1
                         /\ t # "update" => c2.tx = c.tx

\* A frame for a stream that is read is for a child, or for nobody.
LEMMA ReadIsNotNew ==
  ASSUME NEW s, NEW a, NEW p, NEW f, NEW i, NEW q,
         NEW l \in Seq(Frame), NEW m \in Seq(Frame),
         StreamOK(s, a, p, l, i, q), Popped(l, f, m), f.sid = s, f.t # "headers"
  PROVE  p.s # "idle" /\ Matching(l, "headers", s) = {} /\ Matching(m, "headers", s) = {}
<1>1. 1 \in DOMAIN l /\ l[1] = f /\ Len(m) \in Nat /\ DOMAIN l = 1 .. Len(l)
  BY LenProperties DEF Popped
<1>2. p.s # "idle"
  BY <1>1 DEF StreamOK
<1>3. ASSUME NEW h \in Matching(l, "headers", s) PROVE FALSE
  <2>1. NewOK(s, h, p, l, q) /\ h \in 1 .. Len(l) /\ l[h].t = "headers"
    BY <1>1 DEF StreamOK, Matching
  <2>2. h <= 1
    BY <1>1, <2>1 DEF NewOK
  <2>3. h = 1
    BY <2>1, <2>2
  <2> QED BY <1>1, <2>1, <2>3
<1>4. Matching(m, "headers", s) = {}
  <2> SUFFICES ASSUME NEW h \in Matching(m, "headers", s) PROVE FALSE
    OBVIOUS
  <2>1. h \in 1 .. Len(m)
    BY CountIsNat
  <2>2. h + 1 \in Matching(l, "headers", s)
    BY <2>1, CountPopped
  <2> QED BY <1>3, <2>2
<1> QED BY <1>2, <1>3, <1>4

\* A frame that is read for a stream leaves it right.
LEMMA StreamRead ==
  ASSUME NEW s, NEW a, NEW b, NEW p \in PeerRec, NEW f, NEW i \in Int, NEW q \in Int,
         NEW l \in Seq(Frame), NEW m \in Seq(Frame), ChildrenOK(a), ChildrenOK(b),
         StreamOK(s, a, p, l, i, q), Popped(l, f, m), f.sid = s, f.t # "headers",
         DOMAIN b = DOMAIN a, s \in DOMAIN a => Read(a[s], b[s], f.t)
  PROVE  StreamOK(s, b, p, m, i, q)
<1>1. p.s # "idle" /\ Matching(m, "headers", s) = {}
  BY ReadIsNotNew
<1>2. ASSUME s \in DOMAIN b PROVE ChildOK(s, b[s], p, m, i, q)
  <2> DEFINE c == a[s]
             c2 == b[s]
             d == Count(l, "data", s)
             u == Count(l, "update", s)
             dm == Count(m, "data", s)
             um == Count(m, "update", s)
             x == c.left
             y == c.buf
             x2 == c2.left
             y2 == c2.buf
             t == c.tx
             t2 == c2.tx
             body == p.body
             w == p.win
  <2>1. c \in ChildRec /\ c2 \in ChildRec /\ ChildOK(s, c, p, l, i, q) /\ Read(c, c2, f.t)
    BY <1>2 DEF ChildrenOK, StreamOK
  <2>2. /\ y + d + body <= x
        /\ c.k = "get" => d + body = 0
        /\ p.s = "open" => t - i + u <= w - q
        /\ p.s = "open" /\ c.h2 # "closed" => t - i + u = w - q
    BY <2>1 DEF ChildOK
  <2>3. /\ x \in Nat /\ y \in Nat /\ x2 \in Nat /\ y2 \in Nat /\ t \in Int /\ t2 \in Int
        /\ body \in Nat /\ w \in Int
        /\ d \in Nat /\ u \in Nat /\ dm \in Nat /\ um \in Nat
    BY <2>1, CountIsNat DEF ChildRec, PeerRec
  <2>4. /\ f.t = "data" => d = dm + 1
        /\ f.t # "data" => d = dm
        /\ f.t = "update" => u = um + 1
        /\ f.t # "update" => u = um
    BY CountPopped
  <2>5. /\ c2.k = c.k
        /\ f.t = "data" => x - y <= x2 - y2 + 1
        /\ f.t # "data" => x - y <= x2 - y2
        /\ f.t = "update" => t2 <= t + 1
        /\ f.t # "update" => t2 <= t
        /\ c2.h2 # "closed" => /\ c.h2 # "closed"
                               /\ f.t = "update" => t2 = t + 1
                               /\ f.t # "update" => t2 = t
        /\ c2.lrs # "deferring" => y2 = 0
        /\ c2.lrs = "file" => c2.k = "get" /\ (t2 > 0 => c2.req)
    BY <2>1 DEF Read
  <2> HIDE DEF c, c2, d, u, dm, um, x, y, x2, y2, t, t2, body, w
  <2>6. y2 + dm + body <= x2 /\ (d + body = 0 => dm + body = 0)
    <3>1. CASE f.t = "data"
      BY <2>2, <2>3, <2>4, <2>5, <3>1
    <3>2. CASE f.t # "data"
      BY <2>2, <2>3, <2>4, <2>5, <3>2
    <3> QED BY <3>1, <3>2
  <2>7. p.s = "open" => t2 - i + um <= w - q
    <3>1. t2 + um <= t + u
      <4>1. CASE f.t = "update"
        BY <2>3, <2>4, <2>5, <4>1
      <4>2. CASE f.t # "update"
        BY <2>3, <2>4, <2>5, <4>2
      <4> QED BY <4>1, <4>2
    <3> QED BY <2>2, <2>3, <3>1
  <2>8. p.s = "open" /\ c2.h2 # "closed" => t2 - i + um = w - q
    <3> SUFFICES ASSUME p.s = "open", c2.h2 # "closed" PROVE t2 - i + um = w - q
      OBVIOUS
    <3>1. t2 + um = t + u
      <4>1. CASE f.t = "update"
        BY <2>3, <2>4, <2>5, <4>1
      <4>2. CASE f.t # "update"
        BY <2>3, <2>4, <2>5, <4>2
      <4> QED BY <4>1, <4>2
    <3>2. t - i + u = w - q
      BY <2>2, <2>5
    <3> QED BY <2>3, <3>1, <3>2
  <2> QED BY <1>1, <2>2, <2>5, <2>6, <2>7, <2>8 DEF ChildOK, c2, dm, um, x2, y2, t2, body, w
<1> QED BY <1>1, <1>2 DEF StreamOK

-----------------------------------------------------------------------------
(* The exchange of SETTINGS *)

\* A list that is extended, or has lost its first element, has the others.
LEMMA ConcatPlaces ==
  ASSUME NEW S, NEW a \in Seq(S), NEW b \in Seq(S)
  PROVE  /\ a \o b \in Seq(S) /\ DOMAIN (a \o b) = 1 .. Len(a) + Len(b)
         /\ DOMAIN a = 1 .. Len(a) /\ Len(a) \in Nat /\ Len(b) \in Nat
         /\ \A j \in 1 .. Len(a) + Len(b) :
              (a \o b)[j] = IF j <= Len(a) THEN a[j] ELSE b[j - Len(a)]
BY ConcatProperties, LenProperties

\* Other frames in the queue do not matter.
LEMMA AcksKept ==
  ASSUME NEW a \in Seq(PpsRec), NEW b \in Seq(PpsRec), \A j \in 1 .. Len(b) : b[j].t # "ack"
  PROVE  a \o b \in Seq(PpsRec) /\ Acks(a \o b) = Acks(a) /\ (OneAck(a) => OneAck(a \o b))
<1> DEFINE m == a \o b
<1>1. /\ m \in Seq(PpsRec) /\ DOMAIN m = 1 .. Len(a) + Len(b)
      /\ DOMAIN a = 1 .. Len(a) /\ Len(a) \in Nat /\ Len(b) \in Nat
      /\ \A j \in 1 .. Len(a) + Len(b) : m[j] = IF j <= Len(a) THEN a[j] ELSE b[j - Len(a)]
  BY ConcatPlaces
<1> HIDE DEF m
<1>2. ASSUME NEW j \in DOMAIN m PROVE j \in Acks(m) <=> j \in Acks(a)
  <2>1. CASE j <= Len(a)
    BY <1>1, <2>1 DEF Acks
  <2>2. CASE j > Len(a)
    <3>1. j - Len(a) \in 1 .. Len(b) /\ m[j] = b[j - Len(a)] /\ j \notin DOMAIN a
      BY <1>1, <2>2
    <3> QED BY <3>1 DEF Acks
  <2> QED BY <1>1, <2>1, <2>2
<1>3. Acks(m) = Acks(a) /\ DOMAIN a \subseteq DOMAIN m
  BY <1>1, <1>2 DEF Acks
<1> QED BY <1>1, <1>3 DEF OneAck, m

\* An acknowledgement is added where there was none.
LEMMA AckAdded ==
  ASSUME NEW a \in Seq(PpsRec), Acks(a) = {}, NEW b \in PpsRec, b.t = "ack"
  PROVE  a \o <<b>> \in Seq(PpsRec) /\ OneAck(a \o <<b>>)
<1>1. a \o <<b>> = Append(a, b)
  BY AppendIsConcat
<1> DEFINE m == Append(a, b)
<1>2. m \in Seq(PpsRec) /\ Len(m) = Len(a) + 1 /\ m[Len(a) + 1] = b /\ \A i \in 1 .. Len(a) : m[i] = a[i]
  BY AppendProperties
<1>3. DOMAIN m = 1 .. Len(a) + 1 /\ DOMAIN a = 1 .. Len(a) /\ Len(a) \in Nat
  BY <1>2, LenProperties
<1> HIDE DEF m
<1>4. Acks(m) = {Len(a) + 1} /\ Len(a) + 1 \in DOMAIN m
  BY <1>2, <1>3 DEF Acks
<1>5. OneAck(m)
  BY <1>4 DEF OneAck
<1> QED BY <1>1, <1>2, <1>5 DEF m

\* A frame that is sent is the first of the queue.
LEMMA AcksPopped ==
  ASSUME NEW a \in Seq(PpsRec), a # <<>>
  PROVE  /\ Tail(a) \in Seq(PpsRec) /\ Head(a) \in PpsRec
         /\ Head(a).t = "ack" => Acks(a) # {} /\ (OneAck(a) => Acks(Tail(a)) = {})
         /\ Head(a).t # "ack" => (Acks(a) = {} => Acks(Tail(a)) = {})
                                 /\ (OneAck(a) => OneAck(Tail(a)))
<1> DEFINE m == Tail(a)
           f == Head(a)
<1>1. m \in Seq(PpsRec) /\ f \in PpsRec /\ Popped(a, f, m)
  BY TailPops
<1>2. DOMAIN m = 1 .. Len(m) /\ DOMAIN a = 1 .. Len(m) + 1 /\ Len(m) \in Nat
  BY <1>1, LenProperties DEF Popped
<1> HIDE DEF m, f
<1>3. \A j \in 1 .. Len(m) : j \in Acks(m) <=> j + 1 \in Acks(a)
  BY <1>1, <1>2 DEF Popped, Acks
<1>4. 1 \in Acks(a) <=> f.t = "ack"
  BY <1>1, <1>2 DEF Popped, Acks
<1>5. Acks(m) \subseteq 1 .. Len(m) /\ Acks(a) \subseteq 1 .. Len(m) + 1
  BY <1>2 DEF Acks
<1>6. ASSUME OneAck(a), f.t = "ack" PROVE Acks(m) = {}
  BY <1>2, <1>3, <1>4, <1>5, <1>6 DEF OneAck
<1>7. ASSUME OneAck(a), f.t # "ack" PROVE OneAck(m)
  <2>1. PICK j \in DOMAIN a : Acks(a) = {j}
    BY <1>7 DEF OneAck
  <2>2. j - 1 \in 1 .. Len(m) /\ (j - 1) + 1 = j
    BY <1>2, <1>4, <1>7, <2>1
  <2>3. Acks(m) = {j - 1}
    BY <1>2, <1>3, <1>5, <2>1, <2>2
  <2> QED BY <1>2, <2>2, <2>3 DEF OneAck
<1>8. Acks(a) = {} => Acks(m) = {}
  BY <1>3, <1>5
<1> QED BY <1>1, <1>4, <1>6, <1>7, <1>8 DEF m, f

\* Frames in flight when one is added.
LEMMA SettledAppended ==
  ASSUME NEW l \in Seq(Frame), NEW f \in Frame
  PROVE  /\ f.t # "settings" /\ Settled(l) => Settled(Append(l, f))
         /\ \A v : f.t # "settings" /\ OneSetting(l, v) => OneSetting(Append(l, f), v)
         /\ f.t = "settings" /\ Settled(l) => OneSetting(Append(l, f), f.n)
<1> DEFINE m == Append(l, f)
<1>1. m \in Seq(Frame) /\ Pushed(l, f, m)
  BY AppendPushes
<1>2. DOMAIN m = 1 .. Len(l) + 1 /\ DOMAIN l = 1 .. Len(l) /\ Len(l) \in Nat
  BY <1>1, LenProperties DEF Pushed
<1> HIDE DEF m
<1>3. /\ m[Len(l) + 1] = f /\ Len(l) + 1 \in DOMAIN m
      /\ \A j \in DOMAIN l : j \in DOMAIN m /\ m[j] = l[j]
      /\ \A j \in DOMAIN m : j \in DOMAIN l \/ j = Len(l) + 1
  BY <1>1, <1>2 DEF Pushed
<1>4. ASSUME f.t # "settings", Settled(l) PROVE Settled(m)
  BY <1>3, <1>4 DEF Settled
<1>5. ASSUME NEW v, f.t # "settings", OneSetting(l, v) PROVE OneSetting(m, v)
  <2>1. PICK j \in DOMAIN l : /\ l[j].t = "settings" /\ l[j].n = v
                              /\ \A k \in DOMAIN l : l[k].t = "settings" => k = j
    BY <1>5 DEF OneSetting
  <2>2. \A k \in DOMAIN m : m[k].t = "settings" => k = j
    BY <1>3, <1>5, <2>1
  <2> QED BY <1>3, <2>1, <2>2 DEF OneSetting
<1>6. ASSUME f.t = "settings", Settled(l) PROVE OneSetting(m, f.n)
  <2>1. \A k \in DOMAIN m : m[k].t = "settings" => k = Len(l) + 1
    BY <1>3, <1>6 DEF Settled
  <2> QED BY <1>3, <1>6, <2>1 DEF OneSetting
<1> QED BY <1>4, <1>5, <1>6 DEF m

\* Frames in flight when the first is taken.
LEMMA SettledTail ==
  ASSUME NEW l \in Seq(Frame), l # <<>>
  PROVE  LET f == Head(l) IN
         /\ f.t # "settings" /\ Settled(l) => Settled(Tail(l))
         /\ \A v : f.t # "settings" /\ OneSetting(l, v) => OneSetting(Tail(l), v)
         /\ f.t = "settings" => ~Settled(l)
         /\ \A v : f.t = "settings" /\ OneSetting(l, v) => f.n = v /\ Settled(Tail(l))
<1> DEFINE f == Head(l)
           m == Tail(l)
<1>1. m \in Seq(Frame) /\ Popped(l, f, m)
  BY TailPops
<1>2. DOMAIN m = 1 .. Len(m) /\ DOMAIN l = 1 .. Len(m) + 1 /\ Len(m) \in Nat
  BY <1>1, LenProperties DEF Popped
<1> HIDE DEF m, f
<1>3. /\ l[1] = f /\ 1 \in DOMAIN l
      /\ \A j \in DOMAIN m : j + 1 \in DOMAIN l /\ m[j] = l[j + 1] /\ j + 1 # 1
      /\ \A j \in DOMAIN l : j = 1 \/ (j - 1 \in DOMAIN m /\ m[j - 1] = l[j])
  BY <1>1, <1>2 DEF Popped
<1>4. Settled(l) => Settled(m)
  BY <1>3 DEF Settled
<1>5. ASSUME NEW v, f.t # "settings", OneSetting(l, v) PROVE OneSetting(m, v)
  <2>1. PICK j \in DOMAIN l : /\ l[j].t = "settings" /\ l[j].n = v
                              /\ \A k \in DOMAIN l : l[k].t = "settings" => k = j
    BY <1>5 DEF OneSetting
  <2>2. j - 1 \in DOMAIN m /\ m[j - 1] = l[j]
    BY <1>3, <1>5, <2>1
  <2>3. ASSUME NEW k \in DOMAIN m, m[k].t = "settings" PROVE k = j - 1
    <3>1. k + 1 = j
      BY <1>3, <2>1, <2>3
    <3> QED BY <1>2, <3>1
  <2> QED BY <2>1, <2>2, <2>3 DEF OneSetting
<1>6. f.t = "settings" => ~Settled(l)
  BY <1>3 DEF Settled
<1>7. ASSUME NEW v, f.t = "settings", OneSetting(l, v) PROVE f.n = v /\ Settled(m)
  <2>1. PICK j \in DOMAIN l : /\ l[j].t = "settings" /\ l[j].n = v
                              /\ \A k \in DOMAIN l : l[k].t = "settings" => k = j
    BY <1>7 DEF OneSetting
  <2>2. j = 1
    BY <1>3, <1>7, <2>1
  <2>3. Settled(m)
    BY <1>3, <2>1, <2>2 DEF Settled
  <2> QED BY <1>3, <2>1, <2>2, <2>3
<1> QED BY <1>4, <1>5, <1>6, <1>7 DEF m, f

\* The frame that is being parsed.
LEMMA SettledPart ==
  ASSUME NEW p \in Seq(Frame), p # <<>>, Len(p) <= 1
  PROVE  /\ p[1].t # "settings" => Settled(p) /\ \A v : ~OneSetting(p, v)
         /\ p[1].t = "settings" => ~Settled(p) /\ \A v : OneSetting(p, v) <=> v = p[1].n
<1>1. DOMAIN p = {1}
  <2> DEFINE n == Len(p)
  <2>1. n \in Nat /\ n # 0 /\ n <= 1 /\ DOMAIN p = 1 .. n
    BY EmptySeq, LenProperties
  <2> HIDE DEF n
  <2>2. n = 1
    BY <2>1
  <2>3. 1 .. 1 = {1}
    OBVIOUS
  <2> QED BY <2>1, <2>2, <2>3
<1> QED BY <1>1 DEF Settled, OneSetting

\* Nothing is being parsed.
LEMMA SettledNothing == Settled(<<>>) /\ \A v : ~OneSetting(<<>>, v)
<1>1. DOMAIN <<>> = {}
  OBVIOUS
<1> QED BY <1>1 DEF Settled, OneSetting

\* The peer sends something else.
LEMMA SettingsSent ==
  ASSUME NEW o, NEW i, NEW q, NEW p, NEW l \in Seq(Frame), NEW k, NEW f \in Frame,
         SettingsOK(o, i, q, p, l, k), f.t # "settings"
  PROVE  SettingsOK(o, i, q, p, Append(l, f), k)
BY SettledAppended DEF SettingsOK

\* The peer sends SETTINGS.
LEMMA SettingsOffered ==
  ASSUME NEW o, NEW i, NEW q, NEW p, NEW l \in Seq(Frame), NEW k, NEW f \in Frame,
         SettingsOK(o, i, q, p, l, k), f.t = "settings", o = <<>>
  PROVE  SettingsOK(<<f.n>>, i, q, p, Append(l, f), k)
<1>1. <<f.n>> # <<>> /\ <<f.n>>[1] = f.n
  OBVIOUS
<1>2. /\ Settled(l) /\ Acks(k) = {}
      /\ \/ i = q /\ Settled(p)
         \/ Split /\ OneSetting(p, q)
  BY DEF SettingsOK
<1>3. OneSetting(Append(l, f), f.n)
  BY <1>2, SettledAppended
<1> QED BY <1>1, <1>2, <1>3 DEF SettingsOK

\* The header of a frame is parsed.
LEMMA SettingsParsed ==
  ASSUME NEW o, NEW i, NEW q, NEW l \in Seq(Frame), l # <<>>, NEW k \in Seq(PpsRec),
         SettingsOK(o, i, q, <<>>, l, k)
  PROVE  /\ Head(l).t # "settings" => SettingsOK(o, i, q, <<Head(l)>>, Tail(l), k)
         /\ Head(l).t = "settings" =>
              \A b \in PpsRec : b.t = "ack" =>
                SettingsOK(o, i, q, <<Head(l)>>, Tail(l), k \o <<b>>)
<1> DEFINE f == Head(l)
           p == <<f>>
<1>1. f \in Frame /\ p \in Seq(Frame) /\ p # <<>> /\ Len(p) <= 1 /\ p[1] = f
  BY TailPops
<1>2. /\ f.t # "settings" => Settled(p) /\ \A v : ~OneSetting(p, v)
      /\ f.t = "settings" => ~Settled(p) /\ \A v : OneSetting(p, v) <=> v = f.n
  BY <1>1, SettledPart
<1>3. /\ f.t # "settings" /\ Settled(l) => Settled(Tail(l))
      /\ \A v : f.t # "settings" /\ OneSetting(l, v) => OneSetting(Tail(l), v)
      /\ f.t = "settings" => ~Settled(l)
      /\ \A v : f.t = "settings" /\ OneSetting(l, v) => f.n = v /\ Settled(Tail(l))
  BY SettledTail
<1>4. \A v : ~OneSetting(<<>>, v)
  BY SettledNothing
<1> HIDE DEF p, f
<1>5. f.t # "settings" => SettingsOK(o, i, q, p, Tail(l), k)
  BY <1>2, <1>3, <1>4 DEF SettingsOK
<1>6. ASSUME f.t = "settings", NEW b \in PpsRec, b.t = "ack"
      PROVE  SettingsOK(o, i, q, p, Tail(l), k \o <<b>>)
  <2>1. o # <<>> /\ i = q /\ OneSetting(l, o[1]) /\ Acks(k) = {}
    BY <1>3, <1>4, <1>6 DEF SettingsOK
  <2>2. OneAck(k \o <<b>>)
    BY <1>6, <2>1, AckAdded
  <2> QED BY <1>2, <1>3, <1>6, <2>1, <2>2 DEF SettingsOK
<1> QED BY <1>5, <1>6 DEF p, f

\* A frame that is not SETTINGS is read.
LEMMA SettingsRead ==
  ASSUME NEW o, NEW i, NEW q, NEW p \in Seq(Frame), p # <<>>, Len(p) <= 1, NEW l, NEW k,
         SettingsOK(o, i, q, p, l, k), p[1].t # "settings"
  PROVE  SettingsOK(o, i, q, <<>>, l, k)
BY SettledPart, SettledNothing DEF SettingsOK

\* SETTINGS are applied: they are the ones that were offered.
LEMMA SettingsApplied ==
  ASSUME NEW o, NEW i, NEW q, NEW p \in Seq(Frame), p # <<>>, Len(p) <= 1, NEW l, NEW k,
         SettingsOK(o, i, q, p, l, k), p[1].t = "settings"
  PROVE  SettingsOK(o, p[1].n, q, <<>>, l, k)
BY SettledPart, SettledNothing DEF SettingsOK

\* Another protocol frame is queued.
LEMMA SettingsQueued ==
  ASSUME NEW o, NEW i, NEW q, NEW p, NEW l, NEW k \in Seq(PpsRec), NEW b \in Seq(PpsRec),
         SettingsOK(o, i, q, p, l, k), \A j \in 1 .. Len(b) : b[j].t # "ack"
  PROVE  SettingsOK(o, i, q, p, l, k \o b)
BY AcksKept DEF SettingsOK

\* Another protocol frame is sent.
LEMMA SettingsPopped ==
  ASSUME NEW o, NEW i, NEW q, NEW p, NEW l, NEW k \in Seq(PpsRec), k # <<>>,
         SettingsOK(o, i, q, p, l, k), Head(k).t # "ack"
  PROVE  SettingsOK(o, i, q, p, l, Tail(k))
BY AcksPopped DEF SettingsOK

\* The acknowledgement is sent: by then both ends go by the same window,
\* unless the SETTINGS came in two reads.
LEMMA SettingsAcked ==
  ASSUME NEW o, NEW i, NEW q, NEW p, NEW l, NEW k \in Seq(PpsRec), k # <<>>,
         SettingsOK(o, i, q, p, l, k), Head(k).t = "ack", p = <<>> \/ Split
  PROVE  o # <<>> /\ SettingsOK(<<>>, i, o[1], p, l, Tail(k))
BY AcksPopped, SettledNothing DEF SettingsOK

\* With nothing to send both ends go by the same initial window, if frames
\* are read whole.
LEMMA SettingsAgreed ==
  ASSUME ~Split, NEW o, NEW i, NEW q, NEW p, NEW l, SettingsOK(o, i, q, p, l, <<>>)
  PROVE  i = q
<1>1. ~OneAck(<<>>)
  BY DEF OneAck
<1> QED BY <1>1 DEF SettingsOK

-----------------------------------------------------------------------------
(* The initial state *)

\* Windows are numbers, and no stream has the number of the connection.
LEMMA Numbers ==
  /\ Windows \subseteq Nat /\ Windows \cup {Default} \subseteq Int /\ 0 \notin Sids
  /\ FileLen \in Nat /\ BodyLen \in Nat /\ OurCredit \in Nat
  /\ MaxWindow \in Nat /\ HighWater \in Nat /\ HighWater <= MaxWindow
  /\ ConnWindow \in Nat /\ ConnWindow <= MaxWindow
  /\ MaxRare \in Nat /\ Kinds \subseteq {"get", "post"} /\ MaxFlight \in Nat
BY H2Assumption DEF H2Assumption

\* On an empty line nothing is counted.
LEMMA NothingThere ==
  /\ <<>> \o <<>> = <<>> /\ FramesOK(<<>>)
  /\ \A t, s : Matching(<<>>, t, s) = {} /\ Count(<<>>, t, s) = 0
<1>1. <<>> \o <<>> = <<>> /\ DOMAIN <<>> = {}
  OBVIOUS
<1>2. \A t, s : Matching(<<>>, t, s) = {}
  BY <1>1 DEF Matching
<1>3. \A t, s : Count(<<>>, t, s) = 0
  BY <1>2, FS_EmptySet DEF Count
<1> QED BY <1>1, <1>2, <1>3 DEF FramesOK

\* The connection begins right.
LEMMA InitOK == Init => IInv
<1> SUFFICES ASSUME Init PROVE IInv
  OBVIOUS
<1>1. Line = <<>>
  BY NothingThere DEF Init, Line
<1>2. DOMAIN st = {} /\ ChildrenOK(st)
  BY DEF Init, ChildrenOK
<1>3. KidsOK(kids, DOMAIN st)
  <2>1. kids = <<>> /\ kids \in Seq(Sids) /\ DOMAIN kids = {}
    BY DEF Init
  <2>2. Range(kids) = {} /\ NoDuplicates(kids)
    BY <2>1 DEF Range, NoDuplicates
  <2> QED BY <1>2, <2>1, <2>2 DEF KidsOK
<1>4. Typed
  <2>1. ps \in [Sids -> PeerRec]
    BY DEF Init, PeerRec
  <2>2. /\ flight \in Seq(Frame) /\ part \in Seq(Frame) /\ pps \in Seq(PpsRec) /\ offer \in Seq(Windows)
        /\ Len(flight) <= MaxFlight /\ Len(part) <= 1 /\ Len(offer) <= 1
    BY Numbers DEF Init
  <2>3. /\ tx \in Int /\ pwin \in Int /\ pcred \in Int /\ spent \in 0 .. MaxRare
    BY Numbers DEF Init
  <2>4. pollout \in BOOLEAN /\ over \in BOOLEAN
    BY DEF Init
  <2>5. /\ conn \in {"open", "closed"} /\ turn \in {"no", "first", "again", "end"}
        /\ opened \in Sids \cup {0}
        /\ init \in Windows \cup {Default} /\ pinit \in Windows \cup {Default}
    BY DEF Init
  <2> QED BY <2>1, <2>2, <2>3, <2>4, <2>5 DEF Typed
<1>5. StreamsOK(st, ps, Line, init, pinit)
  <2> SUFFICES ASSUME NEW s \in Sids PROVE StreamOK(s, st, ps[s], <<>>, init, pinit)
    BY <1>1 DEF StreamsOK
  <2>1. \A h \in Matching(<<>>, "headers", s) : FALSE
    BY NothingThere
  <2>2. \A j \in DOMAIN <<>> : FALSE
    OBVIOUS
  <2> QED BY <1>2, <2>1, <2>2 DEF StreamOK
<1>6. ConnOK
  <2>1. Count(Line, "update", 0) = 0
    BY <1>1, NothingThere
  <2> QED BY <2>1, Numbers DEF ConnOK, Init
<1>7. SettingsOK(offer, init, pinit, part, flight, pps)
  <2>1. Acks(<<>>) = {}
    BY DEF Acks
  <2> QED BY <2>1, SettledNothing DEF SettingsOK, Init
<1>8. TurnOK /\ OverOK
  BY <1>2 DEF TurnOK, OverOK, PolloutIsAsked, Children, Init
<1> QED BY <1>1, <1>2, <1>3, <1>4, <1>5, <1>6, <1>7, <1>8, NothingThere DEF IInv

-----------------------------------------------------------------------------
(* The peer *)

(* a frame f is added to what is in flight *)
Added(f) ==
  /\ Line \in Seq(Frame) /\ Line' \in Seq(Frame) /\ Pushed(Line, f, Line')
  /\ FramesOK(Line')
  /\ f \in Frame /\ flight' = Append(flight, f)
  /\ flight' \in Seq(Frame) /\ Len(flight') <= MaxFlight
  /\ conn = "open"
  /\ UNCHANGED <<conn, part, pps, kids, st, tx, pollout, turn, opened, init>>

\* A right frame that is added keeps the line right.
LEMMA FramesPushed ==
  ASSUME NEW l \in Seq(Frame), NEW m \in Seq(Frame), NEW f, Pushed(l, f, m),
         FramesOK(l), FrameOK(f)
  PROVE  FramesOK(m)
<1>1. DOMAIN m = 1 .. Len(l) + 1 /\ DOMAIN l = 1 .. Len(l) /\ Len(l) \in Nat
  BY LenProperties DEF Pushed
<1> QED BY <1>1 DEF Pushed, FramesOK

\* The next number after a smaller one.
LEMMA NextNumber == \A x, y \in Nat : x < y => x + 1 <= y
OBVIOUS

\* What Send() does.
LEMMA SendAdds ==
  ASSUME IInv, NEW t \in Types, NEW sid \in Sids \cup {0}, NEW n \in Nat, NEW k \in Kinds \cup {""},
         Send(t, sid, n, k), FrameOK([t |-> t, sid |-> sid, n |-> n, k |-> k])
  PROVE  Added([t |-> t, sid |-> sid, n |-> n, k |-> k])
<1> DEFINE f == [t |-> t, sid |-> sid, n |-> n, k |-> k]
<1>1. f \in Frame
  BY DEF Frame
<1>2. part \in Seq(Frame) /\ flight \in Seq(Frame) /\ FramesOK(Line)
  BY DEF IInv, Typed
<1>3. /\ conn = "open" /\ Len(flight) < MaxFlight /\ flight' = Append(flight, f)
      /\ UNCHANGED <<conn, part, pps, kids, st, tx, pollout, turn, opened, init>>
  BY DEF Send, server
<1> HIDE DEF f
<1>4. Line' = part \o Append(flight, f)
  BY <1>3 DEF Line
<1>5. Line \in Seq(Frame) /\ Line' \in Seq(Frame) /\ Pushed(Line, f, Line')
  BY <1>1, <1>2, <1>4, LinePushed DEF Line
<1>6. FramesOK(Line')
  BY <1>2, <1>5, FramesPushed DEF f
<1>7. flight' \in Seq(Frame) /\ Len(flight') <= MaxFlight
  <2>1. flight' \in Seq(Frame) /\ Len(flight') = Len(flight) + 1 /\ Len(flight) \in Nat
    BY <1>1, <1>2, <1>3, AppendProperties, LenProperties
  <2>2. MaxFlight \in Nat
    BY Numbers
  <2>3. Len(flight) + 1 <= MaxFlight
    BY <1>3, <2>1, <2>2, NextNumber
  <2> QED BY <2>1, <2>3
<1>8. Added(f)
  BY <1>1, <1>3, <1>5, <1>6, <1>7 DEF Added
<1> QED BY <1>8 DEF f

\* A step of the peer keeps the invariant if it keeps its parts.
LEMMA PeerStep ==
  ASSUME IInv, NEW f, Added(f),
         ps' \in [Sids -> PeerRec], pwin' \in Int, pcred' \in Int, pinit' = pinit, over' = over,
         offer' \in Seq(Windows), Len(offer') <= 1, spent' \in 0 .. MaxRare,
         StreamsOK(st, ps', Line', init, pinit),
         pwin' = tx + Count(Line', "update", 0), pwin' <= MaxWindow,
         SettingsOK(offer', init, pinit, part, flight', pps)
  PROVE  IInv'
<1>1. Typed'
  BY DEF IInv, Typed, Added
<1>2. ChildrenOK(st)' /\ KidsOK(kids, DOMAIN st)'
  BY DEF IInv, Added
<1>3. StreamsOK(st, ps, Line, init, pinit)' /\ FramesOK(Line)'
  BY DEF Added
<1>4. ConnOK' /\ OverOK'
  BY DEF IInv, ConnOK, Added, OverOK
<1>5. TurnOK'
  BY DEF IInv, TurnOK, PolloutIsAsked, Children, Added
<1>6. SettingsOK(offer, init, pinit, part, flight, pps)'
  BY DEF Added
<1> QED BY <1>1, <1>2, <1>3, <1>4, <1>5, <1>6 DEF IInv

\* The initial windows are numbers.
LEMMA InitialWindows == ASSUME IInv PROVE init \in Int /\ pinit \in Int
BY Numbers DEF IInv, Typed

\* A frame for the connection disturbs no stream.
LEMMA SentToNobody ==
  ASSUME IInv, NEW f, Added(f), f.sid = 0, f.t # "settings"
  PROVE  /\ StreamsOK(st, ps, Line', init, pinit)
         /\ SettingsOK(offer, init, pinit, part, flight', pps)
<1>1. ASSUME NEW s \in Sids PROVE StreamOK(s, st, ps[s], Line', init, pinit)
  <2>1. f.sid # s
    BY Numbers
  <2>2. StreamOK(s, st, ps[s], Line, init, pinit)
    BY DEF IInv, StreamsOK
  <2> QED BY <2>1, <2>2, StreamPushedOther DEF Added
<1>2. flight \in Seq(Frame) /\ SettingsOK(offer, init, pinit, part, flight, pps)
  BY DEF IInv, Typed, Added
<1>3. SettingsOK(offer, init, pinit, part, flight', pps)
  BY <1>2, SettingsSent DEF Added
<1> QED BY <1>1, <1>3 DEF StreamsOK

\* A frame for a stream that is open is right for it and for the others.
LEMMA SentToStream ==
  ASSUME IInv, NEW f, Added(f), NEW s \in Sids, f.sid = s,
         f.t \in {"update", "data", "rst"}, NEW p2 \in PeerRec,
         ps[s].s # "idle", p2.s # "idle", p2.s = "open" => ps[s].s = "open",
         f.t = "data" => ps[s].body = p2.body + 1, f.t # "data" => ps[s].body = p2.body,
         f.t = "update" => p2.win = ps[s].win + 1, f.t # "update" => p2.win = ps[s].win,
         ps' = [ps EXCEPT ![s] = p2]
  PROVE  /\ ps' \in [Sids -> PeerRec]
         /\ StreamsOK(st, ps', Line', init, pinit)
         /\ Count(Line', "update", 0) = Count(Line, "update", 0)
         /\ SettingsOK(offer, init, pinit, part, flight', pps)
<1>1. ps \in [Sids -> PeerRec] /\ ChildrenOK(st) /\ init \in Int /\ pinit \in Int
  BY InitialWindows DEF IInv, Typed
<1>2. ps' \in [Sids -> PeerRec] /\ ps'[s] = p2 /\ \A x \in Sids \ {s} : ps'[x] = ps[x]
  BY <1>1
<1>3. ASSUME NEW x \in Sids PROVE StreamOK(x, st, ps'[x], Line', init, pinit)
  <2>1. StreamOK(x, st, ps[x], Line, init, pinit)
    BY DEF IInv, StreamsOK
  <2>2. CASE x = s
    <3>1. StreamOK(s, st, ps[s], Line, init, pinit) /\ ps[s] \in PeerRec
      BY <1>1, <2>1, <2>2
    <3>2. StreamOK(s, st, p2, Line', init, pinit)
      BY <1>1, <3>1, StreamSent DEF Added
    <3> QED BY <1>2, <2>2, <3>2
  <2>3. CASE x # s
    <3>1. StreamOK(x, st, ps[x], Line', init, pinit)
      BY <2>1, <2>3, StreamPushedOther DEF Added
    <3> QED BY <1>2, <2>3, <3>1
  <2> QED BY <2>2, <2>3
<1>4. Count(Line', "update", 0) = Count(Line, "update", 0)
  <2>1. f.sid # 0
    BY Numbers
  <2> QED BY <2>1, CountPushed DEF Added
<1>5. flight \in Seq(Frame) /\ SettingsOK(offer, init, pinit, part, flight, pps)
  BY DEF IInv, Typed, Added
<1>6. SettingsOK(offer, init, pinit, part, flight', pps)
  BY <1>5, SettingsSent DEF Added
<1> QED BY <1>2, <1>3, <1>4, <1>6 DEF StreamsOK

\* Credit of the connection while it is open.
LEMMA OpenConn ==
  ASSUME IInv, conn = "open"
  PROVE  /\ tx \in Int /\ pwin \in Int /\ pcred \in Int
         /\ tx >= 0 /\ pwin = tx + Count(Line, "update", 0) /\ pwin <= MaxWindow
         /\ SettingsOK(offer, init, pinit, part, flight, pps)
         /\ offer \in Seq(Windows) /\ Len(offer) <= 1 /\ spent \in 0 .. MaxRare
         /\ ps \in [Sids -> PeerRec] /\ ChildrenOK(st)
         /\ StreamsOK(st, ps, Line, init, pinit) /\ FramesOK(Line)
         /\ part \in Seq(Frame) /\ Len(part) <= 1 /\ flight \in Seq(Frame)
         /\ pps \in Seq(PpsRec) /\ KidsOK(kids, DOMAIN st)
BY DEF IInv, Typed, ConnOK

\* PeerCredits() keeps the invariant.
LEMMA PeerCreditsOK == ASSUME IInv, NEW s \in Sids, PeerCredits(s) PROVE IInv'
<1> DEFINE f == [t |-> "update", sid |-> s, n |-> 1, k |-> ""]
           p2 == [ps[s] EXCEPT !.win = @ + 1]
<1>1. Send("update", s, 1, "") /\ Open(s) /\ ps' = [ps EXCEPT ![s].win = @ + 1]
      /\ UNCHANGED <<pwin, pcred, pinit, offer, over, spent>>
  BY DEF PeerCredits
<1>2. Added(f)
  <2>1. FrameOK(f) /\ "update" \in Types
    BY DEF FrameOK, Types
  <2> QED BY <1>1, <2>1, SendAdds
<1>3. conn = "open" /\ ps[s] \in PeerRec /\ ps[s].s \in {"open", "cut"}
  BY <1>1, <1>2 DEF Added, IInv, Typed, Open
<1>4. p2 \in PeerRec /\ p2.s = ps[s].s /\ p2.body = ps[s].body /\ p2.win = ps[s].win + 1
  BY <1>3 DEF PeerRec
<1>5. ps' = [ps EXCEPT ![s] = p2] /\ f.sid = s /\ f.t = "update"
  BY <1>1
<1> HIDE DEF f, p2
<1>6. /\ ps' \in [Sids -> PeerRec] /\ StreamsOK(st, ps', Line', init, pinit)
      /\ Count(Line', "update", 0) = Count(Line, "update", 0)
      /\ SettingsOK(offer, init, pinit, part, flight', pps)
  BY <1>2, <1>3, <1>4, <1>5, SentToStream
<1> QED BY <1>1, <1>2, <1>3, <1>6, OpenConn, PeerStep

\* PeerUploads() keeps the invariant.
LEMMA PeerUploadsOK == ASSUME IInv, NEW s \in Sids, PeerUploads(s) PROVE IInv'
<1> DEFINE f == [t |-> "data", sid |-> s, n |-> 1, k |-> ""]
           p2 == [ps[s] EXCEPT !.body = @ - 1, !.cred = @ - 1]
<1>1. /\ Send("data", s, 1, "") /\ Open(s) /\ ps[s].body > 0
      /\ ps' = [ps EXCEPT ![s].body = @ - 1, ![s].cred = @ - 1] /\ pcred' = pcred - 1
      /\ UNCHANGED <<pwin, pinit, offer, over, spent>>
  BY DEF PeerUploads
<1>2. Added(f)
  <2>1. FrameOK(f) /\ "data" \in Types
    BY DEF FrameOK, Types
  <2> QED BY <1>1, <2>1, SendAdds
<1>3. conn = "open" /\ ps[s] \in PeerRec /\ ps[s].s \in {"open", "cut"} /\ ps \in [Sids -> PeerRec]
  BY <1>1, <1>2 DEF Added, IInv, Typed, Open
<1>4. p2 \in PeerRec /\ p2.s = ps[s].s /\ ps[s].body = p2.body + 1 /\ p2.win = ps[s].win
  <2> DEFINE b == ps[s].body
             c == ps[s].cred
  <2>1. b \in Nat /\ b > 0 /\ c \in Int
    BY <1>1, <1>3 DEF PeerRec
  <2>2. p2 = [ps[s] EXCEPT !.body = b - 1, !.cred = c - 1]
    OBVIOUS
  <2> HIDE DEF b, c, p2
  <2>3. b - 1 \in Nat /\ c - 1 \in Int /\ (b - 1) + 1 = b
    BY <2>1
  <2>4. /\ p2 \in PeerRec /\ p2.body = b - 1
        /\ p2.s = ps[s].s /\ p2.win = ps[s].win
    BY <1>3, <2>2, <2>3 DEF PeerRec
  <2> QED BY <2>3, <2>4 DEF b
<1>5. ps' = [ps EXCEPT ![s] = p2] /\ f.sid = s /\ f.t = "data"
  BY <1>1, <1>3
<1> HIDE DEF f, p2
<1>6. /\ ps' \in [Sids -> PeerRec] /\ StreamsOK(st, ps', Line', init, pinit)
      /\ Count(Line', "update", 0) = Count(Line, "update", 0)
      /\ SettingsOK(offer, init, pinit, part, flight', pps)
  BY <1>2, <1>3, <1>4, <1>5, SentToStream
<1>7. pcred' \in Int
  <2>1. pcred \in Int
    BY DEF IInv, Typed
  <2>2. pcred' = pcred - 1
    BY <1>1
  <2> QED BY <2>1, <2>2
<1> QED BY <1>1, <1>2, <1>3, <1>6, <1>7, OpenConn, PeerStep

\* A rare event is counted.
LEMMA RarelyCounts == ASSUME IInv, Rarely PROVE spent' \in 0 .. MaxRare
BY Numbers DEF IInv, Typed, Rarely

\* PeerResets() keeps the invariant.
LEMMA PeerResetsOK == ASSUME IInv, NEW s \in Sids, PeerResets(s) PROVE IInv'
<1> DEFINE f == [t |-> "rst", sid |-> s, n |-> 0, k |-> ""]
           p2 == [ps[s] EXCEPT !.s = "over"]
<1>1. /\ Send("rst", s, 0, "") /\ Open(s) /\ Rarely /\ ps' = [ps EXCEPT ![s].s = "over"]
      /\ UNCHANGED <<pwin, pcred, pinit, offer, over>>
  BY DEF PeerResets
<1>2. Added(f)
  <2>1. FrameOK(f) /\ "rst" \in Types
    BY DEF FrameOK, Types
  <2> QED BY <1>1, <2>1, SendAdds
<1>3. conn = "open" /\ ps[s] \in PeerRec /\ ps[s].s \in {"open", "cut"}
  BY <1>1, <1>2 DEF Added, IInv, Typed, Open
<1>4. p2 \in PeerRec /\ p2.s = "over" /\ p2.body = ps[s].body /\ p2.win = ps[s].win
  BY <1>3 DEF PeerRec
<1>5. ps' = [ps EXCEPT ![s] = p2] /\ f.sid = s /\ f.t = "rst"
  BY <1>1
<1> HIDE DEF f, p2
<1>6. /\ ps' \in [Sids -> PeerRec] /\ StreamsOK(st, ps', Line', init, pinit)
      /\ Count(Line', "update", 0) = Count(Line, "update", 0)
      /\ SettingsOK(offer, init, pinit, part, flight', pps)
  BY <1>2, <1>3, <1>4, <1>5, SentToStream
<1>7. spent' \in 0 .. MaxRare
  BY <1>1, RarelyCounts
<1> QED BY <1>1, <1>2, <1>3, <1>6, <1>7, OpenConn, PeerStep

\* PeerCreditsAll keeps the invariant: the window stays within its limit.
LEMMA PeerCreditsAllOK == ASSUME IInv, PeerCreditsAll PROVE IInv'
<1> DEFINE f == [t |-> "update", sid |-> 0, n |-> 1, k |-> ""]
<1>1. /\ Send("update", 0, 1, "") /\ pwin < HighWater /\ pwin' = pwin + 1
      /\ UNCHANGED <<ps, pcred, pinit, offer, over, spent>>
  BY DEF PeerCreditsAll
<1>2. Added(f)
  <2>1. FrameOK(f) /\ "update" \in Types
    BY DEF FrameOK, Types
  <2> QED BY <1>1, <2>1, SendAdds
<1>3. f.sid = 0 /\ f.t = "update"
  OBVIOUS
<1> HIDE DEF f
<1>4. /\ StreamsOK(st, ps, Line', init, pinit) /\ conn = "open"
      /\ SettingsOK(offer, init, pinit, part, flight', pps)
  BY <1>2, <1>3, SentToNobody DEF Added
<1>5. Count(Line', "update", 0) = Count(Line, "update", 0) + 1 /\ Count(Line, "update", 0) \in Nat
  BY <1>2, <1>3, CountPushed, CountIsNat DEF Added
<1>6. pwin' \in Int /\ pwin' = tx + Count(Line', "update", 0) /\ pwin' <= MaxWindow
  <2> DEFINE u == Count(Line, "update", 0)
             v == Count(Line', "update", 0)
  <2>1. /\ pwin \in Int /\ tx \in Int /\ u \in Nat /\ v = u + 1 /\ pwin = tx + u
        /\ MaxWindow \in Nat /\ HighWater \in Nat /\ HighWater <= MaxWindow
        /\ pwin < HighWater /\ pwin' = pwin + 1
    BY <1>1, <1>4, <1>5, OpenConn, Numbers
  <2> HIDE DEF u, v
  <2>2. pwin' \in Int /\ pwin' = tx + v /\ pwin' <= MaxWindow
    BY <2>1
  <2> QED BY <2>2 DEF v
<1> QED BY <1>1, <1>2, <1>4, <1>6, OpenConn, PeerStep

\* PeerPings keeps the invariant.
LEMMA PeerPingsOK == ASSUME IInv, PeerPings PROVE IInv'
<1> DEFINE f == [t |-> "ping", sid |-> 0, n |-> 0, k |-> ""]
<1>1. /\ Send("ping", 0, 0, "") /\ Rarely
      /\ UNCHANGED <<ps, pwin, pcred, pinit, offer, over>>
  BY DEF PeerPings
<1>2. Added(f)
  <2>1. FrameOK(f) /\ "ping" \in Types
    BY DEF FrameOK, Types
  <2> QED BY <1>1, <2>1, SendAdds
<1>3. f.sid = 0 /\ f.t = "ping"
  OBVIOUS
<1> HIDE DEF f
<1>4. /\ StreamsOK(st, ps, Line', init, pinit) /\ conn = "open"
      /\ SettingsOK(offer, init, pinit, part, flight', pps)
  BY <1>2, <1>3, SentToNobody DEF Added
<1>5. Count(Line', "update", 0) = Count(Line, "update", 0)
  BY <1>2, <1>3, CountPushed DEF Added
<1>6. spent' \in 0 .. MaxRare
  BY <1>1, RarelyCounts
<1> QED BY <1>1, <1>2, <1>4, <1>5, <1>6, OpenConn, PeerStep

\* PeerSettings() keeps the invariant.
LEMMA PeerSettingsOK == ASSUME IInv, NEW v \in Windows, PeerSettings(v) PROVE IInv'
<1> DEFINE f == [t |-> "settings", sid |-> 0, n |-> v, k |-> ""]
<1>1. /\ Send("settings", 0, v, "") /\ Rarely /\ offer = <<>> /\ offer' = <<v>>
      /\ UNCHANGED <<ps, pwin, pcred, pinit, over>>
  BY DEF PeerSettings
<1>2. Added(f)
  <2>1. FrameOK(f) /\ "settings" \in Types /\ v \in Nat
    BY Numbers DEF FrameOK, Types
  <2> QED BY <1>1, <2>1, SendAdds
<1>3. f.sid = 0 /\ f.t = "settings" /\ f.n = v
  OBVIOUS
<1> HIDE DEF f
<1>4. conn = "open"
  BY <1>2 DEF Added
<1>5. ASSUME NEW s \in Sids PROVE StreamOK(s, st, ps[s], Line', init, pinit)
  <2>1. f.sid # s /\ StreamOK(s, st, ps[s], Line, init, pinit)
    BY <1>3, <1>4, Numbers, OpenConn DEF StreamsOK
  <2> QED BY <1>2, <2>1, StreamPushedOther DEF Added
<1>6. Count(Line', "update", 0) = Count(Line, "update", 0)
  BY <1>2, <1>3, CountPushed DEF Added
<1>7. SettingsOK(<<v>>, init, pinit, part, flight', pps)
  BY <1>1, <1>2, <1>3, <1>4, OpenConn, SettingsOffered DEF Added
<1>8. spent' \in 0 .. MaxRare
  BY <1>1, RarelyCounts
<1>9. offer' \in Seq(Windows) /\ Len(offer') <= 1
  <2>1. <<v>> \in Seq(Windows) /\ Len(<<v>>) = 1
    OBVIOUS
  <2>2. offer' = <<v>>
    BY <1>1
  <2> QED BY <2>1, <2>2
<1>10. StreamsOK(st, ps', Line', init, pinit)
  BY <1>1, <1>5 DEF StreamsOK
<1> QED BY <1>1, <1>2, <1>4, <1>6, <1>7, <1>8, <1>9, <1>10, OpenConn, PeerStep

\* PeerOpens() keeps the invariant.
LEMMA PeerOpensOK == ASSUME IInv, NEW s \in Sids, NEW k \in Kinds, PeerOpens(s, k) PROVE IInv'
<1> DEFINE f == [t |-> "headers", sid |-> s, n |-> 0, k |-> k]
           p2 == Opened(k, pinit)
<1>1. /\ Send("headers", s, 0, k) /\ ps[s].s = "idle" /\ ps' = [ps EXCEPT ![s] = p2]
      /\ UNCHANGED <<pwin, pcred, pinit, offer, over, spent>>
  BY DEF PeerOpens, Idle, Opened
<1>2. Added(f)
  <2>1. FrameOK(f) /\ "headers" \in Types
    BY DEF FrameOK, Types
  <2> QED BY <1>1, <2>1, SendAdds
<1>3. f.sid = s /\ f.t = "headers" /\ f.k = k
  OBVIOUS
<1>4. conn = "open" /\ pinit \in Int /\ init \in Int
  BY <1>2, InitialWindows DEF Added
<1>5. p2 \in PeerRec
  BY <1>4, Numbers DEF Opened, PeerRec
<1> HIDE DEF f, p2
<1>6. /\ ps' \in [Sids -> PeerRec] /\ ps'[s] = p2 /\ \A x \in Sids \ {s} : ps'[x] = ps[x]
  BY <1>1, <1>4, <1>5, OpenConn
<1>7. ASSUME NEW x \in Sids PROVE StreamOK(x, st, ps'[x], Line', init, pinit)
  <2>1. StreamOK(x, st, ps[x], Line, init, pinit)
    BY <1>4, OpenConn DEF StreamsOK
  <2>2. CASE x = s
    <3>1. StreamOK(s, st, p2, Line', init, pinit)
      BY <1>1, <1>2, <1>3, <1>4, <2>1, <2>2, StreamOpened DEF Added, p2
    <3> QED BY <1>6, <2>2, <3>1
  <2>3. CASE x # s
    <3>1. StreamOK(x, st, ps[x], Line', init, pinit)
      BY <1>2, <1>3, <2>1, <2>3, StreamPushedOther DEF Added
    <3> QED BY <1>6, <2>3, <3>1
  <2> QED BY <2>2, <2>3
<1>8. Count(Line', "update", 0) = Count(Line, "update", 0)
  BY <1>2, <1>3, CountPushed DEF Added
<1>9. SettingsOK(offer, init, pinit, part, flight', pps)
  BY <1>2, <1>3, <1>4, OpenConn, SettingsSent DEF Added
<1>10. StreamsOK(st, ps', Line', init, pinit)
  BY <1>7 DEF StreamsOK
<1> QED BY <1>1, <1>2, <1>4, <1>6, <1>8, <1>9, <1>10, OpenConn, PeerStep

-----------------------------------------------------------------------------
(* The parser *)

\* lws_h2_parse_frame_header() keeps the invariant: SETTINGS are acknowledged
\* in the queue before they are applied.
LEMMA HeaderOK == ASSUME IInv, lws_h2_parse_frame_header PROVE IInv'
<1> DEFINE f == Head(flight)
           ack == [t |-> "ack", sid |-> 0, n |-> 0]
<1>1. /\ conn = "open" /\ turn = "no" /\ part = <<>> /\ flight # <<>>
      /\ part' = <<f>> /\ flight' = Tail(flight)
      /\ f.t = "settings" => pps' = pps \o <<ack>> /\ pollout' = TRUE
      /\ f.t # "settings" => pps' = pps /\ pollout' = pollout
      /\ UNCHANGED <<conn, kids, st, tx, turn, opened, init, ps, pwin, pcred, pinit, offer, over, spent>>
  BY DEF lws_h2_parse_frame_header, peer, Queue
<1>2. /\ flight \in Seq(Frame) /\ pps \in Seq(PpsRec)
      /\ SettingsOK(offer, init, pinit, <<>>, flight, pps)
  BY <1>1, OpenConn
<1>3. ack \in PpsRec /\ ack.t = "ack"
  BY DEF PpsRec
<1>4. f \in Frame /\ Tail(flight) \in Seq(Frame) /\ Popped(flight, f, Tail(flight))
  BY <1>1, <1>2, TailPops
<1> HIDE DEF ack
<1>5. Line' = Line
  <2>1. <<Head(flight)>> \o Tail(flight) = <<>> \o flight
    BY <1>1, <1>2, LineKept
  <2> QED BY <1>1, <2>1 DEF Line
<1>6. pps' \in Seq(PpsRec) /\ SettingsOK(offer, init, pinit, part', flight', pps')
  <2>1. CASE f.t = "settings"
    <3>1. pps \o <<ack>> \in Seq(PpsRec)
      <4>1. <<ack>> \in Seq(PpsRec)
        BY <1>3
      <4> QED BY <1>2, <4>1, ConcatProperties
    <3>2. SettingsOK(offer, init, pinit, <<f>>, Tail(flight), pps \o <<ack>>)
      BY <1>1, <1>2, <1>3, <2>1, SettingsParsed
    <3> QED BY <1>1, <2>1, <3>1, <3>2
  <2>2. CASE f.t # "settings"
    <3>1. SettingsOK(offer, init, pinit, <<f>>, Tail(flight), pps)
      BY <1>1, <1>2, <2>2, SettingsParsed
    <3> QED BY <1>1, <1>2, <2>2, <3>1
  <2> QED BY <2>1, <2>2
<1>7. part' \in Seq(Frame) /\ Len(part') <= 1
  <2>1. <<f>> \in Seq(Frame) /\ Len(<<f>>) = 1
    BY <1>4
  <2> QED BY <1>1, <2>1
<1>8. flight' \in Seq(Frame) /\ Len(flight') <= MaxFlight
  <2>1. Len(flight) <= MaxFlight /\ Len(flight) = Len(flight') + 1 /\ flight' \in Seq(Frame)
    BY <1>1, <1>4 DEF IInv, Typed, Popped
  <2>2. Len(flight') \in Nat /\ MaxFlight \in Nat
    BY <2>1, LenProperties, Numbers
  <2> HIDE <1>1
  <2>3. \A x, y \in Nat : x + 1 <= y => x <= y
    OBVIOUS
  <2>4. Len(flight') + 1 <= MaxFlight
    BY <2>1
  <2> QED BY <2>1, <2>2, <2>3, <2>4
<1>9. pollout' \in BOOLEAN
  <2>1. pollout \in BOOLEAN
    BY DEF IInv, Typed
  <2> QED BY <1>1, <2>1
<1>10. Typed'
  BY <1>1, <1>6, <1>7, <1>8, <1>9 DEF IInv, Typed
<1>11. TurnOK'
  <2>1. (pps' # <<>> \/ \E s \in DOMAIN st : st[s].req) => pollout'
    BY <1>1 DEF IInv, TurnOK, PolloutIsAsked, Children
  <2> QED BY <1>1, <2>1 DEF TurnOK, PolloutIsAsked, Children
<1>12. ChildrenOK(st)' /\ KidsOK(kids, DOMAIN st)' /\ ConnOK' /\ OverOK'
  BY <1>1, <1>5 DEF IInv, ConnOK, OverOK
<1>13. FramesOK(Line)' /\ StreamsOK(st, ps, Line, init, pinit)'
  BY <1>1, <1>5 DEF IInv
<1>14. SettingsOK(offer, init, pinit, part, flight, pps)'
  BY <1>1, <1>6
<1> QED BY <1>10, <1>11, <1>12, <1>13, <1>14 DEF IInv

(* the frame f has been read *)
Got(f) ==
  /\ Line \in Seq(Frame) /\ Line' \in Seq(Frame) /\ Popped(Line, f, Line')
  /\ FramesOK(Line') /\ f \in Frame /\ FrameOK(f)
  /\ part \in Seq(Frame) /\ part # <<>> /\ Len(part) <= 1 /\ part[1] = f
  /\ part' = <<>>
  /\ conn = "open" /\ turn = "no"
  /\ UNCHANGED <<conn, flight, ps, pwin, pcred, pinit, offer, over, spent>>

\* What Reading() does.
LEMMA ReadingGets == ASSUME IInv, NEW t, Reading(t) PROVE Got(part[1]) /\ part[1].t = t
<1> DEFINE f == part[1]
<1>1. /\ conn = "open" /\ turn = "no" /\ part # <<>> /\ f.t = t /\ part' = <<>>
      /\ UNCHANGED <<conn, flight, ps, pwin, pcred, pinit, offer, over, spent>>
  BY DEF Reading, peer
<1>2. part \in Seq(Frame) /\ Len(part) <= 1 /\ flight \in Seq(Frame) /\ FramesOK(Line)
  BY <1>1, OpenConn
<1>3. Line' = <<>> \o flight
  BY <1>1 DEF Line
<1>4. Line \in Seq(Frame) /\ Line' \in Seq(Frame) /\ f \in Frame /\ Popped(Line, f, Line')
  BY <1>1, <1>2, <1>3, LinePopped DEF Line
<1>5. DOMAIN Line = 1 .. Len(Line') + 1 /\ DOMAIN Line' = 1 .. Len(Line') /\ Len(Line') \in Nat
  BY <1>4, LenProperties DEF Popped
<1>6. FrameOK(f)
  <2>1. 1 \in DOMAIN Line /\ Line[1] = f
    BY <1>4, <1>5 DEF Popped
  <2> QED BY <1>2, <2>1 DEF FramesOK
<1>7. FramesOK(Line')
  <2> SUFFICES ASSUME NEW j \in DOMAIN Line' PROVE FrameOK(Line'[j])
    BY DEF FramesOK
  <2>1. j + 1 \in DOMAIN Line /\ Line[j + 1] = Line'[j]
    BY <1>4, <1>5 DEF Popped
  <2> QED BY <1>2, <2>1 DEF FramesOK
<1> QED BY <1>1, <1>2, <1>4, <1>6, <1>7 DEF Got

\* A step of the parser keeps the invariant if it keeps its parts.
LEMMA ReadStep ==
  ASSUME IInv, NEW f, Got(f), turn' = turn,
         ChildrenOK(st'), KidsOK(kids', DOMAIN st'),
         StreamsOK(st', ps, Line', init', pinit),
         tx' \in Int, tx' >= 0, pwin = tx' + Count(Line', "update", 0),
         pps' \in Seq(PpsRec), SettingsOK(offer, init', pinit, <<>>, flight, pps'),
         pollout' \in BOOLEAN,
         pps' # <<>> => pollout', \A s \in DOMAIN st' : st'[s].req => pollout',
         opened' \in Sids \cup {0}, init' \in Windows \cup {Default}
  PROVE  IInv'
<1>1. part' \in Seq(Frame) /\ Len(part') <= 1
  <2>1. <<>> \in Seq(Frame) /\ Len(<<>>) = 0
    OBVIOUS
  <2>2. part' = <<>>
    BY DEF Got
  <2> QED BY <2>1, <2>2
<1>2. Typed'
  BY <1>1 DEF IInv, Typed, Got
<1>3. ConnOK' /\ OverOK'
  <2>1. pwin <= MaxWindow /\ over' = over /\ pwin' = pwin /\ OverOK
    BY OpenConn DEF Got, IInv
  <2> QED BY <2>1 DEF ConnOK, OverOK
<1>4. TurnOK'
  BY DEF TurnOK, PolloutIsAsked, Children, Got
<1>5. StreamsOK(st, ps, Line, init, pinit)' /\ FramesOK(Line)'
  BY DEF Got
<1>6. SettingsOK(offer, init, pinit, part, flight, pps)'
  BY DEF Got
<1>7. ChildrenOK(st)' /\ KidsOK(kids, DOMAIN st)'
  OBVIOUS
<1> QED BY <1>2, <1>3, <1>4, <1>5, <1>6, <1>7 DEF IInv

\* While nobody has a turn, whoever asks has POLLOUT.
LEMMA AskedBefore ==
  ASSUME IInv, conn = "open", turn = "no"
  PROVE  /\ pollout \in BOOLEAN /\ opened \in Sids \cup {0}
         /\ init \in Windows \cup {Default}
         /\ pps # <<>> => pollout
         /\ \A s \in DOMAIN st : st[s].req => pollout
BY DEF IInv, Typed, TurnOK, PolloutIsAsked, Children

\* Reading a frame leaves the streams right if it does so for its own.
LEMMA ReadStreams ==
  ASSUME IInv, NEW f, Got(f), f.t \notin {"headers", "settings"},
         NEW b, ChildrenOK(b), DOMAIN b = DOMAIN st,
         f.sid \in DOMAIN st => Read(st[f.sid], b[f.sid], f.t),
         \A x \in DOMAIN st \ {f.sid} : b[x] \in {st[x], [st[x] EXCEPT !.req = TRUE]}
  PROVE  /\ StreamsOK(b, ps, Line', init, pinit)
         /\ SettingsOK(offer, init, pinit, <<>>, flight, pps)
<1>1. /\ conn = "open" /\ init \in Int /\ pinit \in Int /\ ps \in [Sids -> PeerRec]
      /\ ChildrenOK(st) /\ StreamsOK(st, ps, Line, init, pinit)
      /\ SettingsOK(offer, init, pinit, part, flight, pps)
  BY InitialWindows, OpenConn DEF Got
<1>2. ASSUME NEW s \in Sids PROVE StreamOK(s, b, ps[s], Line', init, pinit)
  <2>1. StreamOK(s, st, ps[s], Line, init, pinit) /\ ps[s] \in PeerRec
    BY <1>1 DEF StreamsOK
  <2>2. CASE f.sid = s
    BY <1>1, <2>1, <2>2, StreamRead DEF Got
  <2>3. CASE f.sid # s
    <3>1. StreamOK(s, st, ps[s], Line', init, pinit)
      BY <2>1, <2>3, StreamPoppedOther DEF Got
    <3>2. KeptChild(st, b, s)
      BY <2>3 DEF KeptChild
    <3> QED BY <1>1, <2>1, <3>1, <3>2, StreamKept
  <2> QED BY <2>2, <2>3
<1>3. SettingsOK(offer, init, pinit, <<>>, flight, pps)
  BY <1>1, SettingsRead DEF Got
<1> QED BY <1>2, <1>3 DEF StreamsOK

\* Credit of the connection is not touched by other frames.
LEMMA ReadKeepsCredit ==
  ASSUME IInv, NEW f, Got(f), f.t # "update" \/ f.sid # 0
  PROVE  tx \in Int /\ tx >= 0 /\ pwin = tx + Count(Line', "update", 0)
<1>1. Count(Line, "update", 0) = Count(Line', "update", 0)
  BY CountPopped DEF Got
<1> QED BY <1>1, OpenConn DEF Got

\* A child is right, and one of the peer's streams.
LEMMA ChildFacts ==
  ASSUME IInv, NEW s \in DOMAIN st
  PROVE  /\ s \in Sids /\ s # 0 /\ st[s] \in ChildRec /\ ps[s] \in PeerRec
         /\ ChildOK(s, st[s], ps[s], Line, init, pinit)
<1>1. s \in Sids /\ st[s] \in ChildRec
  BY DEF IInv, ChildrenOK
<1>2. ps[s] \in PeerRec
  BY <1>1 DEF IInv, Typed
<1>3. StreamOK(s, st, ps[s], Line, init, pinit)
  BY <1>1 DEF IInv, StreamsOK
<1>4. ChildOK(s, st[s], ps[s], Line, init, pinit)
  BY <1>3 DEF StreamOK
<1> QED BY <1>1, <1>2, <1>4, Numbers

\* Protocol frames that go to the queue are not acknowledgements.
LEMMA QueueFacts ==
  ASSUME NEW t \in {"pong", "goaway", "rst", "update"}, NEW s \in Sids \cup {0}, NEW n \in Nat
  PROVE  /\ Queue(t, s, n) \in Seq(PpsRec)
         /\ \A j \in 1 .. Len(Queue(t, s, n)) : Queue(t, s, n)[j].t # "ack"
<1> DEFINE r == [t |-> t, sid |-> s, n |-> n]
<1>1. r \in PpsRec /\ r.t # "ack"
  BY DEF PpsRec
<1> HIDE DEF r
<1>2. <<r>> \in Seq(PpsRec) /\ Len(<<r>>) = 1 /\ <<r>>[1] = r
  BY <1>1
<1>3. \A j \in 1 .. 1 : j = 1
  OBVIOUS
<1>4. \A j \in 1 .. Len(<<r>>) : <<r>>[j].t # "ack"
  BY <1>1, <1>2, <1>3
<1> QED BY <1>2, <1>4 DEF Queue, r

\* The same of credit that is given back.
LEMMA CreditFacts ==
  ASSUME NEW s \in Sids, NEW n \in Nat
  PROVE  /\ lws_h2_update_peer_txcredit(s, n) \in Seq(PpsRec)
         /\ \A j \in 1 .. Len(lws_h2_update_peer_txcredit(s, n)) :
              lws_h2_update_peer_txcredit(s, n)[j].t # "ack"
<1> DEFINE a == Queue("update", s, n)
           b == Queue("update", 0, n)
<1>1. /\ a \in Seq(PpsRec) /\ \A j \in 1 .. Len(a) : a[j].t # "ack"
      /\ b \in Seq(PpsRec) /\ \A j \in 1 .. Len(b) : b[j].t # "ack"
  BY QueueFacts
<1> HIDE DEF a, b
<1>2. /\ a \o b \in Seq(PpsRec) /\ Len(a) \in Nat /\ Len(b) \in Nat
      /\ Len(a \o b) = Len(a) + Len(b)
      /\ \A j \in 1 .. Len(a) + Len(b) : (a \o b)[j] = IF j <= Len(a) THEN a[j] ELSE b[j - Len(a)]
  BY <1>1, ConcatProperties, LenProperties
<1>3. ASSUME NEW j \in 1 .. Len(a) + Len(b) PROVE (a \o b)[j].t # "ack"
  <2>1. CASE j <= Len(a)
    BY <1>1, <1>2, <2>1
  <2>2. CASE ~(j <= Len(a))
    <3>1. j - Len(a) \in 1 .. Len(b)
      BY <1>2, <2>2
    <3> QED BY <1>1, <1>2, <2>2, <3>1
  <2> QED BY <2>1, <2>2
<1> QED BY <1>2, <1>3 DEF lws_h2_update_peer_txcredit, a, b

\* A frame that is not credit may be read without any effect on its child.
LEMMA ReadNothing ==
  ASSUME IInv, NEW s \in DOMAIN st, NEW t, t # "update"
  PROVE  Read(st[s], st[s], t)
<1> DEFINE c == st[s]
<1>1. /\ c \in ChildRec /\ (c.lrs # "deferring" => c.buf = 0)
      /\ c.lrs = "file" => c.k = "get" /\ (c.tx > 0 => c.req)
  BY ChildFacts DEF ChildOK
<1> HIDE DEF c
<1>2. c.left \in Nat /\ c.buf \in Nat /\ c.tx \in Int
  BY <1>1 DEF ChildRec
<1>3. c.left - c.buf <= c.left - c.buf + 1 /\ c.left - c.buf <= c.left - c.buf /\ c.tx <= c.tx
  BY <1>2
<1> QED BY <1>1, <1>3 DEF Read, c

\* A frame that changes no child, after which frames b go to the queue.
LEMMA ReadQuietly ==
  ASSUME IInv, NEW f, Got(f), f.t \notin {"headers", "settings"},
         f.t = "update" => f.sid \notin DOMAIN st \cup {0},
         NEW b \in Seq(PpsRec), \A j \in 1 .. Len(b) : b[j].t # "ack",
         pps' = pps \o b, (b = <<>> /\ pollout' = pollout) \/ pollout' = TRUE,
         UNCHANGED <<kids, st, tx, turn, opened, init>>
  PROVE  IInv'
<1>1. conn = "open" /\ turn = "no" /\ pps \in Seq(PpsRec)
  BY OpenConn DEF Got
<1>2. f.sid \in DOMAIN st => Read(st[f.sid], st[f.sid], f.t)
  BY ReadNothing
<1>3. /\ StreamsOK(st, ps, Line', init, pinit) /\ ChildrenOK(st) /\ KidsOK(kids, DOMAIN st)
      /\ SettingsOK(offer, init, pinit, <<>>, flight, pps)
  BY <1>1, <1>2, OpenConn, ReadStreams
<1>4. tx \in Int /\ tx >= 0 /\ pwin = tx + Count(Line', "update", 0)
  BY ReadKeepsCredit
<1>5. pps' \in Seq(PpsRec) /\ SettingsOK(offer, init, pinit, <<>>, flight, pps')
  BY <1>1, <1>3, SettingsQueued, ConcatProperties
<1>6. pollout' \in BOOLEAN /\ (pps' # <<>> => pollout') /\ \A s \in DOMAIN st : st[s].req => pollout'
  <2>1. CASE pollout' = TRUE
    BY <2>1
  <2>2. CASE b = <<>> /\ pollout' = pollout
    <3>1. pps' = pps
      BY <1>1, <2>2, ConcatEmptySeq
    <3> QED BY <1>1, <2>2, <3>1, AskedBefore
  <2> QED BY <2>1, <2>2
<1>7. opened \in Sids \cup {0} /\ init \in Windows \cup {Default}
  BY <1>1, AskedBefore
<1> QED BY <1>3, <1>4, <1>5, <1>6, <1>7, ReadStep

\* Ping keeps the invariant.
LEMMA PingOK == ASSUME IInv, Ping PROVE IInv'
<1>1. /\ Reading("ping") /\ pps' = pps \o Queue("pong", 0, 0) /\ pollout' = TRUE
      /\ UNCHANGED <<kids, st, tx, turn, opened, init>>
  BY DEF Ping
<1>2. Got(part[1]) /\ part[1].t = "ping"
  BY <1>1, ReadingGets
<1> QED BY <1>1, <1>2, QueueFacts, ReadQuietly

\* DataRefused keeps the invariant.
LEMMA DataRefusedOK == ASSUME IInv, DataRefused PROVE IInv'
<1>1. /\ Reading("data") /\ pps' = pps \o Queue("goaway", 0, 0) /\ pollout' = TRUE
      /\ UNCHANGED <<kids, st, tx, turn, opened, init>>
  BY DEF DataRefused
<1>2. Got(part[1]) /\ part[1].t = "data"
  BY <1>1, ReadingGets
<1> QED BY <1>1, <1>2, QueueFacts, ReadQuietly

\* DataWithMore keeps the invariant.
LEMMA DataWithMoreOK == ASSUME IInv, DataWithMore PROVE IInv'
<1>1. /\ Reading("data") /\ pps' = pps \o Queue("goaway", 0, 0) /\ pollout' = TRUE
      /\ UNCHANGED <<kids, st, tx, turn, opened, init>>
  BY DEF DataWithMore
<1>2. Got(part[1]) /\ part[1].t = "data"
  BY <1>1, ReadingGets
<1> QED BY <1>1, <1>2, QueueFacts, ReadQuietly

\* UpdateNobody keeps the invariant.
LEMMA UpdateNobodyOK == ASSUME IInv, UpdateNobody PROVE IInv'
<1>1. /\ Reading("update") /\ part[1].sid \notin DOMAIN st \cup {0}
      /\ UNCHANGED <<pps, kids, st, tx, pollout, turn, opened, init>>
  BY DEF UpdateNobody, Children
<1>2. Got(part[1]) /\ part[1].t = "update"
  BY <1>1, ReadingGets
<1>3. <<>> \in Seq(PpsRec) /\ \A j \in 1 .. Len(<<>>) : <<>>[j].t # "ack"
  <2>1. <<>> \in Seq(PpsRec) /\ Len(<<>>) = 0
    OBVIOUS
  <2>2. 1 .. 0 = {}
    OBVIOUS
  <2> QED BY <2>1, <2>2
<1>4. pps' = pps \o <<>>
  <2>1. pps \in Seq(PpsRec)
    BY <1>2, OpenConn DEF Got
  <2> QED BY <1>1, <2>1, ConcatEmptySeq
<1> QED BY <1>1, <1>2, <1>3, <1>4, ReadQuietly

\* A frame for a child, after which frames b go to the queue.
LEMMA ReadChild ==
  ASSUME IInv, NEW f, Got(f), f.t \notin {"headers", "settings"}, f.sid # 0,
         NEW b \in Seq(PpsRec), \A j \in 1 .. Len(b) : b[j].t # "ack", pps' = pps \o b,
         ChildrenOK(st'), DOMAIN st' = DOMAIN st,
         f.sid \in DOMAIN st => Read(st[f.sid], st'[f.sid], f.t),
         \A x \in DOMAIN st \ {f.sid} : st'[x] \in {st[x], [st[x] EXCEPT !.req = TRUE]},
         pollout' \in BOOLEAN, pps' # <<>> => pollout',
         \A x \in DOMAIN st : st'[x].req => pollout',
         UNCHANGED <<kids, tx, turn, opened, init>>
  PROVE  IInv'
<1>1. conn = "open" /\ turn = "no" /\ pps \in Seq(PpsRec) /\ KidsOK(kids, DOMAIN st)
  BY OpenConn DEF Got
<1>2. /\ StreamsOK(st', ps, Line', init, pinit)
      /\ SettingsOK(offer, init, pinit, <<>>, flight, pps)
  BY ReadStreams
<1>3. tx \in Int /\ tx >= 0 /\ pwin = tx + Count(Line', "update", 0)
  BY ReadKeepsCredit
<1>4. pps' \in Seq(PpsRec) /\ SettingsOK(offer, init, pinit, <<>>, flight, pps')
  BY <1>1, <1>2, SettingsQueued, ConcatProperties
<1>5. opened \in Sids \cup {0} /\ init \in Windows \cup {Default}
  BY <1>1, AskedBefore
<1> QED BY <1>1, <1>2, <1>3, <1>4, <1>5, ReadStep

\* Nothing goes to the queue.
LEMMA QueueNothing ==
  /\ <<>> \in Seq(PpsRec) /\ \A j \in 1 .. Len(<<>>) : <<>>[j].t # "ack"
  /\ \A q \in Seq(PpsRec) : q \o <<>> = q
<1>1. <<>> \in Seq(PpsRec) /\ Len(<<>>) = 0
  OBVIOUS
<1>2. 1 .. 0 = {}
  OBVIOUS
<1> QED BY <1>1, <1>2, ConcatEmptySeq

\* RstStream keeps the invariant.
LEMMA RstStreamOK == ASSUME IInv, RstStream PROVE IInv'
<1> DEFINE f == part[1]
           s == f.sid
<1>1. /\ Reading("rst") /\ st' = IF s \in DOMAIN st THEN [st EXCEPT ![s].h2 = "closed"] ELSE st
      /\ UNCHANGED <<pps, kids, tx, pollout, turn, opened, init>>
  BY DEF RstStream, Children
<1>2. Got(f) /\ f.t = "rst"
  BY <1>1, ReadingGets
<1>3. conn = "open" /\ turn = "no" /\ pps \in Seq(PpsRec) /\ ChildrenOK(st)
  BY <1>2, OpenConn DEF Got
<1> HIDE DEF f
<1>4. CASE s \notin DOMAIN st
  BY <1>1, <1>2, <1>3, <1>4, QueueNothing, ReadQuietly
<1>5. CASE s \in DOMAIN st
  <2> DEFINE c == st[s]
             d == [c EXCEPT !.h2 = "closed"]
  <2>1. s # 0 /\ s \in Sids /\ c \in ChildRec
    BY <1>5, ChildFacts
  <2>2. Read(c, c, "rst")
    BY <1>5, ReadNothing
  <2>3. /\ d \in ChildRec /\ d.h2 = "closed" /\ d.k = c.k /\ d.left = c.left /\ d.buf = c.buf
        /\ d.lrs = c.lrs /\ d.tx = c.tx /\ d.req = c.req
    BY <2>1 DEF ChildRec
  <2>4. DOMAIN st' = DOMAIN st /\ st'[s] = d /\ \A x \in DOMAIN st \ {s} : st'[x] = st[x]
    BY <1>1, <1>5
  <2> HIDE DEF c, d
  <2>5. Read(c, d, "rst")
    BY <2>2, <2>3 DEF Read
  <2>6. ChildrenOK(st')
    BY <1>3, <2>3, <2>4 DEF ChildrenOK
  <2>7. /\ pollout \in BOOLEAN /\ (pps # <<>> => pollout)
        /\ \A x \in DOMAIN st : st[x].req => pollout
    BY <1>3, AskedBefore
  <2>8. \A x \in DOMAIN st : st'[x].req => pollout
    BY <1>5, <2>3, <2>4, <2>7 DEF c
  <2>9. pps' = pps \o <<>> /\ UNCHANGED <<pps, kids, tx, pollout, turn, opened, init>>
    BY <1>1, <1>3, QueueNothing
  <2>10. Read(st[f.sid], st'[f.sid], f.t) /\ f.sid # 0
    BY <1>2, <2>1, <2>4, <2>5 DEF c
  <2> HIDE <1>1
  <2> QED BY <1>2, <2>4, <2>6, <2>7, <2>8, <2>9, <2>10, QueueNothing, ReadChild
<1> QED BY <1>4, <1>5

(* a unit of the body has come, and is given back when little is left *)
Delivered(c) ==
  IF c.lrs = "deferring" THEN [c EXCEPT !.buf = @ + 1]
  ELSE [c EXCEPT !.left = @ - 1, !.est = @ - 1,
                 !.lrs = IF c.left = 1 THEN "est" ELSE "body",
                 !.req = @ \/ c.left = 1]

GivenBack(b) == IF b.est <= 1 THEN [b EXCEPT !.est = @ + 1, !.req = TRUE] ELSE b

\* Giving credit back changes nothing but the request.
LEMMA GivenBackFacts ==
  ASSUME NEW b \in ChildRec
  PROVE  LET d == GivenBack(b) IN
         /\ d \in ChildRec /\ d.buf = b.buf /\ d.left = b.left /\ d.lrs = b.lrs /\ d.k = b.k
         /\ d.tx = b.tx /\ d.h2 = b.h2 /\ (b.req => d.req) /\ (d.req => b.req \/ b.est <= 1)
<1> DEFINE d == GivenBack(b)
           e == b.est + 1
<1>1. CASE b.est <= 1
  <2>1. d = [b EXCEPT !.est = e, !.req = TRUE]
    BY <1>1 DEF GivenBack
  <2>2. e \in Int
    BY DEF ChildRec
  <2> HIDE DEF e, d
  <2>3. /\ d \in ChildRec /\ d.buf = b.buf /\ d.left = b.left /\ d.lrs = b.lrs /\ d.k = b.k
        /\ d.tx = b.tx /\ d.h2 = b.h2 /\ d.req = TRUE
    BY <2>1, <2>2 DEF ChildRec
  <2> QED BY <1>1, <2>3 DEF d
<1>2. CASE ~(b.est <= 1)
  BY <1>2 DEF GivenBack
<1> QED BY <1>1, <1>2

\* What a DATA frame does to its child.
LEMMA DataRead ==
  ASSUME IInv, NEW f, Got(f), f.t = "data", f.sid \in DOMAIN st
  PROVE  /\ Delivered(st[f.sid]) \in ChildRec
         /\ Read(st[f.sid], GivenBack(Delivered(st[f.sid])), "data")
<1> DEFINE s == f.sid
           c == st[s]
           b == Delivered(c)
           d == GivenBack(b)
           n == Count(Line, "data", s)
           m == Count(Line', "data", s)
<1>1. c \in ChildRec /\ ps[s] \in PeerRec /\ ChildOK(s, c, ps[s], Line, init, pinit)
  BY ChildFacts
<1>2. n = m + 1 /\ m \in Nat
  BY CountPopped, CountIsNat DEF Got
<1>3. /\ c.left \in Nat /\ c.buf \in Nat /\ c.est \in Int /\ c.tx \in Int /\ c.req \in BOOLEAN
      /\ ps[s].body \in Nat
  BY <1>1 DEF ChildRec, PeerRec
<1>4. /\ c.buf + n + ps[s].body <= c.left /\ (c.k = "get" => n + ps[s].body = 0)
      /\ (c.lrs # "deferring" => c.buf = 0)
      /\ c.lrs = "file" => c.k = "get" /\ (c.tx > 0 => c.req)
  BY <1>1 DEF ChildOK
<1> DEFINE L == c.left
           B == c.buf
           E == c.est
           P == ps[s].body
<1>5. L >= 1 /\ L - 1 \in Nat /\ E - 1 \in Int /\ B + 1 \in Nat
  <2>1. L \in Nat /\ B \in Nat /\ E \in Int /\ P \in Nat /\ B + n + P <= L
    BY <1>3, <1>4
  <2> HIDE DEF L, B, E, P, n, m
  <2> QED BY <1>2, <2>1
<1>6. b \in ChildRec /\ Read(c, b, "data")
  <2>1. CASE c.lrs = "deferring"
    <3>1. b = [c EXCEPT !.buf = B + 1]
      BY <2>1 DEF Delivered
    <3> HIDE DEF b
    <3>2. /\ b \in ChildRec /\ b.buf = B + 1 /\ b.left = c.left /\ b.lrs = "deferring" /\ b.k = c.k
          /\ b.tx = c.tx /\ b.h2 = c.h2 /\ b.req = c.req
      BY <1>1, <1>5, <2>1, <3>1 DEF ChildRec
    <3>3. c.left - c.buf <= b.left - b.buf + 1 /\ b.tx <= c.tx
      BY <1>3, <3>2
    <3> QED BY <3>2, <3>3 DEF Read
  <2>2. CASE c.lrs # "deferring"
    <3> DEFINE w == IF L = 1 THEN "est" ELSE "body"
               r == c.req \/ L = 1
    <3>1. b = [c EXCEPT !.left = L - 1, !.est = E - 1, !.lrs = w, !.req = r]
      BY <2>2 DEF Delivered
    <3>2. w \in {"est", "body"} /\ r \in BOOLEAN
      BY <1>3
    <3> HIDE DEF w, r, b
    <3>3. /\ b \in ChildRec /\ b.buf = c.buf /\ b.left = L - 1 /\ b.lrs = w /\ b.k = c.k
          /\ b.tx = c.tx /\ b.h2 = c.h2 /\ b.req = r
      BY <1>1, <1>5, <3>1, <3>2 DEF ChildRec
    <3>4. c.left - c.buf <= b.left - b.buf + 1 /\ b.tx <= c.tx
      BY <1>3, <3>3
    <3> QED BY <1>4, <2>2, <3>2, <3>3, <3>4 DEF Read
  <2> QED BY <2>1, <2>2
<1> HIDE DEF b
<1>7. /\ d.buf = b.buf /\ d.left = b.left /\ d.lrs = b.lrs /\ d.k = b.k
      /\ d.tx = b.tx /\ d.h2 = b.h2 /\ (b.req => d.req)
  BY <1>6, GivenBackFacts
<1> HIDE DEF d
<1>8. Read(c, d, "data")
  BY <1>6, <1>7 DEF Read
<1> QED BY <1>6, <1>8 DEF b, d

\* Data keeps the invariant: the child waits for at least this much.
LEMMA DataOK == ASSUME IInv, Data PROVE IInv'
<1> DEFINE f == part[1]
           s == f.sid
           c == st[s]
           B(n) == IF c.lrs = "deferring" THEN [c EXCEPT !.buf = @ + n]
                   ELSE [c EXCEPT !.left = @ - n, !.est = @ - n,
                                  !.lrs = IF c.left = n THEN "est" ELSE "body",
                                  !.req = @ \/ c.left = n]
           D(n) == IF B(n).est <= n THEN [B(n) EXCEPT !.est = @ + n, !.req = TRUE] ELSE B(n)
           Q(n) == IF B(n).est <= n THEN lws_h2_update_peer_txcredit(s, n) ELSE <<>>
           b == Delivered(c)
           d == GivenBack(b)
           q == IF b.est <= 1 THEN lws_h2_update_peer_txcredit(s, 1) ELSE <<>>
<1>1. Reading("data") /\ s \in DOMAIN st
  BY DEF Data, Children
<1>2. Got(f) /\ f.t = "data"
  BY <1>1, ReadingGets
<1>3. f.n = 1 /\ conn = "open" /\ turn = "no" /\ pps \in Seq(PpsRec) /\ ChildrenOK(st)
  BY <1>2, OpenConn DEF Got, FrameOK
<1>4. /\ st' = [st EXCEPT ![s] = d] /\ pps' = pps \o q
      /\ pollout' = (pollout \/ b.req \/ b.est <= 1)
      /\ UNCHANGED <<kids, tx, turn, opened, init>>
  <2>1. /\ st' = [st EXCEPT ![s] = D(f.n)] /\ pps' = pps \o Q(f.n)
        /\ pollout' = (pollout \/ B(f.n).req \/ B(f.n).est <= f.n)
        /\ UNCHANGED <<kids, tx, turn, opened, init>>
    BY DEF Data
  <2>2. B(1) = b /\ D(1) = d /\ Q(1) = q
    BY DEF Delivered, GivenBack
  <2> HIDE DEF B, D, Q, b, d, q
  <2> QED BY <1>3, <2>1, <2>2
<1>5. s \in Sids /\ s # 0
  BY <1>1, ChildFacts
<1>6. /\ d \in ChildRec /\ b \in ChildRec /\ Read(c, d, "data")
      /\ d.req => b.req \/ b.est <= 1
  <2>1. b \in ChildRec /\ Read(c, d, "data")
    BY <1>1, <1>2, DataRead
  <2> HIDE DEF b
  <2> QED BY <2>1, GivenBackFacts
<1>7. q \in Seq(PpsRec) /\ (\A j \in 1 .. Len(q) : q[j].t # "ack") /\ (b.est <= 1 \/ q = <<>>)
  <2>1. CASE b.est <= 1
    <3>1. q = lws_h2_update_peer_txcredit(s, 1)
      BY <2>1
    <3> HIDE DEF q, b
    <3> QED BY <1>5, <2>1, <3>1, CreditFacts
  <2>2. CASE ~(b.est <= 1)
    BY <2>2, QueueNothing
  <2> QED BY <2>1, <2>2
<1> HIDE DEF f, b, d, q
<1>8. DOMAIN st' = DOMAIN st /\ st'[s] = d /\ \A x \in DOMAIN st \ {s} : st'[x] = st[x]
  BY <1>1, <1>4
<1>9. /\ pollout \in BOOLEAN /\ (pps # <<>> => pollout)
      /\ \A x \in DOMAIN st : st[x].req => pollout
  BY <1>3, AskedBefore
<1>10. b.req \in BOOLEAN /\ (b.est <= 1) \in BOOLEAN
  BY <1>6 DEF ChildRec
<1>11. pollout' \in BOOLEAN /\ (pollout' <=> pollout \/ b.req \/ b.est <= 1)
  BY <1>4, <1>9, <1>10
<1>12. pps' # <<>> => pollout'
  BY <1>3, <1>4, <1>7, <1>9, <1>11, QueueNothing
<1>13. \A x \in DOMAIN st : st'[x].req => pollout'
  BY <1>6, <1>8, <1>9, <1>11
<1>14. ChildrenOK(st')
  BY <1>3, <1>6, <1>8 DEF ChildrenOK
<1>15. Read(st[f.sid], st'[f.sid], f.t)
  BY <1>2, <1>6, <1>8
<1>16. pps' = pps \o q /\ UNCHANGED <<kids, tx, turn, opened, init>>
  BY <1>4
<1>17. \A x \in DOMAIN st \ {f.sid} : st'[x] \in {st[x], [st[x] EXCEPT !.req = TRUE]}
  BY <1>8
<1> HIDE <1>4
<1> QED BY <1>2, <1>5, <1>7, <1>8, <1>11, <1>12, <1>13, <1>14, <1>15, <1>16, <1>17, ReadChild
\* What lws_callback_on_writable() does to each child.
LEMMA CallbackFacts ==
  ASSUME NEW a, ChildrenOK(a), NEW S
  PROVE  LET b == lws_callback_on_writable(a, S) IN
         /\ DOMAIN b = DOMAIN a /\ ChildrenOK(b)
         /\ \A x \in DOMAIN a : /\ x \in S => b[x] = [a[x] EXCEPT !.req = TRUE]
                                /\ x \notin S => b[x] = a[x]
<1> DEFINE b == lws_callback_on_writable(a, S)
<1>1. /\ DOMAIN b = DOMAIN a
      /\ \A x \in DOMAIN a : /\ x \in S => b[x] = [a[x] EXCEPT !.req = TRUE]
                             /\ x \notin S => b[x] = a[x]
  BY DEF lws_callback_on_writable
<1> HIDE DEF b
<1>2. ASSUME NEW x \in DOMAIN a PROVE b[x] \in ChildRec
  <2>1. a[x] \in ChildRec
    BY DEF ChildrenOK
  <2>2. [a[x] EXCEPT !.req = TRUE] \in ChildRec
    BY <2>1 DEF ChildRec
  <2> QED BY <1>1, <2>1, <2>2
<1>3. ChildrenOK(b)
  BY <1>1, <1>2 DEF ChildrenOK
<1> QED BY <1>1, <1>3 DEF b

\* Credit for a child that may take it.
LEMMA CreditRead ==
  ASSUME IInv, NEW s \in DOMAIN st, NEW r \in BOOLEAN, st[s].tx + 1 > 0 => r,
         NEW d, d.k = st[s].k, d.left = st[s].left, d.buf = st[s].buf, d.lrs = st[s].lrs,
         \/ d.h2 = "closed" /\ d.tx = st[s].tx /\ d.req = TRUE
         \/ d.h2 = st[s].h2 /\ d.tx = st[s].tx + 1 /\ (r => d.req = TRUE)
  PROVE  Read(st[s], d, "update")
<1> DEFINE c == st[s]
<1>1. /\ c \in ChildRec /\ (c.lrs # "deferring" => c.buf = 0)
      /\ c.lrs = "file" => c.k = "get"
  BY ChildFacts DEF ChildOK
<1>2. c.left \in Nat /\ c.buf \in Nat /\ c.tx \in Int
  BY <1>1 DEF ChildRec
<1>3. /\ d.k = c.k /\ d.left = c.left /\ d.buf = c.buf /\ d.lrs = c.lrs
      /\ c.tx + 1 > 0 => r
  OBVIOUS
<1>4. c.left - c.buf <= c.left - c.buf /\ c.tx <= c.tx + 1
  BY <1>2
<1>5. CASE d.h2 = "closed" /\ d.tx = c.tx /\ d.req = TRUE
  BY <1>1, <1>3, <1>4, <1>5 DEF Read
<1>6. CASE d.h2 = c.h2 /\ d.tx = c.tx + 1 /\ (r => d.req = TRUE)
  <2>1. d.tx <= c.tx + 1 /\ (d.tx > 0 => d.req)
    BY <1>2, <1>3, <1>6
  <2> QED BY <1>1, <1>3, <1>4, <1>6, <2>1 DEF Read
<1> QED BY <1>5, <1>6

\* UpdateStream keeps the invariant: whoever may send now has asked.
LEMMA UpdateStreamOK == ASSUME IInv, UpdateStream PROVE IInv'
<1> DEFINE f == part[1]
           s == f.sid
           c == st[s]
           new == c.tx + 1
<1>1. Reading("update") /\ s \in DOMAIN st /\ UNCHANGED <<kids, tx, turn, opened, init>>
  BY DEF UpdateStream, Children
<1>2. Got(f) /\ f.t = "update"
  BY <1>1, ReadingGets
<1>3. f.n = 1 /\ conn = "open" /\ turn = "no" /\ pps \in Seq(PpsRec) /\ ChildrenOK(st)
  BY <1>2, OpenConn DEF Got, FrameOK
<1>4. s \in Sids /\ s # 0 /\ c \in ChildRec
  BY <1>1, ChildFacts
<1>5. /\ pollout \in BOOLEAN /\ (pps # <<>> => pollout)
      /\ \A x \in DOMAIN st : st[x].req => pollout
  BY <1>3, AskedBefore
<1>6. CASE Exceeds(c.tx, 1)
  <2> DEFINE a == [st EXCEPT ![s].h2 = "closed"]
             d == [c EXCEPT !.h2 = "closed", !.req = TRUE]
  <2>1. /\ st' = lws_callback_on_writable(a, {s})
        /\ pps' = pps \o Queue("rst", s, 0) /\ pollout' = TRUE
    BY <1>3, <1>6 DEF UpdateStream
  <2>2. /\ DOMAIN a = DOMAIN st /\ a[s] = [c EXCEPT !.h2 = "closed"]
        /\ \A x \in DOMAIN st \ {s} : a[x] = st[x]
    BY <1>1
  <2>3. a[s] \in ChildRec
    BY <1>4, <2>2 DEF ChildRec
  <2> HIDE DEF f, a
  <2>4. ChildrenOK(a)
    BY <1>3, <2>2, <2>3 DEF ChildrenOK
  <2>5. /\ DOMAIN st' = DOMAIN st /\ ChildrenOK(st')
        /\ st'[s] = [a[s] EXCEPT !.req = TRUE] /\ \A x \in DOMAIN st \ {s} : st'[x] = st[x]
    <3> DEFINE S == {s}
    <3>1. st' = lws_callback_on_writable(a, S) /\ s \in S /\ \A x \in DOMAIN st \ {s} : x \notin S
      BY <2>1
    <3> HIDE DEF S, s
    <3>2. /\ DOMAIN st' = DOMAIN a /\ ChildrenOK(st')
          /\ \A x \in DOMAIN a : /\ x \in S => st'[x] = [a[x] EXCEPT !.req = TRUE]
                                 /\ x \notin S => st'[x] = a[x]
      BY <2>4, <3>1, CallbackFacts
    <3> HIDE <2>1
    <3> QED BY <1>1, <2>2, <3>1, <3>2
  <2>6. st'[s] = d
    BY <1>4, <2>2, <2>5 DEF ChildRec
  <2>7. /\ d.k = c.k /\ d.left = c.left /\ d.buf = c.buf /\ d.lrs = c.lrs
        /\ d.h2 = "closed" /\ d.tx = c.tx /\ d.req = TRUE
    BY <1>4 DEF ChildRec
  <2> HIDE DEF d
  <2>8. Read(c, d, "update")
    BY <1>1, <2>7, CreditRead
  <2>9. Read(st[f.sid], st'[f.sid], f.t)
    BY <1>2, <2>6, <2>8
  <2> QED BY <1>1, <1>2, <1>4, <2>1, <2>5, <2>9, QueueFacts, ReadChild
<1>7. CASE ~Exceeds(c.tx, 1)
  <2> DEFINE a == [st EXCEPT ![s].tx = new]
             S == IF new > 0 THEN DOMAIN st ELSE {}
  <2>1. /\ st' = lws_callback_on_writable(a, S)
        /\ pps' = pps /\ pollout' = (pollout \/ new > 0)
    BY <1>3, <1>7 DEF UpdateStream, Children
  <2>2. /\ DOMAIN a = DOMAIN st /\ a[s] = [c EXCEPT !.tx = new]
        /\ \A x \in DOMAIN st \ {s} : a[x] = st[x]
    BY <1>1
  <2>3. new \in Int
    BY <1>4 DEF ChildRec
  <2>4. (new > 0 => S = DOMAIN st) /\ (~(new > 0) => S = {})
    OBVIOUS
  <2> HIDE DEF f, a, S, new
  <2>5. /\ a[s] \in ChildRec /\ a[s].tx = new /\ a[s].k = c.k /\ a[s].left = c.left /\ a[s].buf = c.buf
        /\ a[s].lrs = c.lrs /\ a[s].h2 = c.h2 /\ a[s].req = c.req
    BY <1>4, <2>2, <2>3 DEF ChildRec
  <2>6. ChildrenOK(a)
    BY <1>3, <2>2, <2>5 DEF ChildrenOK
  <2>7. /\ DOMAIN st' = DOMAIN st /\ ChildrenOK(st')
        /\ \A x \in DOMAIN st : /\ x \in S => st'[x] = [a[x] EXCEPT !.req = TRUE]
                                /\ x \notin S => st'[x] = a[x]
    BY <2>1, <2>2, <2>6, CallbackFacts
  <2>8. pollout' \in BOOLEAN /\ (pollout' <=> pollout \/ new > 0)
    BY <1>5, <2>1
  <2>9. Read(c, st'[s], "update")
    <3> DEFINE d == st'[s]
    <3>1. /\ d.k = c.k /\ d.left = c.left /\ d.buf = c.buf /\ d.lrs = c.lrs
          /\ d.h2 = c.h2 /\ d.tx = new /\ (new > 0 => d.req = TRUE)
      <4>1. CASE new > 0
        <5>1. d = [a[s] EXCEPT !.req = TRUE]
          BY <1>1, <2>4, <2>7, <4>1
        <5> QED BY <2>5, <5>1 DEF ChildRec
      <4>2. CASE ~(new > 0)
        <5>1. d = a[s]
          BY <1>1, <2>4, <2>7, <4>2
        <5> QED BY <2>5, <4>2, <5>1
      <4> QED BY <4>1, <4>2
    <3> DEFINE r == new > 0
    <3>2. r \in BOOLEAN /\ (c.tx + 1 > 0 => r)
      BY <2>3 DEF new
    <3>3. d.tx = c.tx + 1 /\ (r => d.req = TRUE)
      BY <3>1 DEF new
    <3> HIDE DEF d, r
    <3>4. Read(c, d, "update")
      BY <1>1, <3>1, <3>2, <3>3, CreditRead
    <3> QED BY <3>4 DEF d
  <2>10. \A x \in DOMAIN st \ {f.sid} : st'[x] \in {st[x], [st[x] EXCEPT !.req = TRUE]}
    BY <2>2, <2>7
  <2>11. \A x \in DOMAIN st : st'[x].req => pollout'
    <3>1. CASE new > 0
      BY <2>8, <3>1
    <3>2. CASE ~(new > 0)
      <4> TAKE x \in DOMAIN st
      <4>1. st'[x] = a[x] /\ a[x].req = st[x].req
        BY <2>2, <2>4, <2>5, <2>7, <3>2
      <4> QED BY <1>5, <2>8, <4>1
    <3> QED BY <3>1, <3>2
  <2>12. pps' = pps \o <<>> /\ (pps' # <<>> => pollout')
    BY <1>3, <1>5, <2>1, <2>8, QueueNothing
  <2>13. Read(st[f.sid], st'[f.sid], f.t) /\ f.sid # 0
    BY <1>2, <1>4, <2>9
  <2> HIDE <2>1
  <2> QED BY <1>1, <1>2, <2>7, <2>8, <2>10, <2>11, <2>12, <2>13, QueueNothing, ReadChild
<1> QED BY <1>6, <1>7

\* What is smaller than the divisor is its own remainder.
LEMMA SmallMod == \A a, w \in Nat : a < w => a % w = a
OBVIOUS

\* The peer never gives too much credit on all streams.
LEMMA NeverTooMuch ==
  ASSUME NEW t \in Nat, t + 1 <= MaxWindow PROVE ~Exceeds(t, 1)
<1>1. MaxWindow \in Nat /\ Wide \in Nat /\ Wide > 4 * (MaxWindow + 1)
  BY H2Assumption
<1>2. t < Wide /\ t + 1 < Wide /\ t + 1 \in Nat
  BY <1>1
<1>3. t % Wide = t /\ (t + 1) % Wide = t + 1
  BY <1>1, <1>2, SmallMod
<1>4. ~(t + 1 > MaxWindow)
  BY <1>1
<1> QED BY <1>3, <1>4 DEF Exceeds

\* UpdateConnection keeps the invariant.
LEMMA UpdateConnectionOK == ASSUME IInv, UpdateConnection PROVE IInv'
<1> DEFINE f == part[1]
<1>1. Reading("update") /\ f.sid = 0 /\ UNCHANGED <<kids, turn, opened, init>>
  BY DEF UpdateConnection
<1>2. Got(f) /\ f.t = "update"
  BY <1>1, ReadingGets
<1>3. /\ f.n = 1 /\ conn = "open" /\ turn = "no" /\ pps \in Seq(PpsRec) /\ ChildrenOK(st)
      /\ KidsOK(kids, DOMAIN st)
  BY <1>2, OpenConn DEF Got, FrameOK
<1> DEFINE u == Count(Line, "update", 0)
           v == Count(Line', "update", 0)
<1>4. u = v + 1 /\ v \in Nat
  BY <1>1, <1>2, CountPopped, CountIsNat DEF Got
<1>5. tx \in Int /\ tx >= 0 /\ pwin = tx + u /\ pwin <= MaxWindow /\ pwin \in Int /\ MaxWindow \in Nat
  BY <1>3, OpenConn, Numbers
<1>6. tx \in Nat /\ tx + 1 <= MaxWindow /\ pwin = (tx + 1) + v /\ tx + 1 \in Int /\ tx + 1 > 0
  <2> HIDE DEF u, v
  <2> QED BY <1>4, <1>5
<1>7. ~Exceeds(tx, 1)
  BY <1>6, NeverTooMuch
<1>8. /\ tx' = tx + 1 /\ pps' = pps
      /\ st' = lws_callback_on_writable(st, IF tx' > 0 THEN DOMAIN st ELSE {})
      /\ pollout' = (pollout \/ (tx' > 0 /\ DOMAIN st # {}))
  BY <1>3, <1>7 DEF UpdateConnection, Children
<1>9. st' = lws_callback_on_writable(st, DOMAIN st)
  BY <1>6, <1>8
<1>10. /\ DOMAIN st' = DOMAIN st /\ ChildrenOK(st')
       /\ \A x \in DOMAIN st : st'[x] = [st[x] EXCEPT !.req = TRUE]
  BY <1>3, <1>9, CallbackFacts
<1>11. /\ pollout \in BOOLEAN /\ (pps # <<>> => pollout)
       /\ opened \in Sids \cup {0} /\ init \in Windows \cup {Default}
  BY <1>3, AskedBefore
<1>12. pollout' \in BOOLEAN /\ (pollout' <=> pollout \/ DOMAIN st # {})
  BY <1>6, <1>8, <1>11
<1>13. f.sid \notin DOMAIN st
  BY <1>1, ChildFacts
<1>14. /\ StreamsOK(st', ps, Line', init, pinit)
       /\ SettingsOK(offer, init, pinit, <<>>, flight, pps)
  BY <1>2, <1>10, <1>13, ReadStreams
<1>15. tx' \in Int /\ tx' >= 0 /\ pwin = tx' + Count(Line', "update", 0)
  <2>1. tx' = tx + 1
    BY <1>8
  <2> HIDE DEF v
  <2>2. tx' \in Int /\ tx' >= 0 /\ pwin = tx' + v
    BY <1>6, <2>1
  <2> QED BY <2>2 DEF v
<1>16. pps' = pps /\ (pps' # <<>> => pollout') /\ \A x \in DOMAIN st' : st'[x].req => pollout'
  BY <1>8, <1>10, <1>11, <1>12
<1> HIDE DEF f
<1> HIDE <1>8, <1>9
<1> QED BY <1>1, <1>2, <1>3, <1>10, <1>11, <1>12, <1>14, <1>15, <1>16, ReadStep

\* Headers keeps the invariant: the stream is new to the server.
LEMMA HeadersOK == ASSUME IInv, Headers PROVE IInv'
<1> DEFINE f == part[1]
           s == f.sid
           child == Accepted(f.k, init)
           q == lws_h2_update_peer_txcredit(s, OurCredit)
<1>1. /\ Reading("headers")
      /\ st' = [x \in DOMAIN st \cup {s} |-> IF x = s THEN child ELSE st[x]]
      /\ kids' = <<s>> \o kids /\ opened' = s /\ pps' = pps \o q /\ pollout' = TRUE
      /\ UNCHANGED <<tx, turn, init>>
  BY DEF Headers, Children, Accepted
<1>2. Got(f) /\ f.t = "headers"
  BY <1>1, ReadingGets
<1>3. /\ s \in Sids /\ s # 0 /\ f.k \in Kinds /\ conn = "open" /\ turn = "no"
      /\ pps \in Seq(PpsRec) /\ ChildrenOK(st) /\ KidsOK(kids, DOMAIN st)
      /\ init \in Int /\ pinit \in Int /\ ps \in [Sids -> PeerRec]
      /\ StreamsOK(st, ps, Line, init, pinit)
      /\ SettingsOK(offer, init, pinit, part, flight, pps)
      /\ init \in Windows \cup {Default}
  BY <1>2, OpenConn, InitialWindows, Numbers, AskedBefore DEF Got, FrameOK
<1>4. child \in ChildRec
  BY <1>3, Numbers DEF Accepted, ChildRec
<1> HIDE DEF f, child
<1>5. /\ DOMAIN st' = DOMAIN st \cup {s} /\ st'[s] = child
      /\ \A x \in DOMAIN st \ {s} : st'[x] = st[x]
  BY <1>1
<1>6. s \notin DOMAIN st /\ StreamOK(s, st', ps[s], Line', init, pinit)
  <2>1. StreamOK(s, st, ps[s], Line, init, pinit) /\ ps[s] \in PeerRec
    BY <1>3 DEF StreamsOK
  <2>2. s \in DOMAIN st' /\ st'[s] = Accepted(f.k, init)
    BY <1>5 DEF child
  <2> HIDE <1>1
  <2> QED BY <1>2, <1>3, <2>1, <2>2, StreamAccepted DEF Got
<1>7. ChildrenOK(st')
  BY <1>3, <1>4, <1>5 DEF ChildrenOK
<1>8. KidsOK(kids', DOMAIN st')
  BY <1>1, <1>3, <1>5, <1>6, KidAdded
<1>9. ASSUME NEW x \in Sids PROVE StreamOK(x, st', ps[x], Line', init, pinit)
  <2>1. CASE x = s
    BY <1>6, <2>1
  <2>2. CASE x # s
    <3>1. StreamOK(x, st, ps[x], Line, init, pinit) /\ ps[x] \in PeerRec
      BY <1>3 DEF StreamsOK
    <3>2. StreamOK(x, st, ps[x], Line', init, pinit)
      BY <1>2, <2>2, <3>1, StreamPoppedOther DEF Got
    <3>3. KeptChild(st, st', x)
      BY <1>5, <2>2 DEF KeptChild
    <3> QED BY <1>3, <3>1, <3>2, <3>3, StreamKept
  <2> QED BY <2>1, <2>2
<1>10. StreamsOK(st', ps, Line', init, pinit)
  BY <1>9 DEF StreamsOK
<1>11. q \in Seq(PpsRec) /\ \A j \in 1 .. Len(q) : q[j].t # "ack"
  BY <1>3, Numbers, CreditFacts
<1> HIDE DEF q
<1>12. SettingsOK(offer, init, pinit, <<>>, flight, pps)
  BY <1>2, <1>3, SettingsRead DEF Got
<1>13. pps \o q \in Seq(PpsRec) /\ SettingsOK(offer, init, pinit, <<>>, flight, pps \o q)
  BY <1>3, <1>11, <1>12, SettingsQueued, ConcatProperties
<1>14. tx \in Int /\ tx >= 0 /\ pwin = tx + Count(Line', "update", 0)
  BY <1>2, ReadKeepsCredit
<1>15. pps' = pps \o q /\ pollout' = TRUE /\ opened' = s /\ UNCHANGED <<tx, turn, init>>
  BY <1>1
<1> HIDE <1>1
<1> QED BY <1>2, <1>3, <1>7, <1>8, <1>10, <1>13, <1>14, <1>15, ReadStep

\* Settings keeps the invariant: every window moves as the peer's will when
\* it gets the acknowledgement.
LEMMA SettingsApplyOK == ASSUME IInv, Settings PROVE IInv'
<1> DEFINE f == part[1]
           v == f.n
           Change(x) == [st[x] EXCEPT !.tx = st[x].tx + (v - init),
                                      !.req = @ \/ (st[x].tx + (v - init) > 0
                                                    /\ st[x].tx + (v - init) <= v - init)]
<1>1. /\ Reading("settings") /\ st' = [x \in DOMAIN st |-> Change(x)]
      /\ init' = v /\ pollout' = (pollout \/ \E x \in DOMAIN st : st'[x].req)
      /\ UNCHANGED <<pps, kids, tx, turn, opened>>
  BY DEF Settings, lws_h2_settings, Children
<1>2. Got(f) /\ f.t = "settings"
  BY <1>1, ReadingGets
<1>3. /\ v \in Windows /\ f.sid = 0 /\ conn = "open" /\ turn = "no"
      /\ pps \in Seq(PpsRec) /\ ChildrenOK(st) /\ KidsOK(kids, DOMAIN st)
      /\ init \in Int /\ pinit \in Int /\ ps \in [Sids -> PeerRec]
      /\ StreamsOK(st, ps, Line, init, pinit)
      /\ SettingsOK(offer, init, pinit, part, flight, pps)
  BY <1>2, OpenConn, InitialWindows DEF Got, FrameOK
<1>4. v \in Int
  BY <1>3, Numbers
<1>5. /\ pollout \in BOOLEAN /\ opened \in Sids \cup {0} /\ (pps # <<>> => pollout)
  BY <1>3, AskedBefore
<1> HIDE DEF f
<1>6. ASSUME NEW x \in DOMAIN st PROVE Change(x) \in ChildRec
  <2> DEFINE c == st[x]
             n == c.tx + (v - init)
             r == c.req \/ (n > 0 /\ n <= v - init)
  <2>1. c \in ChildRec
    BY <1>3 DEF ChildrenOK
  <2>2. n \in Int /\ r \in BOOLEAN
    <3>1. c.tx \in Int /\ c.req \in BOOLEAN
      BY <2>1 DEF ChildRec
    <3>2. n \in Int
      BY <1>3, <1>4, <3>1
    <3> QED BY <3>1, <3>2
  <2>3. Change(x) = [c EXCEPT !.tx = n, !.req = r]
    OBVIOUS
  <2> HIDE DEF c, n, r, Change
  <2> QED BY <2>1, <2>2, <2>3 DEF ChildRec
<1>7. DOMAIN st' = DOMAIN st /\ \A x \in DOMAIN st : st'[x] = Change(x)
  BY <1>1
<1>8. ChildrenOK(st')
  <2> HIDE DEF Change
  <2> QED BY <1>3, <1>6, <1>7 DEF ChildrenOK
<1>9. ASSUME NEW x \in Sids PROVE StreamOK(x, st', ps[x], Line', v, pinit)
  <2>1. StreamOK(x, st, ps[x], Line, init, pinit) /\ ps[x] \in PeerRec /\ f.sid # x
    BY <1>3, Numbers DEF StreamsOK
  <2>2. StreamOK(x, st, ps[x], Line', init, pinit)
    BY <1>2, <2>1, StreamPoppedOther DEF Got
  <2>3. x \in DOMAIN st =>
          LET new == st[x].tx + (v - init)
          IN  st'[x] = [st[x] EXCEPT !.tx = new, !.req = @ \/ (new > 0 /\ new <= v - init)]
    BY <1>7
  <2> HIDE DEF Change, v
  <2> HIDE <1>1
  <2> QED BY <1>3, <1>4, <1>7, <2>1, <2>2, <2>3, StreamSettings
<1>10. StreamsOK(st', ps, Line', v, pinit)
  BY <1>9 DEF StreamsOK
<1>11. SettingsOK(offer, v, pinit, <<>>, flight, pps)
  BY <1>2, <1>3, SettingsApplied DEF Got
<1>12. tx \in Int /\ tx >= 0 /\ pwin = tx + Count(Line', "update", 0)
  BY <1>2, ReadKeepsCredit
<1>13. pollout' = (pollout \/ \E x \in DOMAIN st : st'[x].req)
  BY <1>1
<1>14. pollout' \in BOOLEAN /\ (pollout => pollout') /\ \A x \in DOMAIN st : st'[x].req => pollout'
  <2> HIDE <1>1, <1>7
  <2> HIDE DEF Change
  <2> QED BY <1>5, <1>13
<1>15. init' = v /\ UNCHANGED <<pps, kids, tx, turn, opened>>
  BY <1>1
<1> HIDE DEF Change, v
<1> QED BY <1>2, <1>3, <1>5, <1>7, <1>8, <1>10, <1>11, <1>12, <1>14, <1>15, ReadStep

\* The parser keeps the invariant.
LEMMA ParseOK == ASSUME IInv, Parse PROVE IInv'
BY HeaderOK, HeadersOK, SettingsApplyOK, DataRefusedOK, DataWithMoreOK, DataOK, UpdateStreamOK,
   UpdateConnectionOK, UpdateNobodyOK, PingOK, RstStreamOK
   DEF Parse, lws_h2_parse_end_of_frame

-----------------------------------------------------------------------------
(* POLLOUT *)

\* What CloseChild() does.
LEMMA ChildCloses ==
  ASSUME IInv, NEW s, CloseChild(s)
  PROVE  /\ DOMAIN st' = DOMAIN st \ {s} /\ ChildrenOK(st') /\ KidsOK(kids', DOMAIN st')
         /\ \A x \in DOMAIN st' : st'[x] = st[x]
         /\ \A x : KeptChild(st, st', x)
<1>1. /\ st' = Restrict(st, DOMAIN st \ {s})
      /\ kids' = lws_wsi_mux_sibling_disconnect(kids, s)
  BY DEF CloseChild, Children
<1>2. DOMAIN st' = DOMAIN st \ {s} /\ \A x \in DOMAIN st' : st'[x] = st[x]
  BY <1>1 DEF Restrict
<1>3. ChildrenOK(st') /\ \A x : KeptChild(st, st', x)
  BY <1>2 DEF IInv, ChildrenOK, KeptChild
<1>4. KidsOK(kids', DOMAIN st \ {s})
  BY <1>1, KidRemoved DEF IInv
<1> QED BY <1>2, <1>3, <1>4

\* A protocol frame is sent between frames of the peer.
LEMMA SendingGets ==
  ASSUME IInv, NEW t, Sending(t)
  PROVE  /\ conn = "open" /\ turn = "no" /\ pollout = TRUE /\ (part = <<>> \/ Split)
         /\ pps \in Seq(PpsRec) /\ pps # <<>> /\ Head(pps).t = t /\ Head(pps) \in PpsRec
         /\ pps' = Tail(pps) /\ Tail(pps) \in Seq(PpsRec) /\ Line' = Line
         /\ UNCHANGED <<flight, part, tx, pollout, turn, opened, init>>
<1>1. /\ conn = "open" /\ turn = "no" /\ pollout /\ (part = <<>> \/ Split)
      /\ pps # <<>> /\ Head(pps).t = t /\ pps' = Tail(pps)
      /\ UNCHANGED <<flight, part, tx, pollout, turn, opened, init>>
  BY DEF Sending, Writable
<1>2. pps \in Seq(PpsRec) /\ pollout \in BOOLEAN
  BY <1>1, OpenConn, AskedBefore
<1>3. Tail(pps) \in Seq(PpsRec) /\ Head(pps) \in PpsRec
  BY <1>1, <1>2, TailPops
<1>4. Line' = Line
  BY <1>1 DEF Line
<1> QED BY <1>1, <1>2, <1>3, <1>4

\* Sending a protocol frame keeps the invariant if it keeps its parts.
LEMMA SendStep ==
  ASSUME IInv, NEW t, Sending(t), conn' = conn,
         ChildrenOK(st'), KidsOK(kids', DOMAIN st'), ps' \in [Sids -> PeerRec],
         StreamsOK(st', ps', Line, init, pinit'),
         pwin' = pwin, pcred' \in Int, pinit' \in Windows \cup {Default},
         offer' \in Seq(Windows), Len(offer') <= 1, over' = over, spent' = spent,
         SettingsOK(offer', init, pinit', part, flight, Tail(pps))
  PROVE  IInv'
<1>1. /\ conn = "open" /\ turn = "no" /\ pollout = TRUE /\ (part = <<>> \/ Split)
      /\ pps' = Tail(pps) /\ Tail(pps) \in Seq(PpsRec) /\ Line' = Line
      /\ UNCHANGED <<flight, part, tx, pollout, turn, opened, init>>
  BY SendingGets
<1>2. Typed'
  BY <1>1 DEF IInv, Typed
<1>3. ConnOK' /\ OverOK' /\ FramesOK(Line)'
  BY <1>1 DEF IInv, ConnOK, OverOK
<1>4. TurnOK'
  BY <1>1 DEF TurnOK, PolloutIsAsked
<1>5. StreamsOK(st, ps, Line, init, pinit)'
  BY <1>1
<1>6. SettingsOK(offer, init, pinit, part, flight, pps)'
  BY <1>1
<1>7. ChildrenOK(st)' /\ KidsOK(kids, DOMAIN st)'
  OBVIOUS
<1> QED BY <1>2, <1>3, <1>4, <1>5, <1>6, <1>7 DEF IInv

\* What there is when a protocol frame other than an acknowledgement is sent.
LEMMA SendingKeeps ==
  ASSUME IInv, NEW t, Sending(t), t # "ack"
  PROVE  /\ SettingsOK(offer, init, pinit, part, flight, Tail(pps))
         /\ pinit \in Windows \cup {Default} /\ offer \in Seq(Windows) /\ Len(offer) <= 1
         /\ pcred \in Int /\ ps \in [Sids -> PeerRec] /\ ChildrenOK(st) /\ KidsOK(kids, DOMAIN st)
         /\ StreamsOK(st, ps, Line, init, pinit)
<1>1. /\ conn = "open" /\ pps \in Seq(PpsRec) /\ pps # <<>> /\ Head(pps).t # "ack"
  BY SendingGets
<1>2. SettingsOK(offer, init, pinit, part, flight, pps)
  BY <1>1, OpenConn
<1>3. SettingsOK(offer, init, pinit, part, flight, Tail(pps))
  BY <1>1, <1>2, SettingsPopped
<1>4. pinit \in Windows \cup {Default}
  BY DEF IInv, Typed
<1> QED BY <1>1, <1>3, <1>4, OpenConn

\* SendPong keeps the invariant.
LEMMA SendPongOK == ASSUME IInv, SendPong PROVE IInv'
<1>1. /\ Sending("pong")
      /\ UNCHANGED <<conn, kids, st, ps, pwin, pcred, pinit, offer, over, spent>>
  BY DEF SendPong, peer
<1> QED BY <1>1, SendingKeeps, SendStep

\* SendUpdate keeps the invariant: the credit of the peer is its own.
LEMMA SendUpdateOK == ASSUME IInv, SendUpdate PROVE IInv'
<1> DEFINE s == Head(pps).sid
           n == Head(pps).n
<1>1. /\ Sending("update")
      /\ s = 0 => pcred' = pcred + n /\ ps' = ps
      /\ s # 0 => ps' = [ps EXCEPT ![s].cred = @ + n] /\ pcred' = pcred
      /\ UNCHANGED <<conn, kids, st, pwin, pinit, offer, over, spent>>
  BY DEF SendUpdate
<1>2. s \in Sids \cup {0} /\ n \in Nat
  BY <1>1, SendingGets DEF PpsRec
<1>3. pcred \in Int /\ ps \in [Sids -> PeerRec] /\ StreamsOK(st, ps, Line, init, pinit)
  BY <1>1, SendingKeeps
<1> HIDE DEF s, n
<1>4. pcred' \in Int
  BY <1>1, <1>2, <1>3
<1>5. ASSUME NEW x \in Sids
      PROVE  /\ ps'[x] \in PeerRec /\ ps'[x].s = ps[x].s /\ ps'[x].body = ps[x].body
             /\ ps'[x].win = ps[x].win
  <2>1. ps[x] \in PeerRec
    BY <1>3
  <2>2. CASE s # 0 /\ x = s
    <3> DEFINE e == ps[x].cred + n
    <3>1. e \in Int
      BY <1>2, <2>1 DEF PeerRec
    <3>2. ps'[x] = [ps[x] EXCEPT !.cred = e]
      BY <1>1, <1>3, <2>2
    <3> HIDE DEF e
    <3> QED BY <2>1, <3>1, <3>2 DEF PeerRec
  <2>3. CASE ~(s # 0 /\ x = s)
    <3>1. ps'[x] = ps[x]
      BY <1>1, <1>3, <2>3
    <3> QED BY <2>1, <3>1
  <2> QED BY <2>2, <2>3
<1>6. ps' \in [Sids -> PeerRec]
  <2>1. ps' = [x \in Sids |-> ps'[x]]
    BY <1>1, <1>2, <1>3
  <2> QED BY <1>5, <2>1
<1>7. ASSUME NEW x \in Sids PROVE StreamOK(x, st, ps'[x], Line, init, pinit)
  <2>1. StreamOK(x, st, ps[x], Line, init, pinit)
    BY <1>3 DEF StreamsOK
  <2>2. ps'[x].win - pinit = ps[x].win - pinit
    BY <1>5
  <2> QED BY <1>5, <2>1, <2>2, StreamWindow
<1>8. StreamsOK(st, ps', Line, init, pinit)
  BY <1>7 DEF StreamsOK
<1>9. UNCHANGED <<conn, kids, st, pwin, pinit, offer, over, spent>> /\ Sending("update")
  BY <1>1
<1> HIDE <1>1
<1> QED BY <1>4, <1>6, <1>8, <1>9, SendingKeeps, SendStep

\* SendAck keeps the invariant: the windows of the peer move as the streams'
\* did when the SETTINGS were read.
LEMMA SendAckOK == ASSUME IInv, SendAck PROVE IInv'
<1> DEFINE v == offer[1]
<1>1. /\ Sending("ack") /\ pinit' = v /\ offer' = <<>>
      /\ ps' = [s \in Sids |-> IF Open(s) THEN [ps[s] EXCEPT !.win = @ + (v - pinit)] ELSE ps[s]]
      /\ UNCHANGED <<conn, kids, st, pwin, pcred, over, spent>>
  BY DEF SendAck
<1>2. /\ conn = "open" /\ (part = <<>> \/ Split) /\ pps \in Seq(PpsRec) /\ pps # <<>>
      /\ Head(pps).t = "ack"
  BY <1>1, SendingGets
<1>3. /\ SettingsOK(offer, init, pinit, part, flight, pps) /\ offer \in Seq(Windows)
      /\ pcred \in Int /\ ps \in [Sids -> PeerRec] /\ ChildrenOK(st) /\ KidsOK(kids, DOMAIN st)
      /\ StreamsOK(st, ps, Line, init, pinit)
  BY <1>2, OpenConn
<1>4. offer # <<>> /\ SettingsOK(<<>>, init, v, part, flight, Tail(pps))
  BY <1>2, <1>3, SettingsAcked
<1>5. v \in Windows /\ v \in Int /\ pinit \in Int
  <2>1. Head(offer) = v /\ Head(offer) \in Windows
    BY <1>3, <1>4, TailPops
  <2> QED BY <2>1, Numbers, InitialWindows
<1> HIDE DEF v
<1>6. ASSUME NEW x \in Sids
      PROVE  /\ ps'[x] \in PeerRec /\ ps'[x].s = ps[x].s /\ ps'[x].body = ps[x].body
             /\ ps[x].s = "open" => ps'[x].win - v = ps[x].win - pinit
  <2>1. ps[x] \in PeerRec
    BY <1>3
  <2>2. CASE Open(x)
    <3> DEFINE w == ps[x].win
               e == w + (v - pinit)
    <3>1. w \in Int
      BY <2>1 DEF PeerRec
    <3>2. e \in Int /\ e - v = w - pinit
      BY <1>5, <3>1
    <3>3. ps'[x] = [ps[x] EXCEPT !.win = e]
      BY <1>1, <2>2
    <3> HIDE DEF e
    <3> QED BY <2>1, <3>2, <3>3 DEF PeerRec
  <2>3. CASE ~Open(x)
    <3>1. ps'[x] = ps[x] /\ ps[x].s # "open"
      BY <1>1, <2>3 DEF Open
    <3> QED BY <2>1, <3>1
  <2> QED BY <2>2, <2>3
<1>7. ps' \in [Sids -> PeerRec]
  <2>1. ps' = [x \in Sids |-> ps'[x]]
    BY <1>1
  <2> QED BY <1>6, <2>1
<1>8. ASSUME NEW x \in Sids PROVE StreamOK(x, st, ps'[x], Line, init, v)
  <2>1. StreamOK(x, st, ps[x], Line, init, pinit)
    BY <1>3 DEF StreamsOK
  <2> QED BY <1>6, <2>1, StreamWindow
<1>9. StreamsOK(st, ps', Line, init, v)
  BY <1>8 DEF StreamsOK
<1>10. <<>> \in Seq(Windows) /\ Len(<<>>) <= 1
  OBVIOUS
<1>11. /\ UNCHANGED <<conn, kids, st, pwin, pcred, over, spent>> /\ Sending("ack")
       /\ pinit' = v /\ offer' = <<>>
  BY <1>1
<1> HIDE <1>1
<1> QED BY <1>3, <1>4, <1>5, <1>7, <1>9, <1>10, <1>11, SendStep

\* A child goes, and to the peer the stream is no longer open.
LEMMA ChildGone ==
  ASSUME IInv, NEW s, CloseChild(s), NEW p \in [Sids -> PeerRec],
         \A x \in Sids \ {s} : p[x] = ps[x],
         s \in Sids => p[s].s \notin {"idle", "open"} /\ p[s].body = ps[s].body
  PROVE  StreamsOK(st', p, Line, init, pinit)
<1>1. ChildrenOK(st) /\ StreamsOK(st, ps, Line, init, pinit) /\ \A x : KeptChild(st, st', x)
  BY ChildCloses DEF IInv
<1>2. ASSUME NEW x \in Sids PROVE StreamOK(x, st', p[x], Line, init, pinit)
  <2>1. StreamOK(x, st, ps[x], Line, init, pinit) /\ p[x] \in PeerRec
    BY <1>1 DEF StreamsOK
  <2>2. StreamOK(x, st, p[x], Line, init, pinit)
    <3>1. CASE x = s
      BY <2>1, <3>1, StreamOver
    <3>2. CASE x # s
      BY <2>1, <3>2
    <3> QED BY <3>1, <3>2
  <2> QED BY <1>1, <2>1, <2>2, StreamKept
<1> QED BY <1>2 DEF StreamsOK

\* A stream of the peer changes its state.
LEMMA PeerChanges ==
  ASSUME ps \in [Sids -> PeerRec], NEW s, NEW w \in {"idle", "open", "cut", "over"}
  PROVE  LET p == [ps EXCEPT ![s].s = w] IN
         /\ p \in [Sids -> PeerRec] /\ \A x \in Sids \ {s} : p[x] = ps[x]
         /\ s \in Sids => p[s].s = w /\ p[s].body = ps[s].body
<1>1. s \in Sids => [ps[s] EXCEPT !.s = w] \in PeerRec
  BY DEF PeerRec
<1>2. s \in Sids => [ps[s] EXCEPT !.s = w].s = w /\ [ps[s] EXCEPT !.s = w].body = ps[s].body
  BY DEF PeerRec
<1> QED BY <1>1, <1>2

\* SendRst keeps the invariant.
LEMMA SendRstOK == ASSUME IInv, SendRst PROVE IInv'
<1> DEFINE s == Head(pps).sid
<1>1. /\ Sending("rst") /\ ps' = [ps EXCEPT ![s].s = "over"] /\ CloseChild(s)
      /\ UNCHANGED <<conn, pwin, pcred, pinit, offer, over, spent>>
  BY DEF SendRst
<1>2. ps \in [Sids -> PeerRec]
  BY <1>1, SendingKeeps
<1> HIDE DEF s
<1>3. /\ ps' \in [Sids -> PeerRec] /\ \A x \in Sids \ {s} : ps'[x] = ps[x]
      /\ s \in Sids => ps'[s].s \notin {"idle", "open"} /\ ps'[s].body = ps[s].body
  BY <1>1, <1>2, PeerChanges
<1>4. StreamsOK(st', ps', Line, init, pinit)
  BY <1>1, <1>3, ChildGone
<1>5. ChildrenOK(st') /\ KidsOK(kids', DOMAIN st')
  BY <1>1, ChildCloses
<1>6. Sending("rst") /\ UNCHANGED <<conn, pwin, pcred, pinit, offer, over, spent>>
  BY <1>1
<1> HIDE <1>1
<1> QED BY <1>3, <1>4, <1>5, <1>6, SendingKeeps, SendStep

\* SendGoaway keeps the invariant: nothing is left.
LEMMA SendGoawayOK == ASSUME IInv, SendGoaway PROVE IInv'
<1>1. /\ turn = "no" /\ conn' = "closed" /\ flight' = <<>> /\ part' = <<>> /\ pps' = <<>>
      /\ kids' = <<>> /\ st' = [s \in {} |-> {}] /\ pollout' = FALSE
      /\ ps' = [s \in Sids |-> [ps[s] EXCEPT !.s = "over"]]
      /\ UNCHANGED <<tx, turn, opened, init, pwin, pcred, pinit, offer, over, spent>>
  BY DEF SendGoaway, Writable
<1>2. ASSUME NEW s \in Sids PROVE ps'[s] \in PeerRec /\ ps'[s].s = "over"
  <2>1. ps[s] \in PeerRec /\ ps'[s] = [ps[s] EXCEPT !.s = "over"]
    BY <1>1 DEF IInv, Typed
  <2> QED BY <2>1 DEF PeerRec
<1>3. ps' \in [Sids -> PeerRec]
  <2>1. ps' = [s \in Sids |-> ps'[s]]
    BY <1>1
  <2> QED BY <1>2, <2>1
<1>4. /\ <<>> \in Seq(Frame) /\ <<>> \in Seq(PpsRec) /\ <<>> \in Seq(Sids) /\ Len(<<>>) = 0
      /\ DOMAIN <<>> = {}
  OBVIOUS
<1>5. Typed'
  <2>1. Len(flight') <= MaxFlight /\ Len(part') <= 1
    BY <1>1, <1>4, Numbers
  <2> QED BY <1>1, <1>3, <1>4, <2>1 DEF IInv, Typed
<1>6. DOMAIN st' = {}
  BY <1>1
<1>7. ChildrenOK(st)' /\ KidsOK(kids, DOMAIN st)'
  BY <1>1, <1>4, <1>6 DEF ChildrenOK, KidsOK, NoDuplicates, Range
<1>8. Line' = <<>>
  BY <1>1, NothingThere DEF Line
<1>9. ASSUME NEW s \in Sids PROVE StreamOK(s, st', ps'[s], <<>>, init', pinit')
  BY <1>2, <1>6, NothingThere DEF StreamOK
<1>10. FramesOK(Line)' /\ StreamsOK(st, ps, Line, init, pinit)'
  BY <1>8, <1>9, NothingThere DEF StreamsOK
<1>11. ConnOK' /\ OverOK' /\ TurnOK' /\ conn' # "open"
  BY <1>1 DEF IInv, ConnOK, TurnOK, PolloutIsAsked, OverOK
<1> QED BY <1>5, <1>7, <1>10, <1>11 DEF IInv

\* A step that leaves everything but the turn and POLLOUT alone.
LEMMA TurnStep ==
  ASSUME IInv, UNCHANGED <<conn, flight, part, pps, kids, st, tx, opened, init, peer>>,
         turn' \in {"no", "first", "again", "end"}, pollout' \in BOOLEAN, TurnOK'
  PROVE  IInv'
<1>1. UNCHANGED <<ps, pwin, pcred, pinit, offer, over, spent>> /\ Line' = Line
  BY DEF peer, Line
<1>2. Typed'
  BY <1>1 DEF IInv, Typed
<1>3. ConnOK' /\ OverOK' /\ FramesOK(Line)' /\ ChildrenOK(st)' /\ KidsOK(kids, DOMAIN st)'
  BY <1>1 DEF IInv, ConnOK, OverOK
<1>4. StreamsOK(st, ps, Line, init, pinit)'
  BY <1>1 DEF IInv
<1>5. conn' = "open" => SettingsOK(offer, init, pinit, part, flight, pps)'
  BY <1>1 DEF IInv
<1> QED BY <1>2, <1>3, <1>4, <1>5 DEF IInv

\* rops_perform_user_POLLOUT_h2() keeps the invariant: without children
\* nobody has asked.
LEMMA PerformOK == ASSUME IInv, rops_perform_user_POLLOUT_h2 PROVE IInv'
<1>1. /\ conn = "open" /\ (part = <<>> \/ Split) /\ pps = <<>> /\ pollout' = FALSE
      /\ turn' = IF kids = <<>> THEN "no" ELSE "first"
      /\ UNCHANGED <<conn, flight, part, pps, kids, st, tx, opened, init, peer>>
  BY DEF rops_perform_user_POLLOUT_h2, Writable
<1>2. kids = <<>> => DOMAIN st = {}
  <2>1. KidsOK(kids, DOMAIN st)
    BY DEF IInv
  <2>2. \A x \in DOMAIN st : \E i \in 1 .. Len(kids) : kids[i] = x
    BY <2>1, KidsFacts
  <2>3. kids = <<>> => 1 .. Len(kids) = {}
    OBVIOUS
  <2> QED BY <2>2, <2>3
<1>3. TurnOK'
  BY <1>1, <1>2 DEF TurnOK, PolloutIsAsked, Children
<1> QED BY <1>1, <1>3, TurnStep

\* EndOfTurn keeps the invariant: whoever still asks gets POLLOUT again.
LEMMA EndOfTurnOK == ASSUME IInv, EndOfTurn PROVE IInv'
<1>1. /\ turn # "no" /\ turn' = "no" /\ pollout' = \E s \in DOMAIN st : st[s].req
      /\ UNCHANGED <<conn, flight, part, pps, kids, st, tx, opened, init, peer>>
  BY DEF EndOfTurn, lws_wsi_mux_action_pending_writeable_reqs, Children
<1>2. pps' = <<>>
  BY <1>1 DEF IInv, TurnOK
<1>3. TurnOK'
  BY <1>1, <1>2 DEF TurnOK, PolloutIsAsked, Children
<1>4. pollout' \in BOOLEAN
  BY <1>1
<1> QED BY <1>1, <1>3, <1>4, TurnStep

\* StreamIsCut() keeps the invariant.
LEMMA StreamIsCutOK == ASSUME IInv, NEW s \in Sids, StreamIsCut(s) PROVE IInv'
<1> DEFINE w == IF ps[s].s = "open" THEN "cut" ELSE ps[s].s
<1>1. /\ conn = "open" /\ turn = "no" /\ s \in DOMAIN st /\ Rarely /\ CloseChild(s)
      /\ ps' = [ps EXCEPT ![s].s = w]
      /\ UNCHANGED <<conn, flight, part, pps, tx, pollout, turn, opened, init>>
      /\ UNCHANGED <<pwin, pcred, pinit, offer, over>>
  BY DEF StreamIsCut, Children
<1>2. ps[s] \in PeerRec /\ ps[s].s # "idle" /\ ps \in [Sids -> PeerRec]
  BY <1>1, ChildFacts DEF ChildOK, IInv, Typed
<1>3. w \in {"cut", "over"}
  BY <1>2 DEF PeerRec
<1> HIDE DEF w
<1>4. /\ ps' \in [Sids -> PeerRec] /\ \A x \in Sids \ {s} : ps'[x] = ps[x]
      /\ ps'[s].s = w /\ ps'[s].body = ps[s].body
  <2>1. CASE w = "cut"
    <3>1. ps' = [ps EXCEPT ![s].s = "cut"]
      BY <1>1, <2>1
    <3> QED BY <1>2, <2>1, <3>1, PeerChanges
  <2>2. CASE w = "over"
    <3>1. ps' = [ps EXCEPT ![s].s = "over"]
      BY <1>1, <2>2
    <3> QED BY <1>2, <2>2, <3>1, PeerChanges
  <2> QED BY <1>3, <2>1, <2>2
<1>5. StreamsOK(st', ps', Line, init, pinit)
  BY <1>1, <1>3, <1>4, ChildGone
<1>6. /\ ChildrenOK(st') /\ KidsOK(kids', DOMAIN st')
      /\ DOMAIN st' \subseteq DOMAIN st /\ \A x \in DOMAIN st' : st'[x] = st[x]
  BY <1>1, ChildCloses
<1>7. spent' \in 0 .. MaxRare
  BY <1>1, RarelyCounts
<1>8. /\ UNCHANGED <<conn, flight, part, pps, tx, pollout, turn, opened, init>>
      /\ UNCHANGED <<pwin, pcred, pinit, offer, over>> /\ Line' = Line
  BY <1>1 DEF Line
<1>9. conn = "open" /\ turn = "no"
  BY <1>1
<1> HIDE <1>1
<1>10. Typed'
  BY <1>4, <1>7, <1>8 DEF IInv, Typed
<1>11. ConnOK' /\ OverOK' /\ FramesOK(Line)'
  BY <1>8 DEF IInv, ConnOK, OverOK
<1>12. TurnOK'
  <2>1. (pps # <<>> => pollout) /\ \A x \in DOMAIN st : st[x].req => pollout
    BY <1>9, AskedBefore
  <2>2. \A x \in DOMAIN st' : st'[x].req => pollout
    BY <1>6, <2>1
  <2> QED BY <1>8, <1>9, <2>1, <2>2 DEF TurnOK, PolloutIsAsked, Children
<1>13. StreamsOK(st, ps, Line, init, pinit)'
  BY <1>5, <1>8
<1>14. SettingsOK(offer, init, pinit, part, flight, pps)'
  BY <1>8, <1>9 DEF IInv
<1> QED BY <1>6, <1>10, <1>11, <1>12, <1>13, <1>14 DEF IInv

-----------------------------------------------------------------------------
(* The turn of the children *)

\* While a child is served nothing else is going on, and both ends go by the
\* same initial window if frames are read whole.
LEMMA ServingGets ==
  ASSUME IInv, NEW s, Serving(s)
  PROVE  /\ conn = "open" /\ pps = <<>> /\ (part = <<>> \/ Split) /\ Line' = Line
         /\ ~Split => init = pinit
         /\ UNCHANGED <<conn, flight, part, pps, pollout, opened, init>>
<1>1. turn # "no" /\ UNCHANGED <<conn, flight, part, pps, pollout, opened, init>>
  BY DEF Serving
<1>2. conn = "open" /\ pps = <<>> /\ (part = <<>> \/ Split)
  BY <1>1 DEF IInv, TurnOK
<1>3. SettingsOK(offer, init, pinit, part, flight, <<>>)
  BY <1>2, OpenConn
<1>4. ~Split => init = pinit
  BY <1>3, SettingsAgreed
<1> QED BY <1>1, <1>2, <1>4 DEF Line

\* Serving a child keeps the invariant if it keeps its parts.
LEMMA ServeStep ==
  ASSUME IInv, NEW s, Serving(s), turn' \in {"again", "end"},
         ChildrenOK(st'), KidsOK(kids', DOMAIN st'), ps' \in [Sids -> PeerRec],
         StreamsOK(st', ps', Line, init, pinit),
         tx' \in Int, tx' >= 0, pwin' \in Int, pwin' = tx' + Count(Line, "update", 0),
         pwin' <= MaxWindow, OverOK', UNCHANGED <<pcred, pinit, offer, spent>>
  PROVE  IInv'
<1>1. /\ conn = "open" /\ pps = <<>> /\ (part = <<>> \/ Split) /\ Line' = Line
      /\ UNCHANGED <<conn, flight, part, pps, pollout, opened, init>>
  BY ServingGets
<1>2. Typed'
  BY <1>1 DEF IInv, Typed
<1>3. ConnOK' /\ OverOK' /\ FramesOK(Line)'
  BY <1>1 DEF IInv, ConnOK, OverOK
<1>4. TurnOK'
  BY <1>1 DEF TurnOK, PolloutIsAsked
<1>5. StreamsOK(st, ps, Line, init, pinit)'
  BY <1>1
<1>6. SettingsOK(offer, init, pinit, part, flight, pps)'
  BY <1>1 DEF IInv
<1>7. ChildrenOK(st)' /\ KidsOK(kids, DOMAIN st)'
  OBVIOUS
<1> QED BY <1>2, <1>3, <1>4, <1>5, <1>6, <1>7 DEF IInv

\* What Served() does.
LEMMA ServedGets ==
  ASSUME IInv, NEW s \in DOMAIN st, NEW d \in ChildRec, NEW next, Served(s, d, next)
  PROVE  /\ DOMAIN st' = DOMAIN st /\ st'[s] = d /\ \A x \in DOMAIN st \ {s} : st'[x] = st[x]
         /\ ChildrenOK(st') /\ KidsOK(kids', DOMAIN st') /\ turn' = next
<1>1. /\ st' = [st EXCEPT ![s] = d] /\ turn' = next
      /\ kids' = Append(lws_wsi_mux_sibling_disconnect(kids, s), s)
  BY DEF Served, lws_wsi_mux_move_child_to_tail
<1>2. DOMAIN st' = DOMAIN st /\ st'[s] = d /\ \A x \in DOMAIN st \ {s} : st'[x] = st[x]
  BY <1>1
<1>3. ChildrenOK(st')
  BY <1>2 DEF IInv, ChildrenOK
<1>4. KidsOK(kids', DOMAIN st)
  BY <1>1, KidMoved DEF IInv
<1> QED BY <1>1, <1>2, <1>3, <1>4

\* The streams after one was served, p being what the peer has of it now.
LEMMA ServedStreams ==
  ASSUME IInv, NEW s \in DOMAIN st, NEW b, DOMAIN b = DOMAIN st,
         \A x \in DOMAIN st \ {s} : b[x] = st[x],
         NEW p, \A x \in Sids \ {s} : p[x] = ps[x],
         ChildOK(s, b[s], p[s], Line, init, pinit)
  PROVE  StreamsOK(b, p, Line, init, pinit)
<1>1. ChildrenOK(st) /\ StreamsOK(st, ps, Line, init, pinit) /\ ps \in [Sids -> PeerRec]
  BY DEF IInv, Typed
<1>2. ASSUME NEW x \in Sids PROVE StreamOK(x, b, p[x], Line, init, pinit)
  <2>1. CASE x = s
    BY <2>1, ChildIsStream
  <2>2. CASE x # s
    <3>1. StreamOK(x, st, ps[x], Line, init, pinit) /\ p[x] = ps[x] /\ ps[x] \in PeerRec
      BY <1>1, <2>2 DEF StreamsOK
    <3>2. KeptChild(st, b, x)
      BY <2>2 DEF KeptChild
    <3> QED BY <1>1, <3>1, <3>2, StreamKept
  <2> QED BY <2>1, <2>2
<1> QED BY <1>2 DEF StreamsOK

\* A child is served without anything sent.
LEMMA ServedKeeps ==
  ASSUME IInv, NEW s \in DOMAIN st, Serving(s), NEW d \in ChildRec,
         NEW next \in {"again", "end"}, Served(s, d, next), UNCHANGED <<tx, peer>>,
         ChildOK(s, d, ps[s], Line, init, pinit)
  PROVE  IInv'
<1>1. /\ DOMAIN st' = DOMAIN st /\ st'[s] = d /\ \A x \in DOMAIN st \ {s} : st'[x] = st[x]
      /\ ChildrenOK(st') /\ KidsOK(kids', DOMAIN st') /\ turn' = next
  BY ServedGets
<1>2. UNCHANGED <<tx, ps, pwin, pcred, pinit, offer, over, spent>>
  BY DEF peer
<1>3. StreamsOK(st', ps, Line, init, pinit)
  BY <1>1, ServedStreams
<1>4. /\ tx \in Int /\ tx >= 0 /\ pwin \in Int /\ pwin = tx + Count(Line, "update", 0)
      /\ pwin <= MaxWindow /\ ps \in [Sids -> PeerRec]
  BY ServingGets, OpenConn
<1>5. OverOK'
  BY <1>2 DEF IInv, OverOK
<1> QED BY <1>1, <1>2, <1>3, <1>4, <1>5, ServeStep

\* The child asks, or does not: only a file with credit has to.
LEMMA RequestChanges ==
  ASSUME IInv, NEW s \in DOMAIN st, NEW r \in BOOLEAN,
         st[s].lrs = "file" /\ st[s].tx > 0 => r
  PROVE  LET d == [st[s] EXCEPT !.req = r] IN
         d \in ChildRec /\ ChildOK(s, d, ps[s], Line, init, pinit)
<1> DEFINE c == st[s]
           d == [c EXCEPT !.req = r]
<1>1. c \in ChildRec /\ ChildOK(s, c, ps[s], Line, init, pinit)
  BY ChildFacts
<1>2. c.lrs = "file" /\ c.tx > 0 => r
  OBVIOUS
<1>3. /\ d \in ChildRec /\ d.k = c.k /\ d.h2 = c.h2 /\ d.lrs = c.lrs /\ d.tx = c.tx
      /\ d.left = c.left /\ d.buf = c.buf /\ d.req = r
  BY <1>1 DEF ChildRec
<1> HIDE DEF d
<1>4. ChildOK(s, d, ps[s], Line, init, pinit)
  BY <1>1, <1>2, <1>3 DEF ChildOK
<1> QED BY <1>3, <1>4 DEF d

\* ServeSkint() keeps the invariant.
LEMMA ServeSkintOK == ASSUME IInv, NEW s \in DOMAIN st, ServeSkint(s) PROVE IInv'
<1> DEFINE d == [st[s] EXCEPT !.req = FALSE]
<1>1. Serving(s) /\ st[s].tx <= 0 /\ Served(s, d, "again") /\ UNCHANGED <<tx, peer>>
  BY DEF ServeSkint
<1>2. ~(st[s].tx > 0)
  BY <1>1, ChildFacts DEF ChildRec
<1>3. d \in ChildRec /\ ChildOK(s, d, ps[s], Line, init, pinit)
  BY <1>2, RequestChanges
<1> HIDE DEF d
<1> QED BY <1>1, <1>3, ServedKeeps

\* ServeNoCredit() keeps the invariant.
LEMMA ServeNoCreditOK == ASSUME IInv, NEW s \in DOMAIN st, ServeNoCredit(s) PROVE IInv'
<1> DEFINE d == [st[s] EXCEPT !.req = TRUE]
<1>1. Serving(s) /\ Served(s, d, "end") /\ UNCHANGED <<tx, peer>>
  BY DEF ServeNoCredit
<1>2. d \in ChildRec /\ ChildOK(s, d, ps[s], Line, init, pinit)
  BY RequestChanges
<1> HIDE DEF d
<1> QED BY <1>1, <1>2, ServedKeeps

\* ServeEarly() keeps the invariant.
LEMMA ServeEarlyOK == ASSUME IInv, NEW s \in DOMAIN st, ServeEarly(s) PROVE IInv'
<1> DEFINE d == [st[s] EXCEPT !.req = FALSE]
<1>1. Serving(s) /\ st[s].lrs = "body" /\ Served(s, d, "end") /\ UNCHANGED <<tx, peer>>
  BY DEF ServeEarly
<1>2. d \in ChildRec /\ ChildOK(s, d, ps[s], Line, init, pinit)
  BY <1>1, RequestChanges
<1> HIDE DEF d
<1> QED BY <1>1, <1>2, ServedKeeps

\* ServeAction() keeps the invariant: the body that waited is not more than
\* the child waits for.
LEMMA ServeActionOK == ASSUME IInv, NEW s \in DOMAIN st, ServeAction(s) PROVE IInv'
<1> DEFINE c == st[s]
           done == c.k = "post" /\ c.left = c.buf
           w == IF c.k = "get" THEN "file" ELSE IF done THEN "est" ELSE "body"
           r == c.k = "get" \/ done
           L == c.left - c.buf
           d == [c EXCEPT !.lrs = w, !.left = L, !.buf = 0, !.req = r]
<1>1. Serving(s) /\ Served(s, d, "end") /\ UNCHANGED <<tx, peer>>
  BY DEF ServeAction
<1>2. c \in ChildRec /\ ps[s] \in PeerRec /\ ChildOK(s, c, ps[s], Line, init, pinit)
  BY ChildFacts
<1> DEFINE n == Count(Line, "data", s)
           b == ps[s].body
<1>3. /\ c.left \in Nat /\ c.buf \in Nat /\ b \in Nat /\ n \in Nat
      /\ c.buf + n + b <= c.left
  <2>1. Line \in Seq(Frame)
    <3>1. part \in Seq(Frame) /\ flight \in Seq(Frame)
      BY DEF IInv, Typed
    <3> QED BY <3>1, ConcatProperties DEF Line
  <2>2. n \in Nat
    BY <2>1, CountIsNat
  <2> QED BY <1>2, <2>2 DEF ChildRec, PeerRec, ChildOK
<1>4. L \in Nat /\ 0 + n + b <= L
  <2> DEFINE l == c.left
             u == c.buf
  <2> HIDE DEF n, b, l, u
  <2>1. l \in Nat /\ u \in Nat /\ b \in Nat /\ n \in Nat /\ u + n + b <= l
    BY <1>3 DEF l, u
  <2>2. l - u \in Nat /\ 0 + n + b <= l - u
    BY <2>1
  <2> QED BY <2>2 DEF l, u
<1>5. w \in {"file", "est", "body"} /\ (w = "file" => c.k = "get" /\ r) /\ r \in BOOLEAN
  OBVIOUS
<1> HIDE DEF w, r, L
<1>6. /\ d \in ChildRec /\ d.k = c.k /\ d.h2 = c.h2 /\ d.lrs = w /\ d.tx = c.tx
      /\ d.left = L /\ d.buf = 0 /\ d.req = r
  BY <1>2, <1>4, <1>5 DEF ChildRec
<1> HIDE DEF d
<1>7. ChildOK(s, d, ps[s], Line, init, pinit)
  BY <1>2, <1>4, <1>5, <1>6 DEF ChildOK
<1> QED BY <1>1, <1>6, <1>7, ServedKeeps

\* ServeAnswer() keeps the invariant.
LEMMA ServeAnswerOK == ASSUME IInv, NEW s \in DOMAIN st, ServeAnswer(s) PROVE IInv'
<1>1. /\ Serving(s) /\ CloseChild(s) /\ turn' = "again" /\ ps' = [ps EXCEPT ![s].s = "over"]
      /\ UNCHANGED <<tx, pwin, pcred, pinit, offer, over, spent>>
  BY DEF ServeAnswer
<1>2. /\ tx \in Int /\ tx >= 0 /\ pwin \in Int /\ pwin = tx + Count(Line, "update", 0)
      /\ pwin <= MaxWindow /\ ps \in [Sids -> PeerRec]
  BY <1>1, ServingGets, OpenConn
<1>3. /\ ps' \in [Sids -> PeerRec] /\ \A x \in Sids \ {s} : ps'[x] = ps[x]
      /\ s \in Sids => ps'[s].s \notin {"idle", "open"} /\ ps'[s].body = ps[s].body
  BY <1>1, <1>2, PeerChanges
<1>4. StreamsOK(st', ps', Line, init, pinit)
  BY <1>1, <1>3, ChildGone
<1>5. ChildrenOK(st') /\ KidsOK(kids', DOMAIN st')
  BY <1>1, ChildCloses
<1>6. OverOK'
  BY <1>1 DEF IInv, OverOK
<1>7. Serving(s) /\ turn' = "again" /\ UNCHANGED <<tx, pwin, pcred, pinit, offer, over, spent>>
  BY <1>1
<1> HIDE <1>1
<1> QED BY <1>2, <1>3, <1>4, <1>5, <1>6, <1>7, ServeStep

\* The smaller of two numbers.
LEMMA MinOfTwo ==
  ASSUME NEW a \in Int, NEW b \in Int
  PROVE  Min({a, b}) \in {a, b} /\ Min({a, b}) <= a /\ Min({a, b}) <= b
<1>1. \E x \in {a, b} : \A y \in {a, b} : x <= y
  <2>1. CASE a <= b
    BY <2>1
  <2>2. CASE b <= a
    BY <2>2
  <2> QED BY <2>1, <2>2
<1> QED BY <1>1 DEF Min

\* The larger of two numbers is one of them.
LEMMA MaxOfTwo ==
  ASSUME NEW a \in Int, NEW b \in Int
  PROVE  Max({a, b}) \in {a, b}
<1>1. \E x \in {a, b} : \A y \in {a, b} : x >= y
  <2>1. CASE a <= b
    BY <2>1
  <2>2. CASE b <= a
    BY <2>2
  <2> QED BY <2>1, <2>2
<1> QED BY <1>1 DEF Max

\* What is sent is no more than the file has left, or than either window.
LEMMA AmountFits ==
  ASSUME IInv, NEW s \in DOMAIN st, conn = "open", NEW n \in Amounts(s)
  PROVE  n \in Nat /\ n >= 1 /\ n <= st[s].left /\ n <= st[s].tx /\ n <= tx
<1> DEFINE c == st[s].tx
           l == st[s].left
           m == Min({c, tx})
           g == Max({0, m})
           k == Min({l, g})
<1>1. c \in Int /\ l \in Nat /\ tx \in Int
  BY ChildFacts, OpenConn DEF ChildRec
<1>2. n \in 1 .. k
  BY DEF Amounts, lws_h2_tx_cr_get
<1> HIDE DEF c, l
<1>3. m \in Int /\ m <= c /\ m <= tx
  BY <1>1, MinOfTwo
<1> HIDE DEF m
<1>4. g \in {0, m}
  BY <1>3, MaxOfTwo
<1>5. g \in Int
  BY <1>3, <1>4
<1> HIDE DEF g
<1>6. k \in Int /\ k <= l /\ k <= g
  <2>1. l \in Int
    BY <1>1
  <2>2. k \in {l, g} /\ k <= l /\ k <= g
    BY <1>5, <2>1, MinOfTwo
  <2> HIDE DEF k
  <2> QED BY <1>5, <2>1, <2>2
<1> HIDE DEF k
<1>7. n \in Int /\ n >= 1 /\ n <= l /\ n <= g
  BY <1>1, <1>2, <1>5, <1>6
<1>8. n \in Nat /\ n <= c /\ n <= tx
  BY <1>1, <1>3, <1>4, <1>7
<1> QED BY <1>7, <1>8 DEF c, l

\* What is sent is within the windows of the peer, which may have more.
LEMMA WindowsFit ==
  ASSUME ~Split, IInv, NEW s \in DOMAIN st, Serving(s), NEW n \in Amounts(s)
  PROVE  ~(pwin < n) /\ (ps[s].s = "open" => ~(ps[s].win < n))
<1>1. conn = "open" /\ init = pinit /\ init \in Int
  BY ServingGets, InitialWindows
<1>2. n \in Nat /\ n <= st[s].tx /\ n <= tx
  BY <1>1, AmountFits
<1> DEFINE u == Count(Line, "update", 0)
           v == Count(Line, "update", s)
           c == st[s].tx
           w == ps[s].win
<1>3. Line \in Seq(Frame)
  <2>1. part \in Seq(Frame) /\ flight \in Seq(Frame)
    BY DEF IInv, Typed
  <2> QED BY <2>1, ConcatProperties DEF Line
<1>4. u \in Nat /\ v \in Nat
  BY <1>3, CountIsNat
<1>5. pwin = tx + u /\ tx \in Int /\ pwin \in Int
  BY <1>1, OpenConn
<1>6. c \in Int /\ w \in Int /\ (ps[s].s = "open" => c - init + v <= w - init)
  BY <1>1, ChildFacts DEF ChildOK, ChildRec, PeerRec
<1>7. n <= c
  BY <1>2
<1> HIDE DEF u, v, c, w
<1>8. ~(pwin < n)
  BY <1>2, <1>4, <1>5
<1>9. ASSUME ps[s].s = "open" PROVE ~(w < n)
  <2>1. c - init + v <= w - init
    BY <1>6, <1>9
  <2> QED BY <1>1, <1>2, <1>4, <1>6, <1>7, <2>1
<1> QED BY <1>8, <1>9 DEF w

\* The windows after something was sent.
LEMMA DataSent ==
  ASSUME IInv, NEW s \in DOMAIN st, Serving(s), NEW n \in Amounts(s), SendData(s, n)
  PROVE  /\ tx' \in Int /\ tx' >= 0 /\ pwin' \in Int /\ pwin' = tx' + Count(Line, "update", 0)
         /\ pwin' <= MaxWindow /\ OverOK' /\ UNCHANGED <<pcred, pinit, offer, spent>>
         /\ ps' \in [Sids -> PeerRec] /\ \A x \in Sids \ {s} : ps'[x] = ps[x]
         /\ ps'[s].body = ps[s].body /\ ps'[s].win = ps[s].win - n
         /\ ps'[s].s # "idle" /\ (st[s].left = n => ps'[s].s # "open")
         /\ ps'[s].s = "open" => ps[s].s = "open"
<1> DEFINE w == ps[s].win - n
           e == IF st[s].left = n /\ ps[s].s = "open" THEN "over" ELSE ps[s].s
<1>1. /\ tx' = tx - n /\ pwin' = pwin - n
      /\ over' = (over \/ pwin < n \/ (ps[s].s = "open" /\ ps[s].win < n))
      /\ ps' = [ps EXCEPT ![s].win = w, ![s].s = e]
      /\ UNCHANGED <<pcred, pinit, offer, spent>>
  BY DEF SendData
<1>2. conn = "open"
  BY ServingGets
<1>3. n \in Nat /\ n >= 1 /\ n <= tx
  BY <1>2, AmountFits
<1> DEFINE u == Count(Line, "update", 0)
<1>4. /\ tx \in Int /\ pwin \in Int /\ pwin = tx + u /\ pwin <= MaxWindow /\ MaxWindow \in Nat
      /\ ps \in [Sids -> PeerRec]
  BY <1>2, OpenConn, Numbers
<1>5. u \in Nat
  <2>1. part \in Seq(Frame) /\ flight \in Seq(Frame)
    BY DEF IInv, Typed
  <2>2. Line \in Seq(Frame)
    BY <2>1, ConcatProperties DEF Line
  <2> QED BY <2>2, CountIsNat
<1>6. tx' \in Int /\ tx' >= 0 /\ pwin' \in Int /\ pwin' = tx' + u /\ pwin' <= MaxWindow
  <2>1. tx' = tx - n
    BY <1>1
  <2>2. pwin' = pwin - n
    BY <1>1
  <2> HIDE DEF u
  <2> HIDE <1>1
  <2> QED BY <1>3, <1>4, <1>5, <2>1, <2>2
<1>7. OverOK'
  <2>1. OverOK
    BY DEF IInv
  <2>2. over' = (over \/ pwin < n \/ (ps[s].s = "open" /\ ps[s].win < n))
    BY <1>1
  <2> QED BY <2>1, <2>2, WindowsFit DEF OverOK
<1>8. s \in Sids /\ ps[s] \in PeerRec /\ ps[s].s # "idle"
  BY ChildFacts DEF ChildOK
<1>9. /\ w \in Int /\ e \in {"open", "cut", "over"}
      /\ (st[s].left = n => e # "open") /\ (e = "open" => ps[s].s = "open")
  BY <1>3, <1>8 DEF PeerRec
<1> HIDE DEF e, w
<1>10. ps'[s] = [ps[s] EXCEPT !.win = w, !.s = e] /\ \A x \in Sids \ {s} : ps'[x] = ps[x]
  BY <1>1, <1>4, <1>8
<1>11. /\ ps'[s] \in PeerRec /\ ps'[s].body = ps[s].body /\ ps'[s].win = w /\ ps'[s].s = e
  BY <1>8, <1>9, <1>10 DEF PeerRec
<1>12. ps' \in [Sids -> PeerRec]
  <2>1. ps' = [x \in Sids |-> ps'[x]]
    BY <1>1, <1>4
  <2>2. \A x \in Sids : ps'[x] \in PeerRec
    BY <1>4, <1>10, <1>11
  <2> QED BY <2>1, <2>2
<1>13. UNCHANGED <<pcred, pinit, offer, spent>>
  BY <1>1
<1> HIDE <1>1
<1> QED BY <1>6, <1>7, <1>9, <1>10, <1>11, <1>12, <1>13 DEF w

\* lws_serve_http_file_fragment() keeps the invariant.
LEMMA FragmentOK ==
  ASSUME IInv, NEW s \in DOMAIN st, lws_serve_http_file_fragment(s) PROVE IInv'
<1> DEFINE c == st[s]
<1>1. Serving(s) /\ c.lrs = "file"
  BY DEF lws_serve_http_file_fragment
<1>2. PICK n \in Amounts(s) :
        /\ SendData(s, n)
        /\ c.left = n => CloseChild(s) /\ turn' = "again"
        /\ c.left # n => Served(s, [c EXCEPT !.tx = @ - n, !.left = @ - n, !.req = TRUE], "end")
  BY DEF lws_serve_http_file_fragment
<1>3. /\ tx' \in Int /\ tx' >= 0 /\ pwin' \in Int /\ pwin' = tx' + Count(Line, "update", 0)
      /\ pwin' <= MaxWindow /\ OverOK' /\ UNCHANGED <<pcred, pinit, offer, spent>>
      /\ ps' \in [Sids -> PeerRec] /\ \A x \in Sids \ {s} : ps'[x] = ps[x]
      /\ ps'[s].body = ps[s].body /\ ps'[s].win = ps[s].win - n
      /\ ps'[s].s # "idle" /\ (c.left = n => ps'[s].s # "open")
      /\ ps'[s].s = "open" => ps[s].s = "open"
  BY <1>1, <1>2, DataSent
<1>4. CASE c.left = n
  <2>1. CloseChild(s) /\ turn' = "again"
    BY <1>2, <1>4
  <2>2. StreamsOK(st', ps', Line, init, pinit)
    BY <1>3, <1>4, <2>1, ChildGone
  <2>3. ChildrenOK(st') /\ KidsOK(kids', DOMAIN st')
    BY <2>1, ChildCloses
  <2> QED BY <1>1, <1>3, <2>1, <2>2, <2>3, ServeStep
<1>5. CASE c.left # n
  <2> DEFINE T == c.tx - n
             L == c.left - n
             d == [c EXCEPT !.tx = T, !.left = L, !.req = TRUE]
             u == Count(Line, "update", s)
             v == Count(Line, "data", s)
             p == ps[s]
             o == ps'[s]
  <2>1. Served(s, d, "end")
    BY <1>2, <1>5
  <2>2. /\ c \in ChildRec /\ p \in PeerRec /\ o \in PeerRec
        /\ ChildOK(s, c, p, Line, init, pinit)
    BY <1>3, ChildFacts
  <2>3. conn = "open" /\ n \in Nat /\ n <= c.left /\ init \in Int /\ pinit \in Int
    BY <1>1, ServingGets, AmountFits, InitialWindows
  <2>4. c.left \in Nat /\ c.tx \in Int /\ p.win \in Int /\ p.body \in Nat
    BY <2>2 DEF ChildRec, PeerRec
  <2>5. T \in Int /\ L \in Nat
    BY <2>3, <2>4
  <2>6. u \in Nat /\ v \in Nat
    <3>1. part \in Seq(Frame) /\ flight \in Seq(Frame)
      BY DEF IInv, Typed
    <3>2. Line \in Seq(Frame)
      BY <3>1, ConcatProperties DEF Line
    <3> QED BY <3>2, CountIsNat
  <2>7. /\ p.s = "open" => c.tx - init + u <= p.win - pinit
        /\ p.s = "open" /\ c.h2 # "closed" => c.tx - init + u = p.win - pinit
        /\ c.buf = 0 /\ c.k = "get" /\ v + p.body = 0 /\ Matching(Line, "headers", s) = {}
    BY <1>1, <2>2 DEF ChildOK
  <2>8. /\ p.s = "open" => T - init + u <= (p.win - n) - pinit
        /\ p.s = "open" /\ c.h2 # "closed" => T - init + u = (p.win - n) - pinit
    <3> DEFINE t == c.tx
               w == p.win
    <3>1. t \in Int /\ w \in Int /\ T = t - n
      BY <2>4
    <3> HIDE DEF t, T, w, u, p
    <3>2. t - init + u <= w - pinit => T - init + u <= (w - n) - pinit
      BY <2>3, <2>6, <3>1
    <3>3. t - init + u = w - pinit => T - init + u = (w - n) - pinit
      BY <2>3, <2>6, <3>1
    <3> QED BY <2>7, <3>2, <3>3 DEF t, w
  <2>9. /\ o.body = p.body /\ o.win = p.win - n /\ o.s # "idle" /\ (o.s = "open" => p.s = "open")
    BY <1>3
  <2> HIDE DEF T, L
  <2>10. /\ d \in ChildRec /\ d.k = "get" /\ d.h2 = c.h2 /\ d.lrs = "file" /\ d.tx = T
         /\ d.left = L /\ d.buf = 0 /\ d.req = TRUE
    BY <1>1, <2>2, <2>5, <2>7 DEF ChildRec
  <2> HIDE DEF d, o, p, u, v
  <2>11. 0 + v + o.body <= L /\ v + o.body = 0
    <3>1. v + o.body = 0 /\ 0 + v + o.body = v + o.body
      BY <2>4, <2>6, <2>7, <2>9
    <3>2. 0 <= L
      BY <2>5
    <3> QED BY <3>1, <3>2
  <2>12. ChildOK(s, d, o, Line, init, pinit)
    BY <2>7, <2>8, <2>9, <2>10, <2>11 DEF ChildOK, u, v
  <2>13. /\ DOMAIN st' = DOMAIN st /\ st'[s] = d /\ \A x \in DOMAIN st \ {s} : st'[x] = st[x]
         /\ ChildrenOK(st') /\ KidsOK(kids', DOMAIN st') /\ turn' = "end"
    BY <2>1, <2>10, ServedGets
  <2>14. ChildOK(s, st'[s], ps'[s], Line, init, pinit)
    BY <2>12, <2>13 DEF o
  <2>15. StreamsOK(st', ps', Line, init, pinit)
    BY <1>3, <2>13, <2>14, ServedStreams
  <2> QED BY <1>1, <1>3, <2>13, <2>15, ServeStep
<1> QED BY <1>4, <1>5

-----------------------------------------------------------------------------
(* The theorems *)

\* Every step keeps the invariant.
LEMMA NextOK == IInv /\ [Next]_vars => IInv'
<1> SUFFICES ASSUME IInv, [Next]_vars PROVE IInv'
  OBVIOUS
<1>1. CASE PeerActs
  BY <1>1, PeerResetsOK, PeerOpensOK, PeerCreditsAllOK, PeerCreditsOK, PeerUploadsOK,
     PeerPingsOK, PeerSettingsOK DEF PeerActs, PeerHelps
<1>2. CASE Parse
  BY <1>2, ParseOK
<1>3. CASE Pollout
  <2>1. CASE Serve
    BY <2>1, ServeActionOK, ServeSkintOK, ServeNoCreditOK, FragmentOK, ServeEarlyOK,
       ServeAnswerOK DEF Serve, Children
  <2> QED BY <1>3, <2>1, SendAckOK, SendPongOK, SendUpdateOK, SendRstOK, SendGoawayOK,
             PerformOK, EndOfTurnOK DEF Pollout
<1>4. CASE \E s \in Sids : StreamIsCut(s)
  BY <1>4, StreamIsCutOK
<1>5. CASE UNCHANGED vars
  <2>1. /\ UNCHANGED <<conn, flight, part, pps, kids, st, tx, opened, init, peer>>
        /\ turn' = turn /\ pollout' = pollout
    BY <1>5 DEF vars, server
  <2>2. turn' \in {"no", "first", "again", "end"} /\ pollout' \in BOOLEAN
    BY <2>1 DEF IInv, Typed
  <2>3. TurnOK'
    BY <2>1 DEF IInv, TurnOK, PolloutIsAsked, Children
  <2> QED BY <2>1, <2>2, <2>3, TurnStep
<1> QED BY <1>1, <1>2, <1>3, <1>4, <1>5 DEF Next

\* The invariant holds, however frames are read.
LEMMA IInvHolds == Spec => []IInv
<1>1. Init => IInv
  BY InitOK
<1>2. IInv /\ [Next]_vars => IInv'
  BY NextOK
<1> QED BY <1>1, <1>2, PTL DEF Spec

\* The invariant has the types.
LEMMA IInvTypes == IInv => TypeOK
<1> SUFFICES ASSUME IInv PROVE TypeOK
  OBVIOUS
<1>1. Typed /\ ChildrenOK(st) /\ KidsOK(kids, DOMAIN st) /\ OverOK
  BY DEF IInv
<1>2. kids \in Seq(Sids) /\ Range(kids) = DOMAIN st /\ Len(kids) = Cardinality(DOMAIN st)
  BY <1>1, KidsCardinality DEF KidsOK
<1> QED BY <1>1, <1>2 DEF Typed, ChildrenOK, OverOK, TypeOK, Children

\* The account of the windows is exact: while SETTINGS that raise or lower the
\* windows, credit for a stream or for all of them, and data cross each other,
\* what lws has in txc.tx_cr and what is in flight is what the peer accepts,
\* relative to the initial window either end goes by, for any number of
\* streams, any windows, and frames that come in any parts.
THEOREM CreditIsExactHolds == Spec => []CreditIsExact
<1>1. IInv => CreditIsExact
  <2> SUFFICES ASSUME IInv PROVE CreditIsExact
    OBVIOUS
  <2>1. ASSUME conn = "open" PROVE pwin = tx + InFlight(0)
    BY <2>1, OpenConn DEF InFlight, Count, Line
  <2>2. ASSUME conn = "open", NEW s \in DOMAIN st, st[s].h2 # "closed", ps[s].s = "open"
        PROVE  ps[s].win - pinit = st[s].tx - init + InFlight(s)
    BY <2>2, ChildFacts DEF ChildOK, InFlight, Count, Line
  <2> QED BY <2>1, <2>2 DEF CreditIsExact, Children
<1> QED BY <1>1, IInvHolds, PTL

\* The windows are sound as long as frames are read whole: the account is
\* exact and lws never sends beyond what the peer accepts.
THEOREM CreditIsSoundHolds == ASSUME ~Split PROVE Spec => []CreditIsSound
<1>1. IInv => TypeOK /\ WithinWindow
  BY IInvTypes DEF IInv, OverOK, WithinWindow
<1>2. TypeOK /\ WithinWindow /\ CreditIsExact => CreditIsSound
  BY DEF CreditIsSound
<1> QED BY <1>1, <1>2, IInvHolds, CreditIsExactHolds, PTL

\* Nobody who could send sleeps: a protocol frame or a stream that asked has
\* POLLOUT between the turns, and a stream with a file and credit has asked,
\* whichever of WINDOW_UPDATE and SETTINGS brought the credit.
THEOREM NobodySleepsHolds == Spec => []NobodySleeps
<1>1. IInv => NobodySleeps
  <2> SUFFICES ASSUME IInv PROVE NobodySleeps
    OBVIOUS
  <2>1. PolloutIsAsked
    BY DEF IInv, TurnOK
  <2>2. \A s \in DOMAIN st : st[s].lrs = "file" /\ st[s].tx > 0 => st[s].req
    BY ChildFacts DEF ChildOK
  <2> QED BY <2>1, <2>2 DEF NobodySleeps, SenderIsAwake, Children
<1>2. Spec => []IInv
  BY IInvHolds
<1> QED BY <1>1, <1>2, PTL
=============================================================================
