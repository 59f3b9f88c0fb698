----------------------------- MODULE WsTxProofs -----------------------------
(***************************************************************************)
(* What lws_write() took reaches the peer as well-formed messages and in   *)
(* order, for any room in the socket and any number of pieces that the     *)
(* extension makes of a write.                                             *)
(***************************************************************************)
EXTENDS WsTx, SequenceTheorems, TLAPS

-----------------------------------------------------------------------------
(* Paths of the peer's parser over sequences *)

\* the peer before it saw anything wrong
Sane == [in : DataOp \cup {"none"}, fin : BOOLEAN, open : BOOLEAN, id : {0, 1}, ok : {TRUE},
         whole : BOOLEAN]

\* the states of the peer along s, from p to q, each step one of R
IsTrace(R, s, p, q, t) ==
  /\ t \in [0 .. Len(s) -> Sane] /\ t[0] = p /\ t[Len(s)] = q
  /\ \A i \in 1 .. Len(s) : <<t[i - 1], s[i], t[i]>> \in R

Path(R, s, p, q) == \E t : IsTrace(R, s, p, q, t)

\* a step for one byte, and a step for a whole segment of the buflist
ByteStep == {x \in Sane \X Byte \X Sane : x[3] = PeerParses(x[1], x[2])}
SegStep == {x \in Sane \X (Seq(Byte) \ {<<>>}) \X Sane : Path(ByteStep, x[2], x[1], x[3])}

\* The ends of a path are states without error.
LEMMA PathEnds ==
  ASSUME NEW S, NEW s \in Seq(S), NEW R, NEW p, NEW q, Path(R, s, p, q)
  PROVE  p \in Sane /\ q \in Sane
<1>1. Len(s) \in Nat
  BY LenProperties
<1>2. PICK t : IsTrace(R, s, p, q, t)
  BY DEF Path
<1>3. 0 \in 0 .. Len(s) /\ Len(s) \in 0 .. Len(s)
  BY <1>1
<1> QED BY <1>2, <1>3 DEF IsTrace

\* Nothing to parse changes nothing.
LEMMA PathEmpty ==
  ASSUME NEW R, NEW p \in Sane
  PROVE  Path(R, <<>>, p, p) /\ \A q : Path(R, <<>>, p, q) => q = p
<1>1. Len(<<>>) = 0
  OBVIOUS
<1>2. Path(R, <<>>, p, p)
  <2> DEFINE t == [i \in 0 .. 0 |-> p]
  <2>1. t \in [0 .. 0 -> Sane] /\ t[0] = p
    OBVIOUS
  <2> HIDE DEF t
  <2>2. IsTrace(R, <<>>, p, p, t)
    BY <1>1, <2>1 DEF IsTrace
  <2> QED BY <2>2 DEF Path
<1>3. \A q : Path(R, <<>>, p, q) => q = p
  BY <1>1 DEF Path, IsTrace
<1> QED BY <1>2, <1>3

\* One step is a path.
LEMMA PathOne ==
  ASSUME NEW R, NEW p \in Sane, NEW q \in Sane, NEW b, <<p, b, q>> \in R
  PROVE  Path(R, <<b>>, p, q)
<1> DEFINE t == [i \in 0 .. 1 |-> IF i = 0 THEN p ELSE q]
           d == <<b>>
<1>1. Len(d) = 1 /\ d[1] = b
  OBVIOUS
<1>2. t \in [0 .. 1 -> Sane] /\ t[0] = p /\ t[1] = q
  OBVIOUS
<1> HIDE DEF t, d
<1>3. \A i \in 1 .. 1 : i = 1 /\ i - 1 = 0
  OBVIOUS
<1>4. IsTrace(R, d, p, q, t)
  BY <1>1, <1>2, <1>3 DEF IsTrace
<1> QED BY <1>4 DEF Path, d

\* A path goes on where another ends.
LEMMA PathConcat ==
  ASSUME NEW S, NEW a \in Seq(S), NEW b \in Seq(S), NEW R, NEW p, NEW q, NEW r,
         Path(R, a, p, q), Path(R, b, q, r)
  PROVE  Path(R, a \o b, p, r)
<1> DEFINE m == Len(a)
           n == Len(b)
           c == a \o b
<1>1. m \in Nat /\ n \in Nat
  BY LenProperties
<1>2. /\ Len(c) = m + n
      /\ \A i \in 1 .. m + n : c[i] = IF i <= m THEN a[i] ELSE b[i - m]
  BY ConcatProperties
<1>3. PICK t : IsTrace(R, a, p, q, t)
  BY DEF Path
<1>4. PICK u : IsTrace(R, b, q, r, u)
  BY DEF Path
<1> DEFINE v == [i \in 0 .. m + n |-> IF i <= m THEN t[i] ELSE u[i - m]]
<1>5. /\ t \in [0 .. m -> Sane] /\ t[0] = p /\ t[m] = q
      /\ \A i \in 1 .. m : <<t[i - 1], a[i], t[i]>> \in R
  BY <1>3 DEF IsTrace
<1>6. /\ u \in [0 .. n -> Sane] /\ u[0] = q /\ u[n] = r
      /\ \A i \in 1 .. n : <<u[i - 1], b[i], u[i]>> \in R
  BY <1>4 DEF IsTrace
<1> HIDE DEF m, n, c
<1>7. \A i \in 0 .. m : i \in 0 .. m + n /\ v[i] = t[i]
  BY <1>1
<1>8. \A i \in 0 .. n : m + i \in 0 .. m + n /\ v[m + i] = u[i]
  <2> SUFFICES ASSUME NEW i \in 0 .. n PROVE m + i \in 0 .. m + n /\ v[m + i] = u[i]
    OBVIOUS
  <2>1. m + i \in 0 .. m + n /\ (m + i) - m = i /\ (m + i <= m <=> i = 0)
    BY <1>1
  <2>2. CASE i = 0
    BY <1>1, <1>5, <1>6, <2>1, <2>2
  <2>3. CASE i # 0
    BY <2>1, <2>3
  <2> QED BY <2>2, <2>3
<1>9. v \in [0 .. m + n -> Sane]
  <2>1. \A i \in 0 .. m + n : ~(i <= m) => i - m \in 0 .. n
    BY <1>1
  <2>2. \A i \in 0 .. m + n : i <= m => i \in 0 .. m
    BY <1>1
  <2> QED BY <1>5, <1>6, <2>1, <2>2
<1> HIDE DEF v
<1>10. ASSUME NEW i \in 1 .. m + n PROVE <<v[i - 1], c[i], v[i]>> \in R
  <2>1. CASE i <= m
    <3>1. i \in 1 .. m /\ i \in 0 .. m /\ i - 1 \in 0 .. m
      BY <1>1, <2>1
    <3> QED BY <1>2, <1>5, <1>7, <2>1, <3>1
  <2>2. CASE ~(i <= m)
    <3>1. /\ i - m \in 1 .. n /\ i - m \in 0 .. n /\ (i - m) - 1 \in 0 .. n
          /\ m + (i - m) = i /\ m + ((i - m) - 1) = i - 1
      BY <1>1, <2>2
    <3>2. v[i] = u[i - m] /\ v[i - 1] = u[(i - m) - 1]
      BY <1>8, <3>1
    <3>3. c[i] = b[i - m]
      BY <1>2, <2>2
    <3> QED BY <1>6, <3>1, <3>2, <3>3
  <2> QED BY <2>1, <2>2
<1>11. v[0] = p /\ v[m + n] = r
  BY <1>1, <1>5, <1>6, <1>7, <1>8
<1>12. IsTrace(R, c, p, r, v)
  BY <1>2, <1>9, <1>10, <1>11 DEF IsTrace
<1> QED BY <1>12 DEF Path, c

\* A path can be cut anywhere.
LEMMA PathSplit ==
  ASSUME NEW S, NEW s \in Seq(S), NEW R, NEW p, NEW r, Path(R, s, p, r), NEW k \in 0 .. Len(s)
  PROVE  /\ SubSeq(s, 1, k) \in Seq(S) /\ SubSeq(s, k + 1, Len(s)) \in Seq(S)
         /\ Len(SubSeq(s, 1, k)) = k /\ Len(SubSeq(s, k + 1, Len(s))) = Len(s) - k
         /\ \E q \in Sane : Path(R, SubSeq(s, 1, k), p, q) /\ Path(R, SubSeq(s, k + 1, Len(s)), q, r)
<1> DEFINE n == Len(s)
           a == SubSeq(s, 1, k)
           b == SubSeq(s, k + 1, n)
<1>1. n \in Nat /\ k \in 0 .. n /\ \A i \in 1 .. n : s[i] \in S
  BY LenProperties, ElementOfSeq
<1>2. /\ a \in Seq(S) /\ Len(a) = IF 1 <= k THEN k - 1 + 1 ELSE 0
      /\ \A i \in 1 .. (k - 1 + 1) : a[i] = s[1 + i - 1]
  BY <1>1, SubSeqProperties
<1>3. /\ b \in Seq(S) /\ Len(b) = IF k + 1 <= n THEN n - (k + 1) + 1 ELSE 0
      /\ \A i \in 1 .. (n - (k + 1) + 1) : b[i] = s[(k + 1) + i - 1]
  BY <1>1, SubSeqProperties
<1>4. PICK t : IsTrace(R, s, p, r, t)
  BY DEF Path
<1>5. /\ t \in [0 .. n -> Sane] /\ t[0] = p /\ t[n] = r
      /\ \A i \in 1 .. n : <<t[i - 1], s[i], t[i]>> \in R
  BY <1>4 DEF IsTrace
<1> HIDE DEF n, a, b
<1>6. Len(a) = k /\ Len(b) = n - k /\ k \in Nat /\ n - k \in Nat
  BY <1>1, <1>2, <1>3
<1>7. Path(R, a, p, t[k])
  <2> DEFINE u == [i \in 0 .. k |-> t[i]]
  <2>1. u \in [0 .. k -> Sane] /\ u[0] = p /\ u[k] = t[k]
    BY <1>1, <1>5
  <2>2. ASSUME NEW i \in 1 .. k PROVE <<u[i - 1], a[i], u[i]>> \in R
    <3>1. i \in 1 .. n /\ i \in 0 .. k /\ i - 1 \in 0 .. k /\ i \in 1 .. (k - 1 + 1) /\ 1 + i - 1 = i
      BY <1>1
    <3>2. a[i] = s[i] /\ u[i] = t[i] /\ u[i - 1] = t[i - 1]
      BY <1>2, <3>1
    <3> QED BY <1>5, <3>1, <3>2
  <2> HIDE DEF u
  <2>3. IsTrace(R, a, p, t[k], u)
    BY <1>6, <2>1, <2>2 DEF IsTrace
  <2> QED BY <2>3 DEF Path
<1>8. Path(R, b, t[k], r)
  <2> DEFINE u == [i \in 0 .. n - k |-> t[k + i]]
  <2>0. \A i \in 0 .. n - k : k + i \in 0 .. n
    BY <1>1, <1>6
  <2>1. u \in [0 .. n - k -> Sane] /\ u[0] = t[k] /\ u[n - k] = r
    <3>1. 0 \in 0 .. n - k /\ n - k \in 0 .. n - k /\ k + 0 = k /\ k + (n - k) = n
      BY <1>1, <1>6
    <3> QED BY <1>5, <2>0, <3>1
  <2>2. ASSUME NEW i \in 1 .. n - k PROVE <<u[i - 1], b[i], u[i]>> \in R
    <3>1. /\ k + i \in 1 .. n /\ i \in 0 .. n - k /\ i - 1 \in 0 .. n - k
          /\ i \in 1 .. (n - (k + 1) + 1) /\ (k + 1) + i - 1 = k + i /\ k + (i - 1) = (k + i) - 1
      BY <1>1, <1>6
    <3>2. b[i] = s[k + i] /\ u[i] = t[k + i] /\ u[i - 1] = t[(k + i) - 1]
      BY <1>3, <3>1
    <3> QED BY <1>5, <3>1, <3>2
  <2> HIDE DEF u
  <2>3. IsTrace(R, b, t[k], r, u)
    BY <1>6, <2>1, <2>2 DEF IsTrace
  <2> QED BY <2>3 DEF Path
<1>9. t[k] \in Sane
  BY <1>1, <1>5
<1> QED BY <1>2, <1>3, <1>6, <1>7, <1>8, <1>9 DEF a, b, n

\* A path begins with a step.
LEMMA PathHead ==
  ASSUME NEW S, NEW s \in Seq(S), s # <<>>, NEW R, NEW p, NEW r, Path(R, s, p, r)
  PROVE  /\ Head(s) \in S /\ Tail(s) \in Seq(S)
         /\ \E q \in Sane : <<p, Head(s), q>> \in R /\ Path(R, Tail(s), q, r)
<1> DEFINE n == Len(s)
           b == Tail(s)
<1>1. /\ n \in Nat /\ n # 0 /\ Head(s) \in S /\ Head(s) = s[1] /\ b \in Seq(S) /\ Len(b) = n - 1
      /\ \A i \in 1 .. Len(b) : b[i] = s[i + 1]
  BY HeadTailProperties, LenProperties, EmptySeq
<1>2. PICK t : IsTrace(R, s, p, r, t)
  BY DEF Path
<1>3. /\ t \in [0 .. n -> Sane] /\ t[0] = p /\ t[n] = r
      /\ \A i \in 1 .. n : <<t[i - 1], s[i], t[i]>> \in R
  BY <1>2 DEF IsTrace
<1> HIDE DEF n, b
<1>4. t[1] \in Sane /\ <<p, s[1], t[1]>> \in R
  <2>1. 1 \in 0 .. n /\ 1 \in 1 .. n /\ 1 - 1 = 0
    BY <1>1
  <2> QED BY <1>3, <2>1
<1>5. Path(R, b, t[1], r)
  <2> DEFINE u == [i \in 0 .. n - 1 |-> t[i + 1]]
  <2>0. \A i \in 0 .. n - 1 : i + 1 \in 0 .. n
    BY <1>1
  <2>1. u \in [0 .. n - 1 -> Sane] /\ u[0] = t[1] /\ u[n - 1] = r
    <3>1. 0 \in 0 .. n - 1 /\ n - 1 \in 0 .. n - 1 /\ 0 + 1 = 1 /\ (n - 1) + 1 = n
      BY <1>1
    <3> QED BY <1>3, <2>0, <3>1
  <2>2. ASSUME NEW i \in 1 .. n - 1 PROVE <<u[i - 1], b[i], u[i]>> \in R
    <3>1. i + 1 \in 1 .. n /\ i \in 0 .. n - 1 /\ i - 1 \in 0 .. n - 1 /\ (i - 1) + 1 = (i + 1) - 1
      BY <1>1
    <3>2. b[i] = s[i + 1] /\ u[i] = t[i + 1] /\ u[i - 1] = t[(i + 1) - 1]
      BY <1>1, <3>1
    <3> QED BY <1>3, <3>1, <3>2
  <2> HIDE DEF u
  <2>3. IsTrace(R, b, t[1], r, u)
    BY <1>1, <2>1, <2>2 DEF IsTrace
  <2> QED BY <2>3 DEF Path
<1> QED BY <1>1, <1>4, <1>5 DEF b

-----------------------------------------------------------------------------
(* lws_issue_raw() loses, repeats and reorders nothing *)

Segs == Seq(Byte) \ {<<>>}

\* the peer comes to e when it has read the bytes w and then the segments l
Reaches(p, w, l, e) ==
  /\ w \in Seq(Byte) /\ l \in Seq(Segs)
  /\ \E m : Path(ByteStep, w, p, m) /\ Path(SegStep, l, m, e)

\* A step for a segment is a path for its bytes.
LEMMA SegStepIs ==
  ASSUME NEW b \in Segs, NEW p, NEW q
  PROVE  <<p, b, q>> \in SegStep <=> p \in Sane /\ q \in Sane /\ Path(ByteStep, b, p, q)
BY DEF SegStep, Segs

\* What is taken of the first segment, and the rest of it.
LEMMA FirstSegment ==
  ASSUME NEW list \in Seq(Segs), list # <<>>, NEW k \in 0 .. Len(Head(list)),
         NEW w, NEW p, NEW m, NEW e, w \in Seq(Byte),
         Path(ByteStep, w, p, m), Path(SegStep, list, m, e)
  PROVE  Reaches(p, w \o SubSeq(Head(list), 1, k), lws_buflist_use_segment(list, k), e)
<1> DEFINE s == Head(list)
           a == SubSeq(s, 1, k)
           b == SubSeq(s, k + 1, Len(s))
           l == Tail(list)
           u == lws_buflist_use_segment(list, k)
<1>1. s \in Segs /\ l \in Seq(Segs) /\ \E q \in Sane : <<m, s, q>> \in SegStep /\ Path(SegStep, l, q, e)
  BY PathHead
<1>2. PICK q \in Sane : <<m, s, q>> \in SegStep /\ Path(SegStep, l, q, e)
  BY <1>1
<1>3. u = IF k = Len(s) THEN l ELSE <<b>> \o l
  BY DEF lws_buflist_use_segment
<1>4. m \in Sane /\ Path(ByteStep, s, m, q) /\ s \in Seq(Byte)
  BY <1>1, <1>2, SegStepIs DEF Segs
<1> HIDE DEF s, u, l
<1>k. k \in 0 .. Len(s)
  BY DEF s
<1>5. /\ a \in Seq(Byte) /\ b \in Seq(Byte) /\ Len(b) = Len(s) - k
      /\ \E x \in Sane : Path(ByteStep, a, m, x) /\ Path(ByteStep, b, x, q)
  BY <1>4, <1>k, PathSplit
<1>6. PICK x \in Sane : Path(ByteStep, a, m, x) /\ Path(ByteStep, b, x, q)
  BY <1>5
<1>7. Len(s) \in Nat
  BY <1>4, LenProperties
<1> HIDE DEF a, b
<1>8. w \o a \in Seq(Byte) /\ Path(ByteStep, w \o a, p, x)
  BY <1>5, <1>6, PathConcat, ConcatProperties
<1>9. u \in Seq(Segs) /\ Path(SegStep, u, x, e)
  <2>1. CASE k = Len(s)
    <3>1. Len(b) = 0
      BY <1>5, <1>7, <2>1
    <3>2. b = <<>>
      BY <1>5, <3>1, EmptySeq
    <3>3. q = x
      BY <1>6, <3>2, PathEmpty
    <3> QED BY <1>1, <1>2, <1>3, <2>1, <3>3
  <2>2. CASE k # Len(s)
    <3>1. Len(b) # 0
      BY <1>5, <1>7, <1>k, <2>2
    <3>2. b \in Segs
      BY <1>5, <3>1, EmptySeq DEF Segs
    <3>3. <<x, b, q>> \in SegStep
      BY <1>6, <3>2, SegStepIs
    <3>4. Path(SegStep, <<b>>, x, q)
      BY <3>3, PathOne
    <3> DEFINE d == <<b>>
    <3>5. d \in Seq(Segs)
      BY <3>2
    <3> HIDE DEF d
    <3>6. Path(SegStep, d \o l, x, e) /\ d \o l \in Seq(Segs)
      <4>1. Path(SegStep, d, x, q)
        BY <3>4 DEF d
      <4> QED BY <1>1, <1>2, <3>5, <4>1, PathConcat, ConcatProperties
    <3> QED BY <1>3, <2>2, <3>6 DEF d
  <2> QED BY <2>1, <2>2
<1> QED BY <1>8, <1>9 DEF Reaches, a, s, u

\* lws_issue_raw(): in the socket and the buflist the bytes are still in
\* order, however much the socket takes.
LEMMA IssueRaw ==
  ASSUME NEW b \in Seq(Byte), b # <<>> \/ lws_has_buffered_out, NEW k, NEW ask \in BOOLEAN,
         NEW e, NEW f, Reaches(peer, wire, buflist, e), Path(ByteStep, b, e, f),
         lws_issue_raw(b, k, ask)
  PROVE  Reaches(peer, wire', buflist', f)
<1> DEFINE list == lws_buflist_append_segment(b)
<1>1. /\ k \in 0 .. Len(Segment(b)) /\ wire' = wire \o SubSeq(Segment(b), 1, k)
      /\ buflist' = Buffered(b, k)
  BY DEF lws_issue_raw
<1>2. PICK m : Path(ByteStep, wire, peer, m) /\ Path(SegStep, buflist, m, e)
  BY DEF Reaches
<1>3. wire \in Seq(Byte) /\ buflist \in Seq(Segs)
  BY DEF Reaches
<1>4. e \in Sane /\ f \in Sane /\ m \in Sane
  BY <1>2, <1>3, PathEnds
<1>5. CASE list # <<>>
  <2>1. list \in Seq(Segs) /\ Path(SegStep, list, m, f)
    <3>1. CASE b # <<>> /\ lws_has_buffered_out
      <4> DEFINE d == <<b>>
      <4>1. list = Append(buflist, b) /\ b \in Segs
        BY <3>1 DEF lws_buflist_append_segment, Segs
      <4>2. d \in Seq(Segs) /\ list = buflist \o d
        BY <1>3, <4>1, AppendIsConcat
      <4>3. Path(SegStep, d, e, f)
        BY <1>4, <4>1, SegStepIs, PathOne
      <4> HIDE DEF d, list
      <4> QED BY <1>2, <1>3, <4>2, <4>3, PathConcat, ConcatProperties
    <3>2. CASE ~(b # <<>> /\ lws_has_buffered_out)
      <4>1. list = buflist /\ b = <<>>
        BY <1>5, <3>2 DEF lws_buflist_append_segment, lws_has_buffered_out
      <4>2. f = e
        BY <1>4, <4>1, PathEmpty
      <4> QED BY <1>2, <1>3, <4>1, <4>2
    <3> QED BY <3>1, <3>2
  <2>2. Segment(b) = Head(list) /\ Buffered(b, k) = lws_buflist_use_segment(list, k)
    BY <1>5 DEF Segment, Buffered
  <2> HIDE DEF list
  <2> QED BY <1>1, <1>2, <1>3, <1>5, <2>1, <2>2, FirstSegment
<1>6. CASE list = <<>>
  <2>1. buflist = <<>> /\ b # <<>>
    <3>0. b # <<>> => b \in Segs
      BY DEF Segs
    <3>1. b # <<>> => Append(buflist, b) # <<>>
      BY <1>3, <3>0, AppendProperties
    <3>2. ~(b # <<>> /\ lws_has_buffered_out)
      BY <1>6, <3>1 DEF lws_buflist_append_segment
    <3>3. list = buflist
      BY <3>2 DEF lws_buflist_append_segment
    <3> QED BY <1>6, <3>3 DEF lws_has_buffered_out
  <2>2. /\ Segment(b) = b
        /\ Buffered(b, k) = IF k < Len(b) THEN <<SubSeq(b, k + 1, Len(b))>> ELSE <<>>
    BY <1>6 DEF Segment, Buffered
  <2>3. m = e
    BY <1>2, <1>4, <2>1, PathEmpty
  <2> DEFINE a == SubSeq(b, 1, k)
             c == SubSeq(b, k + 1, Len(b))
  <2>4. k \in 0 .. Len(b) /\ Len(b) \in Nat
    BY <1>1, <2>2, LenProperties
  <2>5. /\ a \in Seq(Byte) /\ c \in Seq(Byte) /\ Len(c) = Len(b) - k
        /\ \E x \in Sane : Path(ByteStep, a, e, x) /\ Path(ByteStep, c, x, f)
    BY <2>4, PathSplit
  <2>6. PICK x \in Sane : Path(ByteStep, a, e, x) /\ Path(ByteStep, c, x, f)
    BY <2>5
  <2> HIDE DEF a, c
  <2>7. wire' \in Seq(Byte) /\ Path(ByteStep, wire', peer, x)
    <3>1. wire' = wire \o a
      BY <1>1, <2>2 DEF a
    <3> QED BY <1>2, <1>3, <2>3, <2>5, <2>6, <3>1, PathConcat, ConcatProperties
  <2>8. buflist' \in Seq(Segs) /\ Path(SegStep, buflist', x, f)
    <3>1. CASE k < Len(b)
      <4>1. Len(c) # 0
        BY <2>4, <2>5, <3>1
      <4>2. c \in Segs
        BY <2>5, <4>1, EmptySeq DEF Segs
      <4>3. <<x, c, f>> \in SegStep
        BY <1>4, <2>6, <4>2, SegStepIs
      <4>4. buflist' = <<c>>
        BY <1>1, <2>2, <3>1 DEF c
      <4>5. Path(SegStep, <<c>>, x, f)
        BY <1>4, <4>3, PathOne
      <4> QED BY <4>2, <4>4, <4>5
    <3>2. CASE ~(k < Len(b))
      <4>1. Len(c) = 0
        BY <2>4, <2>5, <3>2
      <4>2. c = <<>>
        BY <2>5, <4>1, EmptySeq
      <4>3. f = x /\ buflist' = <<>>
        BY <1>1, <2>2, <2>6, <3>2, <4>2, PathEmpty
      <4> QED BY <1>4, <4>3, PathEmpty, EmptySeq
    <3> QED BY <3>1, <3>2
  <2> QED BY <2>7, <2>8 DEF Reaches
<1> QED BY <1>5, <1>6

-----------------------------------------------------------------------------
(* How the peer parses a frame *)

\* the peer after a frame of its message, which that ends if fin, and whose
\* payload is whole if w
After(p, fin, w) == [p EXCEPT !.fin = fin, !.open = ~fin, !.id = IF fin THEN 1 - @ ELSE @,
                              !.whole = @ /\ w]

\* A state of the peer that reads without error is its five fields.
LEMMA SameState ==
  ASSUME NEW a \in Sane, NEW b \in Sane,
         a.in = b.in, a.fin = b.fin, a.open = b.open, a.id = b.id, a.whole = b.whole
  PROVE  a = b
<1>1. a = [in |-> a.in, fin |-> a.fin, open |-> a.open, id |-> a.id, ok |-> TRUE, whole |-> a.whole]
  BY DEF Sane
<1>2. b = [in |-> b.in, fin |-> b.fin, open |-> b.open, id |-> b.id, ok |-> TRUE, whole |-> b.whole]
  BY DEF Sane
<1>3. [in |-> a.in, fin |-> a.fin, open |-> a.open, id |-> a.id, ok |-> TRUE, whole |-> a.whole] =
      [in |-> b.in, fin |-> b.fin, open |-> b.open, id |-> b.id, ok |-> TRUE, whole |-> b.whole]
  BY Zenon
<1> QED BY <1>1, <1>2, <1>3, Zenon

\* The state of the peer after a frame.
LEMMA AfterIs ==
  ASSUME NEW p \in Sane, p.in = "none", NEW fin \in BOOLEAN, NEW w \in BOOLEAN
  PROVE  /\ After(p, fin, w) \in Sane /\ After(p, fin, w).in = "none" /\ After(p, fin, w).open = ~fin
         /\ After(p, fin, w).id = IF fin THEN 1 - p.id ELSE p.id
         /\ After(p, fin, w).whole = (p.whole /\ w)
<1>0. 1 - p.id \in {0, 1} /\ (p.whole /\ w) \in BOOLEAN
  BY DEF Sane
<1>1. CASE fin = TRUE
  BY <1>0, <1>1 DEF After, Sane
<1>2. CASE fin = FALSE
  BY <1>0, <1>2 DEF After, Sane
<1> QED BY <1>1, <1>2

\* A byte that the peer accepts is a step.
LEMMA ByteStepIs ==
  ASSUME NEW p \in Sane, NEW b \in Byte, PeerParses(p, b) \in Sane
  PROVE  <<p, b, PeerParses(p, b)>> \in ByteStep
BY DEF ByteStep

\* Two steps are a path.
LEMMA TwoBytes ==
  ASSUME NEW a \in Byte, NEW b \in Byte, NEW p, NEW q, NEW r,
         <<p, a, q>> \in ByteStep, <<q, b, r>> \in ByteStep,
         NEW s \in {<<a, b>>, <<a>> \o <<b>>}
  PROVE  Path(ByteStep, s, p, r) /\ s \in Seq(Byte) /\ s # <<>> /\ Len(s) = 2
<1>1. p \in Sane /\ q \in Sane /\ r \in Sane
  BY DEF ByteStep
<1> DEFINE c == <<a>>
           d == <<b>>
<1>2. CASE s = <<a, b>>
  <2>1. s \in Seq(Byte) /\ s # <<>> /\ Len(s) = 2 /\ s[1] = a /\ s[2] = b
    BY <1>2
  <2> DEFINE t == [i \in 0 .. 2 |-> IF i = 0 THEN p ELSE IF i = 1 THEN q ELSE r]
  <2>2. t \in [0 .. 2 -> Sane] /\ t[0] = p /\ t[1] = q /\ t[2] = r
    BY <1>1
  <2> HIDE DEF t
  <2>3. \A i \in 1 .. 2 : (i = 1 /\ i - 1 = 0) \/ (i = 2 /\ i - 1 = 1)
    OBVIOUS
  <2>4. \A i \in 1 .. 2 : <<t[i - 1], s[i], t[i]>> \in ByteStep
    BY <2>1, <2>2, <2>3
  <2>5. IsTrace(ByteStep, s, p, r, t)
    BY <2>1, <2>2, <2>4 DEF IsTrace
  <2> QED BY <2>1, <2>5 DEF Path
<1>3. CASE s = c \o d
  <2>1. Path(ByteStep, c, p, q) /\ Path(ByteStep, d, q, r)
    BY <1>1, PathOne
  <2>2. c \in Seq(Byte) /\ d \in Seq(Byte) /\ Len(c) = 1 /\ Len(d) = 1
    OBVIOUS
  <2> HIDE DEF c, d
  <2>3. Path(ByteStep, s, p, r)
    BY <1>3, <2>1, <2>2, PathConcat
  <2>4. s \in Seq(Byte) /\ Len(s) = Len(c) + Len(d)
    BY <1>3, <2>2, ConcatProperties
  <2>5. Len(s) = 2
    BY <2>2, <2>4
  <2> HIDE <1>3
  <2>6. s # <<>>
    BY <2>5, EmptySeq
  <2> QED BY <2>3, <2>4, <2>5, <2>6
<1> QED BY <1>2, <1>3

\* The peer accepts a frame that fits its place in the message.
LEMMA ParseFrame ==
  ASSUME NEW p \in Sane, p.in = "none", NEW op \in DataOp, NEW fin \in BOOLEAN, NEW w \in BOOLEAN,
         op = "TEXT" <=> ~p.open,
         NEW b \in {<<Header(op, fin, 1), Payload(p.id, fin, w)>>,
                    <<Header(op, fin, 1)>> \o <<Payload(p.id, fin, w)>>}
  PROVE  Path(ByteStep, b, p, After(p, fin, w)) /\ b \in Seq(Byte) /\ b # <<>> /\ Len(b) = 2
<1> DEFINE h == Header(op, fin, 1)
           d == Payload(p.id, fin, w)
           q == [p EXCEPT !.in = op, !.fin = fin, !.open = TRUE]
<1>0. p.open \in BOOLEAN /\ p.id \in {0, 1}
  BY DEF Sane
<1>1. h \in Byte /\ h[1] = "header" /\ h[2] = op /\ h[3] = fin /\ h[4] = 1
  BY DEF Header, Byte
<1>2. d \in Byte /\ d[1] = "payload" /\ d[2] = p.id /\ d[3] = fin /\ d[4] = w
  BY <1>0 DEF Payload, Byte
<1>3. q \in Sane /\ q.in = op /\ q.fin = fin /\ q.id = p.id /\ op # "none" /\ op \notin {"PING", "PONG"} /\ q.whole = p.whole
  BY DEF Sane, DataOp
<1>4. PeerParses(p, h) = q
  <2>1. ~((op = "TEXT") = p.open)
    BY <1>0
  <2>2. ~((h[2] = "TEXT") = p.open \/ (h[3] /\ h[4] = 0))
    BY <1>1, <2>1
  <2> HIDE DEF h
  <2> QED BY <1>1, <1>3, <2>2 DEF PeerParses
<1>5. PeerParses(q, d) = After(p, fin, w)
  <2>1. PeerParses(q, d) = [q EXCEPT !.in = "none", !.open = ~fin, !.id = IF fin THEN 1 - @ ELSE @,
                                       !.whole = @ /\ w]
    BY <1>2, <1>3 DEF PeerParses
  <2> DEFINE m == [q EXCEPT !.in = "none", !.open = ~fin, !.id = IF fin THEN 1 - @ ELSE @,
                                       !.whole = @ /\ w]
             j == IF fin THEN 1 - p.id ELSE p.id
  <2>2. j \in {0, 1} /\ (p.whole /\ w) \in BOOLEAN
    BY <1>0
  <2>3. m \in Sane /\ m.in = "none" /\ m.fin = fin /\ m.open = ~fin /\ m.id = j /\ m.whole = (p.whole /\ w)
    <3> HIDE DEF q
    <3> QED BY <1>3, <2>2 DEF Sane
  <2>4. /\ After(p, fin, w) \in Sane /\ After(p, fin, w).in = "none" /\ After(p, fin, w).open = ~fin
        /\ After(p, fin, w).id = j /\ After(p, fin, w).fin = fin
        /\ After(p, fin, w).whole = (p.whole /\ w)
    <3>1. After(p, fin, w).fin = fin
      BY DEF After, Sane
    <3> QED BY <3>1, AfterIs
  <2> HIDE DEF m, j
  <2>5. m = After(p, fin, w)
    BY <2>3, <2>4, SameState
  <2> QED BY <2>1, <2>5 DEF m
<1>6. After(p, fin, w) \in Sane
  BY AfterIs
<1> HIDE DEF h, d, q
<1>7. <<p, h, q>> \in ByteStep /\ <<q, d, After(p, fin, w)>> \in ByteStep
  BY <1>1, <1>2, <1>3, <1>4, <1>5, <1>6, ByteStepIs
<1>8. b \in {<<h, d>>, <<h>> \o <<d>>}
  BY DEF h, d
<1> QED BY <1>1, <1>2, <1>7, <1>8, TwoBytes

\* A frame that changes nothing: a PING, a PONG, or an empty fragment inside a message.
LEMMA ParseIdle ==
  ASSUME NEW p \in Sane, p.in = "none", NEW h,
         \/ h \in {Header("PING", TRUE, 0), Header("PONG", TRUE, 0)}
         \/ h = Header("CONTINUATION", FALSE, 0) /\ p.open
  PROVE  Path(ByteStep, <<h>>, p, p) /\ <<h>> \in Seq(Byte) /\ <<h>> # <<>> /\ Len(<<h>>) = 1
<1>1. h \in Byte
  <2>1. Header("PONG", TRUE, 0) \in Byte /\ Header("PING", TRUE, 0) \in Byte
    BY DEF Header, Byte
  <2>2. Header("CONTINUATION", FALSE, 0) \in Byte
    BY DEF Header, Byte, DataOp
  <2> QED BY <2>1, <2>2
<1>2. PeerParses(p, h) = p
  <2>1. CASE h \in {Header("PING", TRUE, 0), Header("PONG", TRUE, 0)}
    <3>a. CASE h = Header("PING", TRUE, 0)
      BY <3>a DEF Header, PeerParses
    <3>b. CASE h = Header("PONG", TRUE, 0)
      BY <3>b DEF Header, PeerParses
    <3> QED BY <2>1, <3>a, <3>b
  <2>2. CASE h = Header("CONTINUATION", FALSE, 0) /\ p.open
    <3>1. h[1] = "header" /\ h[2] = "CONTINUATION" /\ h[3] = FALSE /\ h[4] = 0
      BY <2>2 DEF Header
    <3>2. p.open = TRUE /\ ~((h[2] = "TEXT") = p.open)
      BY <2>2, <3>1 DEF Sane
    <3>3. [p EXCEPT !.open = TRUE] = p
      BY <3>2 DEF Sane
    <3> QED BY <3>1, <3>2, <3>3 DEF PeerParses
  <2> QED BY <2>1, <2>2
<1>3. Path(ByteStep, <<h>>, p, p)
  BY <1>1, <1>2, ByteStepIs, PathOne
<1> QED BY <1>1, <1>3

-----------------------------------------------------------------------------
(* The inductive invariant *)

\* what the peer is at when it has read all that was written so far, when the
\* flags of the connection are w, the extension zz and the user u
Ends(e, w, zz, u) ==
  /\ e.in = "none"
  /\ w.drain => /\ e.open /\ e.id = zz.id /\ ~zz.first /\ ~w.stash
                /\ w.fin => ~u.open /\ u.id = 1 - zz.id
                /\ ~w.fin => u.open /\ u.id = zz.id
  /\ ~w.drain => /\ e.id = u.id /\ (e.open <=> u.open /\ ~zz.first)
                 /\ zz.first => u.open
                 /\ w.stash => zz.first

\* the peer is sane now, and will be when it has read on; what was buffered is
\* given up when the connection is killed
PeerOK ==
  /\ state = "killed" => \E m : Path(ByteStep, wire, peer, m)
  /\ state # "killed" => \E e : Reaches(peer, wire, buflist, e) /\ Ends(e, ws, z, user)

Flags ==
  /\ state \in {"established", "flushing"} => (lws_has_buffered_out \/ ws.drain \/ ping \/ check => armed)
  /\ ws.inside /\ state # "killed" => lws_has_buffered_out /\ ~pmd
  /\ ws.inside /\ user.incb => user.blind > 0
  /\ short => user.blind > 0
  /\ user.incb => state = "established"
  /\ user.incb /\ ~user.wrote => ~ws.drain /\ ~lws_has_buffered_out
  /\ ~pmd => ~ws.drain /\ ~ws.stash /\ ~z.first
  /\ state = "closed" => ~lws_has_buffered_out

IInv == TypeOK /\ PeerOK /\ Flags

UserType == [incb : BOOLEAN, wrote : BOOLEAN, blind : 0 .. MaxBlind, open : BOOLEAN, id : {0, 1}]
WsType == [inside : BOOLEAN, drain : BOOLEAN, fin : BOOLEAN, stash : BOOLEAN]
ZType == [left : BOOLEAN, n : 0 .. MaxChunks, first : BOOLEAN, out : BOOLEAN, id : {0, 1},
          lost : BOOLEAN]

\* The connection begins right.
LEMMA InitOK == Init => IInv
<1> SUFFICES ASSUME Init PROVE IInv
  OBVIOUS
<1>1. 0 \in 0 .. MaxBlind /\ 0 \in 0 .. MaxChunks /\ 0 <= SocketRoom
  BY WsTxAssumption
<1>2. <<>> \in Seq(Byte) /\ <<>> \in Seq(Seq(Byte) \ {<<>>}) /\ Len(<<>>) = 0
  BY EmptySeq
<1>3. TypeOK
  BY <1>1, <1>2 DEF Init, TypeOK
<1>4. peer \in Sane
  BY DEF Init, Sane
<1>5. Reaches(peer, wire, buflist, peer)
  BY <1>2, <1>4, PathEmpty DEF Init, Reaches, Segs
<1>6. Ends(peer, ws, z, user)
  BY DEF Init, Ends
<1>7. PeerOK
  BY <1>5, <1>6 DEF PeerOK, Init
<1>8. Flags
  BY DEF Init, Flags, lws_has_buffered_out
<1> QED BY <1>3, <1>7, <1>8 DEF IInv

-----------------------------------------------------------------------------
(* lws_issue_raw() and the room in the socket *)

\* The socket holds no more than its room.
LEMMA WireRoom ==
  ASSUME wire \in Seq(Byte), buflist \in Seq(Segs), NEW b \in Seq(Byte), NEW k, NEW ask,
         lws_issue_raw(b, k, ask)
  PROVE  Len(wire') <= SocketRoom
<1> DEFINE list == lws_buflist_append_segment(b)
           s == Segment(b)
           a == SubSeq(s, 1, k)
<1>1. k \in 0 .. Len(s) /\ Len(wire) + k <= SocketRoom /\ wire' = wire \o a
  BY DEF lws_issue_raw
<1>2. list \in Seq(Segs)
  <2>1. b # <<>> => b \in Segs
    BY DEF Segs
  <2>2. b # <<>> => Append(buflist, b) \in Seq(Segs)
    BY <2>1, AppendProperties
  <2> QED BY <2>2 DEF lws_buflist_append_segment
<1>3. s \in Seq(Byte)
  <2>1. CASE list # <<>>
    <3>1. Head(list) \in Segs /\ s = Head(list)
      BY <1>2, <2>1, HeadTailProperties DEF Segment
    <3> QED BY <3>1 DEF Segs
  <2>2. CASE list = <<>>
    BY <2>2 DEF Segment
  <2> QED BY <2>1, <2>2
<1> HIDE DEF s
<1>4. Len(s) \in Nat /\ \A i \in 1 .. Len(s) : s[i] \in Byte
  BY <1>3, LenProperties, ElementOfSeq
<1>5. a \in Seq(Byte) /\ Len(a) = IF 1 <= k THEN k - 1 + 1 ELSE 0
  BY <1>1, <1>3, <1>4, SubSeqProperties
<1> HIDE DEF a
<1>6. Len(wire') = Len(wire) + Len(a) /\ Len(wire) \in Nat
  BY <1>1, <1>5, ConcatProperties, LenProperties
<1> QED BY <1>1, <1>4, <1>5, <1>6, WsTxAssumption

\* The whole effect of it on what the invariant speaks of.
Issued(e, ask) ==
  /\ Reaches(peer, wire', buflist', e) /\ Len(wire') <= SocketRoom
  /\ armed' = (armed \/ ask \/ lws_has_buffered_out \/ buflist' # <<>>)

\* What lws_issue_raw() does, in one formula.
LEMMA RawIssued ==
  ASSUME NEW b \in Seq(Byte), b # <<>> \/ lws_has_buffered_out, NEW k, NEW ask \in BOOLEAN,
         NEW e, NEW f, Reaches(peer, wire, buflist, e), Path(ByteStep, b, e, f),
         lws_issue_raw(b, k, ask)
  PROVE  Issued(f, ask)
<1>1. Reaches(peer, wire', buflist', f)
  BY IssueRaw
<1>2. wire \in Seq(Byte) /\ buflist \in Seq(Segs)
  BY DEF Reaches
<1>3. Len(wire') <= SocketRoom
  BY <1>2, WireRoom
<1> QED BY <1>1, <1>3 DEF Issued, lws_issue_raw

-----------------------------------------------------------------------------
(* Fragments that the extension made *)

\* the flags and the extension after a fragment with a payload
Fragmented(e, fin, pending, zz) ==
  /\ Issued(After(e, fin /\ ~pending, ~zz.lost), pending)
  /\ ws' \in WsType /\ ws'.inside = FALSE /\ ws'.drain = pending /\ ws'.stash = FALSE
  /\ pending => ws'.fin = fin
  /\ z' \in ZType /\ z'.first = FALSE /\ z'.id = zz.id
  /\ short' = FALSE

\* A fragment that is sent fits what the peer has.
LEMMA FragmentSent ==
  ASSUME NEW e, Reaches(peer, wire, buflist, e), e \in Sane, e.in = "none", ws \in WsType,
         NEW zz \in ZType, zz.out = TRUE, zz.id = e.id,
         NEW op \in DataOp, NEW fin \in BOOLEAN, NEW pending \in BOOLEAN, NEW k,
         op = "TEXT" \/ zz.first \/ ws.stash <=> ~e.open,
         WriteFragment(op, fin, pending, 1, zz, k)
  PROVE  Fragmented(e, fin, pending, zz)
<1> DEFINE eff == PresendOp(IF ws.stash THEN "TEXT" ELSE op, zz)
           last == fin /\ ~pending
           w == ~zz.lost
           bytes == <<Header(eff, last, 1)>> \o <<Payload(e.id, last, w)>>
<1>1. /\ lws_issue_raw(bytes, k, pending)
      /\ ws' = [ws EXCEPT !.inside = FALSE, !.drain = pending, !.fin = IF pending THEN fin ELSE @,
                          !.stash = @ /\ ~ws.stash]
      /\ z' = IF zz.out THEN [zz EXCEPT !.out = FALSE, !.first = FALSE] ELSE zz
      /\ short' = FALSE
  BY DEF WriteFragment
<1>2. eff \in DataOp /\ (eff = "TEXT" <=> ~e.open) /\ last \in BOOLEAN /\ w \in BOOLEAN
  BY DEF PresendOp, DataOp
<1> HIDE DEF eff, last, w
<1>3. Path(ByteStep, bytes, e, After(e, last, w)) /\ bytes \in Seq(Byte) /\ bytes # <<>>
  BY <1>2, ParseFrame
<1> HIDE DEF bytes
<1>4. Issued(After(e, last, w), pending)
  BY <1>1, <1>3, RawIssued
<1>5. /\ ws' \in WsType /\ ws'.inside = FALSE /\ ws'.drain = pending /\ ws'.stash = FALSE
      /\ pending => ws'.fin = fin
  BY <1>1 DEF WsType
<1>6. z' \in ZType /\ z'.first = FALSE /\ z'.id = zz.id
  BY <1>1 DEF ZType
<1> QED BY <1>1, <1>4, <1>5, <1>6 DEF Fragmented, last, w

\* The socket and the buflist keep their types.
LEMMA IssuedKinds ==
  ASSUME TypeOK, NEW e, NEW ask \in BOOLEAN, Issued(e, ask)
  PROVE  /\ wire' \in Seq(Byte) /\ Len(wire') <= SocketRoom
         /\ buflist' \in Seq(Seq(Byte) \ {<<>>}) /\ armed' \in BOOLEAN
BY DEF Issued, Reaches, Segs, TypeOK

\* A fragment with more of the message pending keeps the invariant.
LEMMA FragmentDone ==
  ASSUME IInv, state = "established", pmd,
         NEW e \in Sane, e.in = "none", NEW fin \in BOOLEAN, NEW pending \in BOOLEAN, NEW zz,
         zz.id = e.id, zz.lost \in BOOLEAN,
         Fragmented(e, fin, pending, zz),
         user' \in UserType, user'.open = ~fin, user'.id = IF fin THEN 1 - e.id ELSE e.id,
         user'.incb => user'.wrote,
         UNCHANGED <<state, pmd, ping, peer>>, check' \in BOOLEAN, check' => check
  PROVE  IInv'
<1> DEFINE f == After(e, fin /\ ~pending, ~zz.lost)
<1>0. TypeOK /\ Flags /\ Issued(f, pending)
  BY DEF IInv, Fragmented
<1>1. TypeOK'
  <2>1. ws' \in WsType /\ z' \in ZType /\ short' \in BOOLEAN
    BY DEF Fragmented
  <2> QED BY <1>0, <2>1, IssuedKinds DEF TypeOK, WsType, ZType, UserType
<1>2. Ends(f, ws', z', user')
  <2>1. /\ f.in = "none" /\ f.open = ~(fin /\ ~pending)
        /\ f.id = IF fin /\ ~pending THEN 1 - e.id ELSE e.id
    BY AfterIs
  <2>2. /\ ws'.drain = pending /\ ws'.stash = FALSE /\ (pending => ws'.fin = fin)
        /\ z'.first = FALSE /\ z'.id = e.id
    BY DEF Fragmented
  <2> HIDE DEF f
  <2>3. CASE pending = TRUE
    <3>1. CASE fin = TRUE
      BY <2>1, <2>2, <2>3, <3>1 DEF Ends
    <3>2. CASE fin = FALSE
      BY <2>1, <2>2, <2>3, <3>2 DEF Ends
    <3> QED BY <3>1, <3>2
  <2>4. CASE pending = FALSE
    <3>1. CASE fin = TRUE
      BY <2>1, <2>2, <2>4, <3>1 DEF Ends
    <3>2. CASE fin = FALSE
      BY <2>1, <2>2, <2>4, <3>2 DEF Ends
    <3> QED BY <3>1, <3>2
  <2> QED BY <2>3, <2>4
<1>3. PeerOK'
  <2>1. Reaches(peer, wire', buflist', f)
    BY <1>0 DEF Issued
  <2> HIDE DEF f
  <2> QED BY <1>2, <2>1 DEF PeerOK
<1>4. Flags'
  <2>1. /\ ws'.inside = FALSE /\ ws'.drain = pending /\ short' = FALSE
        /\ armed' = (armed \/ pending \/ lws_has_buffered_out \/ buflist' # <<>>)
    BY <1>0 DEF Fragmented, Issued
  <2>2. ping \/ check => armed
    BY <1>0 DEF Flags
  <2>3. lws_has_buffered_out' \/ ws'.drain \/ ping' \/ check' => armed'
    BY <2>1, <2>2 DEF lws_has_buffered_out
  <2> QED BY <2>1, <2>3 DEF Flags
<1> QED BY <1>1, <1>3, <1>4 DEF IInv

\* An empty fragment with no FIN, when a message goes on.
LEMMA IdleFragment ==
  ASSUME IInv, state = "established", pmd, ws.drain, ws.fin = FALSE,
         NEW zz \in ZType, zz.first = FALSE, zz.id = z.id, NEW k,
         WriteFragment("CONTINUATION", FALSE, FALSE, 0, zz, k),
         UNCHANGED <<state, pmd, ping, peer, user>>, ~user.incb, check' \in BOOLEAN, check' => check
  PROVE  IInv'
<1> DEFINE h == Header("CONTINUATION", FALSE, 0)
           d == <<h>>
<1>0. TypeOK /\ Flags /\ ws \in WsType
  BY DEF IInv, TypeOK, WsType
<1>1. PICK e : Reaches(peer, wire, buflist, e) /\ Ends(e, ws, z, user)
  BY DEF IInv, PeerOK
<1>2. e \in Sane
  BY <1>1, PathEnds DEF Reaches
<1>3. e.in = "none" /\ e.open /\ e.id = z.id /\ ~ws.stash /\ user.open /\ user.id = z.id
  BY <1>1 DEF Ends
<1>4. Path(ByteStep, d, e, e) /\ d \in Seq(Byte) /\ d # <<>>
  BY <1>2, <1>3, ParseIdle
<1>5. /\ lws_issue_raw(d, k, FALSE)
      /\ ws' = [ws EXCEPT !.inside = FALSE, !.drain = FALSE, !.fin = @, !.stash = @ /\ ~(0 > 0 /\ ws.stash)]
      /\ z' = IF zz.out THEN [zz EXCEPT !.out = FALSE, !.first = FALSE] ELSE zz
      /\ short' = FALSE
  <2>1. PresendOp("CONTINUATION", zz) = "CONTINUATION"
    BY DEF PresendOp
  <2>2. d \o <<>> = d
    BY <1>4, ConcatEmptySeq
  <2>3. ~(0 > 0) /\ (FALSE /\ ~FALSE) = FALSE
    OBVIOUS
  <2>4. lws_issue_raw(<<Header(PresendOp("CONTINUATION", zz), FALSE /\ ~FALSE, 0)>> \o <<>>, k, FALSE)
    BY <2>3 DEF WriteFragment
  <2>5. lws_issue_raw(d \o <<>>, k, FALSE)
    BY <2>1, <2>4
  <2>6. lws_issue_raw(d, k, FALSE)
    BY <2>2, <2>5
  <2> QED BY <2>3, <2>6 DEF WriteFragment
<1> HIDE DEF d
<1>6. Issued(e, FALSE)
  BY <1>1, <1>4, <1>5, RawIssued
<1>7. ws' \in WsType /\ ws'.inside = FALSE /\ ws'.drain = FALSE /\ ws'.stash = FALSE
  BY <1>0, <1>3, <1>5 DEF WsType
<1>8. z' \in ZType /\ z'.first = FALSE /\ z'.id = z.id
  BY <1>5 DEF ZType
<1>9. TypeOK'
  <2>1. /\ wire' \in Seq(Byte) /\ Len(wire') <= SocketRoom
        /\ buflist' \in Seq(Seq(Byte) \ {<<>>}) /\ armed' \in BOOLEAN
    BY <1>0, <1>6, IssuedKinds
  <2>2. short' \in BOOLEAN
    BY <1>5
  <2> QED BY <1>0, <1>7, <1>8, <2>1, <2>2 DEF TypeOK, WsType, ZType
<1>10. PeerOK'
  <2>1. Ends(e, ws', z', user')
    BY <1>3, <1>7, <1>8 DEF Ends
  <2>2. Reaches(peer', wire', buflist', e)
    BY <1>6 DEF Issued
  <2> QED BY <2>1, <2>2 DEF PeerOK
<1>11. Flags'
  <2>1. armed
    BY <1>0 DEF Flags
  <2>2. armed'
    BY <1>6, <2>1 DEF Issued
  <2> QED BY <1>5, <1>7, <2>2 DEF Flags
<1> QED BY <1>9, <1>10, <1>11 DEF IInv

\* What the extension hands on is a fragment that fits.
LEMMA Deflated ==
  ASSUME NEW e, Reaches(peer, wire, buflist, e), e \in Sane, e.in = "none", ws \in WsType,
         NEW zi \in ZType, zi.id = e.id, NEW op \in DataOp, NEW fin \in BOOLEAN, NEW k,
         op = "TEXT" \/ zi.first \/ ws.stash <=> ~e.open,
         WriteDeflated(op, fin, zi, k)
  PROVE  \E pending \in BOOLEAN : \E zz : zz.id = e.id /\ zz.lost \in BOOLEAN /\ Fragmented(e, fin, pending, zz)
<1>1. ASSUME NEW pending \in BOOLEAN, NEW zz \in ZType, zz.out = TRUE, zz.id = zi.id,
             zz.first <=> zi.first \/ op = "TEXT", WriteFragment(op, fin, pending, 1, zz, k)
      PROVE  zz.id = e.id /\ zz.lost \in BOOLEAN /\ Fragmented(e, fin, pending, zz)
  <2>1. op = "TEXT" \/ zz.first \/ ws.stash <=> ~e.open
    BY <1>1
  <2>2. zz.lost \in BOOLEAN
    BY <1>1 DEF ZType
  <2> QED BY <1>1, <2>1, <2>2, FragmentSent
<1>2. ASSUME zi.n < MaxChunks, NEW left \in BOOLEAN,
             WriteFragment(op, fin, TRUE, 1, [HasPending(op, zi) EXCEPT !.left = left], k)
      PROVE  \E zz : zz.id = e.id /\ zz.lost \in BOOLEAN /\ Fragmented(e, fin, TRUE, zz)
  <2> DEFINE zz == [HasPending(op, zi) EXCEPT !.left = left]
  <2>1. zi.n + 1 \in 0 .. MaxChunks /\ (zi.first \/ op = "TEXT") \in BOOLEAN
    BY <1>2, WsTxAssumption DEF ZType
  <2>2. zz \in ZType /\ zz.out = TRUE /\ zz.id = zi.id /\ (zz.first <=> zi.first \/ op = "TEXT")
    BY <2>1 DEF HasPending, ZType
  <2> HIDE DEF zz
  <2>3. WriteFragment(op, fin, TRUE, 1, zz, k)
    BY <1>2 DEF zz
  <2> QED BY <1>1, <2>2, <2>3
<1>3. ASSUME WriteFragment(op, fin, FALSE, 1, IsEmpty(op, zi), k)
      PROVE  \E zz : zz.id = e.id /\ zz.lost \in BOOLEAN /\ Fragmented(e, fin, FALSE, zz)
  <2> DEFINE zz == IsEmpty(op, zi)
  <2>1. 0 \in 0 .. MaxChunks /\ (zi.first \/ op = "TEXT") \in BOOLEAN
    BY WsTxAssumption
  <2>2. zz \in ZType /\ zz.out = TRUE /\ zz.id = zi.id /\ (zz.first <=> zi.first \/ op = "TEXT")
    BY <2>1 DEF IsEmpty, ZType
  <2> HIDE DEF zz
  <2>3. WriteFragment(op, fin, FALSE, 1, zz, k)
    BY <1>3 DEF zz
  <2> QED BY <1>1, <2>2, <2>3
<1>4. CASE /\ zi.n < MaxChunks
           /\ \E left \in {FALSE, zi.left} :
                WriteFragment(op, fin, TRUE, 1, [HasPending(op, zi) EXCEPT !.left = left], k)
  <2>1. {FALSE, zi.left} \subseteq BOOLEAN
    BY DEF ZType
  <2> QED BY <1>2, <1>4, <2>1
<1>5. CASE WriteFragment(op, fin, FALSE, 1, IsEmpty(op, zi), k)
  BY <1>3, <1>5
<1> QED BY <1>4, <1>5 DEF WriteDeflated

\* What was written so far, and where the peer will be after it.
LEMMA Written ==
  ASSUME IInv, state # "killed"
  PROVE  \E e \in Sane : Reaches(peer, wire, buflist, e) /\ Ends(e, ws, z, user)
<1>1. PICK e : Reaches(peer, wire, buflist, e) /\ Ends(e, ws, z, user)
  BY DEF IInv, PeerOK
<1>2. e \in Sane
  BY <1>1, PathEnds DEF Reaches
<1> QED BY <1>1, <1>2

\* A write of no bytes while the extension is draining keeps the invariant,
\* whatever input is left.
LEMMA DrainingOK ==
  ASSUME IInv, state = "established", ws.drain, ~user.incb, NEW k,
         NEW zi \in ZType, zi.first = z.first, zi.id = z.id, WriteDraining(zi, k),
         UNCHANGED <<state, pmd, user, ping, peer>>, check' \in BOOLEAN, check' => check
  PROVE  IInv'
<1>0. TypeOK /\ ws \in WsType /\ user \in UserType
  BY DEF IInv, TypeOK, WsType, UserType
<1>1. pmd
  BY <1>0 DEF IInv, Flags
<1>2. PICK e \in Sane : Reaches(peer, wire, buflist, e) /\ Ends(e, ws, z, user)
  BY <1>0, Written
<1>3. /\ e.in = "none" /\ e.open /\ e.id = zi.id /\ ~zi.first /\ ~ws.stash
      /\ ws.fin => ~user.open /\ user.id = 1 - zi.id
      /\ ~ws.fin => user.open /\ user.id = zi.id
  BY <1>0, <1>2 DEF Ends
<1>b. ws.fin \in BOOLEAN /\ user.open \in BOOLEAN /\ zi.first \in BOOLEAN /\ "CONTINUATION" \in DataOp
  BY <1>0 DEF WsType, UserType, ZType, DataOp
<1>4. CASE WriteDeflated("CONTINUATION", ws.fin, zi, k)
  <2>1. \E pending \in BOOLEAN : \E zz : zz.id = e.id /\ zz.lost \in BOOLEAN /\ Fragmented(e, ws.fin, pending, zz)
    BY <1>0, <1>2, <1>3, <1>4, <1>b, Deflated
  <2>2. PICK pending \in BOOLEAN : \E zz : zz.id = e.id /\ zz.lost \in BOOLEAN /\ Fragmented(e, ws.fin, pending, zz)
    BY <2>1
  <2>3. PICK zz : zz.id = e.id /\ zz.lost \in BOOLEAN /\ Fragmented(e, ws.fin, pending, zz)
    BY <2>2
  <2>4. user'.open = ~ws.fin /\ user'.id = IF ws.fin THEN 1 - e.id ELSE e.id
    <3>1. CASE ws.fin = TRUE
      BY <1>0, <1>3, <1>b, <3>1
    <3>2. CASE ws.fin = FALSE
      BY <1>0, <1>3, <1>b, <3>2
    <3> QED BY <1>b, <3>1, <3>2
  <2>5. user' \in UserType /\ ~user'.incb
    BY <1>0
  <2> QED BY <1>0, <1>1, <1>3, <1>b, <2>3, <2>4, <2>5, FragmentDone
<1>5. ASSUME ~ws.fin, NEW zz \in {zi, IsEmpty("CONTINUATION", zi)},
             WriteFragment("CONTINUATION", FALSE, FALSE, 0, zz, k)
      PROVE  IInv'
  <2>1. 0 \in 0 .. MaxChunks
    BY WsTxAssumption
  <2>2. zz \in ZType /\ zz.first = FALSE /\ zz.id = z.id
    BY <1>0, <1>3, <1>b, <2>1 DEF IsEmpty, ZType
  <2>3. ws.fin = FALSE
    BY <1>5, <1>b
  <2> QED BY <1>0, <1>1, <1>5, <2>2, <2>3, IdleFragment
<1> QED BY <1>0, <1>4, <1>5 DEF WriteDraining

\* PolloutExtension() keeps the invariant.
LEMMA PolloutExtensionOK == ASSUME IInv, NEW k, PolloutExtension(k) PROVE IInv'
<1>1. z \in ZType /\ check \in BOOLEAN
  BY DEF IInv, TypeOK, ZType
<1> QED BY <1>1, DrainingOK DEF PolloutExtension, Pollout

-----------------------------------------------------------------------------
(* What the user writes *)

\* A write behind what is buffered stays buffered.
LEMMA StillBuffered ==
  ASSUME buflist \in Seq(Segs), lws_has_buffered_out, NEW b \in Segs, NEW k
  PROVE  Buffered(b, k) # <<>>
<1> DEFINE list == Append(buflist, b)
           l == Tail(list)
<1>1. list \in Seq(Segs) /\ list # <<>> /\ Len(list) = Len(buflist) + 1
  BY AppendProperties
<1>2. Len(buflist) \in Nat /\ Len(buflist) # 0
  BY LenProperties, EmptySeq DEF lws_has_buffered_out
<1>3. lws_buflist_append_segment(b) = list
  BY DEF lws_buflist_append_segment, Segs
<1>4. Buffered(b, k) = lws_buflist_use_segment(list, k)
  BY <1>1, <1>3 DEF Buffered
<1> HIDE DEF list
<1>5. l \in Seq(Segs) /\ Len(l) = Len(list) - 1
  BY <1>1, HeadTailProperties
<1>6. Len(l) # 0
  BY <1>1, <1>2, <1>5
<1>7. l # <<>>
  <2> HIDE DEF l
  <2> QED BY <1>6
<1>8. ASSUME NEW c PROVE <<c>> \o l # <<>>
  <2> DEFINE d == <<c>>
  <2>1. d \in Seq({c} \cup Segs) /\ Len(d) = 1
    OBVIOUS
  <2>2. l \in Seq({c} \cup Segs) /\ Len(l) \in Nat
    BY <1>5, SeqMonotonic, LenProperties
  <2> HIDE DEF d, l
  <2>3. Len(d \o l) = Len(d) + Len(l)
    BY <2>1, <2>2, ConcatProperties
  <2>4. Len(d \o l) # 0
    BY <2>1, <2>2, <2>3
  <2>5. d \o l # <<>>
    BY <2>4
  <2> QED BY <2>5 DEF d
<1> QED BY <1>4, <1>7, <1>8 DEF lws_buflist_use_segment

\* What Wrote() makes of the user.
LEMMA WroteIs ==
  ASSUME user \in UserType, NEW fin \in BOOLEAN, NEW blind \in BOOLEAN,
         MayWrite(blind), Wrote(fin, blind)
  PROVE  /\ user' \in UserType /\ user'.open = ~fin /\ user'.wrote = TRUE /\ user'.incb = TRUE
         /\ user'.id = IF fin THEN 1 - user.id ELSE user.id
         /\ blind => user'.blind > 0
         /\ user'.blind >= user.blind
<1>1. user.incb = TRUE /\ user.id \in {0, 1} /\ 1 - user.id \in {0, 1} /\ user.blind \in 0 .. MaxBlind
  BY DEF MayWrite, UserType
<1>2. blind => user.blind + 1 \in 0 .. MaxBlind
  BY <1>1, WsTxAssumption DEF MayWrite
<1>3. user' = [user EXCEPT !.wrote = TRUE, !.open = ~fin,
                           !.blind = IF blind THEN @ + 1 ELSE @,
                           !.id = IF fin THEN 1 - @ ELSE @]
  BY DEF Wrote
<1>4. user' \in UserType
  BY <1>1, <1>2, <1>3 DEF UserType
<1>5. user'.open = ~fin /\ user'.wrote = TRUE /\ user'.incb = TRUE
  BY <1>1, <1>3 DEF UserType
<1>6. user'.id = IF fin THEN 1 - user.id ELSE user.id
  BY <1>3 DEF UserType
<1>7. user'.blind = IF blind THEN user.blind + 1 ELSE user.blind
  BY <1>3 DEF UserType
<1>8. (blind => user'.blind > 0) /\ user'.blind >= user.blind
  BY <1>1, <1>7, WsTxAssumption
<1> QED BY <1>4, <1>5, <1>6, <1>8

\* The user begins messages with TEXT and goes on with CONTINUATION.
LEMMA UserOpIs ==
  ASSUME user.open \in BOOLEAN
  PROVE  UserOp \in DataOp /\ (UserOp = "TEXT" <=> ~user.open)
BY DEF UserOp, DataOp

\* Without the extension.  Continuing inside a frame would take a second blind
\* write in one callback.
LEMMA WritePlainOK ==
  ASSUME IInv, MaxBlind <= 1, NEW fin \in BOOLEAN, NEW k, NEW blind \in BOOLEAN,
         MayWrite(blind), Wrote(fin, blind), ~pmd, WritePlain(UserOp, fin, k),
         UNCHANGED <<state, pmd, ping, check, peer>>
  PROVE  IInv'
<1>0. /\ TypeOK /\ Flags /\ ws \in WsType /\ z \in ZType /\ user \in UserType
      /\ user.incb /\ state = "established"
  BY DEF IInv, Flags, TypeOK, WsType, ZType, UserType, MayWrite
<1>1. PICK e \in Sane : Reaches(peer, wire, buflist, e) /\ Ends(e, ws, z, user)
  BY <1>0, Written
<1>b. user.open \in BOOLEAN /\ user.wrote \in BOOLEAN /\ ws.inside \in BOOLEAN /\ user.blind \in 0 .. MaxBlind
  BY <1>0 DEF UserType, WsType
<1>2. ~ws.drain /\ ~ws.stash /\ ~z.first
  BY <1>0 DEF Flags
<1>3. e.in = "none" /\ e.id = user.id /\ (e.open <=> user.open)
  BY <1>1, <1>2 DEF Ends
<1>4. lws_has_buffered_out => user.wrote /\ blind
  <2>1. lws_has_buffered_out => user.wrote
    BY <1>0 DEF Flags
  <2> QED BY <2>1 DEF MayWrite, lws_send_pipe_choked
<1>5. ~ws.inside
  <2> SUFFICES ASSUME ws.inside PROVE FALSE
    OBVIOUS
  <2>1. user.blind > 0 /\ lws_has_buffered_out
    BY <1>0 DEF Flags
  <2>2. user.blind < MaxBlind
    BY <1>4, <2>1 DEF MayWrite
  <2> QED BY <1>b, <2>1, <2>2, WsTxAssumption
<1> DEFINE bytes == <<Header(UserOp, fin, 1), Payload(user.id, fin, TRUE)>>
           f == After(e, fin, TRUE)
<1>6. /\ lws_issue_raw(bytes, k, FALSE)
      /\ ws' = [ws EXCEPT !.inside = Returned(bytes, k) # Len(bytes)]
      /\ short' = (Returned(bytes, k) # Len(bytes))
      /\ z' = z
  BY <1>5 DEF WritePlain
<1>7. UserOp \in DataOp /\ (UserOp = "TEXT" <=> ~e.open)
  BY <1>3, <1>b, UserOpIs
<1>8. Path(ByteStep, bytes, e, f) /\ bytes \in Seq(Byte) /\ bytes # <<>>
  BY <1>3, <1>7, ParseFrame
<1>9. f.in = "none" /\ f.open = ~fin /\ f.id = IF fin THEN 1 - e.id ELSE e.id
  BY <1>3, AfterIs
<1> HIDE DEF bytes, f
<1>10. Issued(f, FALSE)
  BY <1>1, <1>6, <1>8, RawIssued
<1>11. /\ user' \in UserType /\ user'.open = ~fin /\ user'.wrote = TRUE /\ user'.incb = TRUE
       /\ user'.id = IF fin THEN 1 - user.id ELSE user.id
       /\ blind => user'.blind > 0
  BY <1>0, WroteIs
<1>12. /\ ws' \in WsType /\ ws'.drain = ws.drain /\ ws'.stash = ws.stash /\ ws'.fin = ws.fin
       /\ short' \in BOOLEAN /\ short' = ws'.inside
  BY <1>0, <1>6 DEF WsType
<1>13. TypeOK'
  <2>1. /\ wire' \in Seq(Byte) /\ Len(wire') <= SocketRoom
        /\ buflist' \in Seq(Seq(Byte) \ {<<>>}) /\ armed' \in BOOLEAN
    BY <1>0, <1>10, IssuedKinds
  <2>2. z' \in ZType
    BY <1>0, <1>6
  <2> QED BY <1>0, <1>11, <1>12, <2>1, <2>2 DEF TypeOK, WsType, UserType, ZType
<1>14. PeerOK'
  <2>1. Ends(f, ws', z', user')
    <3>1. f.open <=> user'.open
      BY <1>9, <1>11
    <3> QED BY <1>2, <1>3, <1>6, <1>9, <1>11, <1>12, <3>1 DEF Ends
  <2>2. Reaches(peer', wire', buflist', f)
    BY <1>10 DEF Issued
  <2> QED BY <1>0, <2>1, <2>2 DEF PeerOK
<1>15. ws'.inside => lws_has_buffered_out' /\ user'.blind > 0
  <2> SUFFICES ASSUME ws'.inside PROVE lws_has_buffered_out' /\ user'.blind > 0
    OBVIOUS
  <2>1. Returned(bytes, k) # Len(bytes)
    BY <1>6, <1>12
  <2>2. lws_has_buffered_out
    BY <2>1 DEF Returned
  <2>3. bytes \in Segs /\ buflist \in Seq(Segs)
    BY <1>1, <1>8 DEF Segs, Reaches
  <2>4. Buffered(bytes, k) # <<>>
    BY <2>2, <2>3, StillBuffered
  <2>5. lws_has_buffered_out'
    BY <1>6, <2>4 DEF lws_has_buffered_out, lws_issue_raw
  <2> QED BY <1>4, <1>11, <2>2, <2>5
<1>16. Flags'
  <2>1. lws_has_buffered_out' \/ ping' \/ check' => armed'
    BY <1>0, <1>10 DEF Issued, Flags, lws_has_buffered_out
  <2> QED BY <1>0, <1>2, <1>6, <1>11, <1>12, <1>15, <2>1 DEF Flags
<1> QED BY <1>13, <1>14, <1>16 DEF IInv

\* UserWrites() keeps the invariant if a callback writes blindly once at
\* most.
LEMMA UserWritesOK ==
  ASSUME IInv, MaxBlind <= 1, NEW fin \in BOOLEAN, NEW k, UserWrites(fin, k)
  PROVE  IInv'
<1>1. PICK blind \in BOOLEAN : MayWrite(blind) /\ Wrote(fin, blind)
  BY DEF UserWrites
<1>2. UNCHANGED <<state, pmd, ping, check, peer>>
  BY DEF UserWrites
<1>3. CASE ~pmd /\ WritePlain(UserOp, fin, k)
  BY <1>1, <1>2, <1>3, WritePlainOK
<1>0. /\ TypeOK /\ Flags /\ ws \in WsType /\ z \in ZType /\ user \in UserType
      /\ user.incb /\ state = "established"
  BY <1>1 DEF IInv, Flags, TypeOK, WsType, ZType, UserType, MayWrite
<1>4. PICK e \in Sane : Reaches(peer, wire, buflist, e) /\ Ends(e, ws, z, user)
  BY <1>0, Written
<1>b. /\ user.open \in BOOLEAN /\ user.wrote \in BOOLEAN /\ user.id \in {0, 1}
      /\ z.first \in BOOLEAN /\ ws.stash \in BOOLEAN /\ e.open \in BOOLEAN
  BY <1>0 DEF UserType, WsType, ZType, Sane
<1>5. pmd => ~ws.drain /\ ~ws.inside
  <2>1. ASSUME pmd PROVE ~ws.drain
    <3>1. CASE ~user.wrote
      BY <1>0, <3>1 DEF Flags
    <3>2. CASE user.wrote
      BY <1>1, <2>1, <3>2 DEF MayWrite, lws_send_pipe_choked
    <3> QED BY <3>1, <3>2
  <2> QED BY <1>0, <2>1 DEF Flags
<1>6. UserOp \in DataOp /\ (UserOp = "TEXT" <=> ~user.open)
  BY <1>b, UserOpIs
<1>7. /\ user' \in UserType /\ user'.open = ~fin /\ user'.wrote = TRUE /\ user'.incb = TRUE
      /\ user'.id = IF fin THEN 1 - user.id ELSE user.id
  BY <1>0, <1>1, WroteIs
<1>8. CASE pmd /\ WriteDeflated(UserOp, fin, [z EXCEPT !.id = user.id, !.n = 0, !.left = TRUE], k)
  <2> DEFINE zi == [z EXCEPT !.id = user.id, !.n = 0, !.left = TRUE]
  <2>0. 0 \in 0 .. MaxChunks
    BY WsTxAssumption
  <2>1. zi \in ZType /\ zi.id = user.id /\ zi.first = z.first
    BY <1>0, <1>b, <2>0 DEF ZType
  <2>2. /\ e.in = "none" /\ e.id = user.id /\ (e.open <=> user.open /\ ~z.first)
        /\ (z.first => user.open) /\ (ws.stash => z.first)
    BY <1>4, <1>5, <1>8 DEF Ends
  <2>3. WriteDeflated(UserOp, fin, zi, k)
    BY <1>8
  <2> HIDE DEF zi
  <2>4. UserOp = "TEXT" \/ zi.first \/ ws.stash <=> ~e.open
    BY <1>6, <1>b, <2>1, <2>2
  <2>5. \E pending \in BOOLEAN : \E zz : zz.id = e.id /\ zz.lost \in BOOLEAN /\ Fragmented(e, fin, pending, zz)
    BY <1>0, <1>4, <1>6, <2>1, <2>2, <2>3, <2>4, Deflated
  <2>6. PICK pending \in BOOLEAN : \E zz : zz.id = e.id /\ zz.lost \in BOOLEAN /\ Fragmented(e, fin, pending, zz)
    BY <2>5
  <2>7. PICK zz : zz.id = e.id /\ zz.lost \in BOOLEAN /\ Fragmented(e, fin, pending, zz)
    BY <2>6
  <2>8. user'.id = IF fin THEN 1 - e.id ELSE e.id
    BY <1>7, <2>2
  <2>9. check' \in BOOLEAN /\ (check' => check) /\ UNCHANGED <<state, pmd, ping, peer>>
    BY <1>0, <1>2 DEF TypeOK
  <2>10. user'.incb => user'.wrote
    BY <1>7
  <2> QED BY <1>0, <1>7, <1>8, <2>2, <2>7, <2>8, <2>9, <2>10, FragmentDone
<1>9. CASE pmd /\ ~fin /\ WriteSwallowed(UserOp)
  <2>1. /\ ws' = [ws EXCEPT !.drain = FALSE, !.stash = @ \/ UserOp = "TEXT"]
        /\ z' = [IsEmpty(UserOp, z) EXCEPT !.id = user.id]
        /\ short' = FALSE
        /\ UNCHANGED <<armed, buflist, wire>>
    BY <1>9 DEF WriteSwallowed
  <2>2. /\ e.in = "none" /\ e.id = user.id /\ (e.open <=> user.open /\ ~z.first)
        /\ (z.first => user.open) /\ (ws.stash => z.first)
    BY <1>4, <1>5, <1>9 DEF Ends
  <2>3. /\ ws' \in WsType /\ ws'.drain = FALSE /\ ws'.inside = ws.inside
        /\ (ws'.stash <=> ws.stash \/ UserOp = "TEXT")
    <3>1. (ws.stash \/ UserOp = "TEXT") \in BOOLEAN
      OBVIOUS
    <3> QED BY <1>0, <2>1, <3>1 DEF WsType
  <2>4. z' \in ZType /\ (z'.first <=> z.first \/ UserOp = "TEXT")
    <3>1. (z.first \/ UserOp = "TEXT") \in BOOLEAN /\ 0 \in 0 .. MaxChunks
      BY WsTxAssumption
    <3> QED BY <1>0, <1>b, <2>1, <3>1 DEF ZType, IsEmpty
  <2>5. TypeOK'
    BY <1>0, <1>2, <1>7, <2>1, <2>3, <2>4 DEF TypeOK, WsType, ZType, UserType
  <2>6. Ends(e, ws', z', user')
    <3>1. user'.open /\ user'.id = user.id
      BY <1>7, <1>9
    <3>2. e.open <=> ~z'.first
      BY <1>6, <2>2, <2>4
    <3> QED BY <2>2, <2>3, <2>4, <3>1, <3>2 DEF Ends
  <2>7. PeerOK'
    BY <1>0, <1>2, <1>4, <2>1, <2>6 DEF PeerOK
  <2>8. Flags'
    BY <1>0, <1>2, <1>5, <1>7, <1>9, <2>1, <2>3 DEF Flags, lws_has_buffered_out
  <2> QED BY <2>5, <2>7, <2>8 DEF IInv
<1> QED BY <1>3, <1>8, <1>9 DEF UserWrites

-----------------------------------------------------------------------------
(* The other steps of lws_handle_POLLOUT_event() *)

\* PolloutBuffered() keeps the invariant.
LEMMA PolloutBufferedOK == ASSUME IInv, NEW k, PolloutBuffered(k) PROVE IInv'
<1>0. /\ TypeOK /\ Flags /\ ws \in WsType /\ state \in {"established", "flushing"}
      /\ lws_has_buffered_out /\ ~user.incb /\ armed
  BY DEF IInv, TypeOK, WsType, PolloutBuffered, Pollout
<1>1. PICK e \in Sane : Reaches(peer, wire, buflist, e) /\ Ends(e, ws, z, user)
  BY <1>0, Written
<1>2. /\ lws_issue_raw(<<>>, k, FALSE)
      /\ ws' = [ws EXCEPT !.inside = @ /\ buflist' # <<>>]
      /\ state' = IF state = "flushing" /\ buflist' = <<>> THEN "closed" ELSE state
      /\ UNCHANGED <<pmd, user, ping, check, z, peer, short>>
  BY DEF PolloutBuffered
<1>3. Path(ByteStep, <<>>, e, e) /\ <<>> \in Seq(Byte)
  BY PathEmpty, EmptySeq
<1>4. Issued(e, FALSE)
  BY <1>0, <1>1, <1>2, <1>3, RawIssued
<1>5. /\ ws' \in WsType /\ ws'.drain = ws.drain /\ ws'.stash = ws.stash /\ ws'.fin = ws.fin
      /\ (ws'.inside <=> ws.inside /\ buflist' # <<>>)
  BY <1>0, <1>2 DEF WsType
<1>6. TypeOK'
  <2>1. /\ wire' \in Seq(Byte) /\ Len(wire') <= SocketRoom
        /\ buflist' \in Seq(Seq(Byte) \ {<<>>}) /\ armed' \in BOOLEAN
    BY <1>0, <1>4, IssuedKinds
  <2>2. state' \in {"established", "flushing", "closed", "killed"}
    BY <1>0, <1>2
  <2> QED BY <1>0, <1>2, <1>5, <2>1, <2>2 DEF TypeOK, WsType
<1>7. PeerOK'
  <2>1. Ends(e, ws', z', user')
    BY <1>1, <1>2, <1>5 DEF Ends
  <2>2. Reaches(peer', wire', buflist', e)
    BY <1>2, <1>4 DEF Issued
  <2> QED BY <1>0, <1>2, <2>1, <2>2 DEF PeerOK
<1>8. Flags'
  <2>1. armed'
    BY <1>0, <1>4 DEF Issued
  <2> QED BY <1>0, <1>2, <1>5, <2>1 DEF Flags, lws_has_buffered_out
<1> QED BY <1>6, <1>7, <1>8 DEF IInv

\* PolloutPong() keeps the invariant.
LEMMA PolloutPongOK == ASSUME IInv, NEW k, PolloutPong(k) PROVE IInv'
<1> DEFINE h == Header("PONG", TRUE, 0)
           d == <<h>>
<1>0. /\ TypeOK /\ Flags /\ state = "established" /\ ~lws_has_buffered_out /\ ~user.incb /\ armed
  BY DEF IInv, PolloutPong, Pollout
<1>1. PICK e \in Sane : Reaches(peer, wire, buflist, e) /\ Ends(e, ws, z, user)
  BY <1>0, Written
<1>2. /\ lws_issue_raw(d, k, FALSE)
      /\ ping' = FALSE
      /\ UNCHANGED <<state, pmd, user, check, ws, z, peer, short>>
  BY DEF PolloutPong
<1>3. Path(ByteStep, d, e, e) /\ d \in Seq(Byte) /\ d # <<>>
  BY <1>1, ParseIdle DEF Ends
<1> HIDE DEF d
<1>4. Issued(e, FALSE)
  BY <1>1, <1>2, <1>3, RawIssued
<1>5. TypeOK'
  <2>1. /\ wire' \in Seq(Byte) /\ Len(wire') <= SocketRoom
        /\ buflist' \in Seq(Seq(Byte) \ {<<>>}) /\ armed' \in BOOLEAN
    BY <1>0, <1>4, IssuedKinds
  <2>2. ping' \in BOOLEAN /\ UNCHANGED <<state, pmd, user, check, ws, z, peer, short>>
    BY <1>2
  <2> QED BY <1>0, <2>1, <2>2 DEF TypeOK
<1>6. PeerOK'
  <2>1. Reaches(peer', wire', buflist', e)
    BY <1>2, <1>4 DEF Issued
  <2> QED BY <1>0, <1>1, <1>2, <2>1 DEF PeerOK
<1>7. Flags'
  <2>1. armed'
    BY <1>0, <1>4 DEF Issued
  <2>2. ~ws.inside
    BY <1>0 DEF Flags
  <2> QED BY <1>0, <1>2, <2>1, <2>2 DEF Flags
<1> QED BY <1>5, <1>6, <1>7 DEF IInv

\* PolloutPing() keeps the invariant: the PING goes between frames, or the
\* write drains the extension.
LEMMA PolloutPingOK == ASSUME IInv, NEW k, PolloutPing(k) PROVE IInv'
<1> DEFINE h == Header("PING", TRUE, 0)
           d == <<h>>
           zi == [z EXCEPT !.left = FALSE, !.lost = @ \/ z.left]
<1>0. /\ TypeOK /\ Flags /\ state = "established" /\ ~lws_has_buffered_out /\ ~user.incb /\ armed
      /\ z \in ZType /\ check /\ check' = FALSE
      /\ UNCHANGED <<state, pmd, user, ping, peer>>
  BY DEF IInv, TypeOK, ZType, PolloutPing, Pollout
<1>1. CASE ws.drain
  <2>1. (z.lost \/ z.left) \in BOOLEAN
    OBVIOUS
  <2>2. zi \in ZType /\ zi.first = z.first /\ zi.id = z.id
    BY <1>0, <2>1 DEF ZType
  <2>3. WriteDraining(zi, k)
    BY <1>1 DEF PolloutPing
  <2> HIDE DEF zi
  <2> QED BY <1>0, <1>1, <2>2, <2>3, DrainingOK
<1>2. CASE ~ws.drain
  <2>0. lws_issue_raw(d, k, FALSE) /\ UNCHANGED <<ws, z, short>>
    BY <1>2 DEF PolloutPing
  <2>1. PICK e \in Sane : Reaches(peer, wire, buflist, e) /\ Ends(e, ws, z, user)
    BY <1>0, Written
  <2>3. Path(ByteStep, d, e, e) /\ d \in Seq(Byte) /\ d # <<>>
    BY <2>1, ParseIdle DEF Ends
  <2> HIDE DEF d
  <2>4. Issued(e, FALSE)
    BY <2>0, <2>1, <2>3, RawIssued
  <2>5. TypeOK'
    <3>1. /\ wire' \in Seq(Byte) /\ Len(wire') <= SocketRoom
          /\ buflist' \in Seq(Seq(Byte) \ {<<>>}) /\ armed' \in BOOLEAN
      BY <1>0, <2>4, IssuedKinds
    <3>2. check' \in BOOLEAN /\ UNCHANGED <<state, pmd, user, ping, ws, z, peer, short>>
      BY <1>0, <2>0
    <3> QED BY <1>0, <3>1, <3>2 DEF TypeOK
  <2>6. PeerOK'
    <3>1. Reaches(peer', wire', buflist', e)
      BY <1>0, <2>4 DEF Issued
    <3> QED BY <1>0, <2>0, <2>1, <3>1 DEF PeerOK
  <2>7. Flags'
    <3>1. armed'
      BY <1>0, <2>4 DEF Issued
    <3>2. ~ws.inside
      BY <1>0 DEF Flags
    <3> QED BY <1>0, <2>0, <3>1, <3>2 DEF Flags
  <2> QED BY <2>5, <2>6, <2>7 DEF IInv
<1> QED BY <1>1, <1>2

\* A build whose assert() ends the process keeps the invariant.
LEMMA PolloutPingAssertsOK == ASSUME IInv, PolloutPingAsserts PROVE IInv'
<1>0. TypeOK /\ Flags /\ state # "killed" /\ ~user.incb
  BY DEF IInv, PolloutPingAsserts, Pollout
<1>1. /\ state' = "killed" /\ buflist' = <<>>
      /\ UNCHANGED <<armed, pmd, user, ping, check, ws, z, wire, peer, short>>
  BY DEF PolloutPingAsserts
<1>2. buflist' \in Seq(Seq(Byte) \ {<<>>})
  BY <1>1, EmptySeq
<1>4. TypeOK'
  BY <1>0, <1>1, <1>2 DEF TypeOK
<1>5. PeerOK'
  BY <1>0, <1>1 DEF IInv, PeerOK, Reaches
<1>6. Flags'
  BY <1>0, <1>1 DEF Flags
<1> QED BY <1>4, <1>5, <1>6 DEF IInv

\* PolloutUser keeps the invariant.
LEMMA PolloutUserOK == ASSUME IInv, PolloutUser PROVE IInv'
<1>0. /\ TypeOK /\ Flags /\ user \in UserType /\ state = "established"
      /\ ~lws_has_buffered_out /\ ~ping /\ ~check /\ ~ws.drain
  BY DEF IInv, TypeOK, UserType, PolloutUser
<1>1. /\ armed' = FALSE /\ short' = FALSE
      /\ user' = [user EXCEPT !.incb = TRUE, !.wrote = FALSE, !.blind = 0]
      /\ UNCHANGED <<state, pmd, ping, check, ws, z, buflist, wire, peer>>
  BY DEF PolloutUser
<1>2. 0 \in 0 .. MaxBlind
  BY WsTxAssumption
<1>3. user' \in UserType /\ user'.open = user.open /\ user'.id = user.id
  BY <1>0, <1>1, <1>2 DEF UserType
<1>4. TypeOK'
  <2>1. armed' \in BOOLEAN /\ short' \in BOOLEAN /\ UNCHANGED <<state, pmd, ping, check, ws, z, buflist, wire, peer>>
    BY <1>1
  <2> QED BY <1>0, <1>3, <2>1 DEF TypeOK, UserType
<1>5. PeerOK'
  <2>1. PICK e : Reaches(peer, wire, buflist, e) /\ Ends(e, ws, z, user)
    BY <1>0 DEF IInv, PeerOK
  <2>2. Ends(e, ws', z', user')
    BY <1>1, <1>3, <2>1 DEF Ends
  <2> QED BY <1>0, <1>1, <2>1, <2>2 DEF PeerOK
<1>6. Flags'
  <2>1. ~ws.inside
    BY <1>0 DEF Flags
  <2> QED BY <1>0, <1>1, <2>1 DEF Flags, lws_has_buffered_out
<1> QED BY <1>4, <1>5, <1>6 DEF IInv

\* UserReturns keeps the invariant.
LEMMA UserReturnsOK == ASSUME IInv, UserReturns PROVE IInv'
<1>0. TypeOK /\ Flags /\ user \in UserType /\ state = "established"
  BY DEF IInv, Flags, TypeOK, UserType, UserReturns
<1>1. /\ user' = [user EXCEPT !.incb = FALSE]
      /\ (armed => armed') /\ armed' \in BOOLEAN
      /\ UNCHANGED <<state, pmd, ping, check, ws, z, buflist, wire, peer, short>>
  BY DEF UserReturns
<1>3. /\ user' \in UserType /\ user'.open = user.open /\ user'.id = user.id
      /\ user'.blind = user.blind /\ user'.incb = FALSE
  BY <1>0, <1>1 DEF UserType
<1>4. TypeOK'
  BY <1>0, <1>1, <1>3 DEF TypeOK, UserType
<1>5. PeerOK'
  <2>1. PICK e : Reaches(peer, wire, buflist, e) /\ Ends(e, ws, z, user)
    BY <1>0 DEF IInv, PeerOK
  <2>2. Ends(e, ws', z', user')
    BY <1>1, <1>3, <2>1 DEF Ends
  <2> QED BY <1>0, <1>1, <2>1, <2>2 DEF PeerOK
<1>6. Flags'
  BY <1>0, <1>1, <1>3 DEF Flags, lws_has_buffered_out
<1> QED BY <1>4, <1>5, <1>6 DEF IInv

\* UserAsks keeps the invariant.
LEMMA UserAsksOK == ASSUME IInv, UserAsks PROVE IInv'
<1>1. TypeOK'
  BY DEF IInv, TypeOK, UserAsks
<1>2. PeerOK'
  BY DEF IInv, PeerOK, UserAsks
<1>3. Flags'
  BY DEF IInv, Flags, UserAsks, lws_has_buffered_out
<1> QED BY <1>1, <1>2, <1>3 DEF IInv

\* PingArrives keeps the invariant.
LEMMA PingArrivesOK == ASSUME IInv, PingArrives PROVE IInv'
<1>1. TypeOK'
  BY DEF IInv, TypeOK, PingArrives
<1>2. PeerOK'
  BY DEF IInv, PeerOK, PingArrives
<1>3. Flags'
  BY DEF IInv, Flags, PingArrives, lws_has_buffered_out
<1> QED BY <1>1, <1>2, <1>3 DEF IInv

\* rops_issue_keepalive_ws() keeps the invariant.
LEMMA KeepaliveOK == ASSUME IInv, rops_issue_keepalive_ws PROVE IInv'
<1>1. TypeOK'
  BY DEF IInv, TypeOK, rops_issue_keepalive_ws
<1>2. PeerOK'
  BY DEF IInv, PeerOK, rops_issue_keepalive_ws
<1>3. Flags'
  BY DEF IInv, Flags, rops_issue_keepalive_ws, lws_has_buffered_out
<1> QED BY <1>1, <1>2, <1>3 DEF IInv

\* Close keeps the invariant.
LEMMA CloseOK == ASSUME IInv, Close PROVE IInv'
<1>0. TypeOK /\ Flags /\ user \in UserType /\ state = "established"
  BY DEF IInv, TypeOK, UserType, Close
<1>1. /\ user' = [user EXCEPT !.incb = FALSE]
      /\ state' = IF lws_has_buffered_out THEN "flushing" ELSE "closed"
      /\ UNCHANGED <<armed, pmd, ping, check, ws, z, buflist, wire, peer, short>>
  BY DEF Close
<1>3. /\ user' \in UserType /\ user'.open = user.open /\ user'.id = user.id
      /\ user'.blind = user.blind /\ user'.incb = FALSE
  BY <1>0, <1>1 DEF UserType
<1>4. TypeOK'
  BY <1>0, <1>1, <1>3 DEF TypeOK, UserType
<1>5. PeerOK'
  <2>1. PICK e : Reaches(peer, wire, buflist, e) /\ Ends(e, ws, z, user)
    BY <1>0 DEF IInv, PeerOK
  <2>2. Ends(e, ws', z', user')
    BY <1>1, <1>3, <2>1 DEF Ends
  <2> QED BY <1>0, <1>1, <2>1, <2>2 DEF PeerOK
<1>6. Flags'
  BY <1>0, <1>1, <1>3 DEF Flags, lws_has_buffered_out
<1> QED BY <1>4, <1>5, <1>6 DEF IInv

\* Killed keeps the invariant.
LEMMA KilledOK == ASSUME IInv, Killed PROVE IInv'
<1>0. TypeOK /\ Flags /\ user \in UserType /\ state # "killed"
  BY DEF IInv, TypeOK, UserType, Killed
<1>1. /\ user' = [user EXCEPT !.incb = FALSE]
      /\ state' = "killed" /\ buflist' = <<>>
      /\ UNCHANGED <<armed, pmd, ping, check, ws, z, wire, peer, short>>
  BY DEF Killed
<1>2. buflist' \in Seq(Seq(Byte) \ {<<>>})
  BY <1>1, EmptySeq
<1>3. user' \in UserType /\ user'.blind = user.blind /\ user'.incb = FALSE
  BY <1>0, <1>1 DEF UserType
<1>4. TypeOK'
  BY <1>0, <1>1, <1>2, <1>3 DEF TypeOK, UserType
<1>5. PeerOK'
  BY <1>0, <1>1 DEF IInv, PeerOK, Reaches
<1>6. Flags'
  BY <1>0, <1>1, <1>3 DEF Flags
<1> QED BY <1>4, <1>5, <1>6 DEF IInv

\* PeerReads keeps the invariant.
LEMMA PeerReadsOK == ASSUME IInv, PeerReads PROVE IInv'
<1>0. /\ TypeOK /\ wire \in Seq(Byte) /\ wire # <<>> /\ wire' = Tail(wire)
      /\ peer' = PeerParses(peer, Head(wire)) /\ Len(wire) <= SocketRoom
      /\ UNCHANGED <<state, armed, pmd, user, ping, check, ws, z, buflist, short>>
  BY DEF IInv, TypeOK, PeerReads
<1>1. ASSUME NEW m, Path(ByteStep, wire, peer, m)
      PROVE  peer' \in Sane /\ wire' \in Seq(Byte) /\ Path(ByteStep, wire', peer', m)
  <2>1. Tail(wire) \in Seq(Byte)
    BY <1>0, HeadTailProperties
  <2>2. PICK q \in Sane : <<peer, Head(wire), q>> \in ByteStep /\ Path(ByteStep, Tail(wire), q, m)
    BY <1>0, <1>1, PathHead
  <2>3. q = PeerParses(peer, Head(wire))
    BY <2>2 DEF ByteStep
  <2> QED BY <1>0, <2>1, <2>2, <2>3
<1>2. \E m : Path(ByteStep, wire, peer, m)
  BY DEF IInv, PeerOK, Reaches
<1>3. TypeOK'
  <2>1. Len(wire') <= SocketRoom
    <3>1. Len(Tail(wire)) = Len(wire) - 1 /\ Len(wire) \in Nat
      BY <1>0, HeadTailProperties, LenProperties
    <3> QED BY <1>0, <3>1, WsTxAssumption
  <2>2. peer' \in Sane /\ wire' \in Seq(Byte)
    BY <1>1, <1>2
  <2>3. peer' \in [in : DataOp \cup {"none"}, fin : BOOLEAN, open : BOOLEAN, id : {0, 1}, ok : BOOLEAN,
                  whole : BOOLEAN]
    BY <2>2 DEF Sane
  <2> QED BY <1>0, <2>1, <2>2, <2>3 DEF TypeOK
<1>4. PeerOK'
  <2>1. CASE state = "killed"
    BY <1>0, <1>1, <1>2, <2>1 DEF PeerOK
  <2>2. CASE state # "killed"
    <3>1. PICK e : Reaches(peer, wire, buflist, e) /\ Ends(e, ws, z, user)
      BY <2>2 DEF IInv, PeerOK
    <3>2. Reaches(peer', wire', buflist', e)
      BY <1>0, <1>1, <3>1 DEF Reaches
    <3> QED BY <1>0, <2>2, <3>1, <3>2 DEF PeerOK
  <2> QED BY <2>1, <2>2
<1>5. Flags'
  BY <1>0 DEF IInv, Flags, lws_has_buffered_out
<1> QED BY <1>3, <1>4, <1>5 DEF IInv

-----------------------------------------------------------------------------
(* Nothing is missing from the messages unless the keepalive threw it away *)

Whole == {b \in Byte : b[1] = "payload" => b[4]}

WholeSegs == Seq(Whole) \ {<<>>}

Kept == z.lost \/ (peer.whole /\ wire \in Seq(Whole) /\ buflist \in Seq(WholeSegs))

\* Sequences of one and of two elements.
LEMMA ShortSeq ==
  ASSUME NEW S, NEW x \in S, NEW y \in S
  PROVE  <<x>> \in Seq(S) /\ <<x, y>> \in Seq(S)
OBVIOUS

\* A part of whole bytes is whole.
LEMMA WholePart ==
  ASSUME NEW s \in Seq(Whole), NEW i \in 1 .. Len(s) + 1, NEW j \in 0 .. Len(s)
  PROVE  SubSeq(s, i, j) \in Seq(Whole) /\ Len(SubSeq(s, i, j)) = IF i <= j THEN j - i + 1 ELSE 0
<1>1. Len(s) \in Nat /\ \A n \in 1 .. Len(s) : s[n] \in Whole
  BY LenProperties, ElementOfSeq
<1>2. \A n \in i .. j : s[n] \in Whole
  BY <1>1
<1> QED BY <1>1, <1>2, SubSeqProperties

\* lws_issue_raw() makes nothing up.
LEMMA WholeIssued ==
  ASSUME wire \in Seq(Whole), buflist \in Seq(WholeSegs), NEW b \in Seq(Whole), NEW k, NEW ask,
         lws_issue_raw(b, k, ask)
  PROVE  wire' \in Seq(Whole) /\ buflist' \in Seq(WholeSegs)
<1> DEFINE list == lws_buflist_append_segment(b)
           s == Segment(b)
           a == SubSeq(s, 1, k)
           c == SubSeq(s, k + 1, Len(s))
<1>1. k \in 0 .. Len(s) /\ wire' = wire \o a /\ buflist' = Buffered(b, k)
  BY DEF lws_issue_raw
<1>2. list \in Seq(WholeSegs)
  <2>1. b # <<>> => b \in WholeSegs
    BY DEF WholeSegs
  <2>2. b # <<>> => Append(buflist, b) \in Seq(WholeSegs)
    BY <2>1, AppendProperties
  <2> QED BY <2>2 DEF lws_buflist_append_segment
<1>3. s \in Seq(Whole) /\ (list # <<>> => s = Head(list)) /\ (list = <<>> => s = b)
  <2>1. CASE list # <<>>
    <3>1. Head(list) \in WholeSegs /\ s = Head(list)
      BY <1>2, <2>1, HeadTailProperties DEF Segment
    <3> QED BY <2>1, <3>1 DEF WholeSegs
  <2>2. CASE list = <<>>
    BY <2>2 DEF Segment
  <2> QED BY <2>1, <2>2
<1>4. Buffered(b, k) = IF list # <<>> THEN lws_buflist_use_segment(list, k)
                       ELSE IF k < Len(b) THEN <<SubSeq(b, k + 1, Len(b))>> ELSE <<>>
  BY DEF Buffered
<1> HIDE DEF s, list
<1>5. Len(s) \in Nat
  BY <1>3, LenProperties
<1>6. a \in Seq(Whole) /\ c \in Seq(Whole) /\ Len(c) = IF k + 1 <= Len(s) THEN Len(s) - (k + 1) + 1 ELSE 0
  <2>1. 1 \in 1 .. Len(s) + 1 /\ k + 1 \in 1 .. Len(s) + 1 /\ Len(s) \in 0 .. Len(s)
    BY <1>1, <1>5
  <2> QED BY <1>1, <1>3, <2>1, WholePart
<1>7. k # Len(s) => c \in WholeSegs
  <2>1. k # Len(s) => Len(c) # 0
    BY <1>1, <1>5, <1>6
  <2> HIDE DEF c
  <2> QED BY <1>6, <2>1, EmptySeq DEF WholeSegs
<1>8. wire' \in Seq(Whole)
  <2> HIDE DEF a
  <2> QED BY <1>1, <1>6, ConcatProperties
<1>9. CASE list # <<>>
  <2>1. Tail(list) \in Seq(WholeSegs) /\ s = Head(list)
    BY <1>2, <1>3, <1>9, HeadTailProperties
  <2>2. buflist' = IF k = Len(s) THEN Tail(list) ELSE <<c>> \o Tail(list)
    BY <1>1, <1>4, <1>9, <2>1 DEF lws_buflist_use_segment
  <2>3. CASE k = Len(s)
    BY <1>8, <2>1, <2>2, <2>3
  <2>4. CASE k # Len(s)
    <3> DEFINE d == <<c>>
    <3>1. d \in Seq(WholeSegs)
      BY <1>7, <2>4
    <3> HIDE DEF d
    <3>2. d \o Tail(list) \in Seq(WholeSegs)
      BY <2>1, <3>1, ConcatProperties
    <3> QED BY <1>8, <2>2, <2>4, <3>2 DEF d
  <2> QED BY <2>3, <2>4
<1>10. CASE list = <<>>
  <2>1. buflist' = IF k < Len(s) THEN <<c>> ELSE <<>>
    BY <1>1, <1>3, <1>4, <1>10
  <2>2. CASE k < Len(s)
    <3>1. c \in WholeSegs
      BY <1>5, <1>7, <2>2
    <3> HIDE DEF c
    <3> QED BY <1>8, <2>1, <2>2, <3>1
  <2>3. CASE ~(k < Len(s))
    BY <1>8, <2>1, <2>3, EmptySeq
  <2> QED BY <2>2, <2>3
<1> QED BY <1>9, <1>10

\* Headers are whole, and a payload as much as it says.
LEMMA WholeBytes ==
  ASSUME NEW op \in DataOp \cup {"PING", "PONG"}, NEW fin \in BOOLEAN, NEW len \in {0, 1},
         NEW id \in {0, 1}, NEW last \in BOOLEAN
  PROVE  Header(op, fin, len) \in Whole /\ Payload(id, last, TRUE) \in Whole
<1>1. Header(op, fin, len) \in Byte /\ Header(op, fin, len)[1] = "header"
  BY DEF Header, Byte
<1>2. Payload(id, last, TRUE) \in Byte /\ Payload(id, last, TRUE)[4] = TRUE
  BY DEF Payload, Byte
<1> QED BY <1>1, <1>2 DEF Whole

\* A fragment of an extension that has lost nothing is whole.
LEMMA FragmentKept ==
  ASSUME Kept, NEW op \in DataOp, NEW fin \in BOOLEAN, NEW pending \in BOOLEAN, NEW len \in {0, 1},
         NEW zz \in ZType, z.lost => zz.lost, NEW k,
         WriteFragment(op, fin, pending, len, zz, k), UNCHANGED peer
  PROVE  Kept'
<1> DEFINE eff == PresendOp(IF len > 0 /\ ws.stash THEN "TEXT" ELSE op, zz)
           last == fin /\ ~pending
           h == <<Header(eff, last, len)>>
           d == IF len > 0 THEN <<Payload(zz.id, last, ~zz.lost)>> ELSE <<>>
           bytes == h \o d
<1>1. lws_issue_raw(bytes, k, pending)
  BY DEF WriteFragment
<1>2. z'.lost = zz.lost
  BY DEF WriteFragment, ZType
<1>3. CASE zz.lost
  BY <1>2, <1>3 DEF Kept
<1>4. CASE ~zz.lost
  <2>1. eff \in DataOp /\ last \in BOOLEAN /\ zz.id \in {0, 1} /\ ~zz.lost = TRUE
    BY <1>4 DEF PresendOp, DataOp, ZType
  <2> HIDE DEF eff, last
  <2>2. Header(eff, last, len) \in Whole /\ Payload(zz.id, last, TRUE) \in Whole
    BY <2>1, WholeBytes
  <2>3. h \in Seq(Whole) /\ d \in Seq(Whole)
    <3>1. d = IF len > 0 THEN <<Payload(zz.id, last, TRUE)>> ELSE <<>>
      BY <2>1
    <3>2. h \in Seq(Whole) /\ <<Payload(zz.id, last, TRUE)>> \in Seq(Whole)
      BY <2>2, ShortSeq, Zenon
    <3>3. CASE len > 0
      BY <3>1, <3>2, <3>3, Zenon
    <3>4. CASE ~(len > 0)
      <4>1. d = <<>>
        BY <3>1, <3>4, Zenon
      <4> QED BY <3>2, <4>1, EmptySeq, Zenon
    <3> QED BY <3>3, <3>4
  <2> HIDE DEF h, d
  <2>4. bytes \in Seq(Whole)
    BY <2>3, ConcatProperties
  <2> HIDE DEF bytes
  <2>5. peer.whole /\ wire \in Seq(Whole) /\ buflist \in Seq(WholeSegs)
    BY <1>4 DEF Kept
  <2>6. wire' \in Seq(Whole) /\ buflist' \in Seq(WholeSegs)
    BY <1>1, <2>4, <2>5, WholeIssued
  <2> QED BY <2>5, <2>6 DEF Kept
<1> QED BY <1>3, <1>4

\* So is what the extension makes of its input.
LEMMA DeflatedKept ==
  ASSUME Kept, NEW op \in DataOp, NEW fin \in BOOLEAN, NEW zi \in ZType, z.lost => zi.lost, NEW k,
         WriteDeflated(op, fin, zi, k), UNCHANGED peer
  PROVE  Kept'
<1>1. ASSUME NEW left \in {FALSE, zi.left}, zi.n < MaxChunks
      PROVE  /\ [HasPending(op, zi) EXCEPT !.left = left] \in ZType
             /\ [HasPending(op, zi) EXCEPT !.left = left].lost = zi.lost
  <2>1. zi.n + 1 \in 0 .. MaxChunks /\ (zi.first \/ op = "TEXT") \in BOOLEAN /\ left \in BOOLEAN
    <3>1. zi.n \in 0 .. MaxChunks /\ zi.left \in BOOLEAN
      BY DEF ZType
    <3>2. left \in BOOLEAN
      BY <1>1, <3>1
    <3>3. zi.n + 1 \in 0 .. MaxChunks
      BY <1>1, <3>1, WsTxAssumption
    <3> QED BY <3>2, <3>3
  <2> QED BY <2>1 DEF HasPending, ZType
<1>2. IsEmpty(op, zi) \in ZType /\ IsEmpty(op, zi).lost = zi.lost
  <2>1. 0 \in 0 .. MaxChunks /\ (zi.first \/ op = "TEXT") \in BOOLEAN
    BY WsTxAssumption
  <2> QED BY <2>1 DEF IsEmpty, ZType
<1> HIDE DEF HasPending, IsEmpty
<1>3. ASSUME NEW left \in {FALSE, zi.left}, zi.n < MaxChunks,
             WriteFragment(op, fin, TRUE, 1, [HasPending(op, zi) EXCEPT !.left = left], k)
      PROVE  Kept'
  BY <1>1, <1>3, FragmentKept
<1>4. ASSUME WriteFragment(op, fin, FALSE, 1, IsEmpty(op, zi), k) PROVE Kept'
  BY <1>2, <1>4, FragmentKept
<1> QED BY <1>3, <1>4 DEF WriteDeflated

\* And what it spills.
LEMMA DrainingKept ==
  ASSUME Kept, ws \in WsType, NEW zi \in ZType, z.lost => zi.lost, NEW k,
         WriteDraining(zi, k), UNCHANGED peer
  PROVE  Kept'
<1>1. ws.fin \in BOOLEAN /\ "CONTINUATION" \in DataOp /\ 0 \in 0 .. MaxChunks
  BY WsTxAssumption DEF WsType, DataOp
<1>2. IsEmpty("CONTINUATION", zi) \in ZType /\ IsEmpty("CONTINUATION", zi).lost = zi.lost
  <2>1. (zi.first \/ "CONTINUATION" = "TEXT") \in BOOLEAN
    OBVIOUS
  <2> QED BY <1>1, <2>1 DEF IsEmpty, ZType
<1>3. CASE WriteDeflated("CONTINUATION", ws.fin, zi, k)
  BY <1>1, <1>3, DeflatedKept
<1>4. CASE WriteFragment("CONTINUATION", FALSE, FALSE, 0, zi, k)
  BY <1>1, <1>4, FragmentKept
<1>5. CASE WriteFragment("CONTINUATION", FALSE, FALSE, 0, IsEmpty("CONTINUATION", zi), k)
  BY <1>1, <1>2, <1>5, FragmentKept
<1> QED BY <1>3, <1>4, <1>5 DEF WriteDraining

\* Every step that takes nothing from the extension keeps what is whole.
LEMMA RawKept ==
  ASSUME Kept, NEW b \in Seq(Whole), NEW k, NEW ask, lws_issue_raw(b, k, ask), UNCHANGED <<z, peer>>
  PROVE  Kept'
BY WholeIssued DEF Kept

\* UserWrites() keeps it.
LEMMA UserWritesKept ==
  ASSUME TypeOK, Kept, NEW fin \in BOOLEAN, NEW k, UserWrites(fin, k)
  PROVE  Kept'
<1>0. z \in ZType /\ user.id \in {0, 1} /\ user.open \in BOOLEAN /\ UNCHANGED peer
  BY DEF TypeOK, ZType, UserWrites
<1>1. UserOp \in DataOp
  BY <1>0, UserOpIs
<1>2. CASE WritePlain(UserOp, fin, k)
  <2>1. Header(UserOp, fin, 1) \in Whole /\ Payload(user.id, fin, TRUE) \in Whole
    BY <1>0, <1>1, WholeBytes
  <2> DEFINE bytes == IF ws.inside THEN <<Payload(user.id, fin, TRUE)>>
                                   ELSE <<Header(UserOp, fin, 1), Payload(user.id, fin, TRUE)>>
  <2>2. bytes \in Seq(Whole)
    BY <2>1, ShortSeq, Zenon
  <2>3. lws_issue_raw(bytes, k, FALSE) /\ UNCHANGED z
    BY <1>2 DEF WritePlain
  <2> HIDE DEF bytes
  <2> QED BY <1>0, <2>2, <2>3, RawKept
<1>3. CASE WriteDeflated(UserOp, fin, [z EXCEPT !.id = user.id, !.n = 0, !.left = TRUE], k)
  <2> DEFINE zi == [z EXCEPT !.id = user.id, !.n = 0, !.left = TRUE]
  <2>1. 0 \in 0 .. MaxChunks
    BY WsTxAssumption
  <2>2. zi \in ZType /\ zi.lost = z.lost
    BY <1>0, <2>1 DEF ZType
  <2> HIDE DEF zi
  <2>3. WriteDeflated(UserOp, fin, zi, k)
    BY <1>3 DEF zi
  <2> QED BY <1>0, <1>1, <2>2, <2>3, DeflatedKept
<1>4. CASE WriteSwallowed(UserOp)
  <2>1. z'.lost = z.lost
    BY <1>0, <1>4 DEF WriteSwallowed, IsEmpty, ZType
  <2> QED BY <1>0, <1>4, <2>1 DEF WriteSwallowed, Kept
<1> QED BY <1>2, <1>3, <1>4 DEF UserWrites

\* PolloutPing() keeps it, or throws input away.
LEMMA PolloutPingKept == ASSUME TypeOK, Kept, NEW k, PolloutPing(k) PROVE Kept'
<1>0. z \in ZType /\ ws \in WsType /\ UNCHANGED peer
  BY DEF TypeOK, ZType, WsType, PolloutPing
<1>1. CASE ws.drain
  <2> DEFINE zi == [z EXCEPT !.left = FALSE, !.lost = @ \/ z.left]
  <2>1. (z.lost \/ z.left) \in BOOLEAN
    OBVIOUS
  <2>2. zi \in ZType /\ (z.lost => zi.lost)
    BY <1>0, <2>1 DEF ZType
  <2>3. WriteDraining(zi, k)
    BY <1>1 DEF PolloutPing
  <2> HIDE DEF zi
  <2> QED BY <1>0, <2>2, <2>3, DrainingKept
<1>2. CASE ~ws.drain
  <2> DEFINE d == <<Header("PING", TRUE, 0)>>
  <2>1. Header("PING", TRUE, 0) \in Whole
    BY WholeBytes
  <2>2. d \in Seq(Whole)
    BY <2>1, ShortSeq, Zenon
  <2>3. lws_issue_raw(d, k, FALSE) /\ UNCHANGED z
    BY <1>2 DEF PolloutPing
  <2> HIDE DEF d
  <2> QED BY <1>0, <2>2, <2>3, RawKept
<1> QED BY <1>1, <1>2

\* PeerReads keeps it: the peer reads whole payloads only.
LEMMA PeerReadsKept == ASSUME TypeOK, Kept, PeerReads PROVE Kept'
<1>0. /\ wire # <<>> /\ wire' = Tail(wire) /\ peer' = PeerParses(peer, Head(wire))
      /\ UNCHANGED <<z, buflist>> /\ peer.whole \in BOOLEAN
  BY DEF TypeOK, PeerReads
<1>1. CASE z.lost
  BY <1>0, <1>1 DEF Kept
<1>2. CASE ~z.lost
  <2>1. peer.whole /\ wire \in Seq(Whole) /\ buflist \in Seq(WholeSegs)
    BY <1>2 DEF Kept
  <2>2. Head(wire) \in Whole /\ Tail(wire) \in Seq(Whole)
    BY <1>0, <2>1, HeadTailProperties
  <2>3. PeerParses(peer, Head(wire)).whole = TRUE
    <3> DEFINE b == Head(wire)
    <3>1. b[1] = "payload" => b[4]
      BY <2>2 DEF Whole
    <3>2. b[1] = "payload" => b[4] = TRUE
      <4>1. b \in Byte
        BY <2>2 DEF Whole
      <4> HIDE DEF b
      <4> QED BY <3>1, <4>1 DEF Byte
    <3>3. peer.whole = TRUE
      BY <1>0, <2>1
    <3> HIDE DEF b
    <3>4. peer \in [in : DataOp \cup {"none"}, fin : BOOLEAN, open : BOOLEAN, id : {0, 1}, ok : BOOLEAN,
                    whole : BOOLEAN]
      BY DEF TypeOK
    <3> QED BY <3>2, <3>3, <3>4 DEF PeerParses, b
  <2> QED BY <1>0, <2>1, <2>2, <2>3 DEF Kept
<1> QED BY <1>1, <1>2

\* Every step keeps it.
LEMMA KeptNext == TypeOK /\ Kept /\ [Next]_vars => Kept'
<1> SUFFICES ASSUME TypeOK, Kept, [Next]_vars PROVE Kept'
  OBVIOUS
<1>1. <<>> \in Seq(Whole) /\ <<>> \in Seq(WholeSegs)
  BY EmptySeq
<1>2. ASSUME NEW k, PolloutBuffered(k) PROVE Kept'
  BY <1>1, <1>2, RawKept DEF PolloutBuffered
<1>3. ASSUME NEW k, PolloutPong(k) PROVE Kept'
  <2> DEFINE d == <<Header("PONG", TRUE, 0)>>
  <2>1. Header("PONG", TRUE, 0) \in Whole
    BY WholeBytes
  <2>2. d \in Seq(Whole)
    BY <2>1, ShortSeq, Zenon
  <2>3. lws_issue_raw(d, k, FALSE) /\ UNCHANGED <<z, peer>>
    BY <1>3 DEF PolloutPong
  <2> HIDE DEF d
  <2> QED BY <2>2, <2>3, RawKept
<1>4. ASSUME NEW k, PolloutExtension(k) PROVE Kept'
  <2>1. z \in ZType /\ ws \in WsType
    BY DEF TypeOK, ZType, WsType
  <2> QED BY <1>4, <2>1, DrainingKept DEF PolloutExtension
<1>5. CASE PolloutPingAsserts \/ Killed
  BY <1>1, <1>5 DEF PolloutPingAsserts, Killed, Kept
<1>6. CASE PolloutUser \/ UserReturns \/ UserAsks \/ PingArrives \/ rops_issue_keepalive_ws \/ Close
  BY <1>6 DEF PolloutUser, UserReturns, UserAsks, PingArrives, rops_issue_keepalive_ws, Close, Kept
<1>7. CASE Done \/ UNCHANGED vars
  BY <1>7 DEF Done, vars, Kept
<1> QED BY <1>2, <1>3, <1>4, <1>5, <1>6, <1>7, PolloutPingKept, UserWritesKept, PeerReadsKept DEF Next

-----------------------------------------------------------------------------
(* The theorems *)

\* Every step keeps the invariant if a callback writes blindly once at most.
LEMMA NextOK == ASSUME MaxBlind <= 1 PROVE IInv /\ [Next]_vars => IInv'
<1> SUFFICES ASSUME IInv, [Next]_vars PROVE IInv'
  OBVIOUS
<1>1. CASE UNCHANGED vars
  <2>1. TypeOK'
    BY <1>1 DEF vars, IInv, TypeOK
  <2>2. PeerOK'
    BY <1>1 DEF vars, IInv, PeerOK
  <2>3. Flags'
    BY <1>1 DEF vars, IInv, Flags, lws_has_buffered_out
  <2> QED BY <2>1, <2>2, <2>3 DEF IInv
<1>2. CASE Next
  <2>1. CASE \E fin \in BOOLEAN, k \in Took : UserWrites(fin, k)
    BY <2>1, UserWritesOK
  <2>2. CASE Done
    BY <1>1, <2>2 DEF Done
  <2> QED BY <1>2, <2>1, <2>2, PolloutBufferedOK, PolloutPongOK, PolloutPingOK,
             PolloutPingAssertsOK, PolloutExtensionOK, PolloutUserOK,
             UserReturnsOK, UserAsksOK, PingArrivesOK, KeepaliveOK, CloseOK, KilledOK, PeerReadsOK DEF Next
<1> QED BY <1>1, <1>2

\* The invariant holds under the same bound.
LEMMA IInvHolds == ASSUME MaxBlind <= 1 PROVE Spec => []IInv
BY InitOK, NextOK, PTL DEF Spec

\* Whatever the socket takes of each send, however the extension splits,
\* delays or swallows the writes, and whichever PINGs and PONGs come in
\* between, the peer reads well-formed messages in the order they were
\* written, if the user makes at most one write in a callback without asking
\* lws_send_pipe_choked(); they are whole unless a keepalive PING was due
\* while the extension had input left (rops_handle_POLLOUT_ws(),
\* rops_write_role_protocol_ws(), lws_issue_raw()).
THEOREM PeerUnderstandsHolds ==
  ASSUME MaxBlind <= 1
  PROVE  Spec => []PeerUnderstands
<1>1. IInv /\ Kept => PeerUnderstands
  <2> SUFFICES ASSUME IInv, Kept PROVE PeerUnderstands
    OBVIOUS
  <2>1. wire \in Seq(Byte) /\ \E m : Path(ByteStep, wire, peer, m)
    BY DEF IInv, TypeOK, PeerOK, Reaches
  <2>2. peer \in Sane
    BY <2>1, PathEnds
  <2> QED BY <2>2 DEF Sane, PeerUnderstands, Kept
<1>2. Init => Kept
  BY EmptySeq DEF Init, Kept
<1>3. IInv /\ Kept /\ [Next]_vars => Kept'
  BY KeptNext DEF IInv
<1> QED BY <1>1, <1>2, <1>3, IInvHolds, PTL DEF Spec

\* What lws_write() took has POLLOUT armed while it waits, does not leak its
\* header state into the next write, is reported as taken, and has been read by
\* the peer when the connection is closed without an error and the peer has
\* read everything (lws_issue_raw(), lws_handle_POLLOUT_event(),
\* __lws_close_free_wsi()).
THEOREM OutputIsSoundHolds ==
  ASSUME MaxBlind <= 1
  PROVE  Spec => []OutputIsSound
<1>1. IInv => OutputIsSound
  <2> SUFFICES ASSUME IInv PROVE OutputIsSound
    OBVIOUS
  <2>1. TypeOK /\ PeerOK /\ Flags
    BY DEF IInv
  <2>2. SendArmed
    BY <2>1 DEF Flags, SendArmed
  <2>3. InsideFrameResets /\ WriteReportsAll
    BY <2>1 DEF Flags, InsideFrameResets, WriteReportsAll
  <2>4. SentBeforeClose
    <3> SUFFICES ASSUME state = "closed", wire = <<>>, ~ws.drain
                 PROVE  peer.in = "none" /\ peer.id = user.id /\ (peer.open => user.open)
      BY DEF SentBeforeClose
    <3>1. buflist = <<>>
      BY <2>1 DEF Flags, lws_has_buffered_out
    <3>2. PICK e : Reaches(peer, wire, buflist, e) /\ Ends(e, ws, z, user)
      BY <2>1 DEF PeerOK
    <3>3. PICK m : Path(ByteStep, wire, peer, m) /\ Path(SegStep, buflist, m, e)
      BY <3>2 DEF Reaches
    <3>4. peer \in Sane /\ m \in Sane
      BY <2>1, <3>3, PathEnds DEF TypeOK
    <3>5. m = peer
      BY <3>3, <3>4, PathEmpty
    <3>6. e = m
      BY <3>1, <3>3, <3>4, PathEmpty
    <3> QED BY <3>2, <3>5, <3>6 DEF Ends
  <2> QED BY <2>1, <2>2, <2>3, <2>4 DEF OutputIsSound
<1> QED BY <1>1, IInvHolds, PTL

=============================================================================
