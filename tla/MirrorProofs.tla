---------------------------- MODULE MirrorProofs ----------------------------
(***************************************************************************)
(* The ring of a mirror instance is sound, and is a queue for each of its  *)
(* sessions, whatever the number of sessions and the size of the ring.     *)
(*                                                                         *)
(* All there is to know of the slots is how far apart two of them are,     *)
(* going round the end.  The first lemmas say so once, and the rest of the *)
(* proofs compares distances to the head.                                  *)
(***************************************************************************)
EXTENDS Mirror, SequenceTheorems, WellFoundedInduction, TLAPS

(* from slot a on to slot b *)
Dist(a, b) == IF a <= b THEN b - a ELSE (Count - a) + b

\* The way from one slot to another is shorter than the ring.
LEMMA DistIsRange ==
  ASSUME NEW a \in Slot, NEW b \in Slot
  PROVE  /\ Dist(a, b) \in 0 .. Count - 1
         /\ Dist(a, b) = 0 <=> a = b
         /\ Wrap(a + Dist(a, b)) = b
BY CountAssumption DEF CountAssumption, Slot, Dist, Wrap

\* The slot that is n slots on is that far away.
LEMMA WrapIsSlot ==
  ASSUME NEW a \in Slot, NEW n \in 0 .. Count - 1
  PROVE  /\ Wrap(a + n) \in Slot
         /\ Dist(a, Wrap(a + n)) = n
BY CountAssumption DEF CountAssumption, Slot, Dist, Wrap

\* Going on twice is going on by the sum.
LEMMA WrapTwice ==
  ASSUME NEW a \in Slot, NEW n \in 0 .. Count - 1, NEW i \in 0 .. Count - 1, n + i <= Count - 1
  PROVE  Wrap(Wrap(a + n) + i) = Wrap(a + n + i)
BY CountAssumption DEF CountAssumption, Slot, Wrap

\* A slot between two others is nearer than the second.
LEMMA BetweenIsNear ==
  ASSUME NEW a \in Slot, NEW b \in Slot, NEW x \in Slot
  PROVE  x \in Between(a, b) <=> Dist(a, x) < Dist(a, b)
BY CountAssumption DEF CountAssumption, Slot, Dist, Between

(* Slots between a and h, and h itself, are those no further from h than a *)
LEMMA NearHead ==
  ASSUME NEW a \in Slot, NEW h \in Slot, NEW t \in Slot
  PROVE  /\ t \in Between(a, h) \cup {h} <=> Dist(t, h) <= Dist(a, h)
         /\ Dist(t, h) <= Dist(a, h) => Dist(a, t) + Dist(t, h) = Dist(a, h)
         /\ Dist(t, h) = Dist(a, h) => t = a
BY CountAssumption DEF CountAssumption, Slot, Dist, Between

\* A session that has read n messages has n fewer in front of it.
LEMMA Consumed ==
  ASSUME NEW t \in Slot, NEW h \in Slot, NEW n \in 0 .. Dist(t, h)
  PROVE  /\ Wrap(t + n) \in Slot
         /\ Dist(Wrap(t + n), h) = Dist(t, h) - n
BY CountAssumption DEF CountAssumption, Slot, Dist, Wrap

(* one more element at the head, while there is room for it *)
LEMMA Inserted ==
  ASSUME NEW t \in Slot, NEW h \in Slot, Dist(t, h) < Count - 1
  PROVE  /\ Wrap(h + 1) \in Slot
         /\ Dist(t, Wrap(h + 1)) = Dist(t, h) + 1
BY CountAssumption DEF CountAssumption, Slot, Dist, Wrap

\* lws_ring_get_count_waiting_elements() is the way to the head.
LEMMA WaitingIsDist ==
  ASSUME NEW r, r.head \in Slot, NEW t \in Slot
  PROVE  Waiting(r, t) = Dist(t, r.head)
BY CountAssumption
   DEF CountAssumption, Slot, Dist, Waiting, lws_ring_get_count_waiting_elements

\* lws_ring_get_count_free_elements() is what is left of the ring, less one
\* slot.
LEMMA FreeIsDist ==
  ASSUME NEW r, r.head \in Slot, r.oldest_tail \in Slot
  PROVE  Free(r) = Count - 1 - Dist(r.oldest_tail, r.head)
BY CountAssumption
   DEF CountAssumption, Slot, Dist, Free, lws_ring_get_count_free_elements

-----------------------------------------------------------------------------
(* The ring *)

Rings == [buf : [Slot -> Message \cup {Empty}], head : Slot, oldest_tail : Slot]

\* the slots from the oldest tail to the head, and no others, hold an element
RingOK(r) ==
  /\ r \in Rings
  /\ \A x \in Slot : r.buf[x] # Empty <=> Dist(r.oldest_tail, x) < Dist(r.oldest_tail, r.head)

\* A new ring is right and empty.
LEMMA CreatedRing ==
  LET r == lws_ring_create IN RingOK(r) /\ r.head = 0 /\ r.oldest_tail = 0
<1> DEFINE r == lws_ring_create
<1>1. 0 \in Slot
  BY CountAssumption DEF CountAssumption, Slot
<1>2. r \in Rings /\ r.head = 0 /\ r.oldest_tail = 0 /\ \A x \in Slot : r.buf[x] = Empty
  BY <1>1 DEF lws_ring_create, Rings
<1>3. \A x \in Slot : Dist(0, x) \in Nat /\ Dist(0, 0) = 0
  BY <1>1, DistIsRange
<1> QED BY <1>2, <1>3 DEF RingOK

\* lws_ring_insert() with room leaves the ring right, one message longer.
LEMMA InsertedRing ==
  ASSUME NEW r, RingOK(r), NEW m \in Message, Dist(r.oldest_tail, r.head) < Count - 1
  PROVE  LET q == lws_ring_insert(r, m)
         IN  /\ RingOK(q) /\ q.oldest_tail = r.oldest_tail /\ q.head = Wrap(r.head + 1)
             /\ q.buf = [r.buf EXCEPT ![r.head] = m]
<1> DEFINE q == lws_ring_insert(r, m)
<1>1. r \in Rings /\ r.head \in Slot /\ r.oldest_tail \in Slot /\ Wrap(r.head + 1) \in Slot
  BY Inserted DEF RingOK, Rings
<1>2. /\ q.buf = [r.buf EXCEPT ![r.head] = m] /\ q.head = Wrap(r.head + 1)
      /\ q.oldest_tail = r.oldest_tail /\ q \in Rings
  BY <1>1 DEF lws_ring_insert, Rings
<1>3. Dist(r.oldest_tail, q.head) = Dist(r.oldest_tail, r.head) + 1
  BY <1>1, <1>2, Inserted
<1> HIDE DEF q
<1>4. ASSUME NEW x \in Slot
      PROVE  q.buf[x] # Empty <=> Dist(r.oldest_tail, x) < Dist(r.oldest_tail, r.head) + 1
  <2>1. /\ Dist(r.oldest_tail, x) \in Nat /\ Dist(r.oldest_tail, r.head) \in Nat
        /\ Dist(r.oldest_tail, x) = Dist(r.oldest_tail, r.head) => x = r.head
    BY <1>1, DistIsRange
  <2>2. CASE x = r.head
    BY <1>1, <1>2, <2>1, <2>2, MirrorAssumption DEF MirrorAssumption, Rings
  <2>3. CASE x # r.head
    <3>1. q.buf[x] = r.buf[x]
      BY <1>1, <1>2, <2>3 DEF Rings
    <3> QED BY <3>1, <2>1, <2>3 DEF RingOK
  <2> QED BY <2>2, <2>3
<1> QED BY <1>2, <1>3, <1>4 DEF RingOK, q

\* lws_ring_update_oldest_tail() leaves the ring right, and every message
\* from the new tail on.
LEMMA UpdatedRing ==
  ASSUME NEW r, RingOK(r), NEW t \in Slot, Dist(t, r.head) <= Dist(r.oldest_tail, r.head)
  PROVE  LET q == lws_ring_update_oldest_tail(r, t)
         IN  /\ RingOK(q) /\ q.oldest_tail = t /\ q.head = r.head
             /\ \A x \in Slot : Dist(t, x) < Dist(t, r.head) => q.buf[x] = r.buf[x]
<1> DEFINE q == lws_ring_update_oldest_tail(r, t)
           a == r.oldest_tail
           h == r.head
<1>1. r \in Rings /\ h \in Slot /\ a \in Slot
  BY DEF RingOK, Rings
<1>2. /\ q.head = h /\ q.oldest_tail = t /\ q \in Rings
      /\ \A x \in Slot : q.buf[x] = IF x \in Between(a, t) THEN Empty ELSE r.buf[x]
  BY <1>1 DEF lws_ring_update_oldest_tail, Rings
<1>3. \A x \in Slot : r.buf[x] # Empty <=> Dist(a, x) < Dist(a, h)
  BY DEF RingOK
<1> HIDE DEF q, a, h
<1>4. ASSUME NEW x \in Slot
      PROVE  /\ q.buf[x] # Empty <=> Dist(t, x) < Dist(t, h)
             /\ Dist(t, x) < Dist(t, h) => q.buf[x] = r.buf[x]
  <2>1. x \in Between(a, t) <=> Dist(a, x) < Dist(a, t)
    BY <1>1, BetweenIsNear
  <2>2. Dist(t, h) <= Dist(a, h)
    BY DEF a, h
  <2>3. Dist(t, x) < Dist(t, h) <=> Dist(a, x) < Dist(a, h) /\ ~(Dist(a, x) < Dist(a, t))
    BY <1>1, <2>2, CountAssumption DEF CountAssumption, Slot, Dist
  <2> QED BY <1>2, <1>3, <2>1, <2>3
<1> QED BY <1>2, <1>4 DEF RingOK, q, a, h

\* Whoever has the most elements waiting exists: no more than Count - 1 wait.
LEMMA WorstExists ==
  ASSUME ring.head \in Slot, NEW M, M # {}, NEW t, \A s \in M : t[s] \in Slot
  PROVE  /\ Worst(M, t) \in M
         /\ \A o \in M : Dist(t[o], ring.head) <= Dist(t[Worst(M, t)], ring.head)
<1> DEFINE W(s) == Dist(t[s], ring.head)
           T == {k \in Nat : \E s \in M : k = Count - W(s)}
           R == OpToRel(<, Nat)
<1>1. \A s \in M : W(s) \in 0 .. Count - 1 /\ Waiting(ring, t[s]) = W(s)
  BY DistIsRange, WaitingIsDist
<1>2. Count \in Nat
  BY CountAssumption DEF CountAssumption
<1>3. IsWellFoundedOn(R, Nat)
  BY NatLessThanWellFounded
<1>4. \A x, y \in Nat : y < x => <<y, x>> \in R
  BY DEF OpToRel
<1> HIDE DEF R, W
<1>5. T \subseteq Nat /\ T # {}
  BY <1>1, <1>2
<1> HIDE DEF T
<1>6. PICK k \in T : \A y \in T : ~(<<y, k>> \in R)
  BY <1>3, <1>5, WFMin
<1>7. \A y \in T : k \in Nat /\ y \in Nat /\ ~(y < k)
  BY <1>4, <1>5, <1>6
<1>8. PICK s \in M : k = Count - W(s)
  BY <1>6 DEF T
<1>9. ASSUME NEW o \in M PROVE W(o) <= W(s)
  <2>1. Count - W(o) \in T
    BY <1>1, <1>2 DEF T
  <2> QED BY <1>1, <1>2, <1>7, <1>8, <2>1
<1>10. \E w \in M : \A o \in M : Waiting(ring, t[o]) <= Waiting(ring, t[w])
  BY <1>1, <1>8, <1>9
<1>11. /\ Worst(M, t) \in M
       /\ \A o \in M : Waiting(ring, t[o]) <= Waiting(ring, t[Worst(M, t)])
  BY <1>10 DEF Worst
<1> QED BY <1>1, <1>11 DEF W

-----------------------------------------------------------------------------
(* The inductive invariant: RingIsSound in terms of distances, and what it *)
(* needs to know of an instance without sessions and of sessions that are  *)
(* not there.                                                              *)

Kinds ==
  /\ members \in SUBSET Session /\ dying \in SUBSET members
  /\ tail \in [Session -> Slot]
  /\ rx_enabled \in BOOLEAN /\ rx \in [Session -> BOOLEAN]
  /\ wants \in [Session -> BOOLEAN] /\ timer \in [Session -> BOOLEAN]
  /\ out \in Seq(Message \cup {Empty})

\* every session of M is between the oldest tail and the head
TailsIn(r, M, t) == \A s \in M : Dist(t[s], r.head) <= Dist(r.oldest_tail, r.head)

Reclaimed(r, M, t, dead) == (\E s \in M : t[s] = r.oldest_tail) \/ M = {} \/ dead # {}

FlowOK(r, M, on, rxs) ==
  M # {} =>
    /\ Count - 1 - Dist(r.oldest_tail, r.head) >= RXFLOW_MAX => on
    /\ Count - 1 - Dist(r.oldest_tail, r.head) < RXFLOW_MIN => ~on
    /\ on => \A s \in M : rxs[s]

TimersOK(r, M, t, tm) == \A s \in M : tm[s] => t[s] = r.oldest_tail /\ t[s] # r.head

\* no session is not left with a timeout, nor an empty instance with elements
Absent ==
  /\ \A s \in Session \ members : ~timer[s]
  /\ members = {} => ring.head = ring.oldest_tail

IInv ==
  /\ Kinds
  /\ RingOK(ring)
  /\ TailsIn(ring, members, tail)
  /\ Reclaimed(ring, members, tail, dying)
  /\ FlowOK(ring, members, rx_enabled, rx)
  /\ TimersOK(ring, members \ dying, tail, timer)
  /\ Absent

\* The numbers the invariant is about.
LEMMA IInvFacts ==
  ASSUME IInv
  PROVE  /\ ring.head \in Slot /\ ring.oldest_tail \in Slot
         /\ \A s \in members : s \in Session /\ tail[s] \in Slot
         /\ Dist(ring.oldest_tail, ring.head) \in 0 .. Count - 1
         /\ Count \in Nat /\ RXFLOW_MIN \in Nat /\ RXFLOW_MAX \in Nat
         /\ 1 <= RXFLOW_MIN /\ RXFLOW_MIN <= RXFLOW_MAX /\ RXFLOW_MAX <= Count - 1
<1>1. ring.head \in Slot /\ ring.oldest_tail \in Slot
  BY DEF IInv, RingOK, Rings
<1>2. \A s \in members : s \in Session /\ tail[s] \in Slot
  BY DEF IInv, Kinds
<1> QED BY <1>1, <1>2, DistIsRange, CountAssumption, MirrorAssumption
        DEF CountAssumption, MirrorAssumption

\* The invariant implies the property.
LEMMA IInvSound == IInv => RingIsSound
<1> SUFFICES ASSUME IInv PROVE RingIsSound
  OBVIOUS
<1>1. TypeOK
  BY DEF IInv, Kinds, RingOK, Rings, TypeOK
<1>2. UnreadIsKept
  <2>1. \A x \in Slot : ring.buf[x] # Empty <=> x \in Between(ring.oldest_tail, ring.head)
    BY IInvFacts, BetweenIsNear DEF IInv, RingOK
  <2>2. \A s \in members : tail[s] \in Between(ring.oldest_tail, ring.head) \cup {ring.head}
    BY IInvFacts, NearHead DEF IInv, TailsIn
  <2> QED BY <2>1, <2>2 DEF UnreadIsKept
<1>3. SpaceIsReclaimed
  BY DEF IInv, Reclaimed, SpaceIsReclaimed
<1>4. FlowMatchesRoom
  <2>1. Free(ring) = Count - 1 - Dist(ring.oldest_tail, ring.head)
    BY IInvFacts, FreeIsDist
  <2> QED BY <2>1 DEF IInv, FlowOK, FlowMatchesRoom
<1>5. TimerOnlyForSlowest
  <2> SUFFICES ASSUME NEW s \in members \ dying, timer[s]
               PROVE  tail[s] = ring.oldest_tail /\ Waiting(ring, tail[s]) > 0
    BY DEF TimerOnlyForSlowest
  <2>1. tail[s] = ring.oldest_tail /\ tail[s] # ring.head /\ tail[s] \in Slot
    BY IInvFacts DEF IInv, TimersOK
  <2> QED BY <2>1, IInvFacts, WaitingIsDist, DistIsRange
<1> QED BY <1>1, <1>2, <1>3, <1>4, <1>5 DEF RingIsSound

\* The mirror begins right.
LEMMA InitIInv == Init => IInv
<1> SUFFICES ASSUME Init PROVE IInv
  OBVIOUS
<1>1. RingOK(ring) /\ ring.head = 0 /\ ring.oldest_tail = 0
  BY CreatedRing DEF Init
<1>2. Kinds
  BY CountAssumption DEF CountAssumption, Init, Kinds, Slot
<1> QED BY <1>1, <1>2 DEF Init, IInv, TailsIn, Reclaimed, FlowOK, TimersOK, Absent

-----------------------------------------------------------------------------
(* The oldest tail follows the slowest of the sessions M, with the tails t *)

\* what the sessions M then find; those of N had their timeouts for a reason
Updated(M, t, timers, N) ==
  /\ RingOK(ring') /\ ring'.head = ring.head
  /\ TailsIn(ring', M, t)
  /\ \E w \in M : /\ t[w] = ring'.oldest_tail
                  /\ ring' = lws_ring_update_oldest_tail(ring, t[w])
                  /\ \A o \in M : Dist(t[o], ring.head) <= Dist(t[w], ring.head)
  /\ rx_enabled' \in BOOLEAN /\ rx' \in [Session -> BOOLEAN]
  /\ timer' \in [Session -> BOOLEAN]
  /\ FlowOK(ring', M, rx_enabled', rx')
  /\ TimersOK(ring', N, t, timer')
  /\ \A s \in Session \ M : timer'[s] = timers[s]

\* __mirror_update_worst_tail() moves the oldest tail to the slowest session
\* and sets its timer only.
LEMMA UpdateWorst ==
  ASSUME IInv, NEW M, M \subseteq members, M # {}, NEW t, t \in [Session -> Slot],
         NEW timers, timers \in [Session -> BOOLEAN],
         TailsIn(ring, M, t), NEW N, N \subseteq M, TimersOK(ring, N, t, timers),
         __mirror_update_worst_tail(M, t, timers)
  PROVE  Updated(M, t, timers, N)
<1> DEFINE w == Worst(M, t)
           h == ring.head
           a == ring.oldest_tail
<1>1. h \in Slot /\ a \in Slot /\ M \subseteq Session /\ \A s \in M : t[s] \in Slot
  BY IInvFacts
<1>2. w \in M /\ \A o \in M : Dist(t[o], h) <= Dist(t[w], h)
  BY <1>1, WorstExists
<1>3. ring' = lws_ring_update_oldest_tail(ring, t[w])
  BY DEF __mirror_update_worst_tail
<1> HIDE DEF w
<1>4. Dist(t[w], h) <= Dist(a, h)
  BY <1>2 DEF TailsIn
<1>5. RingOK(ring') /\ ring'.head = h /\ ring'.oldest_tail = t[w]
  BY <1>1, <1>2, <1>3, <1>4, UpdatedRing DEF IInv
<1>6. TailsIn(ring', M, t)
  BY <1>2, <1>5 DEF TailsIn
<1> DEFINE moved == ring'.oldest_tail # ring.oldest_tail
           resume == moved /\ ~rx_enabled /\ Free(ring') >= RXFLOW_MAX
           late(s) == moved /\ Waiting(ring', ring'.oldest_tail) > 0 /\ s \in M
                      /\ t[s] = ring'.oldest_tail
<1>7. /\ rx_enabled' = (rx_enabled \/ resume)
      /\ rx' = [s \in Session |-> IF resume /\ s \in M THEN TRUE ELSE rx[s]]
      /\ timer' = [s \in Session |-> IF late(s) THEN TRUE ELSE timers[s]]
  BY DEF __mirror_update_worst_tail
<1>8. rx_enabled \in BOOLEAN /\ rx \in [Session -> BOOLEAN]
  BY DEF IInv, Kinds
<1>9. /\ Dist(t[w], h) \in 0 .. Count - 1 /\ Dist(a, h) \in 0 .. Count - 1
      /\ Free(ring') = Count - 1 - Dist(t[w], h)
      /\ Waiting(ring', t[w]) = Dist(t[w], h)
  BY <1>1, <1>2, <1>5, DistIsRange, FreeIsDist, WaitingIsDist
<1>10. FlowOK(ring', M, rx_enabled', rx')
  <2>1. FlowOK(ring, members, rx_enabled, rx) /\ members # {}
    BY DEF IInv
  <2>2. Count - 1 - Dist(t[w], h) >= RXFLOW_MAX => rx_enabled'
    BY <1>5, <1>7, <1>9, <2>1 DEF FlowOK
  <2>3. Count - 1 - Dist(t[w], h) < RXFLOW_MIN => ~rx_enabled'
    <3> SUFFICES ASSUME Count - 1 - Dist(t[w], h) < RXFLOW_MIN PROVE ~rx_enabled'
      OBVIOUS
    <3>1. Count - 1 - Dist(a, h) < RXFLOW_MIN
      BY <1>4, <1>9, IInvFacts
    <3>2. ~rx_enabled
      BY <2>1, <3>1 DEF FlowOK
    <3>3. ~(Free(ring') >= RXFLOW_MAX)
      BY <1>9, IInvFacts
    <3> QED BY <1>7, <3>2, <3>3
  <2>4. rx_enabled' => \A s \in M : rx'[s]
    BY <1>1, <1>7, <2>1 DEF FlowOK
  <2> QED BY <1>5, <2>2, <2>3, <2>4 DEF FlowOK
<1>11. TimersOK(ring', N, t, timer')
  <2> SUFFICES ASSUME NEW s \in N, timer'[s]
               PROVE  t[s] = ring'.oldest_tail /\ t[s] # ring'.head
    BY DEF TimersOK
  <2>1. CASE late(s)
    BY <2>1, <1>1, <1>5, <1>9, DistIsRange
  <2>2. CASE ~late(s)
    <3>1. timers[s] /\ s \in M
      BY <1>1, <1>7, <2>2
    <3>2. t[s] = a /\ t[s] # h
      BY <3>1 DEF TimersOK
    <3>3. Dist(t[w], h) = Dist(a, h)
      BY <1>2, <1>4, <1>9, <3>1, <3>2
    <3>4. t[w] = a
      BY <1>1, <1>2, <3>3, NearHead
    <3> QED BY <1>5, <3>2, <3>4
  <2> QED BY <2>1, <2>2
<1>12. rx_enabled' \in BOOLEAN /\ rx' \in [Session -> BOOLEAN] /\ timer' \in [Session -> BOOLEAN]
  BY <1>7, <1>8
<1>13. \A s \in Session \ M : timer'[s] = timers[s]
  BY <1>7
<1> QED BY <1>2, <1>3, <1>5, <1>6, <1>10, <1>11, <1>12, <1>13 DEF Updated

-----------------------------------------------------------------------------
(* Every step preserves the invariant *)

\* A session that joins keeps the invariant.
LEMMA EstablishedStep ==
  ASSUME IInv, NEW s \in Session, Established(s)
  PROVE  IInv'
<1>1. /\ members' = members \cup {s} /\ s \notin members
      /\ ring' = IF members = {} THEN lws_ring_create ELSE ring
      /\ rx_enabled' = IF members = {} THEN TRUE ELSE rx_enabled
      /\ tail' = [tail EXCEPT ![s] = ring'.oldest_tail]
      /\ rx' = [rx EXCEPT ![s] = TRUE] /\ out' = <<>>
      /\ wants' = wants /\ timer' = timer /\ dying' = dying
  BY DEF Established
<1>2. RingOK(ring') /\ (members = {} => ring'.head = ring'.oldest_tail)
  BY <1>1, CreatedRing DEF IInv
<1>3. ring'.head \in Slot /\ ring'.oldest_tail \in Slot
  BY <1>2 DEF RingOK, Rings
<1>4. Kinds'
  BY <1>1, <1>3, EmptySeq DEF IInv, Kinds
<1>5. tail'[s] = ring'.oldest_tail /\ \A o \in members : tail'[o] = tail[o] /\ o # s
  BY <1>1 DEF IInv, Kinds
<1>6. Dist(ring'.oldest_tail, ring'.head) \in 0 .. Count - 1
  BY <1>3, DistIsRange
<1>7. TailsIn(ring', members', tail')
  BY <1>1, <1>5, <1>6 DEF IInv, TailsIn
<1>8. Reclaimed(ring', members', tail', dying')
  BY <1>1, <1>5 DEF Reclaimed
<1>9. FlowOK(ring', members', rx_enabled', rx')
  <2>1. rx'[s] /\ \A o \in members : rx'[o] = rx[o]
    BY <1>1 DEF IInv, Kinds
  <2>2. CASE members = {}
    <3>1. Dist(ring'.oldest_tail, ring'.head) = 0
      BY <1>2, <1>3, <2>2, DistIsRange
    <3>2. rx_enabled' /\ \A o \in members' : rx'[o]
      BY <1>1, <2>1, <2>2
    <3>3. ~(Count - 1 - 0 < RXFLOW_MIN)
      BY IInvFacts
    <3> QED BY <3>1, <3>2, <3>3 DEF FlowOK
  <2>3. CASE members # {}
    BY <1>1, <2>1, <2>3 DEF FlowOK, IInv
  <2> QED BY <2>2, <2>3
<1>10. TimersOK(ring', members' \ dying', tail', timer')
  BY <1>1, <1>5 DEF TimersOK, IInv, Absent
<1>11. Absent'
  BY <1>1 DEF IInv, Absent
<1> QED BY <1>2, <1>4, <1>7, <1>8, <1>9, <1>10, <1>11 DEF IInv

\* A message that is dropped keeps the invariant.
LEMMA DroppedStep ==
  ASSUME IInv, NEW s \in Session, ReceiveDropped(s)
  PROVE  IInv'
<1>1. /\ s \in members /\ Free(ring) = 0
      /\ wants' = [o \in Session |-> o \in members \/ wants[o]]
      /\ ring' = ring /\ members' = members /\ tail' = tail /\ timer' = timer
      /\ dying' = dying /\ out' = out
  BY DEF ReceiveDropped
<1>2. Count - 1 - Dist(ring.oldest_tail, ring.head) = 0
  BY <1>1, IInvFacts, FreeIsDist
<1>3. ~rx_enabled
  BY <1>1, <1>2, IInvFacts DEF IInv, FlowOK
<1>4. rx_enabled' = rx_enabled /\ rx' = rx
  BY <1>3 DEF ReceiveDropped
<1> QED BY <1>1, <1>4 DEF IInv, Kinds, Absent

\* A message that is taken keeps the invariant.
LEMMA ReceiveStep ==
  ASSUME IInv, NEW s \in Session, NEW m \in Message, Receive(s, m)
  PROVE  IInv'
<1>1. /\ s \in members /\ Free(ring) > 0 /\ ring' = lws_ring_insert(ring, m)
      /\ wants' = [o \in Session |-> o \in members \/ wants[o]]
      /\ members' = members /\ tail' = tail /\ timer' = timer
      /\ dying' = dying /\ out' = <<>>
      /\ IF rx_enabled /\ Free(ring') < RXFLOW_MIN THEN __mirror_rxflow_instance(FALSE)
                                                   ELSE UNCHANGED <<rx_enabled, rx>>
  BY DEF Receive
<1> DEFINE a == ring.oldest_tail
           h == ring.head
<1>2. Dist(a, h) < Count - 1 /\ Dist(a, h) \in Nat /\ h \in Slot /\ a \in Slot
  BY <1>1, IInvFacts, FreeIsDist
<1>3. RingOK(ring') /\ ring'.oldest_tail = a /\ ring'.head = Wrap(h + 1)
  BY <1>1, <1>2, InsertedRing DEF IInv
<1>4. ring'.head \in Slot /\ Dist(a, ring'.head) = Dist(a, h) + 1
  BY <1>2, <1>3, Inserted
<1>5. \A o \in members : Dist(tail[o], ring'.head) = Dist(tail[o], h) + 1
  <2> SUFFICES ASSUME NEW o \in members
               PROVE  Dist(tail[o], ring'.head) = Dist(tail[o], h) + 1
    OBVIOUS
  <2>1. tail[o] \in Slot /\ Dist(tail[o], h) <= Dist(a, h) /\ Dist(tail[o], h) \in Nat
    BY IInvFacts, <1>2, DistIsRange DEF IInv, TailsIn
  <2>2. Dist(tail[o], h) < Count - 1
    BY <1>2, <2>1, IInvFacts
  <2> QED BY <1>2, <1>3, <2>1, <2>2, Inserted
<1>6. TailsIn(ring', members', tail')
  <2> SUFFICES ASSUME NEW o \in members
               PROVE  Dist(tail[o], ring'.head) <= Dist(a, ring'.head)
    BY <1>1, <1>3 DEF TailsIn
  <2>1. tail[o] \in Slot /\ Dist(tail[o], h) <= Dist(a, h) /\ Dist(tail[o], h) \in Nat
    BY IInvFacts, <1>2, DistIsRange DEF IInv, TailsIn
  <2> QED BY <1>2, <1>4, <1>5, <2>1
<1>7. Reclaimed(ring', members', tail', dying')
  BY <1>1, <1>3 DEF IInv, Reclaimed
<1>8. Free(ring') = Count - 1 - (Dist(a, h) + 1)
  BY <1>2, <1>3, <1>4, FreeIsDist
<1>9. rx_enabled' \in BOOLEAN /\ rx' \in [Session -> BOOLEAN]
  BY <1>1 DEF IInv, Kinds, __mirror_rxflow_instance
<1>10. FlowOK(ring', members', rx_enabled', rx')
  <2>1. FlowOK(ring, members, rx_enabled, rx)
    BY DEF IInv
  <2>2. CASE rx_enabled /\ Free(ring') < RXFLOW_MIN
    <3>1. ~rx_enabled'
      BY <1>1, <2>2 DEF __mirror_rxflow_instance
    <3>2. ~(Free(ring') >= RXFLOW_MAX)
      BY <1>2, <1>8, <2>2, IInvFacts
    <3> QED BY <1>3, <1>4, <1>8, <3>1, <3>2 DEF FlowOK
  <2>3. CASE ~(rx_enabled /\ Free(ring') < RXFLOW_MIN)
    <3>1. rx_enabled' = rx_enabled /\ rx' = rx
      BY <1>1, <2>3
    <3>2. Free(ring') >= RXFLOW_MAX => Count - 1 - Dist(a, h) >= RXFLOW_MAX
      BY <1>2, <1>8, IInvFacts
    <3> QED BY <1>1, <1>3, <1>4, <1>8, <2>1, <2>3, <3>1, <3>2 DEF FlowOK
  <2> QED BY <2>2, <2>3
<1>11. TimersOK(ring', members' \ dying', tail', timer')
  <2> SUFFICES ASSUME NEW o \in members \ dying, timer[o]
               PROVE  tail[o] = ring'.oldest_tail /\ tail[o] # ring'.head
    BY <1>1 DEF TimersOK
  <2>1. tail[o] = a /\ tail[o] \in Slot
    BY IInvFacts DEF IInv, TimersOK
  <2>2. Dist(a, ring'.head) # 0
    BY <1>2, <1>4
  <2> QED BY <1>2, <1>3, <1>4, <2>1, <2>2, DistIsRange
<1>12. Kinds'
  BY <1>1, <1>9, EmptySeq DEF IInv, Kinds
<1>13. Absent'
  BY <1>1 DEF IInv, Absent
<1> QED BY <1>3, <1>6, <1>7, <1>10, <1>11, <1>12, <1>13 DEF IInv

\* The next n messages of a tail.
LEMMA ElementsSeq ==
  ASSUME IInv, NEW t \in Slot, NEW n \in 0 .. Count - 1
  PROVE  /\ Elements(t, n) \in Seq(Message \cup {Empty})
         /\ Len(Elements(t, n)) = n
         /\ \A i \in 1 .. n : Elements(t, n)[i] = ring.buf[Wrap(t + i - 1)]
<1>1. ring.buf \in [Slot -> Message \cup {Empty}]
  BY DEF IInv, RingOK, Rings
<1>2. \A i \in 1 .. n : Wrap(t + i - 1) \in Slot
  BY CountAssumption DEF CountAssumption, Slot, Wrap
<1>3. Elements(t, n) \in [1 .. n -> Message \cup {Empty}]
  BY <1>1, <1>2 DEF Elements
<1>4. n \in Nat
  BY CountAssumption DEF CountAssumption
<1>5. Elements(t, n) \in Seq(Message \cup {Empty})
  BY <1>3, <1>4, SeqDef
<1> QED BY <1>3, <1>4, <1>5, LenProperties DEF Elements

\* lws_ring_consume() moves one tail, never past the head.
LEMMA ConsumeFacts ==
  ASSUME IInv, NEW s \in members, NEW n \in 0 .. Count - 1, n <= Waiting(ring, tail[s]),
         tail' = [tail EXCEPT ![s] = lws_ring_consume(ring, @, n)]
  PROVE  /\ tail' = [tail EXCEPT ![s] = Wrap(tail[s] + n)]
         /\ tail' \in [Session -> Slot] /\ tail'[s] = Wrap(tail[s] + n)
         /\ \A o \in Session \ {s} : tail'[o] = tail[o]
         /\ Dist(tail'[s], ring.head) = Dist(tail[s], ring.head) - n
         /\ TailsIn(ring, members, tail')
         /\ n = 0 => tail' = tail
<1>1. ring.head \in Slot /\ tail \in [Session -> Slot] /\ s \in Session /\ tail[s] \in Slot
  BY IInvFacts DEF IInv, Kinds
<1>2. Waiting(ring, tail[s]) = Dist(tail[s], ring.head)
  BY <1>1, WaitingIsDist
<1>3. Dist(tail[s], ring.head) \in Nat /\ n \in 0 .. Dist(tail[s], ring.head)
  BY <1>1, <1>2, DistIsRange
<1>4. lws_ring_consume(ring, tail[s], n) = Wrap(tail[s] + n)
  BY <1>2, <1>3 DEF lws_ring_consume, Waiting
<1>5. /\ Wrap(tail[s] + n) \in Slot
      /\ Dist(Wrap(tail[s] + n), ring.head) = Dist(tail[s], ring.head) - n
  BY <1>1, <1>3, Consumed
<1>6. tail' = [tail EXCEPT ![s] = Wrap(tail[s] + n)]
  BY <1>4
<1>7. tail' \in [Session -> Slot] /\ tail'[s] = Wrap(tail[s] + n)
  BY <1>1, <1>5, <1>6
<1>8. \A o \in Session \ {s} : tail'[o] = tail[o]
  BY <1>1, <1>6
<1>9. TailsIn(ring, members, tail')
  <2> SUFFICES ASSUME NEW o \in members
               PROVE  Dist(tail'[o], ring.head) <= Dist(ring.oldest_tail, ring.head)
    BY DEF TailsIn
  <2>1. Dist(tail[o], ring.head) <= Dist(ring.oldest_tail, ring.head) /\ o \in Session
    BY IInvFacts DEF IInv, TailsIn
  <2>2. CASE o = s
    BY <1>3, <1>5, <1>7, <2>1, <2>2, IInvFacts
  <2>3. CASE o # s
    BY <1>8, <2>1, <2>3
  <2> QED BY <2>2, <2>3
<1>10. n = 0 => Wrap(tail[s] + n) = tail[s]
  BY <1>1, CountAssumption DEF CountAssumption, Slot, Wrap
<1> QED BY <1>1, <1>5, <1>6, <1>7, <1>8, <1>9, <1>10

\* Writing to a session keeps the invariant.
LEMMA WriteableStep ==
  ASSUME IInv, NEW s \in Session, NEW n \in 0 .. Count - 1, Writeable(s, n)
  PROVE  IInv'
<1>1. /\ s \in members /\ s \notin dying /\ n <= Waiting(ring, tail[s])
      /\ n = 0 => Waiting(ring, tail[s]) = 0
      /\ out' = Elements(tail[s], n)
      /\ tail' = [tail EXCEPT ![s] = lws_ring_consume(ring, @, n)]
      /\ wants' = [wants EXCEPT ![s] = Waiting(ring, tail'[s]) > 0]
      /\ members' = members /\ dying' = dying
  BY DEF Writeable
<1>2. /\ tail' \in [Session -> Slot] /\ TailsIn(ring, members, tail')
      /\ n = 0 => tail' = tail
      /\ \A o \in Session \ {s} : tail'[o] = tail[o]
      /\ Dist(tail'[s], ring.head) = Dist(tail[s], ring.head) - n
  BY <1>1, ConsumeFacts
<1>3. wants' \in [Session -> BOOLEAN] /\ out' \in Seq(Message \cup {Empty})
  BY <1>1, IInvFacts, ElementsSeq DEF IInv, Kinds
<1>4. CASE n > 0 /\ tail[s] = ring.oldest_tail
  <2> DEFINE timers == [timer EXCEPT ![s] = FALSE]
  <2>1. __mirror_update_worst_tail(members, tail', timers)
    BY <1>4 DEF Writeable
  <2>2. timers \in [Session -> BOOLEAN] /\ \A o \in Session : timers[o] => o # s /\ timer[o]
    BY DEF IInv, Kinds
  <2>3. TimersOK(ring, members \ dying, tail', timers)
    BY <1>2, <2>2, IInvFacts DEF IInv, TimersOK
  <2> HIDE DEF timers
  <2>4. members \subseteq members /\ members # {} /\ members \ dying \subseteq members
    BY <1>1
  <2>5. Updated(members, tail', timers, members \ dying)
    BY <1>2, <2>1, <2>2, <2>3, <2>4, UpdateWorst
  <2>6. Kinds'
    BY <1>1, <1>2, <1>3, <2>5 DEF IInv, Kinds, Updated
  <2>7. Absent'
    BY <1>1, <2>2, <2>5 DEF IInv, Absent, Updated
  <2>8. Reclaimed(ring', members', tail', dying')
    BY <1>1, <2>5 DEF Reclaimed, Updated
  <2> QED BY <1>1, <2>5, <2>6, <2>7, <2>8 DEF IInv, Updated
<1>5. CASE ~(n > 0 /\ tail[s] = ring.oldest_tail)
  <2>1. ring' = ring /\ rx_enabled' = rx_enabled /\ rx' = rx /\ timer' = timer
    BY <1>5 DEF Writeable
  <2>2. Kinds' /\ Absent'
    BY <1>1, <1>2, <1>3, <2>1 DEF IInv, Kinds, Absent
  <2>3. CASE n = 0
    BY <1>1, <1>2, <2>1, <2>2, <2>3 DEF IInv
  <2>4. CASE tail[s] # ring.oldest_tail
    <3>1. ~timer[s]
      BY <1>1, <2>4 DEF IInv, TimersOK
    <3>2. Reclaimed(ring', members', tail', dying')
      BY <1>1, <1>2, <2>1, <2>4, IInvFacts DEF IInv, Reclaimed
    <3>3. TimersOK(ring', members' \ dying', tail', timer')
      BY <1>1, <1>2, <2>1, <3>1, IInvFacts DEF IInv, TimersOK
    <3> QED BY <1>1, <1>2, <2>1, <2>2, <3>2, <3>3 DEF IInv
  <2> QED BY <1>5, <2>3, <2>4, CountAssumption DEF CountAssumption
<1> QED BY <1>4, <1>5

\* A write that fails keeps the invariant.
LEMMA WriteFailsStep ==
  ASSUME IInv, NEW s \in Session, NEW n \in 0 .. Count - 1, WriteFails(s, n)
  PROVE  IInv'
<1>1. /\ s \in members /\ n < Waiting(ring, tail[s])
      /\ out' = Elements(tail[s], n)
      /\ tail' = [tail EXCEPT ![s] = lws_ring_consume(ring, @, n)]
      /\ wants' = [wants EXCEPT ![s] = FALSE] /\ timer' = [timer EXCEPT ![s] = FALSE]
      /\ dying' = dying \cup {s} /\ ring' = ring /\ members' = members
      /\ rx_enabled' = rx_enabled /\ rx' = rx
  BY DEF WriteFails
<1>2. Waiting(ring, tail[s]) \in Nat
  BY <1>1, IInvFacts, WaitingIsDist, DistIsRange
<1>3. n <= Waiting(ring, tail[s])
  BY <1>1, <1>2, CountAssumption DEF CountAssumption
<1>4. /\ tail' \in [Session -> Slot] /\ TailsIn(ring, members, tail')
      /\ \A o \in Session \ {s} : tail'[o] = tail[o]
  BY <1>1, <1>3, ConsumeFacts
<1>5. out' \in Seq(Message \cup {Empty})
  BY <1>1, IInvFacts, ElementsSeq
<1>6. Kinds'
  BY <1>1, <1>4, <1>5 DEF IInv, Kinds
<1>7. Absent'
  BY <1>1 DEF IInv, Kinds, Absent
<1>8. TimersOK(ring', members' \ dying', tail', timer')
  BY <1>1, <1>4, IInvFacts DEF IInv, Kinds, TimersOK
<1>9. Reclaimed(ring', members', tail', dying')
  BY <1>1 DEF Reclaimed
<1> QED BY <1>1, <1>4, <1>6, <1>7, <1>8, <1>9 DEF IInv

\* A session that is about to close keeps the invariant.
LEMMA DyingStep ==
  ASSUME IInv, NEW s \in Session, Timeout(s) \/ PeerGone(s)
  PROVE  IInv'
<1>1. /\ s \in members /\ dying' = dying \cup {s}
      /\ wants' = [wants EXCEPT ![s] = FALSE] /\ timer' = [timer EXCEPT ![s] = FALSE]
      /\ ring' = ring /\ members' = members /\ tail' = tail
      /\ rx_enabled' = rx_enabled /\ rx' = rx /\ out' = out
  BY DEF Timeout, PeerGone
<1>2. Kinds'
  BY <1>1 DEF IInv, Kinds
<1>3. Absent'
  BY <1>1 DEF IInv, Kinds, Absent
<1>4. TimersOK(ring', members' \ dying', tail', timer')
  BY <1>1, IInvFacts DEF IInv, Kinds, TimersOK
<1>5. Reclaimed(ring', members', tail', dying')
  BY <1>1 DEF Reclaimed
<1> QED BY <1>1, <1>2, <1>3, <1>4, <1>5 DEF IInv

\* A session that has gone keeps the invariant.
LEMMA ClosedStep ==
  ASSUME IInv, NEW s \in Session, Closed(s)
  PROVE  IInv'
<1> DEFINE timers == [timer EXCEPT ![s] = FALSE]
<1>1. /\ s \in dying /\ members' = members \ {s} /\ dying' = dying \ {s}
      /\ tail' = [tail EXCEPT ![s] = 0] /\ wants' = [wants EXCEPT ![s] = FALSE]
      /\ out' = <<>> /\ s \in members
  BY DEF Closed, IInv, Kinds
<1>2. 0 \in Slot /\ out' \in Seq(Message \cup {Empty})
  BY <1>1, CountAssumption, EmptySeq DEF CountAssumption, Slot
<1>3. /\ tail' \in [Session -> Slot] /\ wants' \in [Session -> BOOLEAN]
      /\ dying' \in SUBSET members' /\ members' \in SUBSET Session /\ members' \subseteq members
      /\ \A o \in Session \ {s} : tail'[o] = tail[o]
  BY <1>1, <1>2 DEF IInv, Kinds
<1>4. timers \in [Session -> BOOLEAN] /\ ~timers[s] /\ \A o \in Session : timers[o] => timer[o]
  BY DEF IInv, Kinds
<1> HIDE DEF timers
<1>5. CASE members' # {}
  <2> DEFINE M == members \ {s}
  <2>1. __mirror_update_worst_tail(M, tail, timers) /\ members' = M
    BY <1>1, <1>5 DEF Closed, timers
  <2>2. M \subseteq members /\ M # {} /\ M \ dying' \subseteq M /\ M \subseteq Session
    BY <1>3, <1>5, <2>1
  <2>3. TailsIn(ring, M, tail) /\ tail \in [Session -> Slot]
    BY DEF IInv, TailsIn, Kinds
  <2>4. TimersOK(ring, M \ dying', tail, timers)
    BY <1>1, <1>4, <2>2 DEF IInv, TimersOK
  <2> HIDE DEF M
  <2>5. Updated(M, tail, timers, M \ dying')
    BY <1>4, <2>1, <2>2, <2>3, <2>4, UpdateWorst
  <2>6. \A o \in M : tail'[o] = tail[o]
    BY <1>3, <2>2 DEF M
  <2>7. TailsIn(ring', members', tail') /\ Reclaimed(ring', members', tail', dying')
    BY <2>1, <2>5, <2>6 DEF TailsIn, Reclaimed, Updated
  <2>8. TimersOK(ring', members' \ dying', tail', timer')
    BY <2>1, <2>5, <2>6 DEF TimersOK, Updated
  <2>9. Kinds'
    BY <1>2, <1>3, <2>5 DEF Kinds, Updated
  <2>10. Absent'
    BY <1>1, <1>4, <1>5, <2>1, <2>5 DEF IInv, Absent, Updated
  <2> QED BY <2>1, <2>5, <2>7, <2>8, <2>9, <2>10 DEF IInv, Updated
<1>6. CASE members' = {}
  <2>1. /\ ring' = lws_ring_update_oldest_tail(ring, ring.head) /\ timer' = timers
        /\ rx_enabled' = rx_enabled /\ rx' = rx
    BY <1>6 DEF Closed, lws_ring_destroy, timers
  <2>2. ring.head \in Slot /\ Dist(ring.head, ring.head) <= Dist(ring.oldest_tail, ring.head)
    BY IInvFacts, DistIsRange
  <2>3. RingOK(ring') /\ ring'.oldest_tail = ring.head /\ ring'.head = ring.head
    BY <2>1, <2>2, UpdatedRing DEF IInv
  <2>4. Kinds'
    BY <1>2, <1>3, <1>4, <2>1 DEF IInv, Kinds
  <2>5. Absent'
    BY <1>1, <1>4, <2>1, <2>3 DEF IInv, Absent
  <2> QED BY <1>6, <2>3, <2>4, <2>5 DEF IInv, TailsIn, Reclaimed, FlowOK, TimersOK
<1> QED BY <1>5, <1>6

\* Every step keeps the invariant.
LEMMA NextIInv == IInv /\ [Next]_vars => IInv'
<1> SUFFICES ASSUME IInv, [Next]_vars PROVE IInv'
  OBVIOUS
<1>1. ASSUME NEW s \in Session, Established(s) PROVE IInv'
  BY <1>1, EstablishedStep
<1>2. ASSUME NEW s \in Session, ReceiveDropped(s) PROVE IInv'
  BY <1>2, DroppedStep
<1>3. ASSUME NEW s \in Session, NEW m \in Message, Receive(s, m) PROVE IInv'
  BY <1>3, ReceiveStep
<1>4. ASSUME NEW s \in Session, NEW n \in 0 .. Count - 1, Writeable(s, n) PROVE IInv'
  BY <1>4, WriteableStep
<1>5. ASSUME NEW s \in Session, NEW n \in 0 .. Count - 1, WriteFails(s, n) PROVE IInv'
  BY <1>5, WriteFailsStep
<1>6. ASSUME NEW s \in Session, Timeout(s) \/ PeerGone(s) PROVE IInv'
  BY <1>6, DyingStep
<1>7. ASSUME NEW s \in Session, Closed(s) PROVE IInv'
  BY <1>7, ClosedStep
<1>8. CASE UNCHANGED vars
  BY <1>8 DEF vars, IInv, Kinds, Absent
<1> QED BY <1>1, <1>2, <1>3, <1>4, <1>5, <1>6, <1>7, <1>8 DEF Next

\* The invariant holds.
LEMMA Invariance == Spec => []IInv
BY InitIInv, NextIInv, PTL DEF Spec

(* For every ring, every pair of thresholds and any number of sessions: no *)
(* slot is freed before the slowest session read it or kept after, no tail *)
(* leaves the elements that are there, rx flow control goes with the room, *)
(* and the 3 s timeout only runs for whoever keeps the fifo from moving.   *)
THEOREM RingIsSoundHolds == Spec => []RingIsSound
BY Invariance, IInvSound, PTL

-----------------------------------------------------------------------------
(* What the ring holds from a tail to the head, as a sequence *)

From(r, t) == [i \in 1 .. Waiting(r, t) |-> r.buf[Wrap(t + i - 1)]]

Data == Message \cup {Empty}

\* The messages from a tail to the head.
LEMMA FromIsSeq ==
  ASSUME NEW r, RingOK(r), NEW t \in Slot
  PROVE  /\ From(r, t) \in Seq(Data)
         /\ Len(From(r, t)) = Dist(t, r.head) /\ Dist(t, r.head) \in 0 .. Count - 1
         /\ \A i \in 1 .. Dist(t, r.head) : /\ From(r, t)[i] = r.buf[Wrap(t + i - 1)]
                                            /\ From(r, t)[i] \in Data
                                            /\ Wrap(t + i - 1) \in Slot
                                            /\ Dist(t, Wrap(t + i - 1)) = i - 1
<1>1. r.head \in Slot /\ r.buf \in [Slot -> Data]
  BY DEF RingOK, Rings, Data
<1> DEFINE n == Dist(t, r.head)
<1>2. Waiting(r, t) = n /\ n \in 0 .. Count - 1 /\ n \in Nat
  BY <1>1, WaitingIsDist, DistIsRange, CountAssumption DEF CountAssumption
<1>3. ASSUME NEW i \in 1 .. n
      PROVE  Wrap(t + i - 1) \in Slot /\ Dist(t, Wrap(t + i - 1)) = i - 1
  <2>1. i - 1 \in 0 .. Count - 1 /\ t + (i - 1) = t + i - 1
    BY <1>2, CountAssumption DEF CountAssumption, Slot
  <2> QED BY <2>1, WrapIsSlot
<1>4. From(r, t) = [i \in 1 .. n |-> r.buf[Wrap(t + i - 1)]]
  BY <1>2 DEF From
<1> HIDE DEF n
<1>5. From(r, t) \in [1 .. n -> Data]
  BY <1>1, <1>3, <1>4
<1>6. From(r, t) \in Seq(Data)
  BY <1>2, <1>5, SeqDef
<1>7. Len(From(r, t)) = n
  BY <1>2, <1>5, <1>6, LenProperties
<1> QED BY <1>1, <1>2, <1>3, <1>4, <1>6, <1>7 DEF n

\* A message that is inserted comes last for every tail.
LEMMA FromInserted ==
  ASSUME NEW r, RingOK(r), NEW m \in Message, Dist(r.oldest_tail, r.head) < Count - 1,
         NEW t \in Slot, Dist(t, r.head) <= Dist(r.oldest_tail, r.head)
  PROVE  From(lws_ring_insert(r, m), t) = Append(From(r, t), m)
<1> DEFINE q == lws_ring_insert(r, m)
           n == Dist(t, r.head)
<1>1. r.head \in Slot /\ r.oldest_tail \in Slot /\ r.buf \in [Slot -> Data]
  BY DEF RingOK, Rings, Data
<1>2. RingOK(q) /\ q.head = Wrap(r.head + 1) /\ q.buf = [r.buf EXCEPT ![r.head] = m]
  BY InsertedRing
<1> HIDE DEF q
<1>3. n \in Nat /\ n < Count - 1 /\ Dist(r.oldest_tail, r.head) \in Nat /\ Count \in Nat
  BY <1>1, DistIsRange, CountAssumption DEF CountAssumption
<1>4. Dist(t, q.head) = n + 1
  BY <1>1, <1>2, <1>3, Inserted
<1>5. /\ From(r, t) \in Seq(Data) /\ Len(From(r, t)) = n
      /\ \A i \in 1 .. n : /\ From(r, t)[i] = r.buf[Wrap(t + i - 1)]
                           /\ Wrap(t + i - 1) \in Slot
                           /\ Dist(t, Wrap(t + i - 1)) = i - 1
  BY FromIsSeq
<1>6. /\ From(q, t) \in Seq(Data) /\ Len(From(q, t)) = n + 1
      /\ \A i \in 1 .. n + 1 : From(q, t)[i] = q.buf[Wrap(t + i - 1)]
  <2>1. /\ From(q, t) \in Seq(Data) /\ Len(From(q, t)) = Dist(t, q.head)
        /\ \A i \in 1 .. Dist(t, q.head) : From(q, t)[i] = q.buf[Wrap(t + i - 1)]
    <3>1. RingOK(q)
      BY <1>2
    <3> QED BY <3>1, FromIsSeq
  <2> QED BY <1>4, <2>1
<1>7. /\ Append(From(r, t), m) \in Seq(Data) /\ Len(Append(From(r, t), m)) = n + 1
      /\ \A i \in 1 .. n : Append(From(r, t), m)[i] = From(r, t)[i]
      /\ Append(From(r, t), m)[n + 1] = m
  BY <1>5, AppendProperties DEF Data
<1>8. ASSUME NEW i \in 1 .. n + 1 PROVE From(q, t)[i] = Append(From(r, t), m)[i]
  <2>1. CASE i = n + 1
    <3>1. Wrap(t + n) = r.head
      BY <1>1, DistIsRange
    <3>2. t + i - 1 = t + n
      BY <1>3, <2>1, CountAssumption DEF Slot, CountAssumption
    <3> QED BY <1>1, <1>2, <1>6, <1>7, <2>1, <3>1, <3>2
  <2>2. CASE i # n + 1
    <3>1. i \in 1 .. n
      BY <1>3, <2>2
    <3>2. Wrap(t + i - 1) \in Slot /\ Dist(t, Wrap(t + i - 1)) # n
      BY <1>3, <1>5, <3>1
    <3>3. Wrap(t + i - 1) # r.head
      BY <3>2
    <3> QED BY <1>1, <1>2, <1>5, <1>6, <1>7, <3>1, <3>2, <3>3
  <2> QED BY <2>1, <2>2
<1> HIDE DEF n
<1> QED BY <1>6, <1>7, <1>8, SeqEqual DEF q

\* Consuming takes the first messages of the tail.
LEMMA FromConsumed ==
  ASSUME NEW r, RingOK(r), NEW t \in Slot, NEW n \in 0 .. Dist(t, r.head)
  PROVE  /\ From(r, Wrap(t + n)) = SubSeq(From(r, t), n + 1, Len(From(r, t)))
         /\ [i \in 1 .. n |-> r.buf[Wrap(t + i - 1)]] = SubSeq(From(r, t), 1, n)
<1> DEFINE d == Dist(t, r.head)
           u == Wrap(t + n)
<1>1. r.head \in Slot
  BY DEF RingOK, Rings
<1>2. u \in Slot /\ Dist(u, r.head) = d - n
  BY <1>1, Consumed
<1>3. /\ From(r, t) \in Seq(Data) /\ Len(From(r, t)) = d /\ d \in 0 .. Count - 1
      /\ \A i \in 1 .. d : From(r, t)[i] = r.buf[Wrap(t + i - 1)] /\ From(r, t)[i] \in Data
  BY FromIsSeq
<1>4. d \in Nat /\ n \in Nat /\ n <= d /\ Count \in Nat /\ d <= Count - 1 /\ t \in Nat
  BY <1>3, CountAssumption DEF CountAssumption, Slot
<1>5. /\ From(r, u) \in Seq(Data) /\ Len(From(r, u)) = d - n
      /\ \A i \in 1 .. d - n : From(r, u)[i] = r.buf[Wrap(u + i - 1)]
  BY <1>2, FromIsSeq
<1> DEFINE v == SubSeq(From(r, t), n + 1, d)
           w == SubSeq(From(r, t), 1, n)
           e == [i \in 1 .. n |-> r.buf[Wrap(t + i - 1)]]
<1>6. /\ v \in Seq(Data) /\ Len(v) = d - n
      /\ \A i \in 1 .. d - n : v[i] = From(r, t)[n + i]
  <2>1. \A i \in n + 1 .. d : From(r, t)[i] \in Data
    BY <1>3, <1>4
  <2>2. /\ v \in Seq(Data) /\ Len(v) = IF n + 1 <= d THEN d - (n + 1) + 1 ELSE 0
        /\ \A i \in 1 .. d - (n + 1) + 1 : v[i] = From(r, t)[n + 1 + i - 1]
    BY <1>4, <2>1, SubSeqProperties
  <2>3. Len(v) = d - n
    BY <1>4, <2>2
  <2>4. \A i \in 1 .. d - n : n + 1 + i - 1 = n + i /\ i \in 1 .. d - (n + 1) + 1
    BY <1>4
  <2> QED BY <2>2, <2>3, <2>4
<1>7. /\ w \in Seq(Data) /\ Len(w) = n /\ \A i \in 1 .. n : w[i] = From(r, t)[i]
  <2>1. \A i \in 1 .. n : From(r, t)[i] \in Data
    BY <1>3, <1>4
  <2>2. /\ w \in Seq(Data) /\ Len(w) = IF 1 <= n THEN n - 1 + 1 ELSE 0
        /\ \A i \in 1 .. n - 1 + 1 : w[i] = From(r, t)[1 + i - 1]
    BY <1>4, <2>1, SubSeqProperties
  <2>3. Len(w) = n
    BY <1>4, <2>2
  <2>4. \A i \in 1 .. n : 1 + i - 1 = i /\ i \in 1 .. n - 1 + 1
    BY <1>4
  <2> QED BY <2>2, <2>3, <2>4
<1> HIDE DEF v, w, d
<1>8. From(r, u) = v
  <2>1. ASSUME NEW i \in 1 .. d - n PROVE From(r, u)[i] = v[i]
    <3>1. i - 1 \in 0 .. Count - 1 /\ n + (i - 1) <= Count - 1 /\ n \in 0 .. Count - 1
      BY <1>4
    <3>2. Wrap(u + (i - 1)) = Wrap(t + n + (i - 1))
      BY <3>1, WrapTwice
    <3>3. u \in Nat /\ u + (i - 1) = u + i - 1 /\ t + n + (i - 1) = t + (n + i) - 1
      BY <1>2, <1>4, CountAssumption DEF CountAssumption, Slot
    <3>4. n + i \in 1 .. d
      BY <1>4
    <3>5. From(r, u)[i] = r.buf[Wrap(u + i - 1)]
      BY <1>5
    <3>6. v[i] = From(r, t)[n + i] /\ From(r, t)[n + i] = r.buf[Wrap(t + (n + i) - 1)]
      BY <1>3, <1>6, <3>4
    <3> QED BY <3>2, <3>3, <3>5, <3>6
  <2> QED BY <1>5, <1>6, <2>1, SeqEqual
<1>9. e = w
  <2>1. \A i \in 1 .. n : i \in 1 .. d /\ e[i] = r.buf[Wrap(t + i - 1)]
    BY <1>4
  <2>a. e \in [1 .. n -> Data] /\ \A i \in 1 .. n : e[i] = w[i]
    <3>1. \A i \in 1 .. n : e[i] = w[i] /\ r.buf[Wrap(t + i - 1)] \in Data
      BY <1>3, <1>7, <2>1
    <3> QED BY <3>1 DEF e
  <2> HIDE DEF e
  <2>2. e \in Seq(Data)
    BY <1>4, <2>a, SeqDef
  <2>3. Len(e) = n
    BY <1>4, <2>a, <2>2, LenProperties
  <2> QED BY <1>7, <2>a, <2>2, <2>3, SeqEqual
<1> QED BY <1>3, <1>8, <1>9 DEF v, w

\* Freeing slots leaves the messages of every tail that is behind none of
\* them.
LEMMA FromUpdated ==
  ASSUME NEW r, RingOK(r), NEW u \in Slot, Dist(u, r.head) <= Dist(r.oldest_tail, r.head),
         NEW t \in Slot, Dist(t, r.head) <= Dist(u, r.head)
  PROVE  From(lws_ring_update_oldest_tail(r, u), t) = From(r, t)
<1> DEFINE q == lws_ring_update_oldest_tail(r, u)
           h == r.head
           n == Dist(t, h)
<1>1. /\ RingOK(q) /\ q.head = h
      /\ \A x \in Slot : Dist(u, x) < Dist(u, h) => q.buf[x] = r.buf[x]
  BY UpdatedRing
<1>2. h \in Slot /\ r.oldest_tail \in Slot
  BY DEF RingOK, Rings
<1> HIDE DEF q
<1>3. Waiting(q, t) = n /\ Waiting(r, t) = n
  BY <1>1, <1>2, WaitingIsDist
<1>4. /\ n \in Nat
      /\ \A i \in 1 .. n : Wrap(t + i - 1) \in Slot /\ Dist(t, Wrap(t + i - 1)) = i - 1
  <2>1. n \in Nat
    BY <1>2, DistIsRange
  <2> QED BY <2>1, FromIsSeq
<1> HIDE DEF n
<1>5. ASSUME NEW i \in 1 .. n PROVE q.buf[Wrap(t + i - 1)] = r.buf[Wrap(t + i - 1)]
  <2> DEFINE x == Wrap(t + i - 1)
  <2>1. x \in Slot /\ Dist(t, x) < Dist(t, h)
    BY <1>4 DEF n
  <2> HIDE DEF x, h
  <2>2. Dist(t, h) <= Dist(u, h)
    BY DEF h
  <2>3. Dist(u, x) < Dist(u, h)
    BY <1>2, <2>1, <2>2, CountAssumption DEF CountAssumption, Slot, Dist
  <2>4. q.buf[x] = r.buf[x]
    BY <1>1, <2>1, <2>3
  <2> QED BY <2>4 DEF x
<1>6. From(q, t) = [i \in 1 .. n |-> r.buf[Wrap(t + i - 1)]]
  BY <1>3, <1>5 DEF From
<1> QED BY <1>3, <1>6 DEF From, q

\* what a later tail has to read is the end of what an earlier one has
LEMMA FromSuffix ==
  ASSUME NEW r, RingOK(r), NEW a \in Slot, NEW t \in Slot, Dist(t, r.head) <= Dist(a, r.head)
  PROVE  From(r, t) = Queues!Suffix(From(r, a), Dist(t, r.head))
<1> DEFINE h == r.head
           n == Dist(a, t)
<1>1. h \in Slot
  BY DEF RingOK, Rings
<1>2. n + Dist(t, h) = Dist(a, h) /\ Wrap(a + n) = t
  BY <1>1, NearHead, DistIsRange
<1>3. n \in Nat /\ Dist(t, h) \in Nat /\ Dist(a, h) \in Nat
  BY <1>1, DistIsRange
<1>4. n \in 0 .. Dist(a, h)
  BY <1>2, <1>3
<1>5. Len(From(r, a)) = Dist(a, h)
  BY FromIsSeq
<1>6. From(r, t) = SubSeq(From(r, a), n + 1, Len(From(r, a)))
  BY <1>2, <1>4, FromConsumed
<1>7. n + 1 = Len(From(r, a)) - Dist(t, h) + 1
  BY <1>2, <1>3, <1>5
<1> QED BY <1>6, <1>7 DEF Queues!Suffix

-----------------------------------------------------------------------------
(* Each step of the ring is a step of the queues *)

Kept == From(ring, ring.oldest_tail)
Queue == [s \in Session |-> IF s \in members THEN From(ring, tail[s]) ELSE <<>>]

\* The refinement mapping, written with From.
LEMMA Mapping ==
  /\ Contents(ring.oldest_tail) = Kept
  /\ [s \in Session |-> IF s \in members THEN Contents(tail[s]) ELSE <<>>] = Queue
  /\ Contents(ring.oldest_tail)' = Kept'
  /\ [s \in Session |-> IF s \in members THEN Contents(tail[s]) ELSE <<>>]' = Queue'
BY DEF Contents, Elements, Kept, Queue, From

\* What the queues keep is what the slowest session has to read.
LEMMA TrimmedIs ==
  ASSUME IInv, NEW M, NEW t, \A s \in M : t[s] \in Slot, TailsIn(ring, M, t), NEW w \in M,
         \A o \in M : Dist(t[o], ring.head) <= Dist(t[w], ring.head),
         NEW q, \A s \in M : q[s] = From(ring, t[s])
  PROVE  Queues!Trimmed(M, q) = From(ring, t[w])
<1> DEFINE h == ring.head
           a == ring.oldest_tail
           d == Dist(t[w], h)
           P(n) == (\A r \in M : Len(q[r]) <= n) /\ (\E r \in M : Len(q[r]) = n)
<1>1. RingOK(ring) /\ a \in Slot /\ h \in Slot
  BY IInvFacts DEF IInv
<1>2. Len(Kept) = Dist(a, h)
  BY <1>1, FromIsSeq DEF Kept
<1>3. \A s \in M : Len(q[s]) = Dist(t[s], h) /\ Dist(t[s], h) \in Nat
  BY <1>1, FromIsSeq, DistIsRange
<1>4. d \in 0 .. Len(Kept) /\ P(d)
  BY <1>1, <1>2, <1>3, DistIsRange DEF TailsIn
<1>5. ASSUME NEW n \in 0 .. Len(Kept), P(n) PROVE n = d
  <2>1. PICK r \in M : Len(q[r]) = n
    BY <1>5
  <2>2. n <= d
    BY <1>3, <2>1
  <2>3. d <= n
    BY <1>3, <1>5
  <2>4. n \in Nat /\ d \in Nat
    BY <1>2, <1>3, <2>1
  <2> QED BY <2>2, <2>3, <2>4
<1>6. (CHOOSE n \in 0 .. Len(Kept) : P(n)) = d
  BY <1>4, <1>5
<1>7. Queues!Trimmed(M, q) = Queues!Suffix(Kept, CHOOSE n \in 0 .. Len(Kept) : P(n))
  BY Mapping DEF Queues!Trimmed
<1>8. Queues!Suffix(Kept, d) = From(ring, t[w])
  BY <1>1, FromSuffix DEF Kept, TailsIn
<1> QED BY <1>6, <1>7, <1>8

\* The queues have their types, and lengths that are ways to the head.
LEMMA QueueFacts ==
  ASSUME IInv
  PROVE  /\ Queue \in [Session -> Seq(Data)] /\ Kept \in Seq(Data)
         /\ Len(Kept) = Dist(ring.oldest_tail, ring.head)
         /\ \A s \in members : Queue[s] = From(ring, tail[s]) /\ Len(Queue[s]) = Dist(tail[s], ring.head)
<1>1. RingOK(ring) /\ ring.oldest_tail \in Slot /\ \A s \in members : s \in Session /\ tail[s] \in Slot
  BY IInvFacts DEF IInv
<1>2. \A s \in members : From(ring, tail[s]) \in Seq(Data) /\ Len(From(ring, tail[s])) = Dist(tail[s], ring.head)
  BY <1>1, FromIsSeq
<1>3. <<>> \in Seq(Data)
  BY EmptySeq
<1> QED BY <1>1, <1>2, <1>3, FromIsSeq DEF Queue, Kept

\* From the head on there is nothing.
LEMMA NothingFrom ==
  ASSUME NEW r, RingOK(r) PROVE From(r, r.head) = <<>>
<1>1. r.head \in Slot
  BY DEF RingOK, Rings
<1>2. From(r, r.head) \in Seq(Data) /\ Len(From(r, r.head)) = 0
  BY <1>1, FromIsSeq, DistIsRange
<1> QED BY <1>2, EmptySeq

\* The mirror begins as the queues do.
LEMMA InitQueues == Init => Queues!Init
<1> SUFFICES ASSUME Init PROVE Queues!Init
  OBVIOUS
<1>1. RingOK(ring) /\ ring.head = ring.oldest_tail
  BY CreatedRing DEF Init
<1>2. Kept = <<>>
  BY <1>1, NothingFrom DEF Kept
<1>3. Queue = [s \in Session |-> <<>>]
  BY DEF Queue, Init
<1> QED BY <1>2, <1>3, Mapping DEF Queues!Init, Init

\* A session that is established joins the queues, with nothing to read.
LEMMA JoinStep ==
  ASSUME IInv, IInv', NEW s \in Session, Established(s)
  PROVE  Queues!Join(s)
<1>1. /\ members' = members \cup {s} /\ s \notin members
      /\ ring' = IF members = {} THEN lws_ring_create ELSE ring
      /\ tail' = [tail EXCEPT ![s] = ring'.oldest_tail] /\ out' = <<>>
  BY DEF Established
<1>2. RingOK(ring) /\ RingOK(ring') /\ tail'[s] = ring'.oldest_tail
  BY <1>1 DEF IInv, Kinds
<1>3. Kept' = Kept
  <2>1. CASE members = {}
    <3>1. ring.oldest_tail = ring.head /\ ring'.oldest_tail = ring'.head
      BY <1>1, <2>1, CreatedRing DEF IInv, Absent
    <3> QED BY <1>2, <3>1, NothingFrom DEF Kept
  <2>2. CASE members # {}
    BY <1>1, <2>2 DEF Kept
  <2> QED BY <2>1, <2>2
<1>4. Queue' = [Queue EXCEPT ![s] = Kept]
  <2>1. \A o \in members : From(ring', tail'[o]) = From(ring, tail[o])
    BY <1>1 DEF IInv, Kinds
  <2>2. From(ring', tail'[s]) = Kept'
    BY <1>2 DEF Kept
  <2> QED BY <1>1, <1>3, <2>1, <2>2 DEF Queue
<1> QED BY <1>1, <1>3, <1>4, Mapping DEF Queues!Join

\* A message that is taken is published to every queue.
LEMMA PublishStep ==
  ASSUME IInv, NEW s \in Session, NEW m \in Message, Receive(s, m)
  PROVE  Queues!Publish(m)
<1>1. /\ Free(ring) > 0 /\ ring' = lws_ring_insert(ring, m)
      /\ members' = members /\ tail' = tail /\ out' = <<>>
  BY DEF Receive
<1>2. RingOK(ring) /\ Dist(ring.oldest_tail, ring.head) < Count - 1
  BY <1>1, IInvFacts, FreeIsDist DEF IInv
<1>3. ASSUME NEW t \in Slot, Dist(t, ring.head) <= Dist(ring.oldest_tail, ring.head)
      PROVE  From(ring', t) = Append(From(ring, t), m)
  BY <1>1, <1>2, <1>3, FromInserted
<1>4. ring'.oldest_tail = ring.oldest_tail
  BY <1>1, <1>2, InsertedRing
<1>5. Kept' = Append(Kept, m)
  BY <1>3, <1>4, IInvFacts DEF Kept
<1>6. \A o \in members : o \in Session /\ From(ring', tail[o]) = Append(From(ring, tail[o]), m)
  BY <1>3, IInvFacts DEF IInv, TailsIn
<1>7. Queue' = [o \in Session |-> IF o \in members THEN Append(Queue[o], m) ELSE Queue[o]]
  BY <1>1, <1>6 DEF Queue
<1>8. Len(Kept) < Count - 1
  BY <1>2, QueueFacts
<1> QED BY <1>1, <1>5, <1>7, <1>8, Mapping DEF Queues!Publish

\* n elements are consumed: the same n go out of the queue
LEMMA Delivered ==
  ASSUME IInv, NEW s \in members, NEW n \in 0 .. Count - 1, n <= Waiting(ring, tail[s]),
         out' = Elements(tail[s], n),
         tail' = [tail EXCEPT ![s] = lws_ring_consume(ring, @, n)],
         members' = members
  PROVE  /\ n <= Len(Queue[s]) /\ out' = SubSeq(Queue[s], 1, n)
         /\ LET q == [Queue EXCEPT ![s] = SubSeq(@, n + 1, Len(@))]
            IN  \A o \in Session : q[o] = IF o \in members THEN From(ring, tail'[o]) ELSE <<>>
<1>1. /\ tail'[s] = Wrap(tail[s] + n)
      /\ \A o \in Session \ {s} : tail'[o] = tail[o]
  BY ConsumeFacts
<1>2. RingOK(ring) /\ s \in Session /\ tail[s] \in Slot /\ ring.head \in Slot
  BY IInvFacts DEF IInv
<1>3. Waiting(ring, tail[s]) = Dist(tail[s], ring.head) /\ Dist(tail[s], ring.head) \in Nat
  BY <1>2, WaitingIsDist, DistIsRange
<1>4. n \in 0 .. Dist(tail[s], ring.head) /\ n <= Len(Queue[s])
  BY <1>3, QueueFacts, CountAssumption DEF CountAssumption
<1>5. /\ From(ring, tail'[s]) = SubSeq(From(ring, tail[s]), n + 1, Len(From(ring, tail[s])))
      /\ Elements(tail[s], n) = SubSeq(From(ring, tail[s]), 1, n)
  BY <1>1, <1>2, <1>4, FromConsumed DEF Elements
<1>6. Queue[s] = From(ring, tail[s]) /\ Queue \in [Session -> Seq(Data)]
  BY QueueFacts
<1>7. \A o \in Session \ {s} : Queue[o] = IF o \in members THEN From(ring, tail'[o]) ELSE <<>>
  BY <1>1 DEF Queue
<1> QED BY <1>2, <1>4, <1>5, <1>6, <1>7

\* Moving the oldest tail changes no queue.
LEMMA FollowWorst ==
  ASSUME IInv, NEW M, M \subseteq members, NEW t, t \in [Session -> Slot], TailsIn(ring, M, t),
         NEW timers, NEW N, Updated(M, t, timers, N),
         NEW q, \A s \in M : q[s] = From(ring, t[s])
  PROVE  /\ \A s \in M : From(ring', t[s]) = From(ring, t[s])
         /\ Kept' = Queues!Trimmed(M, q)
<1>1. PICK w \in M : /\ t[w] = ring'.oldest_tail
                     /\ ring' = lws_ring_update_oldest_tail(ring, t[w])
                     /\ \A o \in M : Dist(t[o], ring.head) <= Dist(t[w], ring.head)
  BY DEF Updated
<1>2. RingOK(ring) /\ \A s \in M : t[s] \in Slot
  BY IInvFacts DEF IInv
<1>3. Dist(t[w], ring.head) <= Dist(ring.oldest_tail, ring.head)
  BY DEF TailsIn
<1>4. \A s \in M : From(ring', t[s]) = From(ring, t[s])
  BY <1>1, <1>2, <1>3, FromUpdated
<1>5. Kept' = From(ring, t[w])
  BY <1>1, <1>4 DEF Kept
<1>6. Queues!Trimmed(M, q) = From(ring, t[w])
  BY <1>1, <1>2, TrimmedIs
<1> QED BY <1>4, <1>5, <1>6

\* Writing delivers the first messages of one queue.
LEMMA DeliverStep ==
  ASSUME IInv, NEW s \in Session, NEW n \in 0 .. Count - 1, Writeable(s, n) \/ WriteFails(s, n)
  PROVE  Queues!Deliver(s, n)
<1> DEFINE q == [Queue EXCEPT ![s] = SubSeq(@, n + 1, Len(@))]
<1>1. s \in members /\ Waiting(ring, tail[s]) \in Nat /\ n \in Nat
  BY IInvFacts, WaitingIsDist, DistIsRange, CountAssumption
     DEF CountAssumption, Writeable, WriteFails
<1>2. /\ n <= Waiting(ring, tail[s]) /\ out' = Elements(tail[s], n)
      /\ tail' = [tail EXCEPT ![s] = lws_ring_consume(ring, @, n)] /\ members' = members
  BY <1>1 DEF Writeable, WriteFails
<1>3. /\ n <= Len(Queue[s]) /\ out' = SubSeq(Queue[s], 1, n)
      /\ \A o \in Session : q[o] = IF o \in members THEN From(ring, tail'[o]) ELSE <<>>
  BY <1>1, <1>2, Delivered
<1>4. tail' \in [Session -> Slot] /\ TailsIn(ring, members, tail') /\ members \subseteq Session
  BY <1>1, <1>2, ConsumeFacts DEF IInv, Kinds
<1>5. DOMAIN q = Session
  BY QueueFacts
<1> HIDE DEF q
<1>6. Queue' = q /\ Kept' \in {Kept, Queues!Trimmed(members, q)}
  <2>1. CASE ring' = ring
    <3>1. Kept' = Kept
      BY <2>1 DEF Kept
    <3>2. Queue' = [o \in Session |-> IF o \in members THEN From(ring, tail'[o]) ELSE <<>>]
      BY <1>2, <2>1 DEF Queue
    <3>3. Queue' = q
      BY <1>3, <1>5, <3>2, QueueFacts DEF q
    <3> QED BY <3>1, <3>3
  <2>2. CASE ring' # ring
    <3> DEFINE timers == [timer EXCEPT ![s] = FALSE]
    <3>1. __mirror_update_worst_tail(members, tail', timers)
      BY <2>2 DEF Writeable, WriteFails
    <3>2. timers \in [Session -> BOOLEAN] /\ TimersOK(ring, {}, tail', timers)
      BY DEF IInv, Kinds, TimersOK
    <3> HIDE DEF timers
    <3>3. members \subseteq members /\ members # {} /\ {} \subseteq members
      BY <1>1
    <3>4. Updated(members, tail', timers, {})
      BY <1>4, <3>1, <3>2, <3>3, UpdateWorst
    <3>5. \A o \in members : q[o] = From(ring, tail'[o])
      BY <1>3, <1>4
    <3>6. /\ \A o \in members : From(ring', tail'[o]) = From(ring, tail'[o])
          /\ Kept' = Queues!Trimmed(members, q)
      BY <1>4, <3>3, <3>4, <3>5, FollowWorst
    <3>7. Queue' = [o \in Session |-> IF o \in members THEN From(ring, tail'[o]) ELSE <<>>]
      BY <1>2, <3>6 DEF Queue
    <3>8. Queue' = q
      BY <1>3, <1>5, <3>7, QueueFacts DEF q
    <3> QED BY <3>6, <3>8
  <2> QED BY <2>1, <2>2
<1> QED BY <1>1, <1>2, <1>3, <1>6, Mapping DEF Queues!Deliver, q

\* A session that is closed leaves.
LEMMA LeaveStep ==
  ASSUME IInv, IInv', NEW s \in Session, Closed(s)
  PROVE  Queues!Leave(s)
<1> DEFINE q == [Queue EXCEPT ![s] = <<>>]
           M == members \ {s}
<1>1. /\ s \in members /\ members' = M /\ out' = <<>> /\ tail' = [tail EXCEPT ![s] = 0]
  BY DEF Closed, IInv, Kinds
<1>2. \A o \in M : o \in Session /\ q[o] = From(ring, tail[o]) /\ tail'[o] = tail[o]
  BY <1>1, QueueFacts, IInvFacts DEF IInv, Kinds
<1>3. q = [o \in Session |-> IF o \in M THEN From(ring, tail[o]) ELSE <<>>]
  BY DEF Queue
<1> HIDE DEF q
<1>4. CASE M = {}
  <2>1. Kept' = <<>>
    BY <1>1, <1>4, NothingFrom DEF IInv, Absent, Kept
  <2>2. Queue' = q
    BY <1>1, <1>3, <1>4 DEF Queue
  <2> QED BY <1>1, <1>4, <2>1, <2>2, Mapping DEF Queues!Leave, q
<1>5. CASE M # {}
  <2> DEFINE timers == [timer EXCEPT ![s] = FALSE]
  <2>1. __mirror_update_worst_tail(M, tail, timers)
    BY <1>1, <1>5 DEF Closed
  <2>2. /\ timers \in [Session -> BOOLEAN] /\ TimersOK(ring, {}, tail, timers)
        /\ M \subseteq members /\ {} \subseteq M /\ tail \in [Session -> Slot]
        /\ TailsIn(ring, M, tail)
    BY DEF IInv, Kinds, TimersOK, TailsIn
  <2> HIDE DEF timers, M
  <2>3. Updated(M, tail, timers, {})
    BY <1>5, <2>1, <2>2, UpdateWorst
  <2>4. \A o \in M : q[o] = From(ring, tail[o])
    BY <1>2
  <2>5. /\ \A o \in M : From(ring', tail[o]) = From(ring, tail[o])
        /\ Kept' = Queues!Trimmed(M, q)
    BY <2>2, <2>3, <2>4, FollowWorst
  <2>6. Queue' = [o \in Session |-> IF o \in M THEN From(ring, tail[o]) ELSE <<>>]
    BY <1>1, <1>2, <2>5 DEF Queue
  <2>7. Queue' = q
    BY <1>3, <2>6
  <2>8. Kept' = Queues!Trimmed(members', q) /\ members' # {} /\ members' = members \ {s}
    BY <1>1, <1>5, <2>5 DEF M
  <2> QED BY <1>1, <2>7, <2>8, Mapping DEF Queues!Leave, q
<1> QED BY <1>4, <1>5

\* Every step is a step of the queues, or leaves them.
LEMMA NextQueues ==
  ASSUME IInv, [Next]_vars
  PROVE  [Queues!Next]_Queues!qvars
<1>1. IInv'
  BY NextIInv
<1>2. ASSUME ring' = ring, members' = members, tail' = tail, out' = out
      PROVE  UNCHANGED Queues!qvars
  <2>1. Kept' = Kept /\ Queue' = Queue
    BY <1>2 DEF Kept, Queue
  <2> QED BY <1>2, <2>1, Mapping DEF Queues!qvars
<1>3. ASSUME NEW s \in Session, Established(s) PROVE Queues!Next
  BY <1>1, <1>3, JoinStep DEF Queues!Next
<1>4. ASSUME NEW s \in Session, ReceiveDropped(s) \/ Timeout(s) \/ PeerGone(s)
      PROVE  UNCHANGED Queues!qvars
  BY <1>2, <1>4 DEF ReceiveDropped, Timeout, PeerGone
<1>5. ASSUME NEW s \in Session, NEW m \in Message, Receive(s, m) PROVE Queues!Next
  BY <1>5, PublishStep DEF Queues!Next
<1>6. ASSUME NEW s \in Session, NEW n \in 0 .. Count - 1, Writeable(s, n) \/ WriteFails(s, n)
      PROVE  Queues!Next
  BY <1>6, DeliverStep DEF Queues!Next
<1>7. ASSUME NEW s \in Session, Closed(s) PROVE Queues!Next
  BY <1>1, <1>7, LeaveStep DEF Queues!Next
<1>8. CASE UNCHANGED vars
  BY <1>2, <1>8 DEF vars
<1> QED BY <1>3, <1>4, <1>5, <1>6, <1>7, <1>8 DEF Next

(* The ring of any size implements a queue for each of any number of       *)
(* sessions: what RECEIVE accepts reaches every session that is there in   *)
(* order and once, and the ring keeps what the slowest still has to read.  *)
THEOREM ImplementsQueuesHolds == Spec => ImplementsQueues
<1>1. Init => Queues!Init
  BY InitQueues
<1>2. IInv /\ [Next]_vars => [Queues!Next]_Queues!qvars
  BY NextQueues
<1> QED
  BY <1>1, <1>2, Invariance, PTL DEF Spec, ImplementsQueues, Queues!Spec

=============================================================================
