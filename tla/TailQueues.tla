---------------------------- MODULE TailQueues ----------------------------
(***************************************************************************)
(* What a shared fifo with many readers promises: every reader has a queue *)
(* of its own that begins with what the fifo still keeps when it joins,    *)
(* every message accepted later is added to every queue, and every queue   *)
(* is delivered in order, nothing lost and nothing twice.  The fifo keeps  *)
(* at least what the slowest reader has not read, and takes a message only *)
(* while it keeps fewer than Capacity.                                     *)
(***************************************************************************)
EXTENDS Integers, Sequences

CONSTANTS Reader, Message, Capacity

VARIABLES kept,     \* the messages the fifo still keeps
          readers,  \* who reads them
          queue,    \* what each reader still has to get
          out       \* what the last step gave to a reader

qvars == <<kept, readers, queue, out>>

Init == /\ kept = <<>>
        /\ readers = {}
        /\ queue = [r \in Reader |-> <<>>]
        /\ out = <<>>

Suffix(s, n) == SubSeq(s, Len(s) - n + 1, Len(s))

(* what the fifo has to keep when the readers R have the queues q *)
Trimmed(R, q) ==
  Suffix(kept, CHOOSE n \in 0 .. Len(kept) : /\ \A r \in R : Len(q[r]) <= n
                                            /\ \E r \in R : Len(q[r]) = n)

Join(r) ==
  /\ out' = <<>>
  /\ r \notin readers
  /\ readers' = readers \cup {r}
  /\ queue' = [queue EXCEPT ![r] = kept]
  /\ UNCHANGED kept

Publish(m) ==
  /\ UNCHANGED readers
  /\ out' = <<>>
  /\ Len(kept) < Capacity
  /\ kept' = Append(kept, m)
  /\ queue' = [r \in Reader |-> IF r \in readers THEN Append(queue[r], m)
                                                 ELSE queue[r]]

Deliver(r, n) ==
  /\ UNCHANGED readers
  /\ r \in readers
  /\ n <= Len(queue[r])
  /\ out' = SubSeq(queue[r], 1, n)
  /\ LET q == [queue EXCEPT ![r] = SubSeq(@, n + 1, Len(@))]
     IN  queue' = q /\ kept' \in {kept, Trimmed(readers, q)}

Leave(r) ==
  /\ out' = <<>>
  /\ r \in readers
  /\ readers' = readers \ {r}
  /\ LET q == [queue EXCEPT ![r] = <<>>]
     IN  /\ queue' = q
         /\ kept' = IF readers' = {} THEN <<>> ELSE Trimmed(readers', q)

Next == \/ \E r \in Reader : Join(r) \/ Leave(r)
        \/ \E m \in Message : Publish(m)
        \/ \E r \in Reader, n \in 0 .. Capacity : Deliver(r, n)

Spec == Init /\ [][Next]_qvars
===========================================================================
