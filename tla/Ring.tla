------------------------------- MODULE Ring -------------------------------
(***************************************************************************)
(* lws_ring (lib/misc/lws-ring.c): a ring of Count elements with one head  *)
(* and many tails.  The ring itself only knows the oldest of the tails;    *)
(* each reader keeps its own.  Byte offsets are counted in elements: every *)
(* offset is a multiple of element_len, and f < 2 is then the same as no   *)
(* element.  A slot whose element was destroyed, or that was never written,*)
(* is Empty.                                                               *)
(***************************************************************************)
EXTENDS Integers

CONSTANTS Count,   \* elements of the ring, one of which is never used
          Empty    \* a slot that holds no element

ASSUME CountAssumption == Count \in Nat /\ Count >= 2

Slot == 0 .. Count - 1

(* x % buflen, for an x that is less than twice buflen *)
Wrap(x) == IF x >= Count THEN x - Count ELSE x

(* the slots from a up to but not including b, going round the end *)
Between(a, b) ==
  {x \in Slot : IF a <= b THEN a <= x /\ x < b ELSE x >= a \/ x < b}

lws_ring_create == [buf |-> [x \in Slot |-> Empty], head |-> 0, oldest_tail |-> 0]

lws_ring_get_count_free_elements(ring) ==
  IF ring.head = ring.oldest_tail THEN Count - 1
  ELSE IF ring.head < ring.oldest_tail THEN (ring.oldest_tail - ring.head) - 1
       ELSE (Count - ring.head) + ring.oldest_tail - 1

lws_ring_get_count_waiting_elements(ring, tail) ==
  IF ring.head = tail THEN 0
  ELSE IF ring.head > tail THEN ring.head - tail
       ELSE (Count - tail) + ring.head

(* one element; the caller has found that there is a free one *)
lws_ring_insert(ring, e) ==
  [ring EXCEPT !.buf[ring.head] = e, !.head = Wrap(@ + 1)]

(* Mutant: the last element that waits is never consumed. *)
lws_ring_consume_Short(ring, tail, n) ==
  LET waiting == lws_ring_get_count_waiting_elements(ring, tail)
  IN  Wrap(tail + (IF n >= waiting /\ n > 0 THEN waiting - 1 ELSE n))

(* the tail after n elements are consumed without a copy, dest being NULL *)
lws_ring_consume(ring, tail, n) ==
  LET waiting == lws_ring_get_count_waiting_elements(ring, tail)
  IN  Wrap(tail + (IF n > waiting THEN waiting ELSE n))

(* the loop destroys every element it passes on its way to the new tail *)
lws_ring_update_oldest_tail(ring, tail) ==
  LET passed == Between(ring.oldest_tail, tail)
  IN  [ring EXCEPT !.buf = [x \in Slot |-> IF x \in passed THEN Empty ELSE ring.buf[x]],
                   !.oldest_tail = tail]

lws_ring_destroy(ring) == lws_ring_update_oldest_tail(ring, ring.head)
===========================================================================
