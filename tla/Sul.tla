-------------------------------- MODULE Sul --------------------------------
(***************************************************************************)
(* The sorted list of timers of a service thread (pt->pt_sul_owner): what  *)
(* lws_dll2_add_sorted() and __lws_sul_insert() do to it.                  *)
(*                                                                         *)
(* An entry is [sul, us].  Times count from usnow, the moment the current  *)
(* or the last pass of __lws_sul_service_ripe() began, and now is how long *)
(* ago that was: an entry with us <= 0 is ripe.                            *)
(***************************************************************************)
EXTENDS Integers, Sequences

Cancel == -1                                 \* LWS_SET_TIMER_USEC_CANCEL

Ripe(entry) == entry.us <= 0

(* where a timer is on the list: at one place at most *)
Places(list, sul) == {i \in DOMAIN list : list[i].sul = sul}

(* of the node at the place there is one in places, if there is one *)
lws_dll2_remove(list, places) ==
  IF places = {} THEN list
  ELSE LET i == CHOOSE i \in places : TRUE
       IN  SubSeq(list, 1, i - 1) \o SubSeq(list, i + 1, Len(list))

(* before the first one that is not earlier: the last of equals goes first *)
lws_dll2_add_sorted(list, entry) ==
  LET i == CHOOSE i \in 1 .. Len(list) + 1 :
             /\ \A j \in 1 .. i - 1 : list[j].us < entry.us
             /\ i <= Len(list) => list[i].us >= entry.us
  IN  SubSeq(list, 1, i - 1) \o <<entry>> \o SubSeq(list, i, Len(list))

__lws_sul_insert(list, sul, now, us) ==
  LET removed == lws_dll2_remove(list, Places(list, sul))
  IN  IF us = Cancel THEN removed
      ELSE lws_dll2_add_sorted(removed, [sul |-> sul, us |-> now + us])

(* a new pass reads the clock *)
Rebase(list, now) == [i \in DOMAIN list |-> [list[i] EXCEPT !.us = @ - now]]
=============================================================================
