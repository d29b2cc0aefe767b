---------------------------- MODULE MCQueueView ----------------------------
(* The instance: a ticket that waits for a review or is settled, a forge that   *)
(* knows of no reviewer, an ack that may get overdue, and a loop that may fail. *)
EXTENDS QueueView

Plain == [phase |-> "work", health |-> "ok", blocked |-> FALSE, waiting |-> "none",
          since |-> 1, worker |-> "idle", pr |-> [state |-> "open", ci |-> "passing"]]

MCTickets == {[Plain EXCEPT !.waiting = "review"], [Plain EXCEPT !.phase = "merged"]}

MCForge == {[pr |-> [state |-> "open", ci |-> "passing"], asked |-> {}, viewer |-> TRUE]}

MCFilters == {Ids}
=============================================================================
