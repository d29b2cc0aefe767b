------------------------------ MODULE MCQueue ------------------------------
(* The instance: one ticket that waits for a review, for an answer to what     *)
(* blocks it, or for nobody any more.                                           *)
EXTENDS Queue

Plain == [phase |-> "work", health |-> "ok", blocked |-> FALSE, waiting |-> "none",
          since |-> 1, worker |-> "idle", pr |-> [state |-> "open", ci |-> "passing"]]

MCTickets == {
    [Plain EXCEPT !.waiting = "review"],
    [Plain EXCEPT !.waiting = "owner", !.blocked = TRUE],
    [Plain EXCEPT !.phase = "merged"]}

MCForge == {[pr |-> [state |-> "open", ci |-> "passing"], asked |-> {}, viewer |-> TRUE],
            [pr |-> [state |-> "open", ci |-> "passing"], asked |-> {"other"}, viewer |-> TRUE]}
=============================================================================
