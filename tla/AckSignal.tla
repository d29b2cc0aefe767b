----------------------------- MODULE AckSignal -----------------------------
(***************************************************************************)
(* What the ack inbox promises of one answer of the operator               *)
(* (src/design/02-protocol.md, Lifecycle): once sent it stays sent until   *)
(* the operator takes it back or a pass records that it was taken or       *)
(* superseded, and what is recorded is final.  It can be sent again after  *)
(* it was taken back.  AckLifecycle implements this with files.            *)
(***************************************************************************)
CONSTANT Requests        \* the requests to the operator; an ack answers one

VARIABLE signal          \* what became of the answer to each request: "idle",
                         \* "sent", "withdrawn", "taken" or "superseded"

Init == signal = [r \in Requests |-> "idle"]

Send(r) ==
    /\ signal[r] \in {"idle", "withdrawn"}
    /\ signal' = [signal EXCEPT ![r] = "sent"]

\* Several can be found withdrawn at once, when the reader that had them dies.
Withdraw(R) ==
    /\ \A r \in R : signal[r] = "sent"
    /\ signal' = [r \in Requests |-> IF r \in R THEN "withdrawn" ELSE signal[r]]

Settle(r) ==
    /\ signal[r] = "sent"
    /\ \E outcome \in {"taken", "superseded"} :
          signal' = [signal EXCEPT ![r] = outcome]

Next ==
    \/ \E r \in Requests : Send(r) \/ Settle(r)
    \/ \E R \in SUBSET Requests : Withdraw(R)

Spec == Init /\ [][Next]_signal
=============================================================================
