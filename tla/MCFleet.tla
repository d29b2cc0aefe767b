------------------------------ MODULE MCFleet ------------------------------
(* The instance: a tick loop whose entry is edited, and a daemon that is       *)
(* taken out of the file.                                                      *)
EXTENDS Fleet

CONSTANTS tick, daemon, v1, v2

MCAgents  == {tick, daemon}
MCDaemons == {daemon}
MCContents == {v1, v2}

Write(t, d) == [a \in MCAgents |-> IF a = tick THEN t ELSE d]
MCFiles == {Write(v1, v1), Write(v2, NoEntry)}
=============================================================================
