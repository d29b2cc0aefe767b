------------------------- MODULE MCSupervisedRunner -------------------------
(* The runner on every kind of launch entry the extension installs: a      *)
(* planner or other agent process run per pass, the built-in pass, and a   *)
(* daemon process.                                                         *)
EXTENDS SupervisedRunner

MCEntries ==
    { [lifetime |-> "scheduled", builtIn |-> FALSE],
      [lifetime |-> "scheduled", builtIn |-> TRUE],
      [lifetime |-> "daemon", builtIn |-> FALSE] }

=============================================================================
