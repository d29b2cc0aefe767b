----------------------------- MODULE MCEnricher -----------------------------
(* Two pull requests through a pool of one: one request waits for the other. *)
EXTENDS Enricher

=============================================================================
