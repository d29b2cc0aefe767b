--------------------------- MODULE MCAckLifecycle ---------------------------
(* Model of AckLifecycle: the worker raises MaxRequests requests and the ack *)
(* of the last one carries the note that reads like a supersession.          *)
EXTENDS AckLifecycle

LastIsWordy == {MaxRequests}
=============================================================================
