SPECIFICATION Spec
CONSTANTS
    Keys = {k1, k2}
    MaxConcurrent = 1
    Requests = {q1}
    NoRequest = NoRequest
    NoTicket = NoTicket
    NoAck = NoAck
    Asking = {k1, k2}
    Closable = {}
    Broken = {}
    Lingering = {}
    Dated = TRUE
INVARIANT
    DeferredIsRetried
