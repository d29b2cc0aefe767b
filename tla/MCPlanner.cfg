SPECIFICATION Spec
CONSTANTS
    Keys = {k1, k2}
    MaxConcurrent = 1
    Requests = {q1}
    NoRequest = NoRequest
    NoTicket = NoTicket
    NoAck = NoAck
    Asking = {k1}
    Closable = {k1}
    Broken = {}
    Lingering = {k2}
    Dated = FALSE
INVARIANTS
    TypeOK
    PlanIsProvisioned
    PlanFits
PROPERTIES
    NothingOverwritten
    NeverParksOverWork
