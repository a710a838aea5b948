SPECIFICATION ChunksSpec
CONSTANTS
    Clients = {c1, c2}
    Workers = {w1, w2}
    Requests = {r1, r2, r3}
    Capacity = 1
    NoRequest = NoRequest
    Owner = c1
    Reader = w1
INVARIANTS
    WriterIsSound
PROPERTIES
    CallsReturn
    RequestsAreSettled
