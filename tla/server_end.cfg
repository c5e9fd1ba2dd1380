\* Requests of every kind, and every way to end.
CONSTANTS
    u1 = u1
    w1 = w1
    w2 = w2
    Urls <- OneUrl
    Messages <- EndMessages
    MaxMessages = 4
    WorkerThreads <- OneThread
    None = None
SPECIFICATION Spec
INVARIANTS
    ServedOnce
    EndsDrained
PROPERTY NothingHangs
