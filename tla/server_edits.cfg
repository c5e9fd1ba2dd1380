\* Edits of a document among requests for it and answers, two background threads.
CONSTANTS
    u1 = u1
    w1 = w1
    w2 = w2
    Urls <- OneUrl
    Messages <- EditMessages
    MaxMessages = 4
    WorkerThreads <- TwoThreads
    None = None
SPECIFICATION Spec
INVARIANTS
    ReadsRequestedText
    FmtAnswersInOrder
