------------------------------ MODULE Documents ------------------------------
(***************************************************************************)
(* What the session promises the handlers: a map from the open documents   *)
(* to their texts, changed on the event loop only, and snapshots that are  *)
(* copies of a text, whatever happens to the map after they are taken.     *)
(***************************************************************************)
CONSTANTS
    Urls,       \* documents
    Texts,      \* contents of documents
    Tasks,      \* background tasks, each holding at most one snapshot
    None        \* no text: the document is closed, the task holds nothing

VARIABLES
    documents,  \* the text of each document
    copies      \* the text each task holds

vars == <<documents, copies>>

Init ==
    /\ documents = [u \in Urls |-> None]
    /\ copies = [k \in Tasks |-> None]

Open(u, t) == documents' = [documents EXCEPT ![u] = t] /\ UNCHANGED copies

Close(u) ==
    /\ documents[u] # None
    /\ documents' = [documents EXCEPT ![u] = None]
    /\ UNCHANGED copies

Change(u, t) ==
    /\ documents[u] # None
    /\ documents' = [documents EXCEPT ![u] = t]
    /\ UNCHANGED copies

TakeSnapshot(k, u) ==
    /\ documents[u] # None
    /\ copies[k] = None
    /\ copies' = [copies EXCEPT ![k] = documents[u]]
    /\ UNCHANGED documents

DropSnapshot(k) ==
    /\ copies[k] # None
    /\ copies' = [copies EXCEPT ![k] = None]
    /\ UNCHANGED documents

Next ==
    \/ \E u \in Urls, t \in Texts : Open(u, t) \/ Change(u, t)
    \/ \E u \in Urls : Close(u)
    \/ \E k \in Tasks, u \in Urls : TakeSnapshot(k, u)
    \/ \E k \in Tasks : DropSnapshot(k)

Spec == Init /\ [][Next]_vars
=============================================================================
