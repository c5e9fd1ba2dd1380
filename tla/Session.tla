------------------------------- MODULE Session -------------------------------
(***************************************************************************)
(* crates/sith_server/src/session.rs: the workspace folders, the documents *)
(* open in each, and the snapshots that background tasks hold.  Documents  *)
(* are behind Arcs: `heap` is the memory the Arcs point to, a cell is      *)
(* freed with its last Arc, and a document that a snapshot shares is       *)
(* cloned before it is changed.  The event loop makes every call but the   *)
(* drop of a snapshot, which the thread that holds it makes at any time.   *)
(* The client is external: it opens, changes and closes its files and      *)
(* tells the server.                                                       *)
(***************************************************************************)
EXTENDS Naturals, Sequences, FiniteSets

CONSTANTS
    Folders,            \* workspace folders, as paths
    Urls,               \* documents, as paths
    Texts,              \* contents of documents
    Tasks,              \* background tasks
    Cells,              \* bound: memory cells for documents
    None                \* neither a text, a cell nor a folder

(* A path is the sequence of its components; this one stands for a url of  *)
(* another scheme, for which to_file_path fails.                           *)
NotAFile == <<>>

ASSUME PathsAssumption ==
    Folders \subseteq Seq(Nat) /\ Urls \subseteq Seq(Nat) /\ IsFiniteSet(Folders)
ASSUME NoneAssumption == None \notin Texts /\ None \notin Cells /\ None \notin Folders

VARIABLES
    text,           \* the client's text of each file it has open
    workspaces,     \* keys of Workspaces
    open_documents, \* OpenDocuments of each folder: the cell of each document
    heap,           \* the document in each cell
    snapshots,      \* document_ref of the snapshot each task holds
    seen,           \* the text that snapshot had when it was taken
    foldersChanged  \* history: a folder has been opened or closed

vars == <<text, workspaces, open_documents, heap, snapshots, seen, foldersChanged>>

(* The type invariant. *)
TypeOK ==
    /\ text \in [Urls -> Texts \cup {None}]
    /\ workspaces \subseteq Folders \ {NotAFile}
    /\ open_documents \in [Folders -> [Urls -> Cells \cup {None}]]
    /\ heap \in [Cells -> Texts \cup {None}]
    /\ snapshots \in [Tasks -> Cells \cup {None}]
    /\ seen \in [Tasks -> Texts \cup {None}]
    /\ foldersChanged \in BOOLEAN

NoDocuments == [u \in Urls |-> None]

(* Workspaces::new with the folders of the client's initialize request;    *)
(* one that is no file would end the server before it starts.              *)
Init ==
    /\ text = [u \in Urls |-> None]
    /\ workspaces \in SUBSET (Folders \ {NotAFile})
    /\ open_documents = [f \in Folders |-> NoDocuments]
    /\ heap = [c \in Cells |-> None]
    /\ snapshots = [k \in Tasks |-> None]
    /\ seen = [k \in Tasks |-> None]
    /\ foldersChanged = FALSE
-----------------------------------------------------------------------------
(* Ord of PathBuf: component by component. *)
PathLess(p, q) ==
    \E i \in 1..Len(q) :
        /\ i <= Len(p) + 1
        /\ \A j \in 1..i - 1 : p[j] = q[j]
        /\ i <= Len(p) => p[i] < q[i]

(* Mutant: the range runs over the folders after the path. *)
BelowAfter(u) == {f \in workspaces : u # NotAFile /\ PathLess(u, f)}

(* The folders that `range(..path)` runs over. *)
Below(u) == {f \in workspaces : u # NotAFile /\ PathLess(f, u)}

(* The last of them, if any; it need not contain the document. *)
LastBelow(u) == {f \in Below(u) : \A g \in Below(u) : g = f \/ PathLess(g, f)}

EntryForUrl(u) == IF LastBelow(u) = {} THEN None ELSE CHOOSE f \in LastBelow(u) : TRUE

(* The cell of a document, None where the lookup finds no document. *)
Lookup(u) == IF EntryForUrl(u) = None THEN None ELSE open_documents[EntryForUrl(u)][u]

(* The cells that some Arc points to. *)
Referenced(documents, refs) ==
    {c \in Cells : \/ \E f \in Folders, u \in Urls : documents[f][u] = c
                   \/ \E k \in Tasks : refs[k] = c}

(* An Arc that is dropped frees its cell unless another points there. *)
Freed(memory, documents, refs) ==
    [c \in Cells |-> IF c \in Referenced(documents, refs) THEN memory[c] ELSE None]

FreeCells == {c \in Cells : heap[c] = None}

(* Arc::new: a cell of its own. *)
NewCell == CHOOSE c \in FreeCells : TRUE

(* Mutant: a shared document is changed in place. *)
UniqueAlways(f, u) == TRUE

(* Whether the Arc of a document is the only one: its strong count is 1. *)
Unique(f, u) ==
    LET c == open_documents[f][u]
    IN  /\ \A k \in Tasks : snapshots[k] # c
        /\ \A g \in Folders, v \in Urls : open_documents[g][v] = c => g = f /\ v = u
-----------------------------------------------------------------------------
(* open_document: inserted in the folder found for it, over a document of  *)
(* the same url, and dropped when there is no folder.  A client does not   *)
(* open a file twice, but a document it has closed may still be there.     *)
OpenDocument(u, t) ==
    /\ text[u] = None
    /\ text' = [text EXCEPT ![u] = t]
    /\ \/ /\ EntryForUrl(u) # None
          /\ FreeCells # {}
          /\ open_documents' = [open_documents EXCEPT ![EntryForUrl(u)] = [@ EXCEPT ![u] = NewCell]]
          /\ heap' = Freed([heap EXCEPT ![NewCell] = t], open_documents', snapshots)
       \/ /\ EntryForUrl(u) = None
          /\ UNCHANGED <<open_documents, heap>>
    /\ UNCHANGED <<workspaces, snapshots, seen, foldersChanged>>

(* close_document: an error, and nothing is closed, when it is not found. *)
CloseDocument(u) ==
    /\ text[u] # None
    /\ text' = [text EXCEPT ![u] = None]
    /\ \/ /\ Lookup(u) # None
          /\ open_documents' = [open_documents EXCEPT ![EntryForUrl(u)] = [@ EXCEPT ![u] = None]]
          /\ heap' = Freed(heap, open_documents', snapshots)
       \/ /\ Lookup(u) = None
          /\ UNCHANGED <<open_documents, heap>>
    /\ UNCHANGED <<workspaces, snapshots, seen, foldersChanged>>

(* Mutant: the clone of a shared document is changed, but not kept. *)
ChangeDocumentInClone(u, t) ==
    /\ text[u] # None
    /\ text' = [text EXCEPT ![u] = t]
    /\ heap' = IF Lookup(u) # None /\ Unique(EntryForUrl(u), u)
               THEN [heap EXCEPT ![Lookup(u)] = t] ELSE heap
    /\ UNCHANGED <<open_documents, workspaces, snapshots, seen, foldersChanged>>

(* document_controller and make_mut, then the change of the document: in   *)
(* place where its Arc is the only one, in a clone where it is shared; an  *)
(* error when it is not found.                                             *)
ChangeDocument(u, t) ==
    /\ text[u] # None
    /\ text' = [text EXCEPT ![u] = t]
    /\ \/ /\ Lookup(u) # None
          /\ Unique(EntryForUrl(u), u)
          /\ heap' = [heap EXCEPT ![Lookup(u)] = t]
          /\ UNCHANGED open_documents
       \/ /\ Lookup(u) # None
          /\ ~Unique(EntryForUrl(u), u)
          /\ FreeCells # {}
          /\ open_documents' = [open_documents EXCEPT ![EntryForUrl(u)] = [@ EXCEPT ![u] = NewCell]]
          /\ heap' = Freed([heap EXCEPT ![NewCell] = t], open_documents', snapshots)
       \/ /\ Lookup(u) = None
          /\ UNCHANGED <<open_documents, heap>>
    /\ UNCHANGED <<workspaces, snapshots, seen, foldersChanged>>

(* open_workspace_folder replaces a folder of the same path by an empty one. *)
OpenWorkspaceFolder(f) ==
    /\ f # NotAFile
    /\ workspaces' = workspaces \cup {f}
    /\ open_documents' = [open_documents EXCEPT ![f] = NoDocuments]
    /\ heap' = Freed(heap, open_documents', snapshots)
    /\ foldersChanged' = TRUE
    /\ UNCHANGED <<text, snapshots, seen>>

(* close_workspace_folder drops the folder with its documents. *)
CloseWorkspaceFolder(f) ==
    /\ f \in workspaces
    /\ workspaces' = workspaces \ {f}
    /\ open_documents' = [open_documents EXCEPT ![f] = NoDocuments]
    /\ heap' = Freed(heap, open_documents', snapshots)
    /\ foldersChanged' = TRUE
    /\ UNCHANGED <<text, snapshots, seen>>

(* take_snapshot for a background task; nothing without a document. *)
TakeSnapshot(k, u) ==
    /\ snapshots[k] = None
    /\ Lookup(u) # None
    /\ snapshots' = [snapshots EXCEPT ![k] = Lookup(u)]
    /\ seen' = [seen EXCEPT ![k] = heap[Lookup(u)]]
    /\ UNCHANGED <<text, workspaces, open_documents, heap, foldersChanged>>

(* The task ends and drops its snapshot. *)
DropSnapshot(k) ==
    /\ snapshots[k] # None
    /\ snapshots' = [snapshots EXCEPT ![k] = None]
    /\ seen' = [seen EXCEPT ![k] = None]
    /\ heap' = Freed(heap, open_documents, snapshots')
    /\ UNCHANGED <<text, workspaces, open_documents, foldersChanged>>

Next ==
    \/ \E u \in Urls, t \in Texts : OpenDocument(u, t) \/ ChangeDocument(u, t)
    \/ \E u \in Urls : CloseDocument(u)
    \/ \E f \in Folders : OpenWorkspaceFolder(f) \/ CloseWorkspaceFolder(f)
    \/ \E k \in Tasks, u \in Urls : TakeSnapshot(k, u)
    \/ \E k \in Tasks : DropSnapshot(k)

Spec == Init /\ [][Next]_vars
-----------------------------------------------------------------------------
(* "An immutable snapshot of `Session`": while a task holds a snapshot the *)
(* document it refers to stays as it was, whatever the event loop does     *)
(* (make_mut copies, and no Arc of a snapshot is freed).                   *)
SnapshotIsImmutable == \A k \in Tasks : snapshots[k] # None => heap[snapshots[k]] = seen[k]

(* "Stays up-to-date with changes made by the user" (Document): a file the *)
(* client has open is found with the client's text, if it is found.        *)
LookupIsCurrent ==
    \A u \in Urls : text[u] # None /\ Lookup(u) # None => heap[Lookup(u)] = text[u]

(* The same until the folders change: whatever tasks hold, a change is     *)
(* found by the next lookup, and reaches no other file.                    *)
StableLookupIsCurrent == ~foldersChanged => LookupIsCurrent

(* Until the folders change, the session and the client agree on what is   *)
(* open: a file inside an open folder is found while the client has it     *)
(* open (entry_for_url, which never looks at containment), and a file it   *)
(* has closed is in no folder (close_document).                            *)
OpenFilesAreTheClients ==
    ~foldersChanged =>
        \A u \in Urls :
            IF text[u] = None THEN \A f \in workspaces : open_documents[f][u] = None
            ELSE (\E f \in workspaces : Len(f) < Len(u) /\ SubSeq(u, 1, Len(f)) = f)
                    => Lookup(u) # None

(* The documents found and the snapshots, as a map of texts and copies. *)
Abstract == INSTANCE Documents WITH
    documents <- [u \in Urls |-> IF Lookup(u) = None THEN None ELSE heap[Lookup(u)]],
    copies <- [k \in Tasks |-> IF snapshots[k] = None THEN None ELSE heap[snapshots[k]]]

(* Sharing by Arc and copy on write are not observable: until the folders  *)
(* change, the session implements the map of texts with copied snapshots.  *)
ImplementsDocuments ==
    Abstract!Init /\ [][~foldersChanged' => Abstract!Next]_(Abstract!vars)
=============================================================================
