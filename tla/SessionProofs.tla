---------------------------- MODULE SessionProofs ----------------------------
(***************************************************************************)
(* Snapshots of the session never change, whatever the folders, documents  *)
(* and tasks are; and until the folders change, sharing documents behind   *)
(* Arcs cannot be told from copying them.                                  *)
(***************************************************************************)
EXTENDS Session, FiniteSetTheorems, WellFoundedInduction, SequenceTheorems, TLAPS

(* A cell that some Arc points to holds a document: a new Arc never takes  *)
(* a cell that is in use, and the memory of a snapshot is not freed.       *)
CellsInUse ==
    /\ \A f \in Folders, u \in Urls :
          open_documents[f][u] # None => heap[open_documents[f][u]] # None
    /\ \A k \in Tasks : snapshots[k] # None => heap[snapshots[k]] # None

(* Two documents never share a cell. *)
NoSharing ==
    \A f, g \in Folders : \A u, v \in Urls :
        open_documents[f][u] # None /\ open_documents[f][u] = open_documents[g][v]
            => f = g /\ u = v

SnapshotInv == TypeOK /\ CellsInUse /\ SnapshotIsImmutable

(* The folder found for a document is one of the folders. *)
LEMMA EntryType ==
    ASSUME TypeOK, NEW u \in Urls
    PROVE  EntryForUrl(u) \in Folders \cup {None}
BY DEF TypeOK, EntryForUrl, LastBelow, Below

(* What a lookup finds is a cell. *)
LEMMA LookupType ==
    ASSUME TypeOK, NEW u \in Urls
    PROVE  /\ Lookup(u) \in Cells \cup {None}
           /\ Lookup(u) # None => /\ EntryForUrl(u) \in Folders
                                  /\ Lookup(u) = open_documents[EntryForUrl(u)][u]
BY EntryType DEF TypeOK, Lookup

(* A new Arc gets a cell that is free. *)
LEMMA NewCellIsFree ==
    ASSUME TypeOK, FreeCells # {}
    PROVE  NewCell \in Cells /\ heap[NewCell] = None
BY DEF NewCell, FreeCells

(* Dropping an Arc leaves the cells that others point to alone. *)
LEMMA FreedKeeps ==
    ASSUME NEW memory \in [Cells -> Texts \cup {None}],
           NEW documents \in [Folders -> [Urls -> Cells \cup {None}]],
           NEW refs \in [Tasks -> Cells \cup {None}]
    PROVE  /\ Freed(memory, documents, refs) \in [Cells -> Texts \cup {None}]
           /\ \A f \in Folders, u \in Urls :
                 documents[f][u] # None =>
                    Freed(memory, documents, refs)[documents[f][u]] = memory[documents[f][u]]
           /\ \A k \in Tasks :
                 refs[k] # None => Freed(memory, documents, refs)[refs[k]] = memory[refs[k]]
<1>1. \A c \in Cells : c \in Referenced(documents, refs) => Freed(memory, documents, refs)[c] = memory[c]
  BY DEF Freed
<1>2. Freed(memory, documents, refs) \in [Cells -> Texts \cup {None}]
  BY DEF Freed
<1>3. ASSUME NEW f \in Folders, NEW u \in Urls, documents[f][u] # None
      PROVE  documents[f][u] \in Referenced(documents, refs)
  <2>1. documents[f][u] \in Cells
    BY <1>3
  <2> QED BY <2>1 DEF Referenced
<1>4. ASSUME NEW k \in Tasks, refs[k] # None
      PROVE  refs[k] \in Referenced(documents, refs)
  <2>1. refs[k] \in Cells
    BY <1>4
  <2> QED BY <2>1 DEF Referenced
<1> QED BY <1>1, <1>2, <1>3, <1>4 DEF Referenced

(* An Arc of a document is replaced by one to a new cell with a text. *)
Stored(f, u, t) ==
    /\ FreeCells # {}
    /\ open_documents' = [open_documents EXCEPT ![f] = [@ EXCEPT ![u] = NewCell]]
    /\ heap' = Freed([heap EXCEPT ![NewCell] = t], open_documents', snapshots)

(* Some documents are dropped from their folders. *)
Dropped ==
    /\ open_documents' \in [Folders -> [Urls -> Cells \cup {None}]]
    /\ \A f \in Folders, u \in Urls : open_documents'[f][u] \in {open_documents[f][u], None}
    /\ heap' = Freed(heap, open_documents', snapshots)

(* Storing a document in a new cell keeps the invariant. *)
LEMMA StoredKeeps ==
    ASSUME SnapshotInv, NEW f \in Folders, NEW u \in Urls, NEW t \in Texts,
           Stored(f, u, t), UNCHANGED <<snapshots, seen>>
    PROVE  /\ open_documents' \in [Folders -> [Urls -> Cells \cup {None}]]
           /\ heap' \in [Cells -> Texts \cup {None}]
           /\ heap'[NewCell] = t
           /\ \A g \in Folders, v \in Urls :
                 /\ open_documents'[g][v] = IF g = f /\ v = u THEN NewCell ELSE open_documents[g][v]
                 /\ ~(g = f /\ v = u) /\ open_documents[g][v] # None
                       => heap'[open_documents[g][v]] = heap[open_documents[g][v]]
           /\ \A k \in Tasks : snapshots[k] # None => heap'[snapshots[k]] = heap[snapshots[k]]
           /\ CellsInUse' /\ SnapshotIsImmutable'
<1> DEFINE memory == [heap EXCEPT ![NewCell] = t]
<1>1. NewCell \in Cells /\ heap[NewCell] = None
  BY NewCellIsFree DEF SnapshotInv, Stored
<1>2. /\ open_documents \in [Folders -> [Urls -> Cells \cup {None}]]
      /\ snapshots \in [Tasks -> Cells \cup {None}]
      /\ heap \in [Cells -> Texts \cup {None}]
  BY DEF SnapshotInv, TypeOK
<1>3. /\ memory \in [Cells -> Texts \cup {None}]
      /\ memory[NewCell] = t
      /\ \A c \in Cells : c # NewCell => memory[c] = heap[c]
  BY <1>1, <1>2
<1>4. /\ open_documents' \in [Folders -> [Urls -> Cells \cup {None}]]
      /\ \A g \in Folders, v \in Urls :
            open_documents'[g][v] = IF g = f /\ v = u THEN NewCell ELSE open_documents[g][v]
  BY <1>1, <1>2 DEF Stored
<1>5. heap' = Freed(memory, open_documents', snapshots)
  BY DEF Stored
<1>6. /\ heap' \in [Cells -> Texts \cup {None}]
      /\ \A g \in Folders, v \in Urls :
            open_documents'[g][v] # None => heap'[open_documents'[g][v]] = memory[open_documents'[g][v]]
      /\ \A k \in Tasks : snapshots[k] # None => heap'[snapshots[k]] = memory[snapshots[k]]
  <2> HIDE DEF memory
  <2> QED BY <1>2, <1>3, <1>4, <1>5, FreedKeeps
<1>7. heap'[NewCell] = t
  BY <1>1, <1>3, <1>4, <1>6, NoneAssumption
<1>8. \A g \in Folders, v \in Urls :
         open_documents[g][v] # None => open_documents[g][v] \in Cells /\ open_documents[g][v] # NewCell
  BY <1>1, <1>2 DEF SnapshotInv, CellsInUse
<1>9. \A k \in Tasks : snapshots[k] # None => snapshots[k] \in Cells /\ snapshots[k] # NewCell
  BY <1>1, <1>2 DEF SnapshotInv, CellsInUse
<1>10. \A g \in Folders, v \in Urls :
          ~(g = f /\ v = u) /\ open_documents[g][v] # None
             => heap'[open_documents[g][v]] = heap[open_documents[g][v]]
  BY <1>3, <1>4, <1>6, <1>8
<1>11. \A k \in Tasks : snapshots[k] # None => heap'[snapshots[k]] = heap[snapshots[k]]
  BY <1>3, <1>6, <1>9
<1>12. CellsInUse'
  <2>1. \A g \in Folders, v \in Urls : open_documents'[g][v] # None => heap'[open_documents'[g][v]] # None
    BY <1>4, <1>7, <1>10, NoneAssumption DEF SnapshotInv, CellsInUse
  <2>2. \A k \in Tasks : snapshots[k] # None => heap'[snapshots[k]] # None
    BY <1>11 DEF SnapshotInv, CellsInUse
  <2> QED BY <2>1, <2>2 DEF CellsInUse
<1>13. SnapshotIsImmutable'
  BY <1>11 DEF SnapshotInv, SnapshotIsImmutable
<1> QED BY <1>4, <1>6, <1>7, <1>10, <1>11, <1>12, <1>13

(* Dropping documents keeps the invariant. *)
LEMMA DroppedKeeps ==
    ASSUME SnapshotInv, Dropped, UNCHANGED <<snapshots, seen>>
    PROVE  /\ heap' \in [Cells -> Texts \cup {None}]
           /\ \A f \in Folders, u \in Urls :
                 open_documents'[f][u] # None
                    => heap'[open_documents'[f][u]] = heap[open_documents[f][u]]
           /\ \A k \in Tasks : snapshots[k] # None => heap'[snapshots[k]] = heap[snapshots[k]]
           /\ CellsInUse' /\ SnapshotIsImmutable'
<1>1. /\ snapshots \in [Tasks -> Cells \cup {None}]
      /\ heap \in [Cells -> Texts \cup {None}]
  BY DEF SnapshotInv, TypeOK
<1>2. /\ heap' \in [Cells -> Texts \cup {None}]
      /\ \A f \in Folders, u \in Urls :
            open_documents'[f][u] # None => heap'[open_documents'[f][u]] = heap[open_documents'[f][u]]
      /\ \A k \in Tasks : snapshots[k] # None => heap'[snapshots[k]] = heap[snapshots[k]]
  BY <1>1, FreedKeeps DEF Dropped
<1>3. \A f \in Folders, u \in Urls :
         open_documents'[f][u] # None => open_documents'[f][u] = open_documents[f][u]
  BY DEF Dropped
<1>4. CellsInUse'
  BY <1>2, <1>3 DEF CellsInUse, SnapshotInv
<1>5. SnapshotIsImmutable'
  BY <1>2 DEF SnapshotInv, SnapshotIsImmutable
<1> QED BY <1>2, <1>3, <1>4, <1>5

(* Every call of the session and every drop of a snapshot keeps it. *)
LEMMA StepKeepsSnapshotInv ==
    ASSUME SnapshotInv, [Next]_vars
    PROVE  SnapshotInv'
<1> USE DEF SnapshotInv
<1>1. ASSUME NEW u \in Urls, NEW t \in Texts, OpenDocument(u, t)
      PROVE  SnapshotInv'
  <2>1. text' \in [Urls -> Texts \cup {None}] /\ UNCHANGED <<workspaces, snapshots, seen, foldersChanged>>
    BY <1>1 DEF OpenDocument, TypeOK
  <2>2. CASE EntryForUrl(u) # None /\ Stored(EntryForUrl(u), u, t)
    <3>1. EntryForUrl(u) \in Folders
      BY <2>2, EntryType
    <3>2. /\ open_documents' \in [Folders -> [Urls -> Cells \cup {None}]]
          /\ heap' \in [Cells -> Texts \cup {None}]
          /\ CellsInUse' /\ SnapshotIsImmutable'
      BY <2>1, <2>2, <3>1, StoredKeeps
    <3> QED BY <2>1, <3>2 DEF TypeOK
  <2>3. CASE UNCHANGED <<open_documents, heap>>
    BY <2>1, <2>3 DEF TypeOK, CellsInUse, SnapshotIsImmutable
  <2> QED BY <1>1, <2>2, <2>3 DEF OpenDocument, Stored
<1>2. ASSUME NEW u \in Urls, NEW t \in Texts, ChangeDocument(u, t)
      PROVE  SnapshotInv'
  <2>1. text' \in [Urls -> Texts \cup {None}] /\ UNCHANGED <<workspaces, snapshots, seen, foldersChanged>>
    BY <1>2 DEF ChangeDocument, TypeOK
  <2>2. CASE /\ Lookup(u) # None /\ Unique(EntryForUrl(u), u)
             /\ heap' = [heap EXCEPT ![Lookup(u)] = t]
             /\ UNCHANGED open_documents
    <3>1. /\ Lookup(u) \in Cells
          /\ \A k \in Tasks : snapshots[k] # Lookup(u)
      BY <2>2, LookupType DEF Unique
    <3>2. /\ heap' \in [Cells -> Texts \cup {None}]
          /\ heap'[Lookup(u)] = t
          /\ \A c \in Cells : c # Lookup(u) => heap'[c] = heap[c]
      BY <2>2, <3>1 DEF TypeOK
    <3>3. \A k \in Tasks : snapshots[k] # None => heap'[snapshots[k]] = heap[snapshots[k]]
      BY <3>1, <3>2 DEF TypeOK
    <3>4. \A f \in Folders, v \in Urls : open_documents[f][v] # None => heap'[open_documents[f][v]] # None
      BY <3>1, <3>2, NoneAssumption DEF TypeOK, CellsInUse
    <3>5. CellsInUse'
      BY <2>1, <2>2, <3>3, <3>4 DEF CellsInUse
    <3>6. SnapshotIsImmutable'
      BY <2>1, <3>3 DEF SnapshotIsImmutable
    <3> QED BY <2>1, <2>2, <3>2, <3>5, <3>6 DEF TypeOK
  <2>3. CASE Lookup(u) # None /\ Stored(EntryForUrl(u), u, t)
    <3>1. EntryForUrl(u) \in Folders
      BY <2>3, LookupType
    <3>2. /\ open_documents' \in [Folders -> [Urls -> Cells \cup {None}]]
          /\ heap' \in [Cells -> Texts \cup {None}]
          /\ CellsInUse' /\ SnapshotIsImmutable'
      BY <2>1, <2>3, <3>1, StoredKeeps
    <3> QED BY <2>1, <3>2 DEF TypeOK
  <2>4. CASE UNCHANGED <<open_documents, heap>>
    BY <2>1, <2>4 DEF TypeOK, CellsInUse, SnapshotIsImmutable
  <2> QED BY <1>2, <2>2, <2>3, <2>4 DEF ChangeDocument, Stored
<1>3. ASSUME NEW u \in Urls, CloseDocument(u)
      PROVE  SnapshotInv'
  <2>1. text' \in [Urls -> Texts \cup {None}] /\ UNCHANGED <<workspaces, snapshots, seen, foldersChanged>>
    BY <1>3 DEF CloseDocument, TypeOK
  <2>2. CASE /\ Lookup(u) # None
             /\ open_documents' = [open_documents EXCEPT ![EntryForUrl(u)] = [@ EXCEPT ![u] = None]]
             /\ heap' = Freed(heap, open_documents', snapshots)
    <3>1. Dropped
      BY <2>2, LookupType DEF Dropped, TypeOK
    <3> QED BY <2>1, <3>1, DroppedKeeps DEF TypeOK, Dropped
  <2>3. CASE UNCHANGED <<open_documents, heap>>
    BY <2>1, <2>3 DEF TypeOK, CellsInUse, SnapshotIsImmutable
  <2> QED BY <1>3, <2>2, <2>3 DEF CloseDocument
<1>4. ASSUME NEW f \in Folders, OpenWorkspaceFolder(f) \/ CloseWorkspaceFolder(f)
      PROVE  SnapshotInv'
  <2>1. /\ workspaces' \subseteq Folders \ {NotAFile}
        /\ UNCHANGED <<text, snapshots, seen>> /\ foldersChanged' \in BOOLEAN
        /\ open_documents' = [open_documents EXCEPT ![f] = NoDocuments]
        /\ heap' = Freed(heap, open_documents', snapshots)
    BY <1>4 DEF OpenWorkspaceFolder, CloseWorkspaceFolder, TypeOK
  <2>2. Dropped
    <3>1. NoDocuments \in [Urls -> Cells \cup {None}] /\ \A u \in Urls : NoDocuments[u] = None
      BY DEF NoDocuments
    <3> QED BY <2>1, <3>1 DEF Dropped, TypeOK
  <2> QED BY <2>1, <2>2, DroppedKeeps DEF TypeOK, Dropped
<1>5. ASSUME NEW k \in Tasks, NEW u \in Urls, TakeSnapshot(k, u)
      PROVE  SnapshotInv'
  <2>1. /\ Lookup(u) \in Cells /\ heap[Lookup(u)] \in Texts \cup {None}
        /\ heap[Lookup(u)] # None
    BY <1>5, LookupType DEF TakeSnapshot, TypeOK, CellsInUse
  <2>2. /\ snapshots' \in [Tasks -> Cells \cup {None}]
        /\ seen' \in [Tasks -> Texts \cup {None}]
        /\ \A j \in Tasks : snapshots'[j] = IF j = k THEN Lookup(u) ELSE snapshots[j]
        /\ \A j \in Tasks : seen'[j] = IF j = k THEN heap[Lookup(u)] ELSE seen[j]
        /\ UNCHANGED <<text, workspaces, open_documents, heap, foldersChanged>>
    BY <1>5, <2>1 DEF TakeSnapshot, TypeOK
  <2>3. CellsInUse'
    BY <2>1, <2>2 DEF CellsInUse
  <2>4. SnapshotIsImmutable'
    BY <2>1, <2>2 DEF SnapshotIsImmutable
  <2> QED BY <2>2, <2>3, <2>4 DEF TypeOK
<1>6. ASSUME NEW k \in Tasks, DropSnapshot(k)
      PROVE  SnapshotInv'
  <2>1. /\ snapshots' \in [Tasks -> Cells \cup {None}]
        /\ seen' \in [Tasks -> Texts \cup {None}]
        /\ \A j \in Tasks : snapshots'[j] # None => snapshots'[j] = snapshots[j] /\ seen'[j] = seen[j]
        /\ UNCHANGED <<text, workspaces, open_documents, foldersChanged>>
    BY <1>6 DEF DropSnapshot, TypeOK
  <2>2. heap' = Freed(heap, open_documents, snapshots')
    BY <1>6 DEF DropSnapshot
  <2>3. /\ heap \in [Cells -> Texts \cup {None}]
        /\ open_documents \in [Folders -> [Urls -> Cells \cup {None}]]
    BY DEF TypeOK
  <2>4. /\ heap' \in [Cells -> Texts \cup {None}]
        /\ \A f \in Folders, u \in Urls :
              open_documents[f][u] # None => heap'[open_documents[f][u]] = heap[open_documents[f][u]]
        /\ \A j \in Tasks : snapshots'[j] # None => heap'[snapshots'[j]] = heap[snapshots'[j]]
    BY <2>1, <2>2, <2>3, FreedKeeps
  <2>5. CellsInUse'
    BY <2>1, <2>4 DEF CellsInUse
  <2>6. SnapshotIsImmutable'
    BY <2>1, <2>4 DEF SnapshotIsImmutable
  <2> QED BY <2>1, <2>4, <2>5, <2>6 DEF TypeOK
<1>7. CASE UNCHANGED vars
  BY <1>7 DEF vars, TypeOK, CellsInUse, SnapshotIsImmutable
<1> QED BY <1>1, <1>2, <1>3, <1>4, <1>5, <1>6, <1>7 DEF Next

(* The three conjuncts hold from the start. *)
LEMMA SnapshotInvInvariant == Spec => []SnapshotInv
<1>1. Init => SnapshotInv
  BY ZenonT(60) DEF Init, SnapshotInv, TypeOK, CellsInUse, SnapshotIsImmutable, NoDocuments
<1> QED BY <1>1, StepKeepsSnapshotInv, PTL DEF Spec

(* The session's state stays well typed; only folders that are files       *)
(* become workspaces.                                                      *)
THEOREM TypeCorrect == Spec => []TypeOK
<1>1. SnapshotInv => TypeOK
  BY DEF SnapshotInv
<1> QED BY <1>1, SnapshotInvInvariant, PTL

(* A snapshot stays as it was taken, for any folders, documents and tasks, *)
(* with folders that come and go.                                          *)
THEOREM SnapshotsAreImmutable == Spec => []SnapshotIsImmutable
<1>1. SnapshotInv => SnapshotIsImmutable
  BY DEF SnapshotInv
<1> QED BY <1>1, SnapshotInvInvariant, PTL
-----------------------------------------------------------------------------
(* While the folders stay: what a call does to the text found for each     *)
(* document and to the text each task reads.                               *)
Found(u) == IF Lookup(u) = None THEN None ELSE heap[Lookup(u)]
Copy(k) == IF snapshots[k] = None THEN None ELSE heap[snapshots[k]]

DocumentsInv == SnapshotInv /\ NoSharing

(* The folder of a document depends on the open folders only. *)
LEMMA EntryStays ==
    ASSUME UNCHANGED workspaces, NEW u
    PROVE  EntryForUrl(u)' = EntryForUrl(u)
BY DEF EntryForUrl, LastBelow, Below

(* A call that changes nothing in the folders changes nothing that is found. *)
LEMMA NothingFound ==
    ASSUME UNCHANGED <<workspaces, open_documents, heap>>, NEW u
    PROVE  Lookup(u)' = Lookup(u) /\ Found(u)' = Found(u)
BY EntryStays DEF Lookup, Found

(* Storing a document in a new cell changes that document only. *)
LEMMA StoredEffect ==
    ASSUME DocumentsInv, NEW u \in Urls, NEW t \in Texts, EntryForUrl(u) \in Folders,
           Stored(EntryForUrl(u), u, t), UNCHANGED <<workspaces, snapshots, seen>>
    PROVE  /\ NoSharing'
           /\ \A v \in Urls : Found(v)' = IF v = u THEN t ELSE Found(v)
           /\ \A k \in Tasks : Copy(k)' = Copy(k)
<1> DEFINE f == EntryForUrl(u)
<1>1. /\ SnapshotInv /\ NoSharing /\ TypeOK
      /\ NewCell \in Cells /\ heap[NewCell] = None
  BY NewCellIsFree DEF DocumentsInv, SnapshotInv, Stored
<1>2. /\ heap'[NewCell] = t
      /\ \A g \in Folders, v \in Urls :
            /\ open_documents'[g][v] = IF g = f /\ v = u THEN NewCell ELSE open_documents[g][v]
            /\ ~(g = f /\ v = u) /\ open_documents[g][v] # None
                  => heap'[open_documents[g][v]] = heap[open_documents[g][v]]
      /\ \A k \in Tasks : snapshots[k] # None => heap'[snapshots[k]] = heap[snapshots[k]]
  BY <1>1, StoredKeeps
<1>3. \A g \in Folders, v \in Urls : open_documents[g][v] # None => open_documents[g][v] # NewCell
  BY <1>1 DEF SnapshotInv, CellsInUse
<1>4. NoSharing'
  BY <1>1, <1>2, <1>3 DEF NoSharing
<1>5. ASSUME NEW v \in Urls
      PROVE  Found(v)' = IF v = u THEN t ELSE Found(v)
  <2>1. EntryForUrl(v)' = EntryForUrl(v) /\ EntryForUrl(v) \in Folders \cup {None}
    BY <1>1, EntryStays, EntryType
  <2>2. CASE EntryForUrl(v) = None
    BY <2>1, <2>2, NoneAssumption DEF Found, Lookup
  <2>3. CASE EntryForUrl(v) # None
    <3>1. Lookup(v)' = open_documents'[EntryForUrl(v)][v] /\ Lookup(v) = open_documents[EntryForUrl(v)][v]
      BY <2>1, <2>3 DEF Lookup
    <3>2. CASE v = u
      BY <1>1, <1>2, <2>1, <3>1, <3>2, NoneAssumption DEF Found
    <3>3. CASE v # u
      BY <1>2, <2>1, <2>3, <3>1, <3>3 DEF Found
    <3> QED BY <3>2, <3>3
  <2> QED BY <2>2, <2>3
<1>6. \A k \in Tasks : Copy(k)' = Copy(k)
  BY <1>2 DEF Copy
<1> QED BY <1>4, <1>5, <1>6

(* Changing a document in place changes that document only. *)
LEMMA InPlaceEffect ==
    ASSUME DocumentsInv, NEW u \in Urls, NEW t \in Texts, Lookup(u) # None,
           Unique(EntryForUrl(u), u), heap' = [heap EXCEPT ![Lookup(u)] = t],
           UNCHANGED <<workspaces, open_documents, snapshots, seen>>
    PROVE  /\ NoSharing'
           /\ \A v \in Urls : Found(v)' = IF v = u THEN t ELSE Found(v)
           /\ \A k \in Tasks : Copy(k)' = Copy(k)
<1>1. /\ TypeOK /\ NoSharing
      /\ Lookup(u) \in Cells /\ EntryForUrl(u) \in Folders
      /\ Lookup(u) = open_documents[EntryForUrl(u)][u]
  BY LookupType DEF DocumentsInv, SnapshotInv
<1>2. heap'[Lookup(u)] = t /\ \A c \in Cells : c # Lookup(u) => heap'[c] = heap[c]
  BY <1>1 DEF TypeOK
<1>3. ASSUME NEW v \in Urls
      PROVE  Found(v)' = IF v = u THEN t ELSE Found(v)
  <2>1. Lookup(v)' = Lookup(v)
    BY EntryStays DEF Lookup
  <2>2. /\ Lookup(v) \in Cells \cup {None}
        /\ Lookup(v) # None => /\ EntryForUrl(v) \in Folders
                               /\ Lookup(v) = open_documents[EntryForUrl(v)][v]
    BY <1>1, LookupType
  <2>3. v # u => Lookup(v) # Lookup(u)
    BY <1>1, <2>2 DEF NoSharing
  <2> QED BY <1>1, <1>2, <2>1, <2>2, <2>3 DEF Found
<1>4. \A k \in Tasks : Copy(k)' = Copy(k)
  BY <1>1, <1>2 DEF Copy, Unique, TypeOK
<1> QED BY <1>1, <1>3, <1>4 DEF NoSharing

(* Closing a document drops that document only. *)
LEMMA CloseEffect ==
    ASSUME DocumentsInv, NEW u \in Urls, Lookup(u) # None,
           open_documents' = [open_documents EXCEPT ![EntryForUrl(u)] = [@ EXCEPT ![u] = None]],
           heap' = Freed(heap, open_documents', snapshots),
           UNCHANGED <<workspaces, snapshots, seen>>
    PROVE  /\ NoSharing'
           /\ \A v \in Urls : Found(v)' = IF v = u THEN None ELSE Found(v)
           /\ \A k \in Tasks : Copy(k)' = Copy(k)
<1>1. /\ SnapshotInv /\ TypeOK /\ NoSharing
      /\ EntryForUrl(u) \in Folders
  BY LookupType DEF DocumentsInv, SnapshotInv
<1>2. /\ open_documents' \in [Folders -> [Urls -> Cells \cup {None}]]
      /\ \A g \in Folders, v \in Urls :
            open_documents'[g][v] = IF g = EntryForUrl(u) /\ v = u THEN None ELSE open_documents[g][v]
  BY <1>1 DEF TypeOK
<1>3. Dropped
  BY <1>2 DEF Dropped
<1>4. /\ \A f \in Folders, v \in Urls :
            open_documents'[f][v] # None => heap'[open_documents'[f][v]] = heap[open_documents[f][v]]
      /\ \A k \in Tasks : snapshots[k] # None => heap'[snapshots[k]] = heap[snapshots[k]]
  BY <1>1, <1>3, DroppedKeeps
<1>5. NoSharing'
  BY <1>1, <1>2 DEF NoSharing
<1>6. ASSUME NEW v \in Urls
      PROVE  Found(v)' = IF v = u THEN None ELSE Found(v)
  <2>1. EntryForUrl(v)' = EntryForUrl(v) /\ EntryForUrl(v) \in Folders \cup {None}
    BY <1>1, EntryStays, EntryType
  <2>2. CASE EntryForUrl(v) = None
    BY <2>1, <2>2 DEF Found, Lookup
  <2>3. CASE EntryForUrl(v) # None
    <3>1. Lookup(v)' = open_documents'[EntryForUrl(v)][v] /\ Lookup(v) = open_documents[EntryForUrl(v)][v]
      BY <2>1, <2>3 DEF Lookup
    <3> QED BY <1>2, <1>4, <2>1, <2>3, <3>1, ZenonT(60) DEF Found
  <2> QED BY <2>2, <2>3
<1>7. \A k \in Tasks : Copy(k)' = Copy(k)
  BY <1>4 DEF Copy
<1> QED BY <1>5, <1>6, <1>7

(* The six things a step does to the texts found, held and edited. *)
SameFound == \A v \in Urls : Found(v)' = Found(v)
SameCopies == \A k \in Tasks : Copy(k)' = Copy(k)
Sets(u, t) ==
    /\ Found(u) # None \/ text[u] = None
    /\ \A v \in Urls : Found(v)' = IF v = u THEN t ELSE Found(v)
    /\ \A v \in Urls : text'[v] = IF v = u THEN t ELSE text[v]
    /\ SameCopies
Clears(u) ==
    /\ Found(u) # None
    /\ \A v \in Urls : Found(v)' = IF v = u THEN None ELSE Found(v)
    /\ \A v \in Urls : text'[v] = IF v = u THEN None ELSE text[v]
    /\ SameCopies
Misses(u) ==
    /\ Found(u) = None
    /\ \A v \in Urls : v # u => text'[v] = text[v]
    /\ SameFound /\ SameCopies
Takes(k, u) ==
    /\ Found(u) # None /\ Copy(k) = None
    /\ \A j \in Tasks : Copy(j)' = IF j = k THEN Found(u) ELSE Copy(j)
    /\ SameFound /\ text' = text
Drops(k) ==
    /\ Copy(k) # None
    /\ \A j \in Tasks : Copy(j)' = IF j = k THEN None ELSE Copy(j)
    /\ SameFound /\ text' = text

(* Every step with fixed folders does one of them: the texts found change  *)
(* as in the map of texts, and the client's own texts with them.           *)
LEMMA StepEffect ==
    ASSUME DocumentsInv, ~foldersChanged', [Next]_vars
    PROVE  /\ NoSharing'
           /\ \/ \E u \in Urls, t \in Texts : Sets(u, t)
              \/ \E u \in Urls : Clears(u) \/ Misses(u)
              \/ \E k \in Tasks, u \in Urls : Takes(k, u)
              \/ \E k \in Tasks : Drops(k)
              \/ SameFound /\ SameCopies /\ text' = text
<1>1. SnapshotInv /\ NoSharing /\ TypeOK /\ CellsInUse
  BY DEF DocumentsInv, SnapshotInv
<1>2. \A u \in Urls : Found(u) # None <=> Lookup(u) # None
  BY <1>1, LookupType DEF Found, CellsInUse
<1>3. ASSUME NEW u \in Urls, NEW t \in Texts, OpenDocument(u, t)
      PROVE  /\ NoSharing'
             /\ text[u] = None
             /\ \A v \in Urls : text'[v] = IF v = u THEN t ELSE text[v]
             /\ \A k \in Tasks : Copy(k)' = Copy(k)
             /\ \/ \A v \in Urls : Found(v)' = IF v = u THEN t ELSE Found(v)
                \/ Found(u) = None /\ \A v \in Urls : Found(v)' = Found(v)
  <2>1. /\ text[u] = None /\ UNCHANGED <<workspaces, snapshots, seen>>
        /\ \A v \in Urls : text'[v] = IF v = u THEN t ELSE text[v]
    BY <1>1, <1>3 DEF OpenDocument, TypeOK
  <2>2. CASE EntryForUrl(u) # None /\ Stored(EntryForUrl(u), u, t)
    BY <1>1, <2>1, <2>2, EntryType, StoredEffect
  <2>3. CASE EntryForUrl(u) = None /\ UNCHANGED <<open_documents, heap>>
    <3>1. Found(u) = None
      BY <2>3 DEF Found, Lookup
    <3>2. NoSharing' /\ \A k \in Tasks : Copy(k)' = Copy(k)
      BY <1>1, <2>1, <2>3 DEF NoSharing, Copy
    <3> QED BY <2>1, <2>3, <3>1, <3>2, NothingFound
  <2> QED BY <1>3, <2>2, <2>3 DEF OpenDocument, Stored
<1>4. ASSUME NEW u \in Urls, NEW t \in Texts, ChangeDocument(u, t)
      PROVE  /\ NoSharing'
             /\ \A v \in Urls : text'[v] = IF v = u THEN t ELSE text[v]
             /\ \A k \in Tasks : Copy(k)' = Copy(k)
             /\ \/ Found(u) # None /\ \A v \in Urls : Found(v)' = IF v = u THEN t ELSE Found(v)
                \/ Found(u) = None /\ \A v \in Urls : Found(v)' = Found(v)
  <2>1. /\ UNCHANGED <<workspaces, snapshots, seen>>
        /\ \A v \in Urls : text'[v] = IF v = u THEN t ELSE text[v]
    BY <1>1, <1>4 DEF ChangeDocument, TypeOK
  <2>2. CASE /\ Lookup(u) # None /\ Unique(EntryForUrl(u), u)
             /\ heap' = [heap EXCEPT ![Lookup(u)] = t]
             /\ UNCHANGED open_documents
    BY <1>2, <2>1, <2>2, InPlaceEffect
  <2>3. CASE Lookup(u) # None /\ Stored(EntryForUrl(u), u, t)
    BY <1>1, <1>2, <2>1, <2>3, LookupType, StoredEffect
  <2>4. CASE Lookup(u) = None /\ UNCHANGED <<open_documents, heap>>
    <3>1. NoSharing' /\ \A k \in Tasks : Copy(k)' = Copy(k)
      BY <1>1, <2>1, <2>4 DEF NoSharing, Copy
    <3> QED BY <1>2, <2>1, <2>4, <3>1, NothingFound
  <2> QED BY <1>4, <2>2, <2>3, <2>4 DEF ChangeDocument, Stored
<1>5. ASSUME NEW u \in Urls, CloseDocument(u)
      PROVE  /\ NoSharing'
             /\ text[u] # None
             /\ \A v \in Urls : text'[v] = IF v = u THEN None ELSE text[v]
             /\ \A k \in Tasks : Copy(k)' = Copy(k)
             /\ \/ Found(u) # None /\ \A v \in Urls : Found(v)' = IF v = u THEN None ELSE Found(v)
                \/ Found(u) = None /\ \A v \in Urls : Found(v)' = Found(v)
  <2>1. /\ text[u] # None /\ UNCHANGED <<workspaces, snapshots, seen>>
        /\ \A v \in Urls : text'[v] = IF v = u THEN None ELSE text[v]
    BY <1>1, <1>5 DEF CloseDocument, TypeOK
  <2>2. CASE /\ Lookup(u) # None
             /\ open_documents' = [open_documents EXCEPT ![EntryForUrl(u)] = [@ EXCEPT ![u] = None]]
             /\ heap' = Freed(heap, open_documents', snapshots)
    BY <1>2, <2>1, <2>2, CloseEffect
  <2>3. CASE Lookup(u) = None /\ UNCHANGED <<open_documents, heap>>
    <3>1. NoSharing' /\ \A k \in Tasks : Copy(k)' = Copy(k)
      BY <1>1, <2>1, <2>3 DEF NoSharing, Copy
    <3> QED BY <1>2, <2>1, <2>3, <3>1, NothingFound
  <2> QED BY <1>5, <2>2, <2>3 DEF CloseDocument
<1>6. ASSUME NEW k \in Tasks, NEW u \in Urls, TakeSnapshot(k, u)
      PROVE  /\ NoSharing' /\ text' = text
             /\ Found(u) # None /\ Copy(k) = None
             /\ \A v \in Urls : Found(v)' = Found(v)
             /\ \A j \in Tasks : Copy(j)' = IF j = k THEN Found(u) ELSE Copy(j)
  <2>1. /\ UNCHANGED <<text, workspaces, open_documents, heap>>
        /\ snapshots[k] = None /\ Lookup(u) # None
        /\ \A j \in Tasks : snapshots'[j] = IF j = k THEN Lookup(u) ELSE snapshots[j]
    BY <1>1, <1>6 DEF TakeSnapshot, TypeOK
  <2>2. NoSharing'
    BY <1>1, <2>1 DEF NoSharing
  <2>3. \A j \in Tasks : Copy(j)' = IF j = k THEN Found(u) ELSE Copy(j)
    BY <2>1 DEF Copy, Found
  <2>4. Copy(k) = None
    BY <2>1 DEF Copy
  <2> QED BY <1>2, <2>1, <2>2, <2>3, <2>4, NothingFound
<1>7. ASSUME NEW k \in Tasks, DropSnapshot(k)
      PROVE  /\ NoSharing' /\ text' = text
             /\ Copy(k) # None
             /\ \A v \in Urls : Found(v)' = Found(v)
             /\ \A j \in Tasks : Copy(j)' = IF j = k THEN None ELSE Copy(j)
  <2>1. /\ UNCHANGED <<text, workspaces, open_documents>>
        /\ snapshots[k] # None
        /\ snapshots' \in [Tasks -> Cells \cup {None}]
        /\ \A j \in Tasks : snapshots'[j] = IF j = k THEN None ELSE snapshots[j]
        /\ heap' = Freed(heap, open_documents, snapshots')
    BY <1>1, <1>7 DEF DropSnapshot, TypeOK
  <2>2. /\ heap \in [Cells -> Texts \cup {None}]
        /\ open_documents \in [Folders -> [Urls -> Cells \cup {None}]]
    BY <1>1 DEF TypeOK
  <2>3. /\ \A f \in Folders, v \in Urls :
              open_documents[f][v] # None => heap'[open_documents[f][v]] = heap[open_documents[f][v]]
        /\ \A j \in Tasks : snapshots'[j] # None => heap'[snapshots'[j]] = heap[snapshots'[j]]
    BY <2>1, <2>2, FreedKeeps
  <2>4. ASSUME NEW v \in Urls
        PROVE  Found(v)' = Found(v)
    <3>1. Lookup(v)' = Lookup(v)
      BY <2>1, EntryStays DEF Lookup
    <3>2. Lookup(v) # None => heap'[Lookup(v)] = heap[Lookup(v)]
      BY <1>1, <2>3, LookupType
    <3> QED BY <3>1, <3>2 DEF Found
  <2>5. \A j \in Tasks : Copy(j)' = IF j = k THEN None ELSE Copy(j)
    BY <2>1, <2>3 DEF Copy
  <2>6. Copy(k) # None
    BY <1>1, <2>1 DEF Copy, CellsInUse
  <2>7. NoSharing'
    BY <1>1, <2>1 DEF NoSharing
  <2> QED BY <2>1, <2>4, <2>5, <2>6, <2>7
<1>8. ASSUME NEW f \in Folders, OpenWorkspaceFolder(f) \/ CloseWorkspaceFolder(f)
      PROVE  FALSE
  BY <1>8 DEF OpenWorkspaceFolder, CloseWorkspaceFolder
<1>9. ASSUME UNCHANGED vars
      PROVE  /\ NoSharing' /\ text' = text
             /\ \A v \in Urls : Found(v)' = Found(v)
             /\ \A j \in Tasks : Copy(j)' = Copy(j)
  <2>1. UNCHANGED <<workspaces, open_documents, heap, snapshots, text>>
    BY <1>9 DEF vars
  <2>2. NoSharing' /\ \A j \in Tasks : Copy(j)' = Copy(j)
    BY <1>1, <2>1 DEF NoSharing, Copy
  <2> QED BY <2>1, <2>2, NothingFound
<1>10. CASE \E u \in Urls, t \in Texts : OpenDocument(u, t)
  <2>1. PICK u \in Urls, t \in Texts : OpenDocument(u, t)
    BY <1>10
  <2> QED BY <1>3, <2>1 DEF Sets, Misses, SameFound, SameCopies
<1>11. CASE \E u \in Urls, t \in Texts : ChangeDocument(u, t)
  <2>1. PICK u \in Urls, t \in Texts : ChangeDocument(u, t)
    BY <1>11
  <2> QED BY <1>4, <2>1 DEF Sets, Misses, SameFound, SameCopies
<1>12. CASE \E u \in Urls : CloseDocument(u)
  <2>1. PICK u \in Urls : CloseDocument(u)
    BY <1>12
  <2> QED BY <1>5, <2>1 DEF Clears, Misses, SameFound, SameCopies
<1>13. CASE \E k \in Tasks, u \in Urls : TakeSnapshot(k, u)
  BY <1>6, <1>13 DEF Takes, SameFound
<1>14. CASE \E k \in Tasks : DropSnapshot(k)
  BY <1>7, <1>14 DEF Drops, SameFound
<1>15. CASE UNCHANGED vars
  BY <1>9, <1>15 DEF SameFound, SameCopies
<1> QED BY <1>8, <1>10, <1>11, <1>12, <1>13, <1>14, <1>15 DEF Next

(* What is found of a file is the client's text. *)
FoundIsCurrent == \A u \in Urls : text[u] # None /\ Found(u) # None => Found(u) = text[u]

(* The folders have changed, or the documents are the client's. *)
StableInv ==
    /\ SnapshotInv
    /\ ~foldersChanged => NoSharing /\ FoundIsCurrent

(* The history variable never goes back. *)
LEMMA ChangedStays ==
    ASSUME TypeOK, [Next]_vars, ~foldersChanged'
    PROVE  ~foldersChanged
BY DEF Next, vars, TypeOK, OpenDocument, ChangeDocument, CloseDocument, OpenWorkspaceFolder,
       CloseWorkspaceFolder, TakeSnapshot, DropSnapshot

(* The invariant of the session with the client's texts. *)
LEMMA StableInvInvariant == Spec => []StableInv
<1>1. Init => StableInv
  <2> SUFFICES ASSUME Init PROVE StableInv
    OBVIOUS
  <2>1. SnapshotInv /\ NoSharing
    BY DEF Init, SnapshotInv, TypeOK, CellsInUse, SnapshotIsImmutable, NoSharing, NoDocuments
  <2>2. FoundIsCurrent
    BY DEF Init, FoundIsCurrent
  <2> QED BY <2>1, <2>2 DEF StableInv
<1>2. StableInv /\ [Next]_vars => StableInv'
  <2> SUFFICES ASSUME StableInv, [Next]_vars PROVE StableInv'
    OBVIOUS
  <2>1. SnapshotInv /\ SnapshotInv'
    BY StepKeepsSnapshotInv DEF StableInv
  <2>2. ASSUME ~foldersChanged'
        PROVE  NoSharing' /\ FoundIsCurrent'
    <3>1. ~foldersChanged /\ NoSharing /\ FoundIsCurrent
      BY <2>1, <2>2, ChangedStays DEF StableInv, SnapshotInv
    <3>2. DocumentsInv
      BY <2>1, <3>1 DEF DocumentsInv
    <3>3. ASSUME NEW v \in Urls, text'[v] # None, Found(v)' # None
          PROVE  Found(v)' = text'[v]
      <4>1. text[v] # None /\ Found(v) # None => Found(v) = text[v]
        BY <3>1 DEF FoundIsCurrent
      <4> QED BY <2>2, <3>2, <3>3, <4>1, StepEffect DEF Sets, Clears, Misses, Takes, Drops, SameFound
    <3>4. FoundIsCurrent'
      BY <3>3 DEF FoundIsCurrent
    <3> QED BY <2>2, <3>2, <3>4, StepEffect
  <2> QED BY <2>1, <2>2 DEF StableInv
<1> QED BY <1>1, <1>2, PTL DEF Spec

(* Until the folders change, a file the client has open is found with the  *)
(* client's text, if it is found: no change of one document reaches        *)
(* another, and none is lost.                                              *)
THEOREM LookupsAreCurrent == Spec => []StableLookupIsCurrent
<1>1. StableInv => StableLookupIsCurrent
  BY LookupType DEF StableInv, FoundIsCurrent, StableLookupIsCurrent, LookupIsCurrent, Found, SnapshotInv,
                    CellsInUse
<1> QED BY <1>1, StableInvInvariant, PTL

(* Until the folders change, sharing documents behind Arcs and copying on  *)
(* write implement the map of texts with copied snapshots.                 *)
THEOREM SessionImplementsDocuments == Spec => ImplementsDocuments
<1> DEFINE docs == [u \in Urls |-> IF Lookup(u) = None THEN None ELSE heap[Lookup(u)]]
           held == [k \in Tasks |-> IF snapshots[k] = None THEN None ELSE heap[snapshots[k]]]
<1>1. Init => Abstract!Init
  <2> SUFFICES ASSUME Init PROVE Abstract!Init
    OBVIOUS
  <2>1. \A u \in Urls : Lookup(u) = None
    BY DEF Init, Lookup, NoDocuments, EntryForUrl, LastBelow, Below
  <2> QED BY <2>1 DEF Init, Abstract!Init
<1>2. StableInv /\ [Next]_vars => [~foldersChanged' => Abstract!Next]_(Abstract!vars)
  <2> SUFFICES ASSUME StableInv, [Next]_vars, ~foldersChanged' PROVE [Abstract!Next]_(Abstract!vars)
    OBVIOUS
  <2>0. DocumentsInv
    BY ChangedStays DEF StableInv, DocumentsInv, SnapshotInv
  <2>1. /\ \A u \in Urls : docs[u] = Found(u) /\ docs'[u] = Found(u)'
        /\ \A k \in Tasks : held[k] = Copy(k) /\ held'[k] = Copy(k)'
    BY DEF Found, Copy
  <2>2. /\ docs = [u \in Urls |-> docs[u]] /\ docs' = [u \in Urls |-> docs'[u]]
        /\ held = [k \in Tasks |-> held[k]] /\ held' = [k \in Tasks |-> held'[k]]
    OBVIOUS
  <2>3. ASSUME NEW u \in Urls, NEW t \in Texts, docs' = [docs EXCEPT ![u] = t], held' = held
        PROVE  Abstract!Next
    BY <2>3 DEF Abstract!Next, Abstract!Open
  <2>4. ASSUME NEW u \in Urls, docs[u] # None, docs' = [docs EXCEPT ![u] = None], held' = held
        PROVE  Abstract!Next
    BY <2>4 DEF Abstract!Next, Abstract!Close
  <2>5. ASSUME NEW k \in Tasks, NEW u \in Urls, docs[u] # None, held[k] = None,
               held' = [held EXCEPT ![k] = docs[u]], docs' = docs
        PROVE  Abstract!Next
    BY <2>5 DEF Abstract!Next, Abstract!TakeSnapshot
  <2>6. ASSUME NEW k \in Tasks, held[k] # None, held' = [held EXCEPT ![k] = None], docs' = docs
        PROVE  Abstract!Next
    BY <2>6 DEF Abstract!Next, Abstract!DropSnapshot
  <2>7. ASSUME docs' = docs, held' = held
        PROVE  UNCHANGED Abstract!vars
    BY <2>7 DEF Abstract!vars
  <2> HIDE DEF docs, held
  <2>8. (SameFound => docs' = docs) /\ (SameCopies => held' = held)
    BY <2>1, <2>2 DEF SameFound, SameCopies
  <2>9. ASSUME NEW u \in Urls, NEW t \in Texts, Sets(u, t)
        PROVE  Abstract!Next
    <3>1. docs' = [docs EXCEPT ![u] = t]
      BY <2>1, <2>2, <2>9 DEF Sets
    <3> QED BY <2>3, <2>8, <2>9, <3>1 DEF Sets
  <2>10. ASSUME NEW u \in Urls, Clears(u)
         PROVE  Abstract!Next
    <3>1. docs[u] # None /\ docs' = [docs EXCEPT ![u] = None]
      BY <2>1, <2>2, <2>10 DEF Clears
    <3> QED BY <2>4, <2>8, <2>10, <3>1 DEF Clears
  <2>11. ASSUME NEW k \in Tasks, NEW u \in Urls, Takes(k, u)
         PROVE  Abstract!Next
    <3>1. docs[u] # None /\ held[k] = None /\ held' = [held EXCEPT ![k] = docs[u]]
      BY <2>1, <2>2, <2>11 DEF Takes
    <3> QED BY <2>5, <2>8, <2>11, <3>1 DEF Takes
  <2>12. ASSUME NEW k \in Tasks, Drops(k)
         PROVE  Abstract!Next
    <3>1. held[k] # None /\ held' = [held EXCEPT ![k] = None]
      BY <2>1, <2>2, <2>12 DEF Drops
    <3> QED BY <2>6, <2>8, <2>12, <3>1 DEF Drops
  <2>13. ASSUME SameFound, SameCopies
         PROVE  UNCHANGED Abstract!vars
    BY <2>7, <2>8, <2>13
  <2> QED BY <2>0, StepEffect, <2>9, <2>10, <2>11, <2>12, <2>13 DEF Misses
<1> QED BY <1>1, <1>2, StableInvInvariant, PTL DEF Spec, ImplementsDocuments
-----------------------------------------------------------------------------
(* A set of natural numbers has a least element. *)
LEMMA LeastNatural ==
    ASSUME NEW S \in SUBSET Nat, S # {}
    PROVE  \E n \in S : \A m \in S : n <= m
<1> DEFINE T == {1..n : n \in S}
<1>1. T \subseteq FiniteSubsetsOf(Nat)
  BY FS_Interval DEF FiniteSubsetsOf
<1>2. T # {}
  OBVIOUS
<1>3. PICK x \in T : \A y \in T : ~(<<y, x>> \in StrictSubsetOrdering(Nat))
  <2> HIDE DEF T
  <2> QED BY <1>1, <1>2, WFMin, FS_StrictSubsetOrderingWellFounded
<1>4. PICK n \in S : x = 1..n
  OBVIOUS
<1>5. ASSUME NEW m \in S, m < n PROVE FALSE
  <2>1. 1..m \in SUBSET Nat /\ 1..n \in SUBSET Nat
    OBVIOUS
  <2>2. 1..m \subseteq 1..n /\ n \in 1..n /\ n \notin 1..m
    BY <1>5
  <2>3. <<1..m, 1..n>> \in StrictSubsetOrdering(Nat)
    BY <2>1, <2>2 DEF StrictSubsetOrdering
  <2> QED BY <1>3, <1>4, <2>3
<1> QED BY <1>5

(* Paths are in a strict total order. *)
LEMMA PathIrreflexive ==
    ASSUME NEW p \in Seq(Nat)
    PROVE  ~PathLess(p, p)
<1>1. Len(p) \in Nat /\ \A i \in 1..Len(p) : p[i] \in Nat
  BY LenProperties, ElementOfSeq
<1> QED BY <1>1 DEF PathLess

LEMMA PathTransitive ==
    ASSUME NEW p \in Seq(Nat), NEW q \in Seq(Nat), NEW r \in Seq(Nat),
           PathLess(p, q), PathLess(q, r)
    PROVE  PathLess(p, r)
<1>1. /\ Len(p) \in Nat /\ Len(q) \in Nat /\ Len(r) \in Nat
      /\ \A i \in 1..Len(p) : p[i] \in Nat
      /\ \A i \in 1..Len(q) : q[i] \in Nat
      /\ \A i \in 1..Len(r) : r[i] \in Nat
  BY LenProperties, ElementOfSeq
<1>2. PICK i \in 1..Len(q) : /\ i <= Len(p) + 1
                             /\ \A j \in 1..i - 1 : p[j] = q[j]
                             /\ i <= Len(p) => p[i] < q[i]
  BY DEF PathLess
<1>3. PICK k \in 1..Len(r) : /\ k <= Len(q) + 1
                             /\ \A j \in 1..k - 1 : q[j] = r[j]
                             /\ k <= Len(q) => q[k] < r[k]
  BY DEF PathLess
<1>4. CASE i < k
  <2>1. i \in 1..Len(r) /\ i \in 1..k - 1 /\ \A j \in 1..i - 1 : j \in 1..k - 1
    BY <1>1, <1>4
  <2>2. \A j \in 1..i - 1 : p[j] = r[j]
    BY <1>2, <1>3, <2>1
  <2>3. i <= Len(p) => p[i] < r[i]
    BY <1>2, <1>3, <2>1
  <2> QED BY <1>2, <2>1, <2>2, <2>3 DEF PathLess
<1>5. CASE k < i
  <2>0. i \in Nat /\ k \in Nat /\ k >= 1 /\ i <= Len(q) /\ i <= Len(p) + 1
    BY <1>1, <1>2, <1>3
  <2>1. k <= Len(p) + 1 /\ k \in 1..i - 1 /\ k <= Len(q) /\ \A j \in 1..k - 1 : j \in 1..i - 1
    BY <1>1, <1>5, <2>0, SMTT(30)
  <2>2. \A j \in 1..k - 1 : p[j] = r[j]
    BY <1>2, <1>3, <2>1
  <2>3. p[k] < r[k]
    BY <1>2, <1>3, <2>1
  <2> QED BY <2>1, <2>2, <2>3 DEF PathLess
<1>6. CASE i = k
  <2>1. \A j \in 1..i - 1 : p[j] = r[j]
    BY <1>2, <1>3, <1>6
  <2>2. i <= Len(p) => p[i] < r[i]
    <3>1. q[i] < r[i]
      BY <1>1, <1>3, <1>6
    <3>2. q[i] \in Nat /\ r[i] \in Nat /\ (i <= Len(p) => p[i] \in Nat)
      BY <1>1, <1>6
    <3>3. i <= Len(p) => p[i] < q[i]
      BY <1>2
    <3> QED BY <3>1, <3>2, <3>3, SMTT(30)
  <2> QED BY <1>2, <1>6, <2>1, <2>2 DEF PathLess
<1> QED BY <1>1, <1>4, <1>5, <1>6

LEMMA PathTotal ==
    ASSUME NEW p \in Seq(Nat), NEW q \in Seq(Nat), p # q
    PROVE  PathLess(p, q) \/ PathLess(q, p)
<1>1. /\ Len(p) \in Nat /\ Len(q) \in Nat
      /\ \A i \in 1..Len(p) : p[i] \in Nat
      /\ \A i \in 1..Len(q) : q[i] \in Nat
  BY LenProperties, ElementOfSeq
<1> DEFINE Differ == {i \in Nat : i >= 1 /\ (i > Len(p) \/ i > Len(q) \/ p[i] # q[i])}
<1>2. PICK i \in Differ : \A j \in Differ : i <= j
  <2>1. Len(p) + 1 \in Differ
    BY <1>1
  <2>2. Differ \in SUBSET Nat
    OBVIOUS
  <2> HIDE DEF Differ
  <2> QED BY <2>1, <2>2, LeastNatural
<1>3. \A j \in 1..i - 1 : j \in 1..Len(p) /\ j \in 1..Len(q) /\ p[j] = q[j]
  <2>1. ASSUME NEW j \in 1..i - 1 PROVE j \notin Differ
    BY <1>2
  <2> QED BY <1>1, <2>1
<1>4. i \in Nat /\ i >= 1 /\ i <= Len(p) + 1 /\ i <= Len(q) + 1
  <2>1. Len(p) + 1 \in Differ /\ Len(q) + 1 \in Differ
    BY <1>1
  <2> QED BY <1>2, <2>1
<1>5. CASE i <= Len(q) /\ (i > Len(p) \/ p[i] < q[i])
  BY <1>1, <1>3, <1>4, <1>5 DEF PathLess
<1>6. CASE i <= Len(p) /\ (i > Len(q) \/ q[i] < p[i])
  BY <1>1, <1>3, <1>4, <1>6, SMTT(30) DEF PathLess
<1>7. CASE i > Len(p) /\ i > Len(q)
  <2>1. Len(p) = Len(q) /\ \A j \in 1..Len(p) : p[j] = q[j]
    BY <1>1, <1>3, <1>4, <1>7
  <2> QED BY <2>1, SeqEqual
<1>8. i <= Len(p) /\ i <= Len(q) => p[i] < q[i] \/ q[i] < p[i]
  <2>1. i <= Len(p) /\ i <= Len(q) => p[i] # q[i] /\ p[i] \in Nat /\ q[i] \in Nat
    BY <1>1, <1>2, <1>4
  <2> QED BY <2>1
<1> QED BY <1>1, <1>4, <1>5, <1>6, <1>7, <1>8

(* So that the range of a document has a last folder unless it is empty. *)
LEMMA LastExists ==
    ASSUME TypeOK, NEW u, Below(u) # {}
    PROVE  LastBelow(u) # {} /\ EntryForUrl(u) \in workspaces /\ EntryForUrl(u) # None
<1> DEFINE Above(f) == {g \in Below(u) : PathLess(f, g)}
           T == {Above(f) : f \in Below(u)}
<1>1. Below(u) \subseteq workspaces /\ Below(u) \in SUBSET Folders /\ \A f \in Below(u) : f \in Seq(Nat)
  BY PathsAssumption DEF TypeOK, Below
<1>2. T \subseteq FiniteSubsetsOf(Below(u)) /\ T # {}
  <2>1. IsFiniteSet(Below(u))
    BY <1>1, FS_Subset, PathsAssumption
  <2>2. \A f \in Below(u) : Above(f) \in SUBSET Below(u) /\ IsFiniteSet(Above(f))
    BY <2>1, FS_Subset
  <2> QED BY <2>2 DEF FiniteSubsetsOf
<1>3. PICK x \in T : \A y \in T : ~(<<y, x>> \in StrictSubsetOrdering(Below(u)))
  <2> HIDE DEF T
  <2> QED BY <1>2, WFMin, FS_StrictSubsetOrderingWellFounded
<1>4. PICK f \in Below(u) : x = Above(f)
  OBVIOUS
<1>5. ASSUME NEW g \in Above(f) PROVE FALSE
  <2>1. Above(g) \subseteq Above(f)
    BY <1>1, <1>5, PathTransitive
  <2>2. g \notin Above(g)
    BY <1>1, PathIrreflexive
  <2>3. <<Above(g), Above(f)>> \in StrictSubsetOrdering(Below(u))
    BY <1>5, <2>1, <2>2 DEF StrictSubsetOrdering
  <2> QED BY <1>3, <1>4, <1>5, <2>3
<1>6. f \in LastBelow(u)
  <2>1. \A g \in Below(u) : g = f \/ PathLess(g, f)
    BY <1>1, <1>5, PathTotal
  <2> QED BY <2>1 DEF LastBelow
<1>7. EntryForUrl(u) \in LastBelow(u)
  BY <1>6 DEF EntryForUrl
<1> QED BY <1>1, <1>6, <1>7, NoneAssumption DEF LastBelow

(* A document is in the folder found for it and in no other, and it is     *)
(* there exactly while the client has it open.                             *)
Agree ==
    \A u \in Urls :
        /\ \A f \in Folders :
              open_documents[f][u] # None => f = EntryForUrl(u) /\ text[u] # None
        /\ text[u] # None /\ EntryForUrl(u) # None => Lookup(u) # None

OpenInv == SnapshotInv /\ (~foldersChanged => Agree)

LEMMA OpenInvStep ==
    ASSUME SnapshotInv, Agree, [Next]_vars, ~foldersChanged'
    PROVE  Agree'
<1>1. TypeOK /\ open_documents \in [Folders -> [Urls -> Cells \cup {None}]]
      /\ text \in [Urls -> Texts \cup {None}]
  BY DEF SnapshotInv, TypeOK
<1>2. ASSUME UNCHANGED workspaces,
             \A v \in Urls, f \in Folders :
                /\ open_documents'[f][v] # None => f = EntryForUrl(v) /\ text'[v] # None
                /\ text'[v] # None /\ f = EntryForUrl(v) => open_documents'[f][v] # None
      PROVE  Agree'
  <2>1. \A v : EntryForUrl(v)' = EntryForUrl(v)
    BY <1>2, EntryStays
  <2>2. \A v \in Urls : EntryForUrl(v) \in Folders \cup {None}
    BY <1>1, EntryType
  <2> QED BY <1>2, <2>1, <2>2 DEF Agree, Lookup
<1>3. /\ \A v \in Urls, f \in Folders :
            /\ open_documents[f][v] # None => f = EntryForUrl(v) /\ text[v] # None
            /\ text[v] # None /\ f = EntryForUrl(v) => open_documents[f][v] # None
      /\ None \notin Folders
  BY NoneAssumption DEF Agree, Lookup
<1>4. ASSUME UNCHANGED <<text, workspaces, open_documents>>
      PROVE  Agree'
  BY <1>2, <1>3, <1>4
<1>5. ASSUME NEW u \in Urls, NEW t \in Texts, Stored(EntryForUrl(u), u, t),
             EntryForUrl(u) # None, text' = [text EXCEPT ![u] = t], UNCHANGED workspaces
      PROVE  Agree'
  <2>1. NewCell \in Cells /\ NewCell # None /\ t # None /\ EntryForUrl(u) \in Folders
    BY <1>1, <1>5, NewCellIsFree, NoneAssumption, EntryType DEF Stored
  <2>2. \A v \in Urls, f \in Folders :
           /\ open_documents'[f][v] =
                 IF f = EntryForUrl(u) /\ v = u THEN NewCell ELSE open_documents[f][v]
           /\ text'[v] = IF v = u THEN t ELSE text[v]
    BY <1>1, <1>5, <2>1 DEF Stored
  <2> QED BY <1>2, <1>3, <1>5, <2>1, <2>2
<1>6. ASSUME NEW u \in Urls, NEW t \in Texts, EntryForUrl(u) = None \/ Lookup(u) # None,
             text' = [text EXCEPT ![u] = t], UNCHANGED <<workspaces, open_documents>>
      PROVE  Agree'
  <2>1. t # None /\ \A v \in Urls : text'[v] = IF v = u THEN t ELSE text[v]
    BY <1>1, <1>6, NoneAssumption
  <2>2. \A f \in Folders : f = EntryForUrl(u) => open_documents[f][u] # None
    BY <1>3, <1>6 DEF Lookup
  <2> QED BY <1>2, <1>3, <1>6, <2>1, <2>2
<1>7. ASSUME NEW u \in Urls, NEW t \in Texts, OpenDocument(u, t) PROVE Agree'
  BY <1>5, <1>6, <1>7 DEF OpenDocument, Stored
<1>8. ASSUME NEW u \in Urls, NEW t \in Texts, ChangeDocument(u, t) PROVE Agree'
  <2>1. text[u] # None /\ text' = [text EXCEPT ![u] = t] /\ UNCHANGED workspaces
    BY <1>8 DEF ChangeDocument
  <2>2. Lookup(u) = None => EntryForUrl(u) = None
    BY <2>1 DEF Agree
  <2>3. Lookup(u) # None => EntryForUrl(u) # None
    BY DEF Lookup
  <2>4. UNCHANGED open_documents \/ (Lookup(u) # None /\ Stored(EntryForUrl(u), u, t))
    BY <1>8 DEF ChangeDocument, Stored
  <2> QED BY <1>5, <1>6, <2>1, <2>2, <2>3, <2>4
<1>9. ASSUME NEW u \in Urls, CloseDocument(u) PROVE Agree'
  <2>1. /\ text[u] # None /\ UNCHANGED workspaces
        /\ \A v \in Urls : text'[v] = IF v = u THEN None ELSE text[v]
    BY <1>1, <1>9 DEF CloseDocument
  <2>2. CASE /\ Lookup(u) # None
             /\ open_documents' = [open_documents EXCEPT ![EntryForUrl(u)] = [@ EXCEPT ![u] = None]]
    <3>1. EntryForUrl(u) \in Folders
      BY <1>1, <2>2, LookupType
    <3>2. \A v \in Urls, f \in Folders :
             open_documents'[f][v] =
                IF f = EntryForUrl(u) /\ v = u THEN None ELSE open_documents[f][v]
      BY <1>1, <2>2, <3>1
    <3> QED BY <1>2, <1>3, <2>1, <3>2
  <2>3. CASE Lookup(u) = None /\ UNCHANGED open_documents
    <3>1. EntryForUrl(u) = None
      BY <2>1, <2>3 DEF Agree
    <3> QED BY <1>2, <1>3, <2>1, <2>3, <3>1
  <2> QED BY <1>9, <2>2, <2>3 DEF CloseDocument
<1>10. ASSUME NEW f \in Folders, OpenWorkspaceFolder(f) \/ CloseWorkspaceFolder(f) PROVE FALSE
  BY <1>10 DEF OpenWorkspaceFolder, CloseWorkspaceFolder
<1> QED
  BY <1>4, <1>7, <1>8, <1>9, <1>10 DEF Next, TakeSnapshot, DropSnapshot, vars

(* Until the folders change, a file inside an open folder is found while   *)
(* the client has it open, and a file that it has closed is in no folder.  *)
THEOREM SessionFollowsClient == Spec => []OpenFilesAreTheClients
<1>1. Init => OpenInv
  <2> SUFFICES ASSUME Init PROVE OpenInv
    OBVIOUS
  <2>1. SnapshotInv
    BY DEF Init, SnapshotInv, TypeOK, CellsInUse, SnapshotIsImmutable, NoDocuments
  <2>2. Agree
    BY DEF Init, Agree, NoDocuments
  <2> QED BY <2>1, <2>2 DEF OpenInv
<1>2. OpenInv /\ [Next]_vars => OpenInv'
  <2> SUFFICES ASSUME OpenInv, [Next]_vars PROVE OpenInv'
    OBVIOUS
  <2>1. ~foldersChanged' => ~foldersChanged
    BY ChangedStays DEF OpenInv, SnapshotInv
  <2> QED BY <2>1, StepKeepsSnapshotInv, OpenInvStep DEF OpenInv
<1>3. OpenInv => OpenFilesAreTheClients
  <2> SUFFICES ASSUME OpenInv, ~foldersChanged, NEW u \in Urls
               PROVE  IF text[u] = None THEN \A f \in workspaces : open_documents[f][u] = None
                      ELSE (\E f \in workspaces : Len(f) < Len(u) /\ SubSeq(u, 1, Len(f)) = f)
                              => Lookup(u) # None
    BY DEF OpenFilesAreTheClients
  <2>1. TypeOK /\ Agree
    BY DEF OpenInv, SnapshotInv
  <2>2. text[u] = None => \A f \in workspaces : open_documents[f][u] = None
    BY <2>1 DEF TypeOK, Agree
  <2>3. ASSUME text[u] # None, NEW f \in workspaces, Len(f) < Len(u), SubSeq(u, 1, Len(f)) = f
        PROVE  Lookup(u) # None
    <3>1. f \in Seq(Nat) /\ u \in Seq(Nat) /\ Len(f) \in Nat /\ Len(u) \in Nat
      BY <2>1, PathsAssumption, LenProperties DEF TypeOK
    <3>2. \A j \in 1..Len(f) : f[j] = u[j]
      <4>1. \A j \in 1..Len(f) : SubSeq(u, 1, Len(f))[j] = u[j]
        BY <2>3, <3>1
      <4> QED BY <2>3, <4>1
    <3>3. PathLess(f, u)
      <4>1. Len(f) + 1 \in 1..Len(u) /\ ~(Len(f) + 1 <= Len(f)) /\ (Len(f) + 1) - 1 = Len(f)
        BY <2>3, <3>1
      <4> QED BY <3>2, <4>1 DEF PathLess
    <3>4. u # NotAFile
      BY <2>3, <3>1 DEF NotAFile
    <3>5. f \in Below(u)
      BY <3>3, <3>4 DEF Below
    <3> QED BY <2>1, <2>3, <3>5, LastExists DEF Agree
  <2> QED BY <2>2, <2>3
<1> QED BY <1>1, <1>2, <1>3, PTL DEF Spec
=============================================================================
