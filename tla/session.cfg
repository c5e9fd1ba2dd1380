\* Nested folders that come and go, documents in both and one that is no file, two tasks.
CONSTANTS
    Folders <- NestedFolders
    Urls <- UntitledUrls
    Texts = {t1, t2}
    Tasks = {k1, k2}
    Cells = {1, 2, 3, 4, 5}
    None = None
SYMMETRY TextsAndTasks
SPECIFICATION Spec
INVARIANTS
    SnapshotIsImmutable
    StableLookupIsCurrent
    OpenFilesAreTheClients
PROPERTY ImplementsDocuments
