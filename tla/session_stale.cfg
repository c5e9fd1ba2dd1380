\* An inner folder is opened and closed while a document of it is open.
CONSTANTS
    Folders <- NestedFolders
    Urls <- NestedUrls
    Texts = {t1, t2}
    Tasks = {k1, k2}
    Cells = {1, 2, 3, 4, 5}
    None = None
SPECIFICATION Spec
INVARIANT LookupIsCurrent
