----------------------------- MODULE SearchPaths -----------------------------
(***************************************************************************)
(* Where the import resolver looks for third-party packages and for        *)
(* typeshed (search.rs, with config.rs, host.rs and python_platform.rs).   *)
(* Optional paths of the configuration are NoDir when they are not set.    *)
(***************************************************************************)
EXTENDS ImportResult, FiniteSets

CONSTANTS
    NameOrder,    \* the names of directories, in alphabetical order
    PythonDirs    \* the names that start with "python3."

ASSUME PythonDirsAssumption == PythonDirs \subseteq ToSet(NameOrder)

lib_names(platform) ==
    CASE platform = "Darwin" -> <<"lib">>
      [] platform = "Linux" -> <<"lib", "lib64">>
      [] platform = "Windows" -> <<"Lib">>

\* site-packages in the library directory, or in some python3.X below it (the
\* first one listed: no caller passes a version).  At most one directory.
find_site_packages_path(w, lib) ==
    LET direct == Append(lib, "site-packages")
        below == {lib \o <<python, "site-packages">> : python \in SubDirs(w, lib) \cap PythonDirs}
    IN IF IsDir(w, direct) THEN <<direct>>
       ELSE FirstIfAny(ReadDir(w, {dir \in below : IsDir(w, dir)}))

\* The first line of a .pth file that names a directory below its own; a
\* comment or an import statement is the line <<"#">>.
PthPaths(w, dir, pth) ==
    LET lines == w.files[pth]
        named == {i \in DOMAIN lines :
                    lines[i] \notin {<<>>, <<"#">>} /\ IsDir(w, dir \o lines[i])}
    IN {dir \o line : line \in ToSet(FirstAt(lines, named))}

find_paths_from_pth_files(w, dir) ==
    UNION {PthPaths(w, dir, pth) :
        pth \in {f \in FilesIn(w, dir) : /\ f.ext # <<>> /\ Last(f.ext) = "pth"
                                         /\ Len(w.files[f]) \in 1 .. LargeFile - 1}}

NameRank(name) == CHOOSE i \in DOMAIN NameOrder : NameOrder[i] = name

PathBefore(p, q) ==
    \/ IsStrictPrefix(p, q)
    \/ \E i \in DOMAIN p \cap DOMAIN q :
          /\ SubSeq(p, 1, i - 1) = SubSeq(q, 1, i - 1)
          /\ NameRank(p[i]) < NameRank(q[i])

\* The paths of s in order, each put behind the ones before it.
Inserted(s, p) == InsertAt(s, Cardinality({i \in DOMAIN s : PathBefore(s[i], p)}) + 1, p)

Sorted(s) ==
    LET sorted[i \in 0..Len(s)] == IF i = 0 THEN <<>> ELSE Inserted(sorted[i - 1], s[i])
    IN sorted[Len(s)]

\* The virtual environment's packages, sorted and without duplicates, or what
\* the host says.
SortedOr(found, otherwise) == IF found = {} THEN otherwise ELSE Sorted(SetToSeq(found))

python_search_paths(w) ==
    LET sites == {find_site_packages_path(w, w.config.venv \o <<lib>>) :
                    lib \in ToSet(lib_names(w.host.platform))}
        Paths(dir) == {dir} \cup find_paths_from_pth_files(w, dir)
    IN IF w.config.venv = NoDir THEN w.host.search_paths
       ELSE SortedOr(UNION {Paths(dir) : dir \in UNION {ToSet(site) : site \in sites}},
                     w.host.search_paths)

\* The first directory of this name below the given ones: at most one, as the
\* others below.
FirstBelow(w, dirs, name) ==
    LET below == [i \in DOMAIN dirs |-> Append(dirs[i], name)]
    IN FirstAt(below, {i \in DOMAIN dirs : IsDir(w, below[i])})

typeshed_root(w) ==
    IF w.config.typeshed_path = NoDir
       THEN FirstBelow(w, python_search_paths(w), "typeshed")
    ELSE IF IsDir(w, w.config.typeshed_path) THEN <<w.config.typeshed_path>> ELSE <<>>

typeshed_subdirectory(w, is_stdlib) ==
    FirstBelow(w, typeshed_root(w), IF is_stdlib THEN "stdlib" ELSE "stubs")

stdlib_typeshed_path(w) == typeshed_subdirectory(w, TRUE)

\* The packages of typeshed/stubs that hold the module: as a directory or as
\* a stub file.
build_typeshed_third_party_package_map(w, stubs, name) ==
    LET Holds(package) ==
            \/ name \in SubDirs(w, package)
            \/ \E file \in FilesIn(w, package) :
                  /\ file.ext # <<>> /\ Last(file.ext) = "pyi"
                  /\ ModuleName(file) = <<name>>
        packages == UNION {{Append(dir, p) : p \in SubDirs(w, dir)} : dir \in ToSet(stubs)}
    IN ReadDir(w, {package \in packages : Holds(package)})

third_party_typeshed_package_paths(w) ==
    IF w.descriptor.name_parts = <<>> THEN <<>>
    ELSE build_typeshed_third_party_package_map(w, typeshed_subdirectory(w, FALSE),
                                                w.descriptor.name_parts[1])

=============================================================================
