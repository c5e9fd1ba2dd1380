---------------------------- MODULE ImportResult ----------------------------
(***************************************************************************)
(* The files the import resolver looks at and the records it returns       *)
(* (crate ruff_python_resolver: import_result.rs, implicit_imports.rs,     *)
(* native_module.rs, py_typed.rs).                                         *)
(*                                                                         *)
(* A directory is the sequence of its components.  A file is a directory,  *)
(* a name and the dotted pieces after it: a.abi3.so is the name a with the *)
(* pieces <<"abi3", "so">>.  A world w holds the files as a function from  *)
(* files to their lines; the directories are the ones with a file below.   *)
(***************************************************************************)
EXTENDS Naturals, Sequences, SequencesExt

CONSTANT LargeFile    \* lines from which a file is too large to be read

ASSUME LargeFileAssumption == LargeFile \in Nat

File(dir, name, ext) == [dir |-> dir, name |-> name, ext |-> ext]

\* PathBuf::new(), which stands for a namespace package in resolved_paths.
EmptyPath == File(<<>>, "", <<>>)

IsFile(w, file) == file \in DOMAIN w.files
IsDir(w, dir) == \E file \in DOMAIN w.files : IsPrefix(dir, file.dir)
FilesIn(w, dir) == {file \in DOMAIN w.files : file.dir = dir}
SubDirs(w, dir) ==
    {file.dir[Len(dir) + 1] :
        file \in {f \in DOMAIN w.files : IsStrictPrefix(dir, f.dir)}}

\* The order in which the operating system lists a directory is not ours to
\* know: both orders of a listing are worlds.
ReadDir(w, S) == IF w.reversed THEN Reverse(SetToSeq(S)) ELSE SetToSeq(S)

\* An optional value is a sequence of at most one element.
FirstIfAny(s) == IF s = <<>> THEN <<>> ELSE <<Head(s)>>

\* The first element of s at one of the positions, if there is any.
FirstAt(s, positions) ==
    IF positions = {} THEN <<>>
    ELSE <<s[CHOOSE i \in positions : \A j \in positions : i <= j]>>

-----------------------------------------------------------------------------
(* native_module.rs and py_typed.rs                                        *)

is_native_module_file_extension(extension) ==
    extension \in {"so", "pyd", "dylib"}

\* a.abi3.so is the module a: everything after the first dot is dropped.
native_module_name(file) == file.name

is_native_module_file_name(module_name, file) ==
    /\ file.ext # <<>>
    /\ is_native_module_file_extension(Last(file.ext))
    /\ native_module_name(file) = module_name

\* The first file of the listing that is the module, as a sequence of at most
\* one file.
find_native_module(w, module_name, dir) ==
    FirstIfAny(ReadDir(w, {file \in FilesIn(w, dir) :
                             is_native_module_file_name(module_name, file)}))

\* Is there a py.typed of a sane size?  Nothing reads whether it says partial.
get_py_typed_info(w, dir) ==
    LET py_typed == File(dir, "py", <<"typed">>)
    IN IsFile(w, py_typed) /\ Len(w.files[py_typed]) < LargeFile

-----------------------------------------------------------------------------
(* implicit_imports.rs: a map from names to "is it a stub", the part of    *)
(* its entries the resolver's answer depends on.  A name is a sequence of  *)
(* dotted pieces.                                                          *)

IsModuleFile(file) ==
    /\ file.ext # <<>>
    /\ \/ Last(file.ext) \in {"py", "pyi"}
       \/ is_native_module_file_extension(Last(file.ext))

ModuleName(file) ==
    IF Last(file.ext) \in {"py", "pyi"} THEN <<file.name>> \o Front(file.ext)
                                        ELSE <<native_module_name(file)>>

\* A subdirectory is entered under the name of its __init__ file, not under
\* its own: path is rebound before its file_name is taken.
InitNames(w, dir) ==
    {IF IsFile(w, File(Append(dir, sub), "__init__", <<"py">>))
        THEN <<"__init__", "py">> ELSE <<"__init__", "pyi">> :
        sub \in {s \in SubDirs(w, dir) : \E e \in {"py", "pyi"} :
                    IsFile(w, File(Append(dir, s), "__init__", <<e>>))}}

ImportsOf(files, inits) ==
    [name \in {ModuleName(file) : file \in files} \cup inits |->
        IF name \in inits THEN name = <<"__init__", "pyi">>
        ELSE \E file \in files : ModuleName(file) = name /\ Last(file.ext) = "pyi"]

find_implicit_imports(w, dir, exclusions) ==
    ImportsOf({file \in FilesIn(w, dir) \ exclusions : IsModuleFile(file)}, InitNames(w, dir))

NoImports == [name \in {} |-> FALSE]

\* Filter keeps the imported symbols; it is skipped when it would keep all.
filter(imports, symbols) ==
    IF DOMAIN imports = {} \/ symbols = {} THEN imports
    ELSE [name \in DOMAIN imports \cap symbols |-> imports[name]]

resolves_namespace_package(imports, symbols) ==
    IF symbols # {} THEN symbols \subseteq DOMAIN imports
                    ELSE DOMAIN imports # {}

-----------------------------------------------------------------------------
(* import_result.rs                                                        *)

\* The answer for an import that is nowhere.  non_stub is the sequence of at
\* most one result found without stubs; a search path or a package directory
\* that is not there is the sequence <<"none">>.
NoDir == <<"none">>

not_found ==
    [is_relative |-> FALSE, is_import_found |-> FALSE, is_partly_resolved |-> FALSE,
     is_namespace_package |-> FALSE, is_init_file_present |-> FALSE,
     is_stub_package |-> FALSE, import_type |-> "Local", resolved_paths |-> <<>>,
     search_path |-> NoDir, is_stub_file |-> FALSE, is_native_lib |-> FALSE,
     typeshed |-> "no", is_local_typings_file |-> FALSE,
     implicit_imports |-> NoImports, non_stub |-> <<>>,
     py_typed |-> FALSE, package_directory |-> NoDir]

=============================================================================
