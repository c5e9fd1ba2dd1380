------------------------------ MODULE Resolver ------------------------------
(***************************************************************************)
(* The import resolver (crate ruff_python_resolver, resolver.rs): from a   *)
(* world of files, an execution environment, a configuration and the       *)
(* descriptor of an import to the files it is resolved to.  A world w has  *)
(*   files, reversed          see ImportResult                             *)
(*   root, extra_paths        the execution environment                    *)
(*   config, host             see SearchPaths                              *)
(*   source                   the directory of the importing file          *)
(*   descriptor               leading_dots, name_parts, imported_symbols   *)
(***************************************************************************)
EXTENDS SearchPaths

CONSTANTS
    StubsOf,    \* a package to its stub package, "a" to "a-stubs"
    Worlds      \* the worlds an import is resolved in

\* A directory, or a line of a file that names one; "none" and "#" stand for
\* what is none.
Name == ToSet(NameOrder) \cup {"none", "#"}
Dir == Seq(Name)

FilesAssumption ==
    \A w \in Worlds :
      /\ IsFiniteSet(DOMAIN w.files)
      /\ \A file \in DOMAIN w.files :
            file.dir \in Dir /\ file.ext \in Seq(STRING) /\ w.files[file] \in Seq(Dir)

SettingsAssumption ==
    \A w \in Worlds :
      /\ w.root \in Dir /\ w.source \in Dir /\ w.extra_paths \in Seq(Dir)
      /\ w.config.typeshed_path \in Dir /\ w.config.stub_path \in Dir /\ w.config.venv \in Dir
      /\ w.host.platform \in {"Darwin", "Linux", "Windows"} /\ w.host.search_paths \in Seq(Dir)

DescriptorAssumption ==
    \A w \in Worlds :
      LET parts == w.descriptor.name_parts
      IN /\ w.descriptor.leading_dots \in Nat /\ parts \in Dir
         /\ parts # <<>> => StubsOf[parts[1]] \in Name

NamesAssumption ==
    {"lib", "lib64", "Lib", "site-packages", "typeshed", "stdlib", "stubs"} \subseteq Name

ASSUME WorldsAssumption ==
    FilesAssumption /\ SettingsAssumption /\ DescriptorAssumption /\ NamesAssumption

-----------------------------------------------------------------------------
(* resolve_module_descriptor: one search path                              *)

\* What is allowed at a search path; no caller allows partial imports.
Allow(native_lib, stub_package, pyi, py_typed) ==
    [native_lib |-> native_lib, stub_package |-> stub_package, pyi |-> pyi,
     py_typed |-> py_typed]

(* Mutant: a stub is taken even where stubs are not allowed. *)
StubOrSourceAnyway(w, allow, dir, name) ==
    LET pyi == File(dir, name, <<"pyi">>)
        py == File(dir, name, <<"py">>)
    IN IF IsFile(w, pyi) THEN <<pyi>>
       ELSE IF IsFile(w, py) THEN <<py>> ELSE <<>>

\* The stub or the source with this name, as a sequence of at most one file.
StubOrSource(w, allow, dir, name) ==
    LET pyi == File(dir, name, <<"pyi">>)
        py == File(dir, name, <<"py">>)
    IN IF allow.pyi /\ IsFile(w, pyi) THEN <<pyi>>
       ELSE IF IsFile(w, py) THEN <<py>> ELSE <<>>

BothFiles(dir, name) == {File(dir, name, <<"py">>), File(dir, name, <<"pyi">>)}

IsStub(found) == found # <<>> /\ Last(found[1].ext) = "pyi"

\* No name parts: `from . import foo` names the package at root itself.
ResolvePackage(w, root, allow, r) ==
    LET init == StubOrSource(w, allow, root, "__init__")
    IN [r EXCEPT
        !.resolved_paths = IF init = <<>> THEN <<EmptyPath>> ELSE init,
        !.is_namespace_package = (init = <<>>),
        !.implicit_imports = find_implicit_imports(w, root, BothFiles(root, "__init__"))]

\* A directory without an __init__ file for the last part.  Its implicit
\* imports are looked up in dir, the directory that holds it.
NamespacePackage(w, dir, name, is_last, r) ==
    [r EXCEPT !.resolved_paths = Append(@, EmptyPath),
              !.is_namespace_package = @ \/ is_last,
              !.implicit_imports =
                 IF is_last THEN find_implicit_imports(w, dir, BothFiles(dir, name)) ELSE @]

\* The last look: a file in lieu of a directory, a native library, or the
\* directory as a namespace package.
ResolveFile(w, dir, name, allow, found_directory, is_last, r) ==
    LET file == StubOrSource(w, allow, dir, name)
        native == find_native_module(w, name, dir)
    IN CASE file # <<>> ->
              [r EXCEPT !.resolved_paths = @ \o file,
                        !.is_stub_file = @ \/ (is_last /\ IsStub(file))]
         [] file = <<>> /\ allow.native_lib /\ native # <<>> ->
              [r EXCEPT !.resolved_paths = @ \o native, !.is_native_lib = TRUE]
         [] OTHER ->
              IF found_directory THEN NamespacePackage(w, dir, name, is_last, r) ELSE r

(* Mutant: the walk does not move into the directory. *)
EnterDirectoryInPlace(s, dir, init, entered) ==
    [s EXCEPT !.result =
                 IF init # <<>> THEN entered
                 ELSE [entered EXCEPT !.resolved_paths = Append(@, EmptyPath),
                                      !.is_namespace_package = TRUE,
                                      !.py_typed = FALSE]]

\* A directory for a part that is not the last: on to the next part, with an
\* empty path for a directory without an __init__ file.
EnterDirectory(s, dir, init, entered) ==
    [s EXCEPT !.dir = dir,
              !.result =
                 IF init # <<>> THEN entered
                 ELSE [entered EXCEPT !.resolved_paths = Append(@, EmptyPath),
                                      !.is_namespace_package = TRUE,
                                      !.py_typed = FALSE]]

\* What the directory of a part and its __init__ file, if any, add to the result.
Entered(w, allow, r, dir, init, is_first, is_last) ==
    [r EXCEPT !.package_directory = IF is_first THEN dir ELSE @,
              !.resolved_paths = @ \o init,
              !.is_stub_file = @ \/ (is_last /\ IsStub(init)),
              !.is_init_file_present = (init # <<>>),
              !.py_typed = @ \/ (allow.py_typed /\ get_py_typed_info(w, dir))]

\* The directory of a part: the walk goes on, or ends in a package, or has the
\* last look in the directory it came from.
WalkDirectory(w, allow, s, name, dir, init, entered, is_last) ==
    IF ~is_last THEN EnterDirectory(s, dir, init, entered)
    ELSE [s EXCEPT !.goes_on = FALSE,
                   !.result =
            IF init = <<>> THEN ResolveFile(w, s.dir, name, allow, TRUE, TRUE, entered)
            ELSE [entered EXCEPT !.implicit_imports =
                    find_implicit_imports(w, dir, BothFiles(dir, "__init__"))]]

\* One turn of the loop over the name parts.  The walk s is the directory it
\* has come to, whether it goes on, and the result so far.
WalkPart(w, allow, s, i) ==
    LET parts == w.descriptor.name_parts
        is_last == i = Len(parts)
        name == IF allow.stub_package /\ i = 1 THEN StubsOf[parts[i]] ELSE parts[i]
        dir == Append(s.dir, name)
        init == StubOrSource(w, allow, dir, "__init__")
    IN CASE ~s.goes_on -> s
         [] s.goes_on /\ IsDir(w, dir) ->
                WalkDirectory(w, allow, s, name, dir, init,
                              Entered(w, allow, s.result, dir, init, i = 1, is_last), is_last)
         [] s.goes_on /\ ~IsDir(w, dir) ->
                [s EXCEPT !.goes_on = FALSE,
                          !.result = ResolveFile(w, s.dir, name, allow, FALSE, is_last, @)]

\* The result of a walk: all of its n parts, or some of them.
Counted(r, n) ==
    [r EXCEPT !.is_import_found = (Len(r.resolved_paths) = n),
              !.is_partly_resolved = r.resolved_paths # <<>> /\ Len(r.resolved_paths) < n]

\* The loop over the name parts.
Walk(w, root, allow, start) ==
    LET n == Len(w.descriptor.name_parts)
        walk[i \in 0..n] ==
            IF i = 0 THEN [dir |-> root, goes_on |-> TRUE, result |-> start]
            ELSE WalkPart(w, allow, walk[i - 1], i)
    IN walk[n].result

resolve_module_descriptor(w, root, allow) ==
    LET parts == w.descriptor.name_parts
        start == [not_found EXCEPT !.search_path = root,
                                   !.is_stub_package = allow.stub_package /\ parts # <<>>]
    IN Counted(IF parts = <<>> THEN ResolvePackage(w, root, allow, start)
                               ELSE Walk(w, root, allow, start),
               Len(parts))

\* The stub package first, unless it is a namespace package without the module.
StubsOrElse(stubs, otherwise) ==
    IF /\ stubs.package_directory # NoDir
       /\ ~stubs.is_namespace_package \/ stubs.is_import_found
       THEN stubs ELSE otherwise

resolve_absolute_import(w, root, allow) ==
    StubsOrElse(IF allow.pyi /\ allow.stub_package
                   THEN resolve_module_descriptor(w, root, Allow(FALSE, TRUE, TRUE, TRUE))
                   ELSE not_found,
                resolve_module_descriptor(w, root, [allow EXCEPT !.stub_package = FALSE]))

\* The results in several directories, and the first that is found, if any.
ResolveInEach(w, dirs, allow) ==
    [i \in DOMAIN dirs |-> resolve_absolute_import(w, dirs[i], allow)]

FirstFound(results) == FirstAt(results, {i \in DOMAIN results : results[i].is_import_found})

-----------------------------------------------------------------------------
(* pick_best_import: two results                                           *)

(* Mutant: a namespace package counts as a resolved part. *)
FirstResolved(r) == IF r.resolved_paths = <<>> THEN 0 ELSE 1

\* The first part that is not a namespace package; 0 when all are.
FirstTraditional(r) ==
    LET real == {i \in DOMAIN r.resolved_paths : r.resolved_paths[i] # EmptyPath}
    IN IF real = {} THEN 0 ELSE CHOOSE i \in real : \A j \in real : i <= j

\* The index decides when the two differ: 0 loses, then the smaller one wins.
NewIsMoreTraditional(best, new) ==
    /\ FirstTraditional(new) # 0
    /\ FirstTraditional(best) = 0 \/ FirstTraditional(new) < FirstTraditional(best)

\* Both are namespace packages and best lacks an imported symbol: is new
\* preferred, is best, or does this rule say nothing?
NamespaceRule(best, new, symbols) ==
    IF \/ ~best.is_namespace_package \/ ~new.is_namespace_package \/ symbols = {}
       \/ resolves_namespace_package(best.implicit_imports, symbols)
       THEN "neither"
    ELSE IF resolves_namespace_package(new.implicit_imports, symbols) THEN "new"
    ELSE IF best.is_init_file_present = new.is_init_file_present THEN "neither"
    ELSE IF new.is_init_file_present THEN "new" ELSE "best"

(* Mutant: a tie goes to the new result. *)
LateRulesForNew(best, new) ==
    IF best.py_typed /\ ~new.py_typed THEN best
    ELSE IF best.is_stub_file # new.is_stub_file
       THEN (IF new.is_stub_file THEN new ELSE best)
    ELSE new

\* The rules after the namespace rule.  The second py.typed test of the code
\* compares best with itself and never holds.
LateRules(best, new) ==
    IF best.py_typed /\ ~new.py_typed THEN best
    ELSE IF best.is_stub_file # new.is_stub_file
       THEN (IF new.is_stub_file THEN new ELSE best)
    ELSE IF Len(best.resolved_paths) > Len(new.resolved_paths) THEN new
    ELSE best

pick_best_import(best, new, symbols) ==
    IF ~new.is_import_found /\ ~new.is_partly_resolved THEN best
    ELSE IF FirstTraditional(best) # FirstTraditional(new)
       THEN (IF NewIsMoreTraditional(best, new) THEN new ELSE best)
    ELSE IF ~new.is_import_found THEN best
    ELSE IF ~best.is_import_found THEN new
    ELSE LET rule == NamespaceRule(best, new, symbols)
         IN CASE rule = "new" -> new
              [] rule = "best" -> best
              [] rule = "neither" -> LateRules(best, new)

-----------------------------------------------------------------------------
(* resolve_best_absolute_import: all search paths                          *)

\* A sequence of at most one result, as the ones below.
OfType(results, import_type, typeshed) ==
    [i \in DOMAIN results |->
        [results[i] EXCEPT !.import_type = import_type, !.typeshed = typeshed]]

find_typeshed_path(w, is_std_lib) ==
    LET paths == IF is_std_lib THEN stdlib_typeshed_path(w)
                               ELSE third_party_typeshed_package_paths(w)
    IN OfType(FirstFound(ResolveInEach(w, paths, Allow(FALSE, FALSE, TRUE, FALSE))),
              IF is_std_lib THEN "BuiltIn" ELSE "ThirdParty",
              IF is_std_lib THEN "stdlib" ELSE "third_party")

\* A configured stub path is the only place looked at.
StubPathResult(r, symbols) ==
    IF /\ r.is_import_found
       /\ r.is_namespace_package /\ r.resolved_paths # <<>> /\ Last(r.resolved_paths) = EmptyPath
            => resolves_namespace_package(r.implicit_imports, symbols)
       THEN <<[r EXCEPT !.is_local_typings_file = TRUE]>> ELSE <<>>

ResolveInStubPath(w) ==
    StubPathResult(resolve_absolute_import(w, w.config.stub_path, Allow(FALSE, TRUE, TRUE, FALSE)),
                   w.descriptor.imported_symbols)

\* The results of the root, of the extra paths and of Python's search paths.
SearchPathResults(w, pyi) ==
    ResolveInEach(w, <<w.root>> \o w.extra_paths, Allow(TRUE, TRUE, pyi, FALSE))
    \o OfType(ResolveInEach(w, python_search_paths(w), Allow(TRUE, TRUE, pyi, TRUE)), "ThirdParty", "no")

\* Each result is compared with the best of those before it.
BestOf(w, results) ==
    LET best[i \in 1..Len(results)] ==
            IF i = 1 THEN results[1]
            ELSE pick_best_import(best[i - 1], results[i], w.descriptor.imported_symbols)
    IN best[Len(results)]

\* What typeshed has, or the best result so far: typeshed's standard library
\* wins over everything, its stubs of other packages are one more candidate.
BestWithTypeshed(w, best, stdlib, third_party) ==
    IF stdlib # <<>> THEN stdlib ELSE <<BestOf(w, <<best>> \o third_party)>>

\* Typeshed is asked unless a library is typed, stubs are not wanted, or the
\* import names no module.
AfterSearchPaths(w, best, pyi) ==
    IF \/ /\ best.py_typed /\ ~best.is_partly_resolved
          /\ typeshed_root(w) \notin {<<>>, <<w.root>>}
       \/ ~pyi \/ w.descriptor.name_parts = <<>>
       THEN <<best>>
       ELSE BestWithTypeshed(w, best, find_typeshed_path(w, TRUE), find_typeshed_path(w, FALSE))

resolve_best_absolute_import(w, pyi) ==
    IF pyi /\ w.config.stub_path # NoDir THEN ResolveInStubPath(w)
    ELSE AfterSearchPaths(w, BestOf(w, SearchPathResults(w, pyi)), pyi)

-----------------------------------------------------------------------------
(* resolve_import                                                          *)

\* The file that runs is looked for once more when a stub was found.
WithNonStub(r, non_stub) == IF r.is_stub_file THEN [r EXCEPT !.non_stub = non_stub] ELSE r

\* The importing file's directory is one dot; above the file system's root
\* there is nothing.
resolve_relative_import(w) ==
    LET up == w.descriptor.leading_dots - 1
        dir == <<SubSeq(w.source, 1, Len(w.source) - up)>>
    IN IF up > Len(w.source) THEN not_found
       ELSE [WithNonStub(ResolveInEach(w, dir, Allow(TRUE, FALSE, TRUE, FALSE))[1],
                         ResolveInEach(w, dir, Allow(TRUE, FALSE, FALSE, FALSE)))
             EXCEPT !.is_relative = TRUE]

FoundOr(found, otherwise) == IF found = <<>> THEN otherwise ELSE Head(found)

resolve_import_strict(w) ==
    IF w.descriptor.leading_dots > 0 THEN resolve_relative_import(w)
    ELSE WithNonStub(FoundOr(resolve_best_absolute_import(w, TRUE), not_found),
                     resolve_best_absolute_import(w, FALSE))

\* The importing file's directory and the ones above it, up to the root.
ParentsUpToRoot(w) ==
    LET n == Len(w.source) - Len(w.root) + 1
    IN IF ~IsPrefix(w.root, w.source) THEN <<>>
       ELSE [i \in 1 .. n |-> SubSeq(w.source, 1, Len(w.source) - i + 1)]

ResolveInParents(w) ==
    [FoundOr(FirstFound(ResolveInEach(w, ParentsUpToRoot(w), Allow(FALSE, FALSE, TRUE, FALSE))), not_found)
     EXCEPT !.implicit_imports = filter(@, w.descriptor.imported_symbols)]

OrInParents(w, strict) ==
    IF strict.is_import_found \/ w.descriptor.leading_dots > 0 THEN strict
    ELSE ResolveInParents(w)

resolve_import(w) == OrInParents(w, resolve_import_strict(w))

-----------------------------------------------------------------------------
VARIABLES
    world,     \* the world the import is resolved in
    answer     \* the answer, a sequence of at most one result

vars == <<world, answer>>

Init ==
    /\ world \in Worlds
    /\ answer = <<>>

Resolve ==
    /\ answer = <<>>
    /\ answer' = <<resolve_import(world)>>
    /\ UNCHANGED world

Next == Resolve

Spec == Init /\ [][Next]_vars

-----------------------------------------------------------------------------
(* Properties                                                              *)

\* The directory that spells the first i parts below a result's search path,
\* and the files that do.
SpelledDir(w, r, i) ==
    LET parts == w.descriptor.name_parts
    IN r.search_path
       \o [j \in 1..i |-> IF r.is_stub_package /\ j = 1 THEN StubsOf[parts[j]] ELSE parts[j]]

SpelledFiles(dir) == BothFiles(dir, "__init__") \cup BothFiles(Front(dir), Last(dir))

\* The path of the i-th part spells the module up to that part.
PathSpells(w, r, i) ==
    LET path == r.resolved_paths[i]
        dir == SpelledDir(w, r, i)
        parts == w.descriptor.name_parts
    IN IF path = EmptyPath THEN IsDir(w, dir)
       ELSE /\ IsFile(w, path)
            /\ \/ path \in SpelledFiles(dir)
               \/ /\ r.is_native_lib /\ i = Len(parts)
                  /\ path.dir = Front(dir) /\ is_native_module_file_name(parts[i], path)

EndsInStub(r) ==
    LET ext == Last(r.resolved_paths).ext IN ext # <<>> /\ Last(ext) = "pyi"

\* Every path of a result that is found is a file of the world that spells the
\* module up to its part, an empty one a directory that does; and the result
\* is a stub exactly when its last file is (import_result.rs, resolved_paths
\* and is_stub_file; the loop of resolve_module_descriptor).
PathsSpellModule ==
    \A k \in DOMAIN answer : \A r \in {answer[k]} \cup ToSet(answer[k].non_stub) :
      r.is_import_found =>
        /\ \A i \in DOMAIN world.descriptor.name_parts : PathSpells(world, r, i)
        /\ r.is_stub_file <=> EndsInStub(r)

\* Python looks for a traditional package on all of its path before it makes a
\* namespace package: when the first part of an import is a module or a package
\* with an __init__ file in some directory searched, the search never ends in a
\* namespace package of that name, wherever it stands in the search order
\* (resolver.rs, pick_best_import, "Prefer traditional over namespace
\* packages").  The answer then goes through a namespace package in one way
\* only: the search found no more than the first of several parts, and one of
\* the importing file's parent directories, which resolve_import falls back to,
\* has them all.  A module beside a directory of its name counts only when
\* nothing inside is imported: otherwise the code looks in the directory.  Stub
\* packages and typeshed's standard library go their own way.
Searched(w) == <<w.root>> \o w.extra_paths \o python_search_paths(w)

Traditional(w, dir) ==
    LET parts == w.descriptor.name_parts
        package == Append(dir, parts[1])
    IN /\ ~IsDir(w, Append(dir, StubsOf[parts[1]]))
       /\ \/ \E f \in BothFiles(package, "__init__") : IsFile(w, f)
          \/ /\ \E f \in BothFiles(dir, parts[1]) : IsFile(w, f)
             /\ Len(parts) = 1 \/ ~IsDir(w, package)

ThroughPackage(r) == r.typeshed = "stdlib" \/ r.resolved_paths[1] # EmptyPath

FromParents(w, r) ==
    /\ Len(w.descriptor.name_parts) > 1
    /\ ~resolve_import_strict(w).is_import_found
    /\ r.search_path \in ToSet(ParentsUpToRoot(w))

TraditionalShadowsNamespace ==
    \A k \in DOMAIN answer :
      /\ world.descriptor.leading_dots = 0 /\ world.descriptor.name_parts # <<>>
      /\ world.config.stub_path = NoDir
      /\ \E dir \in ToSet(Searched(world)) : Traditional(world, dir)
      => /\ ThroughPackage(resolve_import_strict(world))
         /\ answer[k].is_import_found =>
               ThroughPackage(answer[k]) \/ FromParents(world, answer[k])

\* The world as it is when the program runs: no stub packages, no typeshed,
\* and no file that is a stub.
WithoutStubs(w) ==
    LET stub_packages == {StubsOf[name] : name \in DOMAIN StubsOf}
        Kept(f) == /\ ToSet(f.dir) \cap stub_packages = {}
                   /\ \A dir \in ToSet(typeshed_root(w)) : ~IsPrefix(dir, f.dir)
        Renamed(f) == IF f.ext # <<>> /\ Last(f.ext) = "pyi"
                         THEN [f EXCEPT !.ext = <<"txt">>] ELSE f
        files == {f \in DOMAIN w.files : Kept(f)}
    IN [w EXCEPT !.files = [g \in {Renamed(f) : f \in files} |->
                              IF g \in files THEN w.files[g] ELSE <<>>],
                 !.config.stub_path = NoDir]

\* The result found without stubs is the one that is found when there are no
\* stubs: the second pass of resolve_import_strict lets none of them in, on
\* whatever search path and in whatever form.
NonStubIsRuntime ==
    LET SameFiles(r, s) ==
            /\ r.is_import_found = s.is_import_found
            /\ r.resolved_paths = s.resolved_paths
            /\ r.import_type = s.import_type
    IN \A k \in DOMAIN answer :
         answer[k].non_stub # <<>> /\ ~answer[k].is_relative =>
            SameFiles(answer[k].non_stub[1],
                      resolve_best_absolute_import(WithoutStubs(world), TRUE)[1])

\* A result's standing by what is compared first: the first traditional part,
\* then whether the import is found.
Better(r, s) ==
    \/ FirstTraditional(r) # FirstTraditional(s) /\ NewIsMoreTraditional(s, r)
    \/ /\ FirstTraditional(r) = FirstTraditional(s)
       /\ r.is_import_found /\ ~s.is_import_found

\* The chain of comparisons leaves the right result standing: none of the
\* others is better, among the equally good a stub is chosen unless a typed
\* package came first, and otherwise the first in the search order is, local
\* before third-party ("prefers local imports over third-party imports, and
\* stubs over non-stubs", resolve_best_absolute_import).
NoneBetter(chosen, results) == \A i \in DOMAIN results : ~Better(results[i], chosen)

FirstOfEquals(chosen, results) ==
    /\ \E k \in DOMAIN results :
          chosen = results[k] /\ \A j \in 1..k - 1 : Better(chosen, results[j])
    /\ \A i \in DOMAIN results :
          results[i].is_stub_file /\ ~Better(chosen, results[i]) => chosen.py_typed

IsBestOf(chosen, results) ==
    /\ NoneBetter(chosen, results)
    /\ chosen.is_import_found /\ ~chosen.is_stub_file => FirstOfEquals(chosen, results)

ChosenIsBest ==
    /\ answer # <<>>
    /\ world.descriptor.leading_dots = 0 /\ world.descriptor.name_parts # <<>>
    /\ world.descriptor.imported_symbols = {}
    => IsBestOf(BestOf(world, SearchPathResults(world, TRUE)), SearchPathResults(world, TRUE))

=============================================================================
