----------------------------- MODULE ResolverMC -----------------------------
(***************************************************************************)
(* Worlds for Resolver: what the modules a, a.b and b look like in each    *)
(* directory that is searched.                                             *)
(***************************************************************************)
EXTENDS Resolver

SortedNames == <<"Lib", "a", "a-stubs", "b", "b-stubs", "app", "extra", "lib", "lib64", "linked",
                 "project", "pkg", "python3.11", "python3.12", "s", "site-packages", "stdlib",
                 "stubs", "typeshed", "typings", "venv">>
Pythons == {"python3.11", "python3.12"}
StubPackages == [a |-> "a-stubs", b |-> "b-stubs"]

root == <<"project">>
extra == <<"extra">>
library == <<"lib", "site-packages">>
typings == <<"typings">>
typeshed == <<"typeshed">>

\* A layout is a set of files below a directory that is searched.
Top(name, ext) == File(<<>>, name, <<ext>>)
InA(name, ext) == File(<<"a">>, name, <<ext>>)
InB(name, ext) == File(<<"a", "b">>, name, <<ext>>)
InStubs(name, ext) == File(<<"a-stubs">>, name, <<ext>>)
init == InA("__init__", "py")
typed == InA("py", "typed")

Layouts ==
    {{}, {Top("a", "py")}, {Top("a", "pyi")}, {File(<<>>, "a", <<"abi3", "so">>)},
     {init}, {init, InA("__init__", "pyi")},
     {InA("b", "py")}, {InA("b", "pyi")},
     {init, InA("b", "py")}, {init, InA("b", "pyi"), InA("b", "py")}, {init, Top("b", "py")},
     {init, InA("b", "so"), File(<<"a">>, "b", <<"abi3", "so">>)},
     {init, InB("s", "py")}, {InB("s", "py")}, {InB("__init__", "py"), InB("s", "py")},
     {typed, init, InA("b", "py")}, {typed, InA("b", "py")},
     {InStubs("__init__", "pyi"), init, InA("b", "py")},
     {InStubs("b", "pyi"), InStubs("py", "typed"), init, InA("b", "py")},
     {Top("a", "py"), InA("b", "py")}}

FewLayouts ==
    {{}, {init}, {InA("b", "py")}, {init, InA("b", "pyi")}, {typed, init, InA("b", "py")},
     {InStubs("b", "pyi"), InStubs("py", "typed"), init, InA("b", "py")}}

Typesheds ==
    {{File(<<"stdlib">>, "a", <<"pyi">>)},
     {File(<<"stdlib">>, "c", <<"pyi">>), File(<<"stubs", "pkg">>, "a", <<"pyi">>)},
     {File(<<"stubs", "pkg", "a">>, "b", <<"pyi">>),
      File(<<"stubs", "pkg", "a">>, "__init__", <<"pyi">>)}}

Under(dir, layout) == {[f EXCEPT !.dir = dir \o @] : f \in layout}

\* All files are empty but for the ones lines says.
World(files, lines, reversed, source, config, search_paths, extra_paths, descriptor) ==
    [files |-> [f \in files |-> IF f \in DOMAIN lines THEN lines[f] ELSE <<>>],
     reversed |-> reversed, root |-> root, extra_paths |-> extra_paths,
     config |-> config, host |-> [platform |-> "Linux", search_paths |-> search_paths],
     source |-> source, descriptor |-> descriptor]

NoLines == [f \in {} |-> <<>>]
NoConfig == [typeshed_path |-> NoDir, stub_path |-> NoDir, venv |-> NoDir]
Import(dots, parts, symbols) ==
    [leading_dots |-> dots, name_parts |-> parts, imported_symbols |-> symbols]
Absolute == {Import(0, parts, symbols) : parts \in {<<"a">>, <<"a", "b">>},
                                         symbols \in {{}, {<<"s">>}}}

SearchedWorlds ==
    {World(Under(root, l) \cup Under(extra, e) \cup Under(library, t), NoLines, FALSE,
           root, NoConfig, <<library>>, <<extra>>, d) :
        l \in Layouts, e \in FewLayouts, t \in Layouts, d \in Absolute}

TypeshedWorlds ==
    {World(Under(root, l) \cup Under(library, t) \cup Under(typeshed, s), NoLines, TRUE,
           root, [NoConfig EXCEPT !.typeshed_path = typeshed], <<library>>, <<>>, d) :
        l \in FewLayouts, t \in Layouts, s \in Typesheds, d \in Absolute}

StubPathWorlds ==
    {World(Under(root, l) \cup Under(typings, t), NoLines, FALSE,
           root, [NoConfig EXCEPT !.stub_path = typings], <<library>>, <<>>, d) :
        l \in FewLayouts, t \in Layouts, d \in Absolute}

\* The importing file is project/app/main.py; one level up is the project.
RelativeWorlds ==
    {World(Under(root, l) \cup Under(root \o <<"app">>, m), NoLines, FALSE,
           root \o <<"app">>, NoConfig, <<library>>, <<>>, Import(dots, parts, {<<"s">>})) :
        l \in FewLayouts, m \in Layouts, dots \in 0 .. 4, parts \in {<<"a">>, <<"a", "b">>}}

\* `from . import foo` in a package.
PackageWorlds ==
    {World(Under(root, l), NoLines, FALSE, root \o <<"a">>, NoConfig, <<>>, <<>>,
           Import(dots, <<>>, symbols)) :
        l \in Layouts, dots \in 1 .. 2, symbols \in {{}, {<<"s">>}}}

\* A virtual environment with two Pythons and a .pth file that names linked.
venv == <<"venv">>
VenvWorlds ==
    LET site(python) == venv \o <<"lib", python, "site-packages">>
        pth == File(site("python3.11"), "links", <<"pth">>)
        linked == site("python3.11") \o <<"linked">>
        other == File(site("python3.12"), "README", <<"txt">>)
        typeshed_there == Under(site("python3.12") \o <<"typeshed">>,
                                {File(<<"stubs", "pkg">>, "a", <<"pyi">>)})
    IN {World({pth, other} \cup Under(linked, l) \cup Under(site("python3.12"), t) \cup typeshed_there
                \cup Under(venv \o <<"lib64", "site-packages">>, s),
              pth :> lines, reversed, root, [NoConfig EXCEPT !.venv = venv],
              <<library>>, <<>>, d) :
          l \in FewLayouts, t \in FewLayouts, s \in {{}, {Top("a", "py")}},
          lines \in {<<<<"#">>, <<"linked">>>>, <<<<"#">>, <<"b">>, <<"linked">>>>},
          reversed \in BOOLEAN, d \in Absolute}

AllWorlds == SearchedWorlds \cup TypeshedWorlds \cup StubPathWorlds \cup RelativeWorlds
             \cup VenvWorlds \cup PackageWorlds

=============================================================================
