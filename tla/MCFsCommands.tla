---------------------------- MODULE MCFsCommands ----------------------------
(***************************************************************************)
(* Small instances of FsCommands: the paths and archives that the runs use. *)
(***************************************************************************)
EXTENDS FsCommands

CONSTANTS m1, m2, c1, c2, t1

Entry(p, k, c) == Item(p, k, m1, 0, 0, c)

\* Archives as "find | cpio" writes them: parents first, no name twice.
CleanArchives ==
  { <<Entry(Dot, "dir", NoData), Entry(<<"a">>, "dir", NoData),
      Entry(<<"a", "b">>, "file", c1)>>,
    <<Entry(<<"a">>, "link", t1), Entry(<<"b">>, "dev", NoData)>>,
    <<Entry(Dot, "dir", NoData)>> }

\* Archives another tool may have left: a name twice, a child before its
\* parent or below a file, an entry of a type the reader does not know.
OddArchives ==
  { <<Entry(<<"a">>, "dir", NoData), Entry(<<"a">>, "dir", NoData),
      Entry(<<"a", "b">>, "file", c1)>>,
    <<Entry(<<"a">>, "file", c1), Entry(<<"a">>, "dir", NoData)>>,
    <<Entry(<<"a", "b">>, "file", c1), Entry(<<"a">>, "dir", NoData)>>,
    <<Entry(<<"b">>, "file", c1), Entry(<<"b", "a">>, "file", c1)>>,
    <<Entry(<<"a">>, "dir", NoData), Entry(<<"b">>, "sock", NoData)>>,
    <<Entry(<<".", "a">>, "file", c1), Entry(Empty, "file", c1)>> }

AllArchives == CleanArchives \cup OddArchives

RelativePaths == {<<"a">>, <<"b">>, <<"a", "b">>, <<"a", "b", "a">>}
AbsolutePaths == {<<"">> \o p : p \in RelativePaths}
EdgePaths == {Dot, <<".", "a">>, <<"a", "">>, <<"", "">>}

\* Components with one backslash in front or two, and paths that begin with them.
MC_Bare == [s \in {"\\a", "\\\\a"} |-> IF s = "\\a" THEN "a" ELSE "\\a"]
MC_Components == {"a", "b", Blank, DotName} \cup DOMAIN MC_Bare
SlashedPaths == {<<"", "\\a">>, <<"", "\\a", "b">>}

AllPaths == RelativePaths \cup AbsolutePaths \cup EdgePaths \cup SlashedPaths
EditPaths == {<<"a">>, <<"a", "b">>, <<"", "a", "b">>}
BackslashPaths == {<<"a">>, <<"\\a">>, <<"\\\\a">>, <<"\\a", "b">>}

\* What the theorems ask of paths holds of the runs that check their properties.
ASSUME RunAssumption == /\ \A p \in AllPaths \cup EditPaths : Plain(p)
                        /\ \A a \in AllArchives : \A k \in DOMAIN a : Plain(a[k].name)

=============================================================================
