--------------------------- MODULE MCCpioUpdater ---------------------------
(***************************************************************************)
(* Small instances of CpioUpdater.                                          *)
(***************************************************************************)
EXTENDS CpioUpdater, TLC

CONSTANTS m1, m2, m3, c1, c2

Entry(p, kind, c, i) == [path |-> p, kind |-> kind, perm |-> m1, user |-> 0, group |-> 0,
                         data |-> c, ino |-> i]

\* Entries that share an inode.
Linked == << Entry(<<"a">>, "link", c1, 2), Entry(<<"ab">>, "file", c1, 2),
             Entry(<<"ab", "b">>, "nod", NoContent, 2) >>

\* What is in a directory that has no entry, with an inode that is given out.
Below == << Entry(<<"a", "b">>, "file", c1, 2), Entry(<<"a", "a">>, "link", c1, 2) >>

\* Paths as find writes them, which the local directory has under plainer names.
Dotted == << [Entry(<<".">>, "dir", NoContent, 2) EXCEPT !.perm = m3],
             Entry(<<".", "a">>, "file", c1, 2) >>

NewPerms == [k \in {"dir", "file", "link", "nod"} |-> IF k = "dir" THEN m3 ELSE m1]

\* A directory in a directory and a file whose path is an entry of some archives,
\* small enough for commands to follow.
Nested == [slash |-> TRUE, dirs |-> {<<"ab">>, <<"ab", "b">>},
           files |-> <<"a">> :> c2 @@ <<"ab", "b", "a">> :> c2]
MC_Locals == {Nested}

\* There is an inode left for all that a merge adds to the last of these.
MC_Archives == {Below, Dotted, SubSeq(Linked, 1, 1), Linked}

\* A path that ends in a slash names what is below it, in an add as in any command.
AddPaths   == {<<"a">>, <<"", "a", "">>, <<"">>}
OtherPaths == {<<"a">>, <<"", "a", "">>, <<"">>}

=============================================================================
