---------------------------- MODULE MCScriptRun ----------------------------
(***************************************************************************)
(* Small instances of ScriptRun: all scripts of a few lines that include    *)
(* files beside them, files that are not there, and themselves.             *)
(***************************************************************************)
EXTENDS ScriptRun

AllWords == {"", "#", "load", "x", "rm", "a", "include", "s/b", "c", "m", "chmod", "755",
             "rwxr-xr-x", "file", "slink", "dir", "0", "\"x", "y\"", "mount"}

MCOpening == {"\"x"}
MCClosing == {"y\""}

\* The paths of include; "c" is beside s/b and not beside m.
MCPathOf(w) == IF w = "s/b" THEN <<"s", "b">> ELSE <<w>>

M == <<"m">>
B == <<"s", "b">>
C == <<"s", "c">>

GoodLines == {<<"">>, <<"#", "a">>, <<"load", "x">>, <<"file", "a", "x">>,
              <<"dir", "a", "rwxr-xr-x", "0", "0">>, <<"rm", "", "a">>}

BadLines == {<<"mount", "a">>, <<"dir", "a">>, <<"load", "\"x", "y\"">>, <<"include", "a", "x">>}

Throwing == {<<"chmod", "a", "755">>, <<"slink", "a", "x">>}

Includes3 == {<<"include", "s/b">>, <<"include", "c">>, <<"include", "m">>}

Of(lines, n) == UNION {[1 .. k -> lines] : k \in 1 .. n}

Disk(m, b, c) == [f \in {M, B, C} |-> IF f = M THEN m ELSE IF f = B THEN b ELSE c]

\* Lines of every kind, and includes in a chain.
ChainDisks ==
  {Disk(m, b, <<l>>) :
     m \in {<<i, l1>> : i \in Includes3, l1 \in GoodLines \cup BadLines}
           \cup {<<l1, i>> : i \in Includes3, l1 \in Throwing \cup {<<"load", "x">>}},
     b \in {<<i, l1>> : i \in Includes3, l1 \in BadLines \cup {<<"rm", "", "a">>}},
     l \in {<<"load", "x">>, <<"mount", "a">>, <<"include", "c">>, <<"chmod", "a", "rwxr-xr-x">>}}

\* A script that includes the same file twice, and one that is not there.
OtherDisks == {Disk(<<<<"include", "s/b">>, <<"load", "x">>, <<"include", "s/b">>>>,
                    <<<<"rm", "a">>, <<"include", "c">>>>, <<<<"dir", "a", "rwxr-xr-x", "0", "0">>>>),
               [f \in {B} |-> <<<<"rm", "a">>>>]}

AllDisks == ChainDisks \cup OtherDisks

\* One line each.
LineDisks == {[f \in {M} |-> <<l>>] : l \in GoodLines \cup BadLines \cup Throwing}

=============================================================================
