--------------------------- MODULE ScriptCommands ---------------------------
(***************************************************************************)
(* The lines of a script and the commands NyaImageTool knows                *)
(* (ScriptParser.ExtractArgs, ScriptStepGenerator, the generators under     *)
(* Commands/). A line is the sequence of its words, as Split(' ') makes     *)
(* them; a parameter of a command is the set of words it accepts.           *)
(***************************************************************************)
EXTENDS Naturals, SequencesExt

CONSTANTS
  Words,     \* the words of scripts
  Comments,  \* those that begin with #
  Opening,   \* those that begin with a quotation mark
  Closing,   \* those that end in one
  Octal,     \* modes of three digits
  Letters,   \* modes such as rwxr-xr-x
  Numbers,   \* what UInt32.TryParse takes
  Joined,    \* stands for any text that was put together from quoted words
  NoArgs     \* null

Blank == ""

\* A quoted word is no mode and no number.
ASSUME WordsAssumption ==
  /\ Blank \in Words
  /\ UNION {Comments, Opening, Closing, Octal, Letters, Numbers} \subseteq Words
  /\ (Opening \cup Closing \cup {Blank}) \cap UNION {Octal, Letters, Numbers} = {}
  /\ Joined \notin Words
  /\ NoArgs \notin Seq(Words \cup {Joined})

Lines == Seq(Words) \ {<<>>}

----------------------------------------------------------------------------

\* One round of the loop of ExtractArgs. Its Temp is not null while scan.open;
\* the end of a quotation does not make it null again.
Take(scan, w) ==
  CASE w = Blank                      -> scan
    [] w # Blank /\ ~scan.open /\ w \in Opening    -> [scan EXCEPT !.open = TRUE]
    [] w # Blank /\ ~scan.open /\ w \notin Opening -> [scan EXCEPT !.args = Append(@, w)]
    [] w # Blank /\ scan.open /\ w \in Closing     -> [scan EXCEPT !.args = Append(@, Joined)]
    [] w # Blank /\ scan.open /\ w \notin Closing  -> scan

\* The words behind the first, one after the other.
ExtractArgs(line) ==
  LET scan[k \in 1 .. Len(line)] ==
        IF k = 1 THEN [args |-> <<>>, open |-> FALSE] ELSE Take(scan[k - 1], line[k])
      end == scan[Len(line)]
  IN  IF end.open THEN NoArgs ELSE end.args

----------------------------------------------------------------------------

AnyWord == Words \cup {Joined}    \* FsPath, LocalPath and String parameters
Mode    == Octal \cup Letters     \* Utils.CheckMode

Config(id, params) == [id |-> id, params |-> params]

\* What the constructors of the generators declare, in their order.
Generators ==
  [load  |-> << Config(0, <<AnyWord, {"kernel"}, {"gz", "fit"}>>),
                Config(1, <<AnyWord, {"ramfs"}, {"cpio", "gz", "legacy", "fit"}>>),
                Config(2, <<AnyWord, {"devtree"}, {"dtb", "fit"}>>),
                Config(3, <<AnyWord>>) >>,
   store |-> << Config(1, <<AnyWord, {"ramfs"}, {"cpio", "gz", "legacy"}>>),
                Config(2, <<AnyWord, {"devtree"}, {"dtb"}>>),
                Config(3, <<AnyWord>>) >>,
   set   |-> << Config(0, <<{"kernel", "devtree", "ramfs", "all"},
                            {"os", "arch", "type", "name"}, AnyWord>>) >>,
   dir   |-> << Config(1, <<AnyWord, Mode, Numbers, Numbers>>) >>,
   file  |-> << Config(0, <<AnyWord, AnyWord>>), Config(1, <<AnyWord, AnyWord, Mode, Numbers, Numbers>>) >>,
   slink |-> << Config(0, <<AnyWord, AnyWord, Mode, Numbers, Numbers>>), Config(1, <<AnyWord, AnyWord>>) >>,
   rm    |-> << Config(0, <<AnyWord>>) >>,
   chmod |-> << Config(0, <<AnyWord, Mode>>) >>,
   chown |-> << Config(0, <<AnyWord, Numbers>>), Config(1, <<AnyWord, Numbers, Numbers>>) >>]

Accepts(config, args) == /\ Len(config.params) = Len(args)
                         /\ \A i \in 1 .. Len(args) : args[i] \in config.params[i]

Known(cmd) == cmd \in DOMAIN Generators

Fitting(cmd, args) == {k \in DOMAIN Generators[cmd] : Accepts(Generators[cmd][k], args)}

\* GetArgs: the first configuration that accepts the arguments.
GetArgs(cmd, args) ==
  LET first == CHOOSE k \in Fitting(cmd, args) : \A j \in Fitting(cmd, args) : k <= j
  IN  Generators[cmd][first]

\* Get looks at nine letters of a mode, and slink at five arguments, whatever
\* the configuration: what is shorter throws.
Throws(cmd, config, args) ==
  \/ cmd = "slink" /\ config.id = 1
  \/ \E i \in 1 .. Len(args) : config.params[i] = Mode /\ args[i] \in Octal

=============================================================================
