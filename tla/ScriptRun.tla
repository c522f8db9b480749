----------------------------- MODULE ScriptRun -----------------------------
(***************************************************************************)
(* A run of NyaImageTool (Program.cs): ScriptParser reads the script and    *)
(* what it includes, file by file and line by line, collecting steps and    *)
(* reporting errors; if there was none, ImageProcessor executes the steps.  *)
(* The files do not change during the run. A path is the sequence of names  *)
(* its slashes separate, relative to the directory the tool runs in.        *)
(***************************************************************************)
EXTENDS ScriptCommands, FiniteSets

CONSTANTS
  Disks,     \* what script files there may be: functions from paths to lines
  Main,      \* the path the tool is started with
  PathOf(_), \* the path that an argument of include spells
  MaxDepth   \* Bound: the nested includes the stack of the process has room for

Missing == <<>>

ASSUME DisksAssumption ==
  /\ MaxDepth \in Nat \ {0}
  /\ Main # Missing
  /\ \A d \in Disks : \A f \in DOMAIN d : f # Missing /\ d[f] \in Seq(Lines)

VARIABLES
  disk,      \* the script files
  phase,     \* "parsing", "running", "done", "dead" (an exception), "overflow"
  stack,     \* the calls of Parse: the file of each and its next line
  steps,     \* Script.Steps
  hasErrors, \* Script.HasErrors
  errors,    \* the places that Log.Error named
  ran        \* how many steps Process has executed

vars == <<disk, phase, stack, steps, hasErrors, errors, ran>>

Call(f) == [file |-> f, at |-> 1]

\* ReadAllLines throws when there is no such file.
Init == /\ disk \in Disks
        /\ phase = IF Main \in DOMAIN disk THEN "parsing" ELSE "dead"
        /\ stack = IF Main \in DOMAIN disk THEN <<Call(Main)>> ELSE <<>>
        /\ steps = <<>> /\ hasErrors = FALSE /\ errors = <<>> /\ ran = 0

----------------------------------------------------------------------------
(* Parsing *)

\* DetectPath: as it is written, else beside the file that includes it.
DetectPath(caller, arg) ==
  IF PathOf(arg) \in DOMAIN disk THEN PathOf(arg)
  ELSE IF Front(caller) \o PathOf(arg) \in DOMAIN disk THEN Front(caller) \o PathOf(arg)
  ELSE Missing

Skipped(line) == Head(line) \in Comments \/ line = <<Blank>>

\* The line the innermost Parse is at.
Here == Last(stack)
Reading == phase = "parsing" /\ stack # <<>> /\ Here.at <= Len(disk[Here.file])
Line == disk[Here.file][Here.at]
Args == ExtractArgs(Line)
Calls == Front(stack) \o <<[Here EXCEPT !.at = @ + 1]>>   \* past this line

Skip == /\ Reading /\ Skipped(Line)
        /\ stack' = Calls
        /\ UNCHANGED <<disk, phase, steps, hasErrors, errors, ran>>

\* Parsing goes on behind an error.
Complain == /\ hasErrors' = TRUE
            /\ errors' = Append(errors, <<Here.file, Here.at>>)
            /\ stack' = Calls
            /\ UNCHANGED <<disk, phase, steps, ran>>

BadQuotes == Reading /\ ~Skipped(Line) /\ Args = NoArgs /\ Complain

Includes == Reading /\ ~Skipped(Line) /\ Args # NoArgs /\ Head(Line) = "include"

BadInclude == Includes /\ Len(Args) # 1 /\ Complain

\* Mistake: a file that is not there is reported, and the script runs without it.
MissingIncludeIsFine ==
  /\ Includes /\ Len(Args) = 1 /\ DetectPath(Here.file, Args[1]) = Missing
  /\ errors' = Append(errors, <<Here.file, Here.at>>)
  /\ stack' = Calls
  /\ UNCHANGED <<disk, phase, steps, hasErrors, ran>>

MissingInclude == /\ Includes /\ Len(Args) = 1
                  /\ DetectPath(Here.file, Args[1]) = Missing
                  /\ Complain

\* The call of Parse for the file. Nothing asks whether it is being read already.
Include ==
  /\ Includes /\ Len(Args) = 1
  /\ LET f == DetectPath(Here.file, Args[1])
     IN  /\ f # Missing
         /\ IF Len(stack) < MaxDepth
            THEN stack' = Calls \o <<Call(f)>> /\ UNCHANGED phase
            ELSE phase' = "overflow" /\ UNCHANGED stack
  /\ UNCHANGED <<disk, steps, hasErrors, errors, ran>>

Commands == Reading /\ ~Skipped(Line) /\ Args # NoArgs /\ Head(Line) # "include"

UnknownCommand == Commands /\ ~Known(Head(Line)) /\ Complain

BadArguments == /\ Commands /\ Known(Head(Line))
                /\ Fitting(Head(Line), Args) = {}
                /\ Complain

\* Mistake: every step stands in the script the tool was started with.
StepOfMain(call, line) == [cmd |-> Head(line), id |-> GetArgs(Head(line), ExtractArgs(line)).id,
                           file |-> Main, line |-> call.at]

\* A step knows where it stands: its local files are looked for beside its script.
StepAt(call, line) == [cmd |-> Head(line), id |-> GetArgs(Head(line), ExtractArgs(line)).id,
                       file |-> call.file, line |-> call.at]

Get == /\ Commands /\ Known(Head(Line)) /\ Fitting(Head(Line), Args) # {}
       /\ IF Throws(Head(Line), GetArgs(Head(Line), Args), Args)
          THEN phase' = "dead" /\ UNCHANGED <<stack, steps>>
          ELSE /\ steps' = Append(steps, StepAt(Here, Line))
               /\ stack' = Calls
               /\ UNCHANGED phase
       /\ UNCHANGED <<disk, hasErrors, errors, ran>>

\* The end of a file returns to the line behind its include; that of the script
\* leaves the decision to Program.LoadScript.
Return == /\ phase = "parsing" /\ stack # <<>> /\ Here.at > Len(disk[Here.file])
          /\ stack' = Front(stack)
          /\ phase' = IF Len(stack) > 1 THEN "parsing"
                      ELSE IF hasErrors THEN "done" ELSE "running"
          /\ UNCHANGED <<disk, steps, hasErrors, errors, ran>>

----------------------------------------------------------------------------
(* Execution: ImageProcessor.Process *)

\* Mistake: an error starts the script over.
RunAgain == /\ phase = "running" /\ ran < Len(steps)
            /\ ran' \in {0, ran + 1}
            /\ UNCHANGED <<disk, phase, stack, steps, hasErrors, errors>>

\* Whatever a step answers, the next one follows.
Run == /\ phase = "running" /\ ran < Len(steps)
       /\ ran' = ran + 1
       /\ UNCHANGED <<disk, phase, stack, steps, hasErrors, errors>>

\* A step may throw.
Crash == /\ phase = "running" /\ ran < Len(steps)
         /\ phase' = "dead"
         /\ UNCHANGED <<disk, stack, steps, hasErrors, errors, ran>>

Finish == /\ phase = "running" /\ ran = Len(steps)
          /\ phase' = "done"
          /\ UNCHANGED <<disk, stack, steps, hasErrors, errors, ran>>

Parse == \/ Skip \/ BadQuotes \/ BadInclude \/ MissingInclude \/ Include
         \/ UnknownCommand \/ BadArguments \/ Get \/ Return

Next == Parse \/ Run \/ Crash \/ Finish

\* The tool is one thread and waits for nothing.
Spec == Init /\ [][Next]_vars /\ WF_vars(Next)

----------------------------------------------------------------------------
(* Properties *)

TypeOK ==
  /\ disk \in Disks
  /\ phase \in {"parsing", "running", "done", "dead", "overflow"}
  /\ stack \in Seq([file : DOMAIN disk, at : Nat \ {0}])
  /\ Len(stack) <= MaxDepth
  /\ \A k \in DOMAIN stack : stack[k].at <= Len(disk[stack[k].file]) + 1
  /\ steps \in Seq([cmd : DOMAIN Generators, id : 0 .. 3, file : DOMAIN disk, line : Nat \ {0}])
  /\ errors \in Seq((DOMAIN disk) \X (Nat \ {0}))
  /\ hasErrors \in BOOLEAN
  /\ ran \in 0 .. Len(steps)

\* The words behind the first but the blank ones.
Plain(line) ==
  LET upTo[k \in 1 .. Len(line)] ==
        IF k = 1 THEN <<>>
        ELSE IF line[k] = Blank THEN upTo[k - 1] ELSE Append(upTo[k - 1], line[k])
  IN  upTo[Len(line)]

\* The file the line l of f brings in, if any.
Included(f, l) ==
  LET line == disk[f][l]
      args == Plain(line)
  IN  IF Skipped(line) \/ Head(line) # "include" \/ Len(args) # 1 \/ args[1] \in Opening THEN {}
      ELSE {DetectPath(f, args[1])} \ {Missing}

\* The files reached from f by one include or more: those that are in every
\* closed set with what f includes.
Closed(S) == \A f \in S : \A l \in DOMAIN disk[f] : Included(f, l) \subseteq S

Below(f) == {g \in DOMAIN disk :
               \A S \in SUBSET DOMAIN disk :
                 Closed(S) /\ (\A l \in DOMAIN disk[f] : Included(f, l) \subseteq S) => g \in S}

\* A line that is neither empty, nor an include of a file, nor a known command
\* with arguments of one of its forms.
Wrong(f, l) ==
  LET line == disk[f][l]
      args == Plain(line)
  IN  /\ ~Skipped(line)
      /\ \/ \E k \in 1 .. Len(args) : args[k] \in Opening
         \/ Head(line) = "include" /\ (Len(args) # 1 \/ DetectPath(f, args[1]) = Missing)
         \/ Head(line) # "include" /\ ~Known(Head(line))
         \/ Known(Head(line)) /\ \A c \in ToSet(Generators[Head(line)]) : ~Accepts(c, args)

\* A step is executed only when no line of the script and of all it includes is
\* wrong, and no file includes itself: an error at the end of the last include
\* keeps the first load from running.
RunsOnlyWhatIsRight ==
  phase = "running" =>
    \A f \in {Main} \cup Below(Main) :
      /\ f \notin Below(f)
      /\ \A l \in DOMAIN disk[f] : ~Wrong(f, l)

\* What line l of g adds to a text in which the places S count: its own place,
\* and the text of the file it brings in.
Adds(S, texts, g, l) ==
  (IF <<g, l>> \in S THEN <<<<g, l>>>> ELSE <<>>)
    \o (IF Included(g, l) = {} THEN <<>> ELSE texts[CHOOSE h \in Included(g, l) : TRUE])

\* The text of the first l lines of g, for each l.
Listing(S, texts, g) ==
  LET upTo[l \in 0 .. Len(disk[g])] ==
        IF l = 0 THEN <<>> ELSE upTo[l - 1] \o Adds(S, texts, g, l)
  IN  upTo

\* The texts of all files, with what they include down to each depth.
Texts(S) ==
  LET texts[d \in 0 .. MaxDepth] ==
        [g \in DOMAIN disk |-> IF d = 0 THEN <<>>
                               ELSE Listing(S, texts[d - 1], g)[Len(disk[g])]]
  IN  texts

Listed(S) == Texts(S)[MaxDepth][Main]

Spots  == {p \in (DOMAIN disk) \X (Nat \ {0}) : p[2] <= Len(disk[p[1]])}
Faults == {p \in Spots : Wrong(p[1], p[2])}
Orders == {p \in Spots : /\ ~Skipped(disk[p[1]][p[2]])
                         /\ Included(p[1], p[2]) = {}
                         /\ ~Wrong(p[1], p[2])}

\* After the parsing, each line of the script has become a step, in its place, or
\* was reported, in its place: an error hides no other. The text of an include
\* stands where its line stands.
EveryLineCounts ==
  phase \in {"running", "done"} =>
    /\ errors = Listed(Faults)
    /\ [k \in DOMAIN steps |-> <<steps[k].file, steps[k].line>>] = Listed(Orders)

\* Every run ends, by an exception or at the end of the script; out of stack it
\* only runs when a file includes itself.
Stops == <>(\/ phase \in {"done", "dead"}
            \/ phase = "overflow" /\ \E f \in DOMAIN disk : f \in Below(f))

\* Utils.cs checks for a numeric mode and SLink.cs declares a form of two
\* arguments: what CheckConfig accepts, Get takes. False: the letters of a mode
\* and the arguments of slink are read whatever was accepted, and Get throws.
CheckedArgumentsAreTaken == phase = "dead" => stack = <<>>

\* ScriptParser.cs reports invalid quotes. A path in quotes that open and close
\* is one argument, and load, store and rm take one.
QuotesWork ==
  \A k \in DOMAIN errors :
    LET line == disk[errors[k][1]][errors[k][2]]
    IN  ~(/\ Head(line) \in {"load", "store", "rm"}
          /\ Len(line) >= 3
          /\ line[2] \in Opening \ Closing /\ Last(line) \in Closing \ Opening
          /\ \A n \in 3 .. Len(line) - 1 : line[n] \notin Opening \cup Closing)

=============================================================================
