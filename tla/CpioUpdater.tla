---------------------------- MODULE CpioUpdater ----------------------------
(***************************************************************************)
(* One run of InitramfsTool over a cpio archive (CpioLib: CpioArchive.cs,   *)
(* CpioUpdater.cs): the archive is loaded, a local directory is merged into *)
(* it, the commands of a file are applied, and the result is written.       *)
(*                                                                          *)
(* The archive is a list of entries. An entry is found by its path alone;   *)
(* nothing knows of directories but the commands on a path that ends in a   *)
(* slash, which are for all entries whose path starts with it. A path is    *)
(* the sequence of what its slashes separate: <<"", "a">> is "/a",          *)
(* <<"a", "">> is "a/" and <<"">> is the empty string.                      *)
(***************************************************************************)
EXTENDS Naturals, Sequences, FiniteSets, Lists

CONSTANTS
  Components,  \* what a slash of a path may stand between
  Archives,    \* the archives there are: sequences of entries
  Locals,      \* local directories: records [slash, dirs, files]
  NoRoot,      \* no directory is to be merged
  Perms, NewPerm,        \* permissions; those of a new entry of each kind
  Owners,      \* user and group identities
  Contents, NoContent,   \* what files and links hold; what the others hold
  Adds, Others,     \* the paths scripts add at, the paths of other commands
  MaxTop       \* Bound: the largest inode number given out

Blank == ""

Dot == <<".">>

Kinds == {"dir", "file", "link", "nod"}   \* nod: devices, fifos and sockets

Paths == Seq(Components) \ {<<>>}

\* The special bits (setuid and the like) are out of reach of every command:
\* HexMode only ever sets them from bits that the commands mask away.
Entries == [path : Paths, kind : Kinds, perm : Perms, user : Owners, group : Owners,
            data : Contents \cup {NoContent}, ino : Nat]

\* Names that stand for the directory they are in.
Here == {Blank, "."}
Plain(p) == \A i \in DOMAIN p : p[i] \notin Here

Namesakes(a) == \E i, j \in DOMAIN a : i # j /\ a[i].path = a[j].path

\* Bound: archives name an entry once, without a leading slash and without "..". A
\* local directory lists plain paths.
ASSUME UpdaterAssumption ==
  /\ Blank \in Components /\ ".." \notin Components /\ 0 \in Owners
  /\ \A a \in Archives : /\ a \in Seq(Entries) /\ ~Namesakes(a)
                         /\ \A k \in DOMAIN a : Head(a[k].path) # Blank
  /\ NewPerm \in [Kinds -> Perms]
  /\ NoRoot \notin Locals
  /\ \A l \in Locals : /\ l.slash \in BOOLEAN
                       /\ l.dirs \subseteq Paths /\ DOMAIN l.files \subseteq Paths
                       /\ \A n \in DOMAIN l.files : l.files[n] \in Contents /\ Plain(n)
  /\ Adds \subseteq Paths /\ Others \subseteq Paths
  /\ MaxTop \in Nat

\* A local directory is part of a file tree: what its directories and files lie in
\* are directories of it, and no path is a file and a directory at once.
ASSUME LocalAssumption ==
  \A l \in Locals :
    /\ l.dirs \cap DOMAIN l.files = {}
    /\ \A n \in l.dirs \cup DOMAIN l.files :
         \A d \in 1 .. Len(n) - 1 : SubSeq(n, 1, d) \in l.dirs

VARIABLES
  files,   \* CpioArchive.Files
  top,     \* CpioNode.MaxNodeId
  local,   \* the local directory RootDir names
  phase,   \* "update", "dirs", "files", "commands", then "saved" or "dead"
  todo,    \* what the loop of the phase has still to look at
  reply    \* what the last command logged

vars == <<files, top, local, phase, todo, reply>>

\* The parser has set MaxNodeId to the largest inode of the archive, that of its
\* trailer included.
Init == /\ files \in Archives
        /\ top \in {n \in 0 .. MaxTop : \A k \in DOMAIN files : files[k].ino <= n}
        /\ local \in Locals \cup {NoRoot}
        /\ phase = IF local = NoRoot THEN "commands" ELSE "update"
        /\ todo = {}
        /\ reply = "Silent"

----------------------------------------------------------------------------
(* CpioArchive *)

At(fs, p) == {k \in DOMAIN fs : fs[k].path = p}

Exists(fs, p) == At(fs, p) # {}

\* GetFile: the position of the first entry of that path.
First(fs, p) == CHOOSE k \in At(fs, p) : \A j \in At(fs, p) : k <= j

\* FilterPath drops one leading slash.
FilterPath(p) == IF Len(p) > 1 /\ Head(p) = Blank THEN Tail(p) ELSE p

\* The path ends in a slash.
Prefix(p) == Len(p) > 1 /\ p[Len(p)] = Blank

\* The string q starts with p, which ends in a slash.
StartsWith(q, p) == /\ Len(q) >= Len(p)
                    /\ \A i \in 1 .. Len(p) - 1 : q[i] = p[i]

\* The entries of ProcessFiles: all under a prefix, else the first of that path.
Targets(fs, p) == IF Prefix(p)
                  THEN {k \in DOMAIN fs : StartsWith(fs[k].path, p)}
                  ELSE {k \in At(fs, p) : k = First(fs, p)}

Without(fs, K) == Selections(fs, DOMAIN fs \ K)

\* Mistake: a prefix gives the mode to directories and links, too.
ModeTargetsOfAll(fs, p) == Targets(fs, p)

\* ChMod leaves alone what is not a regular file when it is given a prefix.
ModeTargets(fs, p) == {k \in Targets(fs, p) : Prefix(p) => fs[k].kind = "file"}

ChMod(fs, p, m) ==
  [k \in DOMAIN fs |-> IF k \in ModeTargets(fs, p) THEN [fs[k] EXCEPT !.perm = m] ELSE fs[k]]

ChOwn(fs, p, u) ==
  [k \in DOMAIN fs |-> IF k \in Targets(fs, p) THEN [fs[k] EXCEPT !.user = u] ELSE fs[k]]

ChGroup(fs, p, g) ==
  [k \in DOMAIN fs |-> IF k \in Targets(fs, p) THEN [fs[k] EXCEPT !.group = g] ELSE fs[k]]

\* UpdateFile and UpdateSLink: new data behind the old header.
UpdateContent(fs, p, c) ==
  [k \in DOMAIN fs |-> IF k \in At(fs, p) THEN [fs[k] EXCEPT !.data = c] ELSE fs[k]]

\* Mistake: inodes are numbered by the length of the list.
NodeByPlace(p, kind, c) == [path |-> p, kind |-> kind, perm |-> NewPerm[kind], user |-> 0,
                            group |-> 0, data |-> c, ino |-> Len(files) + 1]

\* A node the constructors make; its inode is the number after the last.
Node(p, kind, c) == [path |-> p, kind |-> kind, perm |-> NewPerm[kind], user |-> 0,
                     group |-> 0, data |-> c, ino |-> top + 1]

----------------------------------------------------------------------------
(* The merge of the local directory: UpdateArchive *)

Enter(next, work) == phase' = next /\ todo' = work /\ UNCHANGED reply

\* The local path Path.Combine and the file system find for a path of the archive;
\* one that ends in a slash or a dot is that of no file.
LocalPath(p) == IF Plain(p) \/ p[Len(p)] \in Here THEN p
                ELSE SelectSeq(p, LAMBDA c : c \notin Here)

Updated(e) == IF LocalPath(e.path) \in DOMAIN local.files
              THEN [e EXCEPT !.data = local.files[LocalPath(e.path)]] ELSE e

\* Mistake: only regular files are updated.
UpdateRegular ==
  /\ phase = "update"
  /\ files' = [k \in DOMAIN files |-> IF files[k].kind = "file" THEN Updated(files[k]) ELSE files[k]]
  /\ Enter("dirs", local.dirs)
  /\ UNCHANGED <<top, local>>

\* Every path of the archive that is a file of the local directory, whatever the
\* kind of the entry.
Update ==
  /\ phase = "update"
  /\ files' = [k \in DOMAIN files |-> Updated(files[k])]
  /\ Enter("dirs", local.dirs)
  /\ UNCHANGED <<top, local>>

\* The local path without RootDir: the slash stays when RootDir ends in none.
Converted(n) == IF local.slash THEN n ELSE <<Blank>> \o n

\* The entry of a local directory or file, unless the archive has one. The list
\* Processed only holds paths the archive has and adds nothing to that test.
AddMissing(n, kind, c) ==
  IF Exists(files, Converted(n))
  THEN UNCHANGED <<files, top>>
  ELSE /\ top < MaxTop
       /\ files' = Append(files, Node(Converted(n), kind, c))
       /\ top' = top + 1

Above(d, e) == Len(d) < Len(e) /\ SubSeq(e, 1, Len(d)) = d

\* Mistake: the directories come in any order.
InAnyOrder(d) == d \in todo

\* Directory.GetDirectories gives a directory before those in it.
InOrder(d) == d \in todo /\ \A e \in todo : ~Above(e, d)

MergeDir == /\ phase = "dirs"
            /\ \E d \in todo : /\ InOrder(d)
                               /\ AddMissing(d, "dir", NoContent)
                               /\ Enter("dirs", todo \ {d})
            /\ UNCHANGED local

BeginFiles == /\ phase = "dirs" /\ todo = {}
              /\ Enter("files", DOMAIN local.files)
              /\ UNCHANGED <<files, top, local>>

MergeFile == /\ phase = "files"
             /\ \E n \in todo : /\ AddMissing(n, "file", local.files[n])
                                /\ Enter("files", todo \ {n})
             /\ UNCHANGED local

BeginCommands == /\ phase = "files" /\ todo = {}
                 /\ Enter("commands", {})
                 /\ UNCHANGED <<files, top, local>>

----------------------------------------------------------------------------
(* The commands: ProcessCommand *)

Ready == phase = "commands" /\ UNCHANGED <<local, phase, todo>>

Log(answer) == Ready /\ reply' = answer /\ UNCHANGED <<files, top>>

Change(answer, fs) == Ready /\ reply' = answer /\ files' = fs /\ UNCHANGED top

\* Path.Last() of the empty path throws; so does Convert of a number that is none.
\* Nothing catches it and nothing is written.
Crash == /\ phase = "commands" /\ phase' = "dead"
         /\ UNCHANGED <<files, top, local, todo, reply>>

\* rm: the entries of that path, else all that start with it, if it ends in a slash.
Rm(p) ==
  \/ p = <<Blank>> /\ Log("Error")
  \/ Exists(files, p) /\ \E fs \in Without(files, At(files, p)) : Change("Ok", fs)
  \/ /\ p # <<Blank>> /\ ~Exists(files, p)
     /\ \/ ~Prefix(p) /\ Log("Silent")
        \/ Prefix(p) /\ Targets(files, p) = {} /\ Log("Error")
        \/ /\ Prefix(p) /\ Targets(files, p) # {}
           /\ \E fs \in Without(files, Targets(files, p)) : Change("Ok", fs)

Found(targets) == IF targets = {} THEN "Error" ELSE "Ok"

\* chmod, chown with a user, group, and chown with both.
Attribute(p) ==
  \/ p = <<Blank>> /\ Crash
  \/ /\ p # <<Blank>>
     /\ \/ \E m \in Perms : Change(Found(ModeTargets(files, p)), ChMod(files, p, m))
        \/ \E u \in Owners : Change(Found(Targets(files, p)), ChOwn(files, p, u))
        \/ \E g \in Owners : Change(Found(Targets(files, p)), ChGroup(files, p, g))
        \/ \E u, g \in Owners :
             Change(Found(Targets(files, p)), ChGroup(ChOwn(files, p, u), p, g))

\* What dir, nod, file and slink do to the path they were given.
Dressed(fs, p, m, u, g) == ChGroup(ChOwn(ChMod(fs, p, m), p, u), p, g)

\* Mistake: the path is looked up before its slash is dropped.
AddEntryUnlooked(p, kind, c, m, u, g) ==
  /\ Ready /\ p # <<Blank>>
  /\ top < MaxTop
  /\ files' = Dressed(Append(files, Node(p, kind, c)), p, m, u, g)
  /\ top' = top + 1
  /\ reply' = "Ok"

\* A new entry, when there is none of its path. On the empty path ChMod throws
\* behind it.
AddEntry(p, kind, c, m, u, g) ==
  /\ ~Exists(files, p)
  /\ \/ p = <<Blank>> /\ Crash
     \/ /\ Ready /\ p # <<Blank>>
        /\ top < MaxTop
        /\ files' = Dressed(Append(files, Node(p, kind, c)), p, m, u, g)
        /\ top' = top + 1
        /\ reply' = "Ok"

KindOf(p) == files[First(files, p)].kind

Dir(p, m, u, g) ==
  \/ AddEntry(p, "dir", NoContent, m, u, g)
  \/ Exists(files, p) /\ Log(IF KindOf(p) = "dir" THEN "Warning" ELSE "Error")

Nod(p, m, u, g) ==
  \/ AddEntry(p, "nod", NoContent, m, u, g)
  \/ Exists(files, p) /\ Log("Error")

\* file with five arguments. A local file that is missing answers Error: Reject.
File(p, c, m, u, g) ==
  \/ AddEntry(p, "file", c, m, u, g)
  \/ /\ Exists(files, p)
     /\ IF KindOf(p) = "file"
        THEN Change("Ok", Dressed(UpdateContent(files, p, c), p, m, u, g)) ELSE Log("Error")

\* slink with five arguments: a link that is there only gets its target.
SLink(p, c, m, u, g) ==
  \/ AddEntry(p, "link", c, m, u, g)
  \/ /\ Exists(files, p)
     /\ IF KindOf(p) = "link" THEN Change("Ok", UpdateContent(files, p, c)) ELSE Log("Error")

\* file and slink with two arguments.
Replace(p, kind, c) ==
  IF Exists(files, p) /\ KindOf(p) = kind
  THEN Change("Ok", UpdateContent(files, p, c)) ELSE Log("Error")

Clear == \E fs \in Without(files, {k \in DOMAIN files : files[k].path # Dot}) : Change("Ok", fs)

\* A wrong number of arguments, an unknown command, a missing local file or include.
Reject == Log("Error")

\* chown with a group, an empty line, a comment, echo.
Nothing == Log("Silent")

Add(p) == \E m \in Perms, u, g \in Owners :
            \/ Dir(p, m, u, g)
            \/ Nod(p, m, u, g)
            \/ \E c \in Contents : File(p, c, m, u, g) \/ SLink(p, c, m, u, g)

\* An included file is read in place: its commands are commands of the run.
Command ==
  \/ \E p \in Adds : Add(FilterPath(p))
  \/ \E p \in Others :
       \/ Rm(FilterPath(p))
       \/ Attribute(FilterPath(p))
       \/ \E c \in Contents : Replace(FilterPath(p), "file", c) \/ Replace(FilterPath(p), "link", c)
  \/ Clear \/ Reject \/ Nothing \/ Crash

Save == /\ phase = "commands" /\ phase' = "saved"
        /\ UNCHANGED <<files, top, local, todo, reply>>

Next == Update \/ MergeDir \/ BeginFiles \/ MergeFile \/ BeginCommands \/ Command \/ Save

Spec == Init /\ [][Next]_vars

----------------------------------------------------------------------------
(* Properties *)

TypeOK == /\ files \in Seq(Entries)
          /\ top \in 0 .. MaxTop
          /\ local \in Locals \cup {NoRoot}
          /\ phase \in {"update", "dirs", "files", "commands", "saved", "dead"}
          /\ phase \in {"update", "dirs", "files"} => local # NoRoot
          /\ todo \subseteq Paths
          /\ phase = "files" => todo \subseteq DOMAIN local.files
          /\ reply \in {"Ok", "Warning", "Error", "Silent"}

\* No merge and no command makes a second entry of a name: a kernel that unpacks
\* the archive would take the last, every command of the tool the first.
NoNamesakes == ~Namesakes(files)

\* An entry the tool makes is never a hard link of another by accident: no entry
\* has the inode it was given.
FreshInodes ==
  [][\A i, j \in DOMAIN files' :
       ~Exists(files, files'[i].path) /\ i # j => files'[i].ino # files'[j].ino]_files

\* The directories p lies in are entries before the place k.
ParentsBefore(fs, k) ==
  \A d \in 1 .. Len(fs[k].path) - 1 :
     \E j \in 1 .. k - 1 : fs[j].path = SubSeq(fs[k].path, 1, d)

\* A merge keeps an archive unpackable from its first entry to its last: what
\* comes before an entry in the list has made its directories.
MergeKeepsOrder ==
  [][phase # "commands" /\ local.slash /\ (\A k \in DOMAIN files : ParentsBefore(files, k))
       => \A k \in DOMAIN files' : ParentsBefore(files', k)]_files

\* A merge that has ended has put each local file into the archive, under its
\* path and with its content, and each local directory.
MergeDone ==
  phase = "files" /\ todo = {} /\ local.slash =>
    /\ \A n \in DOMAIN local.files :
         \E k \in DOMAIN files : files[k].path = n /\ files[k].data = local.files[n]
    /\ \A d \in local.dirs : Exists(files, d)

\* The archive as a map from paths to entries, which is what its paths stand for
\* as long as there are no namesakes.
MapOf(fs) == [p \in {fs[k].path : k \in DOMAIN fs} |->
                LET e == fs[First(fs, p)]
                IN  [kind |-> e.kind, perm |-> e.perm, user |-> e.user,
                     group |-> e.group, data |-> e.data, ino |-> e.ino]]

Promise == INSTANCE CpioMap WITH map <- MapOf(files),
                                 Names <- {FilterPath(p) : p \in Adds \cup Others}

\* Each step is one change of that map: one new entry, new data, the rights of
\* one entry or of all under a prefix, or the removal of one, of all under a
\* prefix, or of everything but the top.
KeepsPromise == Promise!Spec

\* readme.md: files that exist in the root directory and not in the image are
\* added. A file the image has is not added a second time as "/...".
MergeAddsOnlyMissing ==
  \A k \in DOMAIN files : files[k].kind = "file" /\ Head(files[k].path) = Blank
                          => ~Exists(files, Tail(files[k].path))

=============================================================================
