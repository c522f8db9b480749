# A formal model of initramfstool

The repository holds tools that take a Linux boot image apart and put it
together again: the ramfs (a cpio archive, plain, gzipped, or behind a U-Boot
header), the kernel, the device tree, and the FIT image that carries all three.
Two programs do that: **NyaImageTool** (library NyaFs) runs a script of `load`,
`set`, `store` and tree commands over images in memory; **InitramfsTool**
(library CpioLib) merges a local directory into a cpio archive and applies a
file of commands to it. Beside them lies **lwext4** with its wrapper SharpExt4,
an ext4 filesystem in C that reads and writes a disk image in place; it is the
largest part of the code, and the only one that has to survive a crash.

The two tools are sequential. What is hard about them is not threads but long
sequences of legal commands over state that is kept twice (an item's full path
and its place in the tree, an inode counter and the inodes of an archive),
operations that fail half-way, the meaning of the same path spelled in several
ways, lists of accepted values that live in two files, and recursion over
includes. What is hard about lwext4 is a journal between a cache and a device
that may lose power at any write, trees of blocks that split and shrink on a
device that gets full half-way, and calls of many steps that come apart when
one of them fails. The models here are about that.

Contents: [inventory](#1-inventory), [modules](#2-modules-and-how-they-follow-the-code),
[runs](#3-runs), [proofs](#4-proofs), [where code and docs disagree](#5-where-the-code-and-its-texts-disagree),
[what is not modelled](#6-what-is-not-modelled), [plan](#7-plan).

## 1. Inventory

Paths are relative to the repository. `PROJECT.json` lists every component with
its status, and under `hazards` the lines at which something can go wrong that
a test would hardly reach.

| Component | State | Operations | What makes it correct |
|---|---|---|---|
| Filesystem tree (`NyaFs/ImageFormat/Elements/Fs`) | directories with `Items` lists; each item carries its full path | `Exists`, `GetElement`, `GetParentDirectory`, `Delete`, `Items.Add` | a tree; every item found under its name; one item of a name |
| Tree commands (`NyaFs/Processor/Scripting/Commands/Fs`) | the ramfs slot | dir, file, slink, rm, chmod, chown | Ok means done; one entry changes at a time |
| Cpio reader and writer of NyaFs | the tree being filled | read entry by entry; write depth first | what is written is read back |
| Image slots (`Processor/ImageProcessor.cs`, `Load`, `Set`, `Store`) | kernel, ramfs, device tree; the files | load, set, store in each format | a failure costs nothing; stored files load |
| FIT / legacy / gzip formats (`ImageFormat/Composite`, `Helper`, `Types`, readers) | none (functions of a file) | read, check, write | FIT round trip |
| Script parser and runner (`Processor/Scripting`, `NyaImageTool/Program.cs`) | stack of files, steps, `HasErrors` | Parse, include, check, execute | nothing runs if a line is wrong; order; termination |
| Cpio updater (`CpioLib/IO/CpioUpdater.cs`, `Types/CpioArchive.cs`, `InitramfsTool`) | list of nodes, `MaxNodeId` | merge, rm, chmod, chown, group, dir, nod, file, slink, clear, include | one entry of a name; fresh inodes; parents first |
| Cpio node bytes (`CpioNode`, parser, packer) | a byte packet per entry | header fields, alignment, modes | layout, mode conversions |
| Extractor / script generator (`CpioExtractor`) | none | extract, generate a script | the script rebuilds the archive |
| Initramfs file (`RamFsLib`) | header and image bytes | CRC checks, replace the ramfs | sizes and CRCs |
| FDT reader and writer (`NyaFs/FlattenedDeviceTree`) | tree of nodes; string table | read tokens, write tokens | round trip |
| Native and Ext readers/writers | the local disk | copy | only reached from test programs; Ext is commented out |
| Extensions (`ArrayEdit`, `RawPacket`, CRC) | byte arrays | read and write integers, strings | boundaries |
| BmuTool | none | extract one dump | hard-coded paths |
| SharpExt4 (`SharpExt4/SharpExt4`) | an open disk, a mount | forwards to lwext4 | answers become exceptions |
| lwext4 journal (`ext4_journal.c`, `ext4_trans.c`) | the log, its superblock, the checkpoint queue, the open transaction | begin, commit, abort, checkpoint, revoke, recover, stop | after a crash: a whole number of transactions, none lost that was acknowledged |
| lwext4 cache (`ext4_bcache.c`, `ext4_blockdev.c`) | buffers with flags, references, a callback | get, set, flush, invalidate, shake | what is dropped was written |
| lwext4 allocation (`ext4_balloc.c`, `ext4_ialloc.c`, `ext4_bitmap.c`, `ext4_super.c`) | bitmaps, group descriptors, counters | allocate near a goal, free, set up a group late | bitmaps, counters and owners agree |
| lwext4 extents (`ext4_extent.c`) | a tree of nodes in blocks | get blocks, remove space | a map from the blocks of a file to those of the device |
| lwext4 files (`ext4.c`, `ext4_fs.c`) | inode, indirect blocks, handles | open, seek, read, write, truncate, remove, symlink, readlink | a sequence of bytes; no block lost |
| lwext4 directories (`ext4_dir.c`, `ext4_dir_idx.c`) | entries of blocks, a hashed index | find, add, remove, split | each name in one place and found there |
| lwext4 names (`ext4.c`) | directories, link counts, a listing | create, mkdir, link, rename, remove, list | a tree; links counted |
| lwext4 attributes, mkfs, MBR, hashes, checksums | blocks laid out once, functions of bytes | see PROJECT.json | not modelled |

How they interact: `NyaImageTool/Program.cs` parses a script and, if there was no
error, hands its steps to `ImageProcessor.Process`, which calls `Exec` of each;
a step reads and replaces the slots (`GetFs`/`SetFs`, ...), and the tree
commands edit the object in the ramfs slot in place. Readers fill a new object
and writers read the one in the slot; FIT readers and the FIT writer go through
the flattened device tree, the ramfs readers and writers through CpioLib, which
InitramfsTool uses directly. There are no callbacks, threads or timers in them,
and they persist nothing but the file they write at the end.

lwext4 is a stack: `ext4.c` walks names and calls `ext4_dir.c` for entries and
`ext4_fs.c` for blocks of an inode; that calls `ext4_extent.c` or keeps indirect
blocks, both take blocks from `ext4_balloc.c`; every block of metadata is read
through the cache (`ext4_blockdev.c`), marked dirty by `ext4_trans.c` and so
joins the open transaction of `ext4_journal.c`. The cache calls the journal back
when a buffer has been written (`end_write`). One lock per mount point is held
for each call, so calls are atomic to each other, and a crash falls between two
writes of a call. Reading a directory takes the lock for one entry at a time.
The reader of NyaFs that would use SharpExt4 is commented out, and SharpExt4
mounts without recovering or starting the journal.

What is hard, by kind (each is a hazard with its line):

* **Sequences and state kept twice**: name and place of an item; `MaxNodeId` and
  the inodes; the slots and the parameters that `set` gave them.
* **Partial failure**: an exception in a reader half-way through an archive; a FIT
  image of which one part loads and the next does not; answers `Ok`, `Warning`,
  `Error`, none of which stops a script (`ImageProcessor.cs:28-36`).
* **Ordering**: archive order, directory enumeration order, include order.
* **Two lists that must agree**: what `CheckParam` accepts and `Get` takes; what
  `set` accepts, the header holds and the readers take.
* **Boundaries**: empty paths, `.`, leading and trailing slashes, prefixes.
* **Termination**: includes, which may form loops.
* **Crash and recovery**: power lost between two writes of a commit, of a
  checkpoint, of a recovery; ids and blocks of an older session still in the log.
* **Order of writes**: the copy in the log, the block in its place, the start of
  the log in the superblock; a freed block that still has copies in the log.
* **Full devices**: no block for the new node in the middle of a split, for the
  data block after its indirect blocks, for a directory on the way to a path.
* **Stale state**: the size in a handle, the position of a listing, a group that
  was never set up.

## 2. Modules and how they follow the code

`PROJECT.json` `map` gives for every definition the lines it stands for.

Two kinds of names are not in the code and marked so: history variables
(`view`, `map`, `held`, `stable`, ...), which say what a state means, and plausible
mistakes, which break a property (see *Mutants* in section 3).

### FsTree, FsCommands (abstract: PathMap; helper: Lists)

`FsTree` is the heap of `Filesystem.cs`: `item[i]` an object, `kids[d]` the `Items`
list of a directory. A path is the sequence of what its slashes separate, so
`/a`, `a`, `a/` and `./a` are four paths, as they are for the code. Lookups are
operators with the values `Throw` and `Null` where the code throws or returns
null. The two strip a path differently: a lookup drops a leading slash (`Strip`), the
constructor of an item a leading slash or backslash (`PreprocessFilename`, which
`AddItem` calls). `Plain(p)` says that both do the same to `p`, and `NoBackslash` that
they do for every path of the scripts and archives; section 5 says what happens
to the others. `RemoveAll` compares names with the path *as written*, and drops the objects
that nothing refers to any more.

`FsCommands` has the slot `fs`, the tree `dst` and the entries `todo` of a load
in progress (`BeginLoad`, one `ReadEntry` per entry, `EndLoad`; an exception is
`Crash`, which ends the process), and one action per command. `reply` is the
status the step returned.

`PathMap` is what the tree is for: a map from paths to entries in which every
parent is a directory, changed by `Create`, `Amend`, `Remove`, `Mount`, `Unmount`. `View`
maps a tree to it, an empty slot to the empty map; `KeepsPromise` says that every
step is one of these changes. `Rebuilt(a)` is the tree that reading the archive `a`
gives, against which a load that ends is held.

### ImageProcessor

The three slots (`kernel`, `fs`, `dtb`), the files (`disk`) and the last `reply`.
A file is what a reader would make of its bytes: a record of its format with
the payloads and parameters in it; a part that cannot be read is `Missing`,
`Broken` (the reader throws) or `Incomplete` (it logs and reads nothing).
`ReadKernel`, `ReadFs`, `ReadDtb` and `Fit`, `Legacy` are readers and writers with
the fields that survive them. `Load*`, `Set*`, `Store*` are the `Exec` methods, one
action per form of a command. What the tree commands do to the ramfs is `Edit`.

### ScriptCommands, ScriptRun

`ScriptCommands` holds the words of a line: `ExtractArgs` with its `Temp` that is
never reset, and the table of generators with the configurations each declares,
in their order. `ScriptRun` is the run: `stack` holds the nested calls of `Parse`
(file and next line), `steps` and `errors` what parsing left, then `Run`, `Crash` or
`Finish` execute. What a step does to the images is the subject of the modules
above; here it only may throw.

### CpioUpdater (abstract: CpioMap)

The list `files`, the counter `top` (`CpioNode.MaxNodeId`), and the passes of
`UpdateArchive` as `phase` and `todo`: update what the archive has, add
directories (any order in which a directory precedes what is in it), add
files, commands, save. Each command is an action over `Targets`: the first entry
of a path, or all under a prefix when the path ends in a slash. A command that adds
at a path that ends in a slash also sets mode and owner of everything below it
(`Regraded`): the lookup for the new entry's attributes is the one of `chmod`.
`CpioMap` is the archive as a map from paths to entries, where adding and renewing may do
the same. `LocalAssumption` says what the local directory is: its files and
directories are apart, and with each path come the directories above it. An entry is
renewed from the file that `Path.Combine` and the file system find for its path
(`LocalPath`): `./a` and `a//b` find `a` and `a/b`, a path that ends in a slash or a
dot finds none.

### Ext4Journal (abstract: TxnStore)

`media` is the device (blocks, the log, the journal's superblock), `io` the writes
a call has issued that have not reached it, `m` the memory: buffers of the cache
with flags, references and their `end` (the `end_write` callback and its argument),
a record per journaled block (`jbd_block_rec` with its queue of `jbd_buf`s), the
checkpoint queue `cp`, the open transaction `cur`, and the ends of the log. A call
(`Begin`, `ChangeMeta`, `AllocMeta`, `AllocData`, `Free`, `Commit`, `Abort`, `Evict`,
`CacheFlush`, `Stop`, `Open`, `Recover`) changes the memory and issues its writes in
the order of the code; `PerformWrite` brings the next one to the media; `Crash`
loses memory and all writes not yet performed. Operators carry the names of
the functions or of what they do: `EndWrite` is `jbd_trans_end_write` with the
callbacks it makes, `Purge` and `PurgeAll` the checkpoint, `Prepare` the descriptors,
tags and escaped copies, `Walk` the three passes of a recovery.

`stable` is what a recovery of the media would show, and `TxnStore` says how it
may move: to what the running program sees, when that is no open transaction, and
never back. `KeepsTransactions` says that every history, crashes included, is one
of that store.

Two constants of the module let a history happen in which the code does not keep
that promise (section 5), or leave it out: `AbortFrees`, the abort of a
transaction that has freed a block, and `Unrevoked`, the free of a block that the log
holds a copy of and that the code does not revoke. `OlderKnown` is the test the code
makes before it does.

### Ext4Alloc

A bitmap is the set of its bits, a group a record of bitmaps and counters;
`setup` gives the geometry. `AllocBlock` is the goal, the bits near it, the rest of its
group, then the other groups; `GetGroup` sets up a group the first time it is
touched, as `ext4_fs_get_block_group_ref` does. `held` and `inodes` are what callers
have, from which `Accounted` counts. `Geometry` says which members `Setups` may have:
what mke2fs makes of a device, with copies of the superblock in every group or, with
SPARSE_SUPER, in some (`SuperIn`), and with metadata of other groups (flex_bg) only in
groups whose bitmaps are on disk. `AllocInode` has an answer "never returns", for the
loop of the code over a group that counts a free i-node and has no clear bit (`Endless`).

### Ext4Extents (abstract: BlockMap)

`t` is the tree: the root in the inode and the nodes by their block, with counts as
they are on disk (above `InitMax`: unwritten). `GetBlocks` and `RemoveSpace` are the
two calls `ext4_fs.c` makes, with every join, split, growth and conversion below
them. `map` is what looking each block up would give, `last` the call and its
answer. `BlockMap` is such a map with reserved blocks, and says what each call may
do to it: a write provides blocks and loses none, a removal releases the
blocks of the range it was given, and one that fails leaves the map as it is.

### Ext4Files (abstract: ByteFile)

An inode with one direct block and three levels of indirect blocks of three
numbers, or with extents (here only a function: `Ext4Extents` has the tree);
`disk` the blocks, `free` those nobody has. `WriteData` is `ext4_fwrite` with its three
parts and its runs of contiguous blocks; `TruncateSizes` the transactions of a
truncation, between two of which `CutShort` lets the power fail. `ByteFile` is a
sequence of bytes with a position per handle.

### Ext4Dir

The blocks of one directory as sequences of entries with their lengths, and the
index as sequences of hashes and blocks. A setup gives the size of a block and of each
name in units of its own, so that a hole can be too small for a name. `SplitIndex`, `SplitData` and `NextPath` are
the parts of `ext4_dir_idx.c` that have to agree about where a hash goes on.

### Ext4Names (abstract: NameTree)

Inodes with kind, link count and entries in slots, walks over a path, and one action per
call of `ext4.c`: `Make`, `MakeDir`, `Link`, `Rename`, `RemoveFile`, `RemoveDir` (with
its descent and its way back by ".."), `OpenList` and `NextEntry`. `journaled` says
whether an abort takes anything back. `NameTree` is a tree of paths in which a
file may have several names; `names` is that tree as a walk from the root finds it.

How they go together: each module assumes of the one below it what that one's run shows.
Ext4Files takes an extent tree for a function (`KeepsMap` of Ext4Extents, away from the split that
fails half-way) and the
allocator for a choice of a free block (`GivesWhatIsFree` of Ext4Alloc); Ext4Names
takes a directory for slots that keep their entries (`EntriesSound`,
`FindsWhatIsThere` of Ext4Dir); a call of Ext4Names that is taken back by an abort is a
transaction of Ext4Journal.

## 3. Runs

| Run | Question | Bounds |
|---|---|---|
| `fs_shape` | Does any sequence of loads and commands leave a heap that is no tree (`OneHome`), an item that disagrees with its place (`NamesFollowPlaces`) or cannot be found (`EveryNameIsFound`), a second item of a name (`NoNamesakes`), or a tree that is not read back as it was written (`RoundTrip`)? | 3 items, 14 paths, some with a slash before or behind, some with a backslash behind the slash, 9 archives, among them duplicates, orphans, children below a file, unknown kinds, `./a` |
| `fs_edit` | Did a step that answered Ok do what it was asked (`OkMeansDone`), and nothing else (`KeepsPromise`)? | 2 items, relative and absolute paths, 2 modes, 2 owners |
| `proc_files` | Are the files store writes read by the readers of their format (`StoredFilesLoad`), does a FIT image give everything back (`FitReadsBack`), has an error cost anything (`ErrorCostsNothing`)? | one file of each format, FIT images with each part missing, broken or incomplete; one file to write |
| `cpio_all` | Is everything local in the archive after a merge (`MergeDone`), behind its directories (`MergeKeepsOrder`)? Do the merge and the commands after it ever make a second entry of a name (`NoNamesakes`), an inode twice (`FreshInodes`), or more than one change of the map (`KeepsPromise`)? | four archives of one to three entries: hard links, a link at the path of a local file, the entries `.` and `./a`, a file without a directory, a path below the one that is added with a slash; paths added with slashes before and behind and empty; 2 local directories, 2 files; 2 modes, 2 owners, 2 contents; inodes to `MaxTop` = 3 |
| `script_all` | Does every line count, once and in place (`EveryLineCounts`); does nothing run when a line anywhere is wrong (`RunsOnlyWhatIsRight`); does every run end (`Stops`)? | 3 files of up to 3 lines, includes in chains, twice, missing, in loops; depth 4 |
| `ext4_journal` | Is every history, power loss at every write and recovery included, one of a transactional store (`KeepsTransactions`); do records, queues and callbacks agree (`NoDangling`); does the log keep its room and its form (`LogSound`); are ids never given out while an older commit block bears them (`NoStaleCommit`)? | logs of 7 and 19 blocks, one or two blocks beside the bitmap, write-back and write-through, 4 transactions, 3 with two blocks (`maxId`), 2 sessions, an orderly stop in the last one only (`StopIn`); an aborted transaction has freed nothing (`AbortFrees`), and a block that the log has a copy of is freed only where the code revokes it (`Unrevoked`) |
| `ext4_journal_stop` | violated: `NoStaleCommit` | as `ext4_journal`, with an orderly stop in the first session |
| `ext4_alloc` | Do bitmaps, descriptors, counters and owners agree after every call (`Accounted`), is a block refused only when there is none and nothing given twice, and does the search for an i-node end (`GivesWhatIsFree`)? | 14 to 20 blocks in 2 or 3 groups, one of them set up late; flex_bg; a short last group; a superblock in every group; bytes and windows of 4 bits |
| `ext4_extents` | Are the nodes ordered, keyed and not overfull (`TreeSound`), all blocks accounted for (`Accounted`), and is every call with its answer one of a block map (`KeepsMap`)? | 6 logical blocks, 22 blocks of the device, 1 entry in the root and 2 in a node, so the tree gets three levels deep; extents of at most 4; devices with 7 and 8 free blocks, where growth, and the first block of a split, are refused |
| `ext4_files` | Does a file implement a sequence of bytes (`KeepsFile`, `ReadsBack`), is no block lost or had twice (`BlocksKept`), is a write short only on a full device (`ShortWhenFull`)? | 1 direct block, 3 numbers in a block, 15 blocks by three levels, 5 calls, devices with 25, 8 and 1 free blocks, 2 handles |
| `ext4_dir` | Is each name in one place (`EntriesSound`) and found there (`FindsWhatIsThere`), and does the index lead once to each leaf (`IndexSound`)? | 8 names, 2 entries in the root and 3 in a node; names of half a block, and of a third and a sixth mixed, with holes between them; ascending, descending, equal hashes; full directories; no index |
| `ext4_names` | Is the tree whole (`TreeSound`), are links counted (`LinksCounted`), is every step one of a tree of paths (`KeepsTree`), does a call do what it says (`OkMeansDone`), does a listing give what stays (`ListsWhatStays`)? | 3 inodes beside the root, 3 names, 3 entries in a block, 4 blocks, 5 calls (reading a listing is none), with and without a journal, within what `Within` allows |

Why the bounds are enough. *Trees*: every lookup and every change concerns a
directory, an item of it and one level above or below; three items are the
fewest that give a directory in a directory with something in it, and a removed
directory that was not empty. Ids are reused, so sequences are unbounded.
*Archives*: commands look at one path or one prefix; two entries give one that is
named and one that is not, or two under a prefix. Bigger lists only repeat
them, and the list grows by what a merge and commands add. Inode numbers are
bounded by `MaxTop`; a step that needs one more is disabled there. The proofs below are for every bound. *Scripts*: three files give chains, diamonds and loops of one, two
and three; a run out of stack is `overflow`, and `MaxDepth` stands for the stack
of the CLR. *Images*: a slot holds one payload of its kind; only equality of
payloads matters.

*Journal*: a transaction that has the only block twice in the log, one that waits
and one that is open are what its rules are about; four ids make the log of 7 blocks
go round twice, so the checkpoint has to make room. *Allocation, extents,
directories*: the constants of the disk format are made small, so that every
structure fills, splits and empties within a few calls; the code computes with
them as parameters. *Files*: every level of indirection is reached by one write of
37 units. *Names*: a directory in a directory with a file and a second name of
it needs three inodes; a block of three entries is full with one name.

Further bounds, each named at its definition: no path of the passing runs of
FsCommands begins with a backslash (`RunAssumption`, which TLC evaluates); archives
for InitramfsTool name an entry once, without a leading slash and without ".."
(`UpdaterAssumption`, also that a local directory is listed under plain paths); `BareTree`
leaves out reading a FIT image as a bare device tree. `Unrevoked` and `AbortFrees` in
Ext4Journal leave out two histories that do break `KeepsTransactions` (see 5). In the passing
setups of Ext4Dir no name is longer than half a block, and where names differ in length
none is longer than a third and only long ones are taken out, so that each hole has room
for any name and a leaf that is full is more than half full (`MC_Holes` is the other case);
`across` in Ext4Alloc lets a freed range lie in two groups only where groups are
as long as bitmaps (see 5); `sparse` and `joins` in Ext4Extents, `Within` in Ext4Files and Ext4Names
keep callers from what section 5 lists. `MaxSteps` bounds calls in Ext4Files and
Ext4Names. `CHECK_DEADLOCK FALSE` stands where the program ends (CpioUpdater,
ScriptRun) or the bounds do (the lwext4 models: the last session, the last call,
a full directory).

**Fairness.** Only `ScriptRun` has any: `WF_vars(Next)`. The tool is one thread
that reads local files and waits for nothing, so a run in which a line can be
parsed or a step executed goes on. Safety needs none. In lwext4 nothing goes on
by itself: each step is a call of a program that need not make it, and when a
written block frees the log is decided by the cache's callers; so no progress is claimed.

**Mutants.** Each property of a passing run is broken by a plausible mistake,
written next to the definition it replaces under a comment that begins
"Mistake:", "mutant:" or "Mutated form". They are no part of the model.

## 4. Proofs

Eight modules of proofs, checked by TLAPS (Z3, Zenon, LS4). Their only
assumptions are the `ASSUME`s of the modules, which are about constants: what the
sets of inputs are made of, that sentinels differ from data, and the geometry of a
device. TLC evaluates them in every run. The theorems hold for any identities,
paths, archives, local directories, files, scripts, geometries and bounds. One hypothesis
is not an `ASSUME` but stands in the theorems that need it: `NoBackslash`, in those of
the filesystem tree but `TypeCorrect` and `ListsFormATree`. Without it
`OkMeansDone`, `NoNamesakes`, `NamesFollowPlaces`, `EveryNameIsFound` and `RoundTrip` are
false of the code (section 5); `KeepsPromise` may not be, since what no lookup finds is not
in the map, but its proof uses it.

**FsCommands_proofs.** `TypeCorrect` (`TypeOK`) and `NamesAgree`
(`NamesFollowPlaces`). Neither is inductive by itself: that an added item's name
is its directory's name and one component more needs the directory that
`GetParentDirectory` found to carry the path it was found under, which is
`NamesFollowPlaces` again, and that lookups stay in the heap, which is `TypeOK`.
The inductive invariant is their conjunction, stated per tree: `Sound(t)` is
`IsTree(t)` and `Named(t)`; `IInv` says it of the slot and of the tree being
loaded (`IInvMeaning`). The argument: `ParentFound` (what a lookup returns is in
the heap, and an item put there is named by its place; by the last step of the walk, since
induction over the path is not needed when names are full paths), `AddItemSound`,
`UpdateSound`, `RemoveAllSound` over `CollectSound` (collecting what is unreachable keeps a tree), then one
lemma per action.

In its second half `ListsFormATree` (`OneHome`, whatever the paths begin with) and
`NothingIsOutOfReach` (`EveryNameIsFound`). There the walk of `GetElement` is
reasoned about step by step: the path is a recursive function, whose existence
and uniqueness are lemmas by induction over sets of numbers (`WalkExists`,
`WalksAgree`), so that a lookup of `p` is that of its parent and one child more
(`BaseOfMore`, `ThroughParent`). The inductive invariant `NeatInv` adds to `Sound` that each object
is in one place of one list (`Neat`), which none of the steps keeps without the names:
`RemoveAll` goes by names, and only because they agree with places does it take one
entry and leave the others in order (`Thinned*`). For every action `NeatFromChange`
then asks only which of `AddItem`, an update or a removal it makes.

**FsPromise_proofs** (on top of that). `CommandsAddNoNamesakes` (`NoNamesakes`),
`OkIsNoLie` (`OkMeansDone`), and the refinement `TreeIsAMap` (`KeepsPromise`). The map of
a tree (`View`) is the lookup at each path (`ViewHolds`), so a change of the tree is a
change of the map once it is known what each lookup finds afterwards: `AddedMoves`
is `Create`, `AmendedMoves` `Amend`, `RemovedMoves` `Remove`. That the removed paths are the
ones under the given one and no others is `RemovedSees`, with `UnderParts` and
`FoundThrough`. A load that ends is `Mount` of the tree its archive stands for, for
which the invariant has to remember what was read: `LoadInv` says that the tree being
filled is the one of the entries read so far and that the others are still in
`todo`.

**FsStore_proofs** (on top of that). `StoredIsReadBack` (`RoundTrip`): the archive that
CpioFsWriter makes of a tree is read by CpioFsReader into a tree that is written as
the same archive. `ArchiveOf` recurses over directories, and is defined at all only because
a name is longer than its directory's (`Ranks`, `RanksExist`): with names of bounded
length each item has a rank its children are below, by which the recursion goes
(`ArchiveIsBelow`). The items come out in an order in which a directory and its
earlier children stand before each child (`ArchiveInOrder`). The reader is then
followed entry by entry: after k entries its tree is a `Copy` of what the first k are
of the original, list by list (`CopiedUpTo`). In a copy each lookup of an item that was
visited finds its image (`FoundInCopy`), so the directory of the next one is found
(`ParentInCopy`), there is an identity left for it (`RoomForCopy`), and it is
appended where it was (`CopyMore`). The copy of the whole has the same archive (`CopyWrites`).
The invariant `StoreInv` adds to `NeatInv` that the names of both trees are
`Bounded`, since for a tree of endless depth `ArchiveOf` would not be defined, and that
none begins with a backslash (`AllPlain`), since the reader would drop it: a path
like `/\a` has no directory, so it adds no item (`StrippedIsPlain`).

**ImageProcessor_proofs.** `TypeCorrect`, `StoredFilesAreReadable`
(`StoredFilesLoad`), `FitRoundTrip` (`FitReadsBack`), and the action property
`ErrorsAreHarmless` (`ErrorCostsNothing`). `IInv` is `TypeOK` with
`StoredFilesLoad`: what `store` writes is readable because of the kind of image a
slot can hold, whatever sequence filled it. `FitReadsBack` follows from `TypeOK`
and the lemmas about `Fit` and the readers (`FitFileLoads`, `FitFileSays`, `FitImageTwice`), for all
parameters FitHelper has names for. `ErrorsAreHarmless` needs no invariant: each
form of a step that answers Error is shown to spare files and images (`Spared`).

**CpioUpdater_proofs.** `TypeCorrect`, `OneOfAName` (`NoNamesakes`),
`NoAccidentalLinks` (`FreshInodes`). `IInv` adds to `TypeOK` that the list is
`Sound(files, top)`: no namesakes and no inode above the counter. The last part is
in no run; without it nothing says that the next number is new. Every step is
one `Outcome` of the list: entries keep path and inode (`Kept`), some are left out
(`Thinned`), or one is appended with the next inode; a lemma for each shows that
`Sound` survives, and the actions only have to be shown to be one of them. Hence
no sequence of commands gives two entries a name, for any archive (without
namesakes at the start), directory, paths and bounds.

About the merge: `MergeEndsDone` (`MergeDone`) and `MergeStaysUnpackable`
(`MergeKeepsOrder`). `MergeDone` speaks of the end only; what the
passes keep is `MergeInv`: a local directory is an entry or still to do, the same of the
files, and an entry at the path of a local file has its content from the first
pass on. `LocalAssumption` is used in both: without its directories first a file could not
be put behind them.

And the promise, `ArchiveIsAMap`: the archive implements `CpioMap`. The map
takes a path to the first entry of it, and says what the archive holds only because
there are no namesakes; hence `IInv`. There is one lemma per kind of change
(`AddStep`, `RefillStep`, `RenewStep`, `RightsStep`, `RemoveStep`) and one per action
that says which it makes. It was this proof that showed the command `dir a/` to set the
rights of what lies below `a/`, and that an earlier `CpioMap` did not allow for it.

**ScriptRun_proofs.** `TypeCorrect` (`TypeOK`) and `OnlyRightScriptsRun`
(`RunsOnlyWhatIsRight`). The property is about the script as text, and the parser only ever
sees a line at a time, so the invariant has to say what has been read:
`ParseInv` says that as long as no error was reported, in each call of `Parse` every line
before the next one is right, and what it includes is right with all it includes in turn
(`Good`), but for the last include of a call, which is the file of the call above
it. A file that was read to its end is then `Good` (`GoodFromIncluded`, with
`BelowThroughIncluded`: what a file reaches is reached by one of its includes),
also in the sense that it does not include itself, since a file that does is never
read to its end. `ArgsArePlain` shows that `ExtractArgs` and the plain reading of a
line agree on every line that is not refused for its quotation marks, by induction over
its words.

`EveryLineIsCounted` (`EveryLineCounts`) says that the list of steps is the text, with
each include replaced by what it includes, and the list of errors likewise. Its
invariant `CountInv` says of a parse that is under way: each call stands at the
include of the call above it (`Linked`), and the errors and the steps so far are what
the finished part of each call holds, outermost call first (`InPlace`). A line
adds the same to both sides, an include opens a call that has nothing yet, and a file
read to its end is the whole of what its line stands for. The text with its includes
is a recursive function (`Listing`, `Texts`), whose existence and values are shown by
induction over its bound, stated as a set of naturals.

**Ext4Alloc_proofs.** `NothingIsLost` (`Accounted`) and `NothingIsGivenTwice`
(`GivesWhatIsFree`), for any geometry: any number of groups, a short last one, any of
them set up late, tables in other groups. `Accounted` is not inductive: it looks at
bitmaps only up to the blocks of a group and says nothing of bitmaps not made yet.
`SoundInv` says three things more. What is clear in a whole bitmap, its end included,
is what is free (`BlocksSound`), or a search that goes to the end of the bitmap could
find a block that is not there. A group not set up has never given anything, so that
the bitmap it gets is the one its counters were made for (`LateBitmap`,
`GetGroupKeeps`). The free i-nodes are as many as the places without one
(`InodesSound`), so that a counter of 0 means that there is no place, which the
answer ENOSPC rests on, and any other that there is one, without which the search would
not end (`ext4_ialloc.c:289`). The argument: a block has one bit and a bit one block
(`BitOfBlock`, `BlockOfBit`, `PlaceOfInode`, `InodeOfPlace`); a search returns a clear
bit below its end, whatever it began at (`FindsClear`, `NearIsClear`); the turns of a
search come by every group (`OthersAreAll`, `InodeGroupsAreAll`), each keeping
`Sound`, and end at a free bit or with every group full (`SearchFinds`,
`InodeSearchFinds`); freeing a range takes back from each group the bits of its
own part (`FreeInGroupKeeps`, `FreeBlocksKeeps`), which is where `across` is
needed; and a change of one group changes the sum of the free blocks by as much
(`SumOfChange`). The turns are a recursive function of their number; that it exists and
what it keeps is shown by induction over that number (`AllTurns`).

**Ext4Journal_proofs.** `RecordsStayLinked` (`NoDangling`), for any blocks, either cache
mode and any length of the log: whatever the order of transactions, commits, aborts
(after a free too, `AbortFrees` TRUE), evictions, flushes, crashes and recoveries, no list of buffers, record of a block or
callback points to what is gone. The invariant `IInv` says that the memory is gone or
`Good`, which is `Linked` and `Working`. `Linked` adds to the property what the code relies
on without saying so. A transaction of the checkpoint queue counts as written just the buffers that are
out of its list (`Counts`), since `jbd_trans_end_write` frees it when all are counted,
whoever still points to it. A buffer names its transaction (`Owned`), and the record of a
block has exactly the buffers of that block that wait in some transaction, each once
(`Listed`). The record belongs to the transaction of its last buffer, and so does
the callback (`Latest`). The references of a cached block are those that
the open transaction holds (`Held`), so that no eviction or flush takes a block of
it. `Working` is about the open transaction alone: each buffer has its callback or its
block is freed (`Marked`), and a block that is freed is free in the bitmap of the same
transaction and not dirty (`FreedIsFree`), so that a commit does not log a copy whose
record it ends.
None of this holds in the middle of a call. `Linked(s, X, o, e)` therefore takes the blocks
`X` that the caller holds beside the transaction, a transaction `o` one of whose
buffers has left its record and is not yet counted, and a block `e` whose callback runs.
A loop of the code is a recursive function of the number of its turns, whose
existence (the lemmas `...Steps`) and what it keeps (`AllTurns`) are shown by
induction. The argument goes up the calls: the end of a write, with the older buffers it
ends and the head of the queue it purges; the flush and the release of a buffer; the
steps of a commit (`Committing`) and of an abort; each call of the interface; and
recovery, of which it only matters that it leaves a superblock the next session can start
from (`RecoveryTold`).

Only model-checked: the rest of lwext4. That recovery replays no stale commit
(`NoStaleCommit`), that the log keeps its room and form (`LogSound`) and that the whole is a
transactional store (`KeepsTransactions`) need the contents of the log, over which
this proof says nothing; extents, files, directories and names are folds
over lists, about which nothing can be proved before they are recursive functions, as the
loops of the journal were made in its proof (the
inductions of ScriptRun_proofs, FsStore_proofs and Ext4Journal_proofs are over sets of
naturals that the proof defines, because a theorem of the library that takes an
operator cannot be used); `Stops`, which needs fairness and `ENABLED`. `TypeOK` of the tools' four
components is proved and in no run; it is evaluated there by
adding it as an INVARIANT.

## 5. Where the code and its texts disagree

Shown by a run (`PROJECT.json` `findings`):

* A session that ends in order writes the sequence 0 into the journal's superblock; the
  next one gives out ids that commit blocks in the log still bear, and a crash
  replays those (`ext4_journal_stop`, `ext4_journal.c:1446` against the comment
  at 1286).

Stated as a property that is false of the code with the constants given, with which no
run checks it. TLC shows each when the run named checks the property with them:

| Property | Run, and constants other than its own | What the code does |
|---|---|---|
| `OkMeansDone`, `NoNamesakes`, `NamesFollowPlaces`, `EveryNameIsFound`, `RoundTrip` | `fs_edit` with `FsPaths <- BackslashPaths` | the constructor of an item drops a leading backslash, a lookup does not: `dir \a` is answered with Ok, the item is named `a` and `\a` is not found; after `dir a` it is a second item of that name; `dir \\a` makes `\a`, below which `dir \a/b` puts an item named `a/b`, and which a load reads as `a` (`FilesystemItem.cs:13` against `Filesystem.cs:82`, 123) |
| `RmOkMeansGone` | `fs_edit` | `rm /a/b` answers "deleted!" and deletes nothing (`Filesystem.cs:168`) |
| `LoadTakesTheWholeImage` | `proc_files` | `load <fit>` over loaded images replaces the kernel only (`Load.cs:83`) |
| `MergeAddsOnlyMissing` | `cpio_all`, `slash` FALSE in `Nested` | `root=./root` without a last slash adds every file a second time as `/...` (`CpioUpdater.cs:45,60`) |
| `CheckedArgumentsAreTaken` | `script_all` with `Disks <- LineDisks` | a numeric mode, and `slink` with two arguments, pass the check of the parser and end it with an exception (`Utils.cs:50`, `SLink.cs:28`) |
| `QuotesWork` | `script_all` with `Disks <- LineDisks` | an argument in quotes is always reported as invalid quotes (`ScriptParser.cs:53`) |
| `FreedIsRevoked` | `ext4_journal` with `Setups <- MC_OneLong`, `Unrevoked = TRUE` | a freed block is revoked when the queue of its record has another unwritten copy, not when an older transaction with a copy waits in the checkpoint queue, as the comment at 1691 says: a transaction logs the block and one more, the first is written back and the second not, the next transaction changes the block and frees it, and nothing is revoked (`ext4_journal.c:1704`) |
| `KeepsTransactions` | `ext4_journal` with `Unrevoked = TRUE` | the block that was freed and not revoked is taken for the data of a file, and a crash replays the old copy over it (`ext4_journal.c:1704`) |
| `KeepsMap` | `ext4_extents` with `Setups <- MC_Parted` | writing the middle of a reserved extent, or appending to one, spoils it (`ext4_extent.c:1922`, 1279) |
| `KeepsMap`, `Accounted` | `ext4_extents` with `Setups <- MC_Halfway` | when a leaf was split and the node above it gets no block, the new leaf is freed and the entries moved to it are not put back: the write fails, and blocks written before are lost to the file and stay in use (`ext4_extent.c:1122` after 1054) |
| `ReadsBack` | `ext4_files` with `Setups <- MC_Sparse` | a hole of a block-mapped file is read from and written to block 0 of the device (`ext4.c:1774` against 1749) |
| `EntriesSound` | `ext4_dir` with `Setups <- MC_Holes` | a leaf that is too fragmented for a new name, and whose entries all go into half a block, is "split" with `mid` 0 (`ext4_dir_idx.c:989`, comment at 887): each name is then in both leaves, see below |
| `FindsWhatIsThere` | `ext4_dir` with `Setups <- MC_Long` | after a leaf split the result of the insertion is overwritten: EOK, and the name is nowhere (`ext4_dir_idx.c:1336`) |

Met while modelling, modelled as the code is or kept out by a bound, and stated by
no property:

* A missing parent throws out of the script; `Dir.cs:77` has an answer for it that
  is never given (`Filesystem.cs:152`).
* `chown` with a group sets the group to the user (`Chown.cs:29`).
* `load devtree fit` answers Ok when nothing was read (`Load.cs:160`).
* `store` of an incomplete FIT image answers Ok and writes nothing (`Store.cs:97`).
* `set all` refuses when the images are loaded and dereferences null when they are
  not (`Set.cs:79-82`).
* A FIT image whose system FitHelper does not know loads and cannot be stored
  (`FitHelper.cs:148`, `FitWriter.cs:130`).
* In CpioLib, `slink` with mode and owner on a link that exists changes its target
  only (`CpioUpdater.cs:428`); `dir a/` changes mode and owner of all below `a/`
  (`CpioUpdater.cs:290`); a local file at the path of a link becomes the target of
  the link (`CpioUpdater.cs:32-37`).
* Journal: an abort after a free is not undone whole (`AbortFrees`); neither is that of
  a block that was dirtied again, which is then not revoked when it is freed
  (`Unrevoked`); an escaped block is rolled back and flushed with its first
  word cleared (`ext4_journal.c:1338`, 1567); a transaction larger than the log ends
  in an assertion.
* Cache: `ext4_bcache_invalidate_lba` stops when the first block is not cached; a
  failed write counts as written in `jbd_trans_end_write`.
* Allocation: `ext4_balloc_free_blocks` reckons with the bits of a bitmap where a
  group may have fewer blocks (`ext4_balloc.c:288`); a clear bit before the first whole byte
  is reported as the bit the search began at (`ext4_bitmap.c`); a goal past the
  last descriptor is ENXIO; the search for an i-node tries a group again and again when
  its counter says there is one and its bitmap has none (`ext4_ialloc.c:289`), which is
  out of reach while `Accounted` holds.
* Extents: a part put before an extent does not become its start
  (`ext4_extent.c:1279`); a split that fails puts the length back without its flag and
  returns EOK; `ext4_extent_remove_space` does nothing when it begins in a hole, and
  a removal inside one extent frees no block.
* Files: a write that was short returns EOK; `flags & O_RDONLY` refuses no write; a
  handle beyond the end of a file that was cut reads a size below zero.
* Directories: the block of a leaf that was never got is released when the index
  cannot be split. With `mid` 0, `sort[mid - 1]` is read outside the array
  (`ext4_dir_idx.c:1005`; `mid` is unsigned and 32 bits wide: before the array or
  2^32 - 1 entries behind it). If the process survives that, the old leaf keeps all its
  entries and the new one gets them all again, under a hash of 0 or 1, which can be
  out of order in the index.
* Names (kept out by `Within`, or modelled): `ext4_dir_rm` frees a file below it
  whatever other names it has (`ext4.c:3017`); `ext4_frename` moves a directory
  below itself; without a journal a missing directory on the way that gets no block
  leaves its entry behind (`ext4.c:250`); `ext4_fremove` of a directory returns EOK and
  removes nothing; calls with a slash at the end of the path do part of their work and
  return ENOENT; the listing of a directory that was removed is read all the same.

## 6. What is not modelled

* Bytes: newc, uImage, FDT and gzip layouts, CRC, SHA-1, alignment. A header that
  is wrong is one flag of a file. `CpioNode.MaxNodeId` wraps at 2^32, far above
  `MaxTop`.
* `StoreKernel`: no generator declares the arguments that lead to it. The names of
  legacy images: they are neither checked nor needed (`NoName`).
* A special bit (setuid and its like): no command of either tool changes one.
* `include` of InitramfsTool is read in place; its recursion without a guard is the
  one ScriptRun models.
* The list `Processed` of the merge only holds paths the archive has, and adds
  nothing to the test that follows it.
* Local files change during no run; a missing one is `NoFile` or an error.
* NativeReader and NativeWriter, the extractor, BmuTool, SharpExt4, test
  programs: see `PROJECT.json`.
* lwext4: extended attributes, mkfs and mount, partitions, checksums, hashes, mode,
  owner and times, special files; META_BG, where descriptors lie in the groups they
  describe; read and write errors of the device (a write
  only is lost, with all after it); a commit in the middle of the blocks of the journal file
  itself, whose place is fixed; the LRU order of the cache, of which any clean
  and unreferenced buffer may go; two mount points.

## 7. Plan

1. **Core** (done): FsTree and FsCommands with PathMap; ImageProcessor; CpioUpdater
   with CpioMap; ScriptCommands and ScriptRun.
2. **lwext4** (done): Ext4Journal with TxnStore, Ext4Alloc, Ext4Extents with BlockMap,
   Ext4Files with ByteFile, Ext4Dir, Ext4Names with NameTree.
3. **Proofs**: done for every safety property of the two tools, and for Ext4Alloc.
   For Ext4Journal `NoDangling` is. Left, in this order:
   `LogSound` and `NoStaleCommit` of Ext4Journal; `LinksCounted` and `TreeSound` of Ext4Names for the calls other than `RemoveDir`;
   `EntriesSound` of Ext4Dir. The folds of these modules have to become recursive
   functions first, as was done for the
   loops of Ext4Journal in its proof.
4. **Extended attributes**: the name and value lists in the inode and in a block that
   two inodes may share, with the reference count of that block.
5. **CpioNode**: the newc packet as a layout (sizes, padding, name in characters
   against bytes), `HexMode`/`StrMode`/`ConvertMode`, CpioParser and CpioPacker over
   packets, CpioExtractor's generated script replayed by CpioUpdater.
6. **FdtFormat**: FDTWriter and FDTReader as token sequences with a string table and
   a reserve map; it replaces "what a file of format fit holds" in ImageProcessor.

The number of runs is kept small on purpose: one per question, one or two per component.
