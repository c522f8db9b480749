--------------------------- MODULE ImageProcessor ---------------------------
(***************************************************************************)
(* The three slots of an ImageProcessor (kernel, ramfs and device tree) and *)
(* the script steps that fill them from files, describe them and write them *)
(* out again: load, set and store (NyaFs/Processor/Scripting/Commands).     *)
(*                                                                          *)
(* A slot is null or an object [data, info]. The data is one of a few       *)
(* payloads; what the tree commands do to the ramfs is one step, Edit, and  *)
(* is FsCommands' subject. A file is what a reader would make of its bytes. *)
(***************************************************************************)
EXTENDS Naturals, FiniteSets

CONSTANTS
  Paths, Outs,   \* paths of files, those a script writes to
  Given,         \* the files there are at first
  KernelData, FsData, DtbData,   \* payloads
  Oss, Arches,   \* the values "set" accepts
  FitOss, FitArches,   \* those that FitHelper has a name for
  Names,         \* names a script gives to images
  Addrs,         \* load addresses found in files
  Wrong,         \* a value "set" does not know
  Said,          \* the pairs of a parameter and a value that scripts set
  EmptyFs, EmptyDtb,   \* a filesystem without items, a tree without nodes
  NoImage, NoFile,     \* the slot is null, no file there
  Missing, Broken, Incomplete,  \* parts of a FIT image that cannot be read
  Throws, Nothing      \* the reader throws, or logs an error and reads nothing

Invalid == "invalid"    \* IH_OS_INVALID, IH_ARCH_INVALID, IH_TYPE_INVALID
NoName  == "noname"     \* what is neither set nor read
NoAddr  == 0

Types == {"kernel", "ramdisk", "flat_dt"}

Infos == [os : Oss \cup {Invalid}, arch : Arches \cup {Invalid},
          type : Types \cup {Invalid}, name : Names \cup {NoName},
          addr : Addrs \cup {NoAddr}]

Payloads == KernelData \cup FsData \cup DtbData \cup {EmptyFs, EmptyDtb}

ImagesOf(payloads) == [data : payloads, info : Infos]

Images == ImagesOf(Payloads)

Trees == DtbData \cup {EmptyDtb}

Unread == {Missing, Broken, Incomplete}

Files == [fmt : {"cpio", "gz"}, data : Payloads]
         \cup [fmt : {"dtb"}, data : Trees]
         \cup [fmt : {"legacy"}, image : Images]
         \cup [fmt : {"fit"}, kernel : Images \cup Unread,
              ramdisk : Images \cup Unread, fdt : ImagesOf(Trees) \cup Unread]

ASSUME ProcessorAssumption ==
  /\ Outs \subseteq Paths
  /\ Given \in [Paths -> Files \cup {NoFile}]
  /\ FitOss \subseteq Oss /\ FitArches \subseteq Arches
  /\ Invalid \notin Oss \cup Arches /\ NoName \notin Names
  /\ Wrong \notin Oss \cup Arches \cup Types
  /\ Said \subseteq {"os"} \X (Oss \cup {Wrong}) \cup {"arch"} \X (Arches \cup {Wrong})
                   \cup {"type"} \X (Types \cup {Wrong}) \cup {"name"} \X Names
  /\ \A x \in {NoImage, Throws, Nothing} \cup Unread : x \notin Images
  /\ NoFile \notin Files
  /\ Cardinality({Missing, Broken, Incomplete, Throws, Nothing}) = 5
  /\ EmptyFs \notin KernelData \cup FsData \cup DtbData
  /\ EmptyDtb \notin KernelData \cup FsData \cup DtbData

VARIABLES
  kernel, fs, dtb,   \* the slots
  disk,              \* the files
  reply              \* status of the last step, "Exception" if it threw

slots == <<kernel, fs, dtb>>
vars  == <<kernel, fs, dtb, disk, reply>>

NewInfo == [os |-> Invalid, arch |-> Invalid, type |-> Invalid,
            name |-> NoName, addr |-> NoAddr]

Init == /\ kernel = NoImage /\ fs = NoImage /\ dtb = NoImage
        /\ disk = Given
        /\ reply = "Ok"

FsLoaded  == fs # NoImage /\ fs.data # EmptyFs
DtbLoaded == dtb # NoImage /\ dtb.data # EmptyDtb

----------------------------------------------------------------------------
(* Readers: what a file gives the slot of its kind *)

\* A part of a FIT image whose node or data cannot be reached, whose compression
\* is unknown, whose hash or parameters are not as they should be.
FitPart(x) == IF x \in {Missing, Broken} THEN Throws
              ELSE IF x = Incomplete THEN Nothing ELSE x

\* The node the configuration names, in a file that FDTReader reads at all. A
\* device tree that is no FIT image has no "configurations".
FitNode(f, node) == IF f.fmt = "fit" THEN FitPart(f[node])
                    ELSE IF f.fmt = "dtb" /\ f.data = EmptyDtb THEN Nothing
                    ELSE Throws

Typed(d, t) == [data |-> d, info |-> [NewInfo EXCEPT !.type = t]]

\* Any gzip file is a kernel.
ReadKernel(format, f) ==
  IF format = "fit" THEN FitNode(f, "kernel")
  ELSE IF f.fmt = "gz" THEN Typed(f.data, "kernel") ELSE Throws

\* A new DeviceTree: what ReadDtb puts in the slot when nothing was read.
NewDtb == [data |-> EmptyDtb, info |-> NewInfo]

ReadDtb(format, f) ==
  IF format = "fit" THEN FitNode(f, "fdt")
  ELSE IF f.fmt = "dtb" THEN Typed(f.data, "flat_dt") ELSE Throws

\* Only a cpio archive with at least one item is a filesystem. (Archives that
\* throw while they are read are FsCommands' subject, or Broken.)
Cpio(x) == IF x \in {Throws, Nothing} \/ x.data \in FsData THEN x ELSE Nothing

ReadFs(format, f) ==
  CASE format = "fit" -> Cpio(FitNode(f, "ramdisk"))
    [] format = "gz" -> IF f.fmt = "gz" THEN Cpio(Typed(f.data, Invalid)) ELSE Throws
    [] format = "cpio" -> IF f.fmt = "cpio" THEN Cpio(Typed(f.data, Invalid)) ELSE Nothing
    [] format = "legacy" -> IF f.fmt = "legacy" /\ f.image.info.type = "ramdisk"
                            THEN Cpio(f.image) ELSE Nothing

----------------------------------------------------------------------------
(* Writers *)

FitName(v, names) == IF v \in names THEN v ELSE Invalid

\* An image as a FIT node holds it: FitHelper's words for architecture and
\* system, and addresses for the kernel only.
FitImage(x, os, addr) ==
  [x EXCEPT !.info = [os |-> FitName(os, FitOss),
                      arch |-> FitName(x.info.arch, FitArches),
                      type |-> x.info.type, name |-> NoName, addr |-> addr]]

\* Mistake: the load address is not written.
FitWithoutAddress(k, r, d) ==
  [fmt |-> "fit", kernel |-> FitImage(k, k.info.os, NoAddr),
   ramdisk |-> FitImage(r, r.info.os, NoAddr), fdt |-> FitImage(d, Invalid, NoAddr)]

Fit(k, r, d) == [fmt |-> "fit",
                 kernel |-> FitImage(k, k.info.os, k.info.addr),
                 ramdisk |-> FitImage(r, r.info.os, NoAddr),
                 fdt |-> FitImage(d, Invalid, NoAddr)]

\* FitWriter's CheckFs, CheckKernel and CheckDevTree.
FitReady(k, r, d) ==
  /\ r.info.arch # Invalid /\ r.info.os # Invalid /\ r.info.type = "ramdisk"
  /\ k.info.arch # Invalid /\ k.info.os # Invalid /\ k.info.type = "kernel"
  /\ d.info.arch # Invalid /\ d.info.type = "flat_dt"

\* Mistake: the header keeps the type of the slot.
LegacyAsIs(r) == [fmt |-> "legacy", image |-> r]

Legacy(r) == [fmt |-> "legacy", image |-> [r EXCEPT !.info.type = "ramdisk"]]

LegacyReady(r) == r.info.arch # Invalid /\ r.info.os # Invalid

----------------------------------------------------------------------------
(* How a step ends *)

Answer(s) == reply' = s

Refuse(s) == Answer(s) /\ UNCHANGED <<slots, disk>>

\* Nothing catches an exception: the process is gone, the files stay.
Crash == /\ kernel' = NoImage /\ fs' = NoImage /\ dtb' = NoImage
         /\ Answer("Exception")
         /\ UNCHANGED disk

Write(p, f) == /\ disk' = [disk EXCEPT ![p] = f]
               /\ Answer("Ok")
               /\ UNCHANGED slots

----------------------------------------------------------------------------
(* load *)

Found(p) == disk[p] # NoFile

\* The answer of a load that replaced the old image.
Replaced(loaded) == Answer(IF loaded THEN "Warning" ELSE "Ok")

LoadKernel(p, format) ==
  LET x == ReadKernel(format, disk[p])
  IN  \/ ~Found(p) /\ Refuse("Error")
      \/ Found(p) /\ x = Throws /\ Crash
      \/ Found(p) /\ x = Nothing /\ Refuse("Error")
      \/ /\ Found(p) /\ x \notin {Throws, Nothing}
         /\ kernel' = x
         /\ Replaced(kernel # NoImage)
         /\ UNCHANGED <<fs, dtb, disk>>

\* Mistake: the slot is filled before the reader has answered.
LoadFsEagerly(p, format) ==
  LET x == ReadFs(format, disk[p])
  IN  \/ ~Found(p) /\ Refuse("Error")
      \/ Found(p) /\ x = Throws /\ Crash
      \/ /\ Found(p) /\ x # Throws
         /\ fs' = IF x = Nothing THEN [data |-> EmptyFs, info |-> NewInfo] ELSE x
         /\ IF x = Nothing THEN Answer("Error") ELSE Replaced(FsLoaded)
         /\ UNCHANGED <<kernel, dtb, disk>>

LoadFs(p, format) ==
  LET x == ReadFs(format, disk[p])
  IN  \/ ~Found(p) /\ Refuse("Error")
      \/ Found(p) /\ x = Throws /\ Crash
      \/ Found(p) /\ x = Nothing /\ Refuse("Error")
      \/ /\ Found(p) /\ x \notin {Throws, Nothing}
         /\ fs' = x
         /\ Replaced(FsLoaded)
         /\ UNCHANGED <<kernel, dtb, disk>>

\* The slot gets the new object whether or not anything was read into it.
DtbOf(x) == IF x = Nothing THEN NewDtb ELSE x

LoadDtb(p, format) ==
  LET x == ReadDtb(format, disk[p])
  IN  \/ ~Found(p) /\ Refuse("Error")
      \/ Found(p) /\ x = Throws /\ Crash
      \/ /\ Found(p) /\ x # Throws
         /\ dtb' = DtbOf(x)
         /\ Answer("Ok")
         /\ UNCHANGED <<kernel, fs, disk>>

\* load <file>: kernel, ramfs and device tree of a FIT image, one after the
\* other. Anything but Ok from one ends the step: an image that was replaced
\* (Warning) as much as one that was not read (Error).
LoadAll(p) ==
  LET k == ReadKernel("fit", disk[p])
      r == ReadFs("fit", disk[p])
      d == ReadDtb("fit", disk[p])
      good == {k, r} \cap {Throws, Nothing} = {}
  IN  \/ ~Found(p) /\ Refuse("Error")
      \/ Found(p) /\ k = Throws /\ Crash
      \/ Found(p) /\ k = Nothing /\ Refuse("Error")
      \/ /\ Found(p) /\ k \notin {Throws, Nothing} /\ kernel # NoImage
         /\ kernel' = k
         /\ Answer("Warning")
         /\ UNCHANGED <<fs, dtb, disk>>
      \/ /\ Found(p) /\ k \notin {Throws, Nothing} /\ kernel = NoImage
         /\ \/ r = Throws /\ Crash
            \/ /\ r = Nothing
               /\ kernel' = k
               /\ Answer("Error")
               /\ UNCHANGED <<fs, dtb, disk>>
      \/ /\ Found(p) /\ good /\ kernel = NoImage /\ FsLoaded
         /\ kernel' = k /\ fs' = r
         /\ Answer("Warning")
         /\ UNCHANGED <<dtb, disk>>
      \/ /\ Found(p) /\ good /\ kernel = NoImage /\ ~FsLoaded
         /\ \/ d = Throws /\ Crash
            \/ /\ d # Throws
               /\ kernel' = k /\ fs' = r /\ dtb' = DtbOf(d)
               /\ Answer("Ok")
               /\ UNCHANGED disk

----------------------------------------------------------------------------
(* set *)

Values == [os |-> Oss, arch |-> Arches, type |-> Types, name |-> Names]

Described(x, param, v) == [x EXCEPT !.info[param] = v]

CanSet(x, param, v) == x # NoImage /\ v \in Values[param]

SetKernel(param, v) ==
  \/ ~CanSet(kernel, param, v) /\ Refuse("Error")
  \/ /\ CanSet(kernel, param, v)
     /\ kernel' = Described(kernel, param, v)
     /\ Answer("Ok")
     /\ UNCHANGED <<fs, dtb, disk>>

SetFs(param, v) ==
  \/ ~CanSet(fs, param, v) /\ Refuse("Error")
  \/ /\ CanSet(fs, param, v)
     /\ fs' = Described(fs, param, v)
     /\ Answer("Ok")
     /\ UNCHANGED <<kernel, dtb, disk>>

SetDtb(param, v) ==
  \/ ~CanSet(dtb, param, v) /\ Refuse("Error")
  \/ /\ CanSet(dtb, param, v)
     /\ dtb' = Described(dtb, param, v)
     /\ Answer("Ok")
     /\ UNCHANGED <<kernel, fs, disk>>

\* set all: the tests of the device tree and of the ramfs are inverted, so what
\* passes them is dereferenced as null.
SetAll == IF kernel = NoImage \/ dtb # NoImage \/ fs # NoImage
          THEN Refuse("Error") ELSE Crash

----------------------------------------------------------------------------
(* store *)

StoreCpio(p) == IF FsLoaded THEN Write(p, [fmt |-> "cpio", data |-> fs.data])
                            ELSE Refuse("Error")

StoreGz(p) == IF FsLoaded THEN Write(p, [fmt |-> "gz", data |-> fs.data])
                          ELSE Refuse("Error")

StoreLegacy(p) == IF ~FsLoaded THEN Refuse("Error")
                  ELSE IF LegacyReady(fs) THEN Write(p, Legacy(fs))
                                          ELSE Refuse("Ok")

\* A tree without nodes is written too.
StoreDtb(p) == IF dtb # NoImage THEN Write(p, [fmt |-> "dtb", data |-> dtb.data])
                                ELSE Refuse("Error")

CanStoreAll == kernel # NoImage /\ FsLoaded /\ DtbLoaded

\* store <file>: a FIT image of the three.
StoreAll(p) == IF ~CanStoreAll THEN Refuse("Error")
               ELSE IF FitReady(kernel, fs, dtb) THEN Write(p, Fit(kernel, fs, dtb))
                                                 ELSE Refuse("Ok")

----------------------------------------------------------------------------
(* The commands on the tree, which change it, leave it empty or throw *)

Edit == /\ fs # NoImage
        /\ \/ \E d \in FsData \cup {EmptyFs} : fs' = [fs EXCEPT !.data = d]
                                               /\ Answer("Ok")
                                               /\ UNCHANGED <<kernel, dtb, disk>>
           \/ Crash

----------------------------------------------------------------------------

\* Bound: what a FIT image looks like as a bare device tree is left out.
BareTree(p) == Found(p) => disk[p].fmt # "fit"

Load(p) == \/ \E format \in {"gz", "fit"} : LoadKernel(p, format)
           \/ \E format \in {"cpio", "gz", "legacy", "fit"} : LoadFs(p, format)
           \/ LoadDtb(p, "fit")
           \/ BareTree(p) /\ LoadDtb(p, "dtb")
           \/ LoadAll(p)

Set == \/ \E say \in Said : SetKernel(say[1], say[2]) \/ SetFs(say[1], say[2])
                            \/ SetDtb(say[1], say[2])
       \/ SetAll

Store(p) == StoreCpio(p) \/ StoreGz(p) \/ StoreLegacy(p) \/ StoreDtb(p) \/ StoreAll(p)

Next == \/ \E p \in Paths : Load(p)
        \/ Set
        \/ \E p \in Outs : Store(p)
        \/ Edit

Spec == Init /\ [][Next]_vars

----------------------------------------------------------------------------
(* Properties *)

Slot(x, payloads) == x = NoImage \/ x \in ImagesOf(payloads)

\* Each slot is null or holds an image; the ramfs is cpio or has been emptied.
TypeOK == /\ Slot(kernel, Payloads)
          /\ Slot(fs, FsData \cup {EmptyFs})
          /\ Slot(dtb, Trees)
          /\ disk \in [Paths -> Files \cup {NoFile}]
          /\ reply \in {"Ok", "Warning", "Error", "Exception"}

Read(x) == x \notin {Throws, Nothing}

\* The readers take what the writers leave: a file the script has written is
\* read back by the reader of its format, in one piece, whatever was loaded,
\* set, edited and overwritten before (Store.cs, the Reader and Writer classes).
FileLoads(f) ==
  CASE f.fmt = "cpio" -> Read(ReadFs("cpio", f))
    [] f.fmt = "gz" -> Read(ReadFs("gz", f))
    [] f.fmt = "legacy" -> Read(ReadFs("legacy", f))
    [] f.fmt = "dtb" -> Read(ReadDtb("dtb", f))
    [] f.fmt = "fit" -> /\ Read(ReadKernel("fit", f)) /\ Read(ReadFs("fit", f))
                        /\ Read(ReadDtb("fit", f)) /\ f.fdt.data # EmptyDtb
                        /\ f.kernel.info.type = "kernel"
                        /\ f.ramdisk.info.type = "ramdisk"
                        /\ f.fdt.info.type = "flat_dt"

StoredFilesLoad == \A p \in Outs : disk[p] # Given[p] => FileLoads(disk[p])

\* What a FIT image says of the kernel, the ramfs and the device tree makes the
\* same image again once it is loaded into a new process (FitWriter against the
\* FitReaders), as long as FitHelper has names for what they were set to.
Nameable(x) == /\ x.info.arch \in FitArches \cup {Invalid}
               /\ x.info.os \in FitOss \cup {Invalid}

FitReadsBack ==
  CanStoreAll /\ FitReady(kernel, fs, dtb)
      /\ Nameable(kernel) /\ Nameable(fs) /\ Nameable(dtb) =>
    LET f == Fit(kernel, fs, dtb)
        k == ReadKernel("fit", f)
        r == ReadFs("fit", f)
        d == ReadDtb("fit", f)
    IN  /\ Read(k) /\ Read(r) /\ Read(d)
        /\ FitReady(k, r, d) /\ Fit(k, r, d) = f
        /\ <<k.data, r.data, d.data>> = <<kernel.data, fs.data, dtb.data>>
        /\ k.info = [kernel.info EXCEPT !.name = NoName]

\* A step that answers Error has not cost the script anything: no file changes
\* and no slot that was filled. Only load of a FIT image fills a slot and then
\* fails, and the slot was empty (Load.cs ReadAll).
ErrorCostsNothing ==
  [][ reply' = "Error" => /\ UNCHANGED <<fs, dtb, disk>>
                          /\ kernel # NoImage => UNCHANGED kernel ]_vars

\* "load <filename>" is loading from a FIT image (NyaImageTool/readme.md:13-16).
\* False when something was loaded before: the kernel is the new one, the ramfs
\* and the device tree stay the old ones.
LoadTakesTheWholeImage ==
  [][ \A p \in Paths :
        LoadAll(p) /\ kernel' # kernel /\ reply' # "Exception" /\ reply' # "Error"
        => fs' = ReadFs("fit", disk[p]) /\ dtb' = DtbOf(ReadDtb("fit", disk[p])) ]_vars

=============================================================================
