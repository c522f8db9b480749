----------------------- MODULE ImageProcessor_proofs -----------------------
(***************************************************************************)
(* Proofs about ImageProcessor: its types and what the files it writes are. *)
(* The readers and the writers are dealt with first, as functions of files  *)
(* and images; the steps then only move what these lemmas speak of.         *)
(***************************************************************************)
EXTENDS ImageProcessor, TLAPS

Fails == {Throws, Nothing}

----------------------------------------------------------------------------
(* The readers *)

LEMMA FitNodeResult ==
  ASSUME NEW f \in Files
  PROVE  /\ FitNode(f, "kernel") \in Images \cup Fails
         /\ FitNode(f, "ramdisk") \in Images \cup Fails
         /\ FitNode(f, "fdt") \in ImagesOf(Trees) \cup Fails
<1>1. CASE f \in [fmt : {"fit"}, kernel : Images \cup Unread,
                  ramdisk : Images \cup Unread, fdt : ImagesOf(Trees) \cup Unread]
  BY <1>1 DEF FitNode, FitPart, Fails, Unread
<1>2. CASE f.fmt # "fit"
  BY <1>2 DEF FitNode, Fails
<1> QED BY <1>1, <1>2 DEF Files

LEMMA TypedImage ==
  ASSUME NEW D, NEW d \in D, NEW t \in Types \cup {Invalid}
  PROVE  Typed(d, t) \in ImagesOf(D)
BY DEF Typed, ImagesOf, NewInfo, Infos

LEMMA ReadKernelResult ==
  ASSUME NEW f \in Files, NEW format \in {"gz", "fit"}
  PROVE  ReadKernel(format, f) \in Images \cup Fails
<1>1. f.fmt = "gz" => f.data \in Payloads
  BY DEF Files
<1>2. "kernel" \in Types \cup {Invalid}
  BY DEF Types
<1>3. f.fmt = "gz" => Typed(f.data, "kernel") \in Images
  BY <1>1, <1>2, TypedImage DEF Images
<1> QED BY <1>3, FitNodeResult DEF ReadKernel, Fails

LEMMA CpioResult ==
  ASSUME NEW x \in Images \cup Fails
  PROVE  Cpio(x) \in ImagesOf(FsData) \cup Fails
BY DEF Cpio, Fails, Images, ImagesOf

LEMMA ReadFsResult ==
  ASSUME NEW f \in Files, NEW format \in {"cpio", "gz", "legacy", "fit"}
  PROVE  ReadFs(format, f) \in ImagesOf(FsData) \cup Fails
<1>1. f.fmt \in {"cpio", "gz"} => Typed(f.data, Invalid) \in Images
  <2>1. f.fmt \in {"cpio", "gz"} => f.data \in Payloads
    BY DEF Files
  <2> QED BY <2>1, TypedImage DEF Images
<1>2. f.fmt = "legacy" => f.image \in Images
  BY DEF Files
<1>3. CASE format = "fit"
  BY <1>3, FitNodeResult, CpioResult DEF ReadFs
<1>4. CASE format = "gz"
  BY <1>4, <1>1, CpioResult DEF ReadFs, Fails
<1>5. CASE format = "cpio"
  BY <1>5, <1>1, CpioResult DEF ReadFs, Fails
<1>6. CASE format = "legacy"
  BY <1>6, <1>2, CpioResult DEF ReadFs, Fails
<1> QED BY <1>3, <1>4, <1>5, <1>6

LEMMA ReadDtbResult ==
  ASSUME NEW f \in Files, NEW format \in {"dtb", "fit"}
  PROVE  ReadDtb(format, f) \in ImagesOf(Trees) \cup Fails
<1>1. f.fmt = "dtb" => Typed(f.data, "flat_dt") \in ImagesOf(Trees)
  <2>1. f.fmt = "dtb" => f.data \in Trees
    BY DEF Files
  <2>2. "flat_dt" \in Types \cup {Invalid}
    BY DEF Types
  <2> QED BY <2>1, <2>2, TypedImage
<1> QED BY <1>1, FitNodeResult DEF ReadDtb, Fails

LEMMA DtbOfResult ==
  ASSUME NEW x \in ImagesOf(Trees) \cup Fails, x # Throws
  PROVE  DtbOf(x) \in ImagesOf(Trees)
BY DEF DtbOf, NewDtb, Fails, ImagesOf, Trees, NewInfo, Infos

\* What is read is none of the two ways to fail.
LEMMA ImagesAreRead ==
  ASSUME NEW x \in Images
  PROVE  /\ Read(x) /\ FitPart(x) = x
         /\ x.data \in FsData => Cpio(x) = x
BY ProcessorAssumption DEF Read, FitPart, Unread, Cpio

LEMMA SmallerPayloads ==
  /\ ImagesOf(Trees) \subseteq Images
  /\ ImagesOf(FsData) \subseteq ImagesOf(FsData \cup {EmptyFs})
  /\ ImagesOf(FsData \cup {EmptyFs}) \subseteq Images
BY DEF Images, ImagesOf, Trees, Payloads

----------------------------------------------------------------------------
(* The writers *)

LEMMA FitImageResult ==
  ASSUME NEW D, NEW x \in ImagesOf(D), NEW os \in Oss \cup {Invalid},
         NEW addr \in Addrs \cup {NoAddr}
  PROVE  /\ FitImage(x, os, addr) \in ImagesOf(D)
         /\ FitImage(x, os, addr).data = x.data
         /\ FitImage(x, os, addr).info.type = x.info.type
<1> DEFINE i == [os |-> FitName(os, FitOss),
                 arch |-> FitName(x.info.arch, FitArches),
                 type |-> x.info.type, name |-> NoName, addr |-> addr]
<1>1. x.info.type \in Types \cup {Invalid}
  BY DEF ImagesOf, Infos
<1>2. i \in Infos
  BY <1>1, ProcessorAssumption DEF Infos, FitName
<1>3. FitImage(x, os, addr) = [x EXCEPT !.info = i]
  BY DEF FitImage
<1> HIDE DEF i
<1>4. /\ FitImage(x, os, addr) \in ImagesOf(D)
      /\ FitImage(x, os, addr).data = x.data
      /\ FitImage(x, os, addr).info = i
  BY <1>2, <1>3 DEF ImagesOf
<1>5. i.type = x.info.type
  BY DEF i
<1> QED BY <1>4, <1>5

\* Writing again what was read changes nothing more.
LEMMA FitImageTwice ==
  ASSUME NEW D, NEW x \in ImagesOf(D), NEW os \in Oss \cup {Invalid},
         NEW addr \in Addrs \cup {NoAddr}
  PROVE  /\ FitImage(FitImage(x, os, addr), FitImage(x, os, addr).info.os, addr)
              = FitImage(x, os, addr)
         /\ FitImage(x, os, addr).info.os = FitName(os, FitOss)
         /\ FitImage(x, os, addr).info.arch = FitName(x.info.arch, FitArches)
         /\ FitImage(x, os, addr).info.addr = addr
<1> DEFINE i == [os |-> FitName(os, FitOss),
                 arch |-> FitName(x.info.arch, FitArches),
                 type |-> x.info.type, name |-> NoName, addr |-> addr]
           y == FitImage(x, os, addr)
<1>1. y = [x EXCEPT !.info = i]
  BY DEF FitImage
<1>2. y.info = i
  BY <1>1 DEF ImagesOf
<1>3. FitName(i.os, FitOss) = i.os /\ FitName(i.arch, FitArches) = i.arch
  BY DEF FitName
<1>4. FitImage(y, y.info.os, addr) = [y EXCEPT !.info = i]
  <2>1. FitImage(y, y.info.os, addr)
          = [y EXCEPT !.info = [os |-> FitName(i.os, FitOss),
                                arch |-> FitName(i.arch, FitArches),
                                type |-> i.type, name |-> NoName, addr |-> addr]]
    BY <1>2 DEF FitImage
  <2> QED BY <2>1, <1>3
<1> HIDE DEF i, y
<1>5. [y EXCEPT !.info = i] = y
  BY <1>1 DEF ImagesOf
<1>6. FitImage(y, y.info.os, addr) = y
  BY <1>4, <1>5
<1>7. /\ y.info.os = FitName(os, FitOss)
      /\ y.info.arch = FitName(x.info.arch, FitArches)
      /\ y.info.addr = addr
  BY <1>2 DEF i
<1> QED BY <1>6, <1>7 DEF y

\* A filesystem that is stored on its own.
LEMMA FsFileLoads ==
  ASSUME NEW x \in ImagesOf(FsData)
  PROVE  /\ [fmt |-> "cpio", data |-> x.data] \in Files
         /\ FileLoads([fmt |-> "cpio", data |-> x.data])
         /\ [fmt |-> "gz", data |-> x.data] \in Files
         /\ FileLoads([fmt |-> "gz", data |-> x.data])
         /\ Legacy(x) \in Files
         /\ FileLoads(Legacy(x))
<1>1. x.data \in FsData /\ x.data \in Payloads
  BY DEF ImagesOf, Payloads
<1>2. /\ [fmt |-> "cpio", data |-> x.data] \in Files
      /\ [fmt |-> "gz", data |-> x.data] \in Files
  BY <1>1 DEF Files
<1>3. /\ Typed(x.data, Invalid) \in Images
      /\ Typed(x.data, Invalid).data \in FsData
  BY <1>1, TypedImage DEF Images, Typed
<1>4. FileLoads([fmt |-> "cpio", data |-> x.data])
  BY <1>3, ImagesAreRead DEF FileLoads, ReadFs
<1>5. FileLoads([fmt |-> "gz", data |-> x.data])
  BY <1>3, ImagesAreRead DEF FileLoads, ReadFs
<1> DEFINE y == [x EXCEPT !.info.type = "ramdisk"]
<1>6. /\ y \in Images /\ y.data \in FsData /\ y.info.type = "ramdisk"
  BY <1>1 DEF ImagesOf, Images, Infos, Types
<1>7. Legacy(x) = [fmt |-> "legacy", image |-> y]
  BY DEF Legacy
<1> HIDE DEF y
<1>8. Legacy(x) \in Files
  BY <1>6, <1>7 DEF Files
<1>9. ReadFs("legacy", Legacy(x)) = y
  BY <1>6, <1>7, ImagesAreRead DEF ReadFs
<1>10. FileLoads(Legacy(x))
  BY <1>6, <1>7, <1>9, ImagesAreRead DEF FileLoads
<1> QED BY <1>2, <1>4, <1>5, <1>8, <1>10

LEMMA DtbFileLoads ==
  ASSUME NEW x \in ImagesOf(Trees)
  PROVE  /\ [fmt |-> "dtb", data |-> x.data] \in Files
         /\ FileLoads([fmt |-> "dtb", data |-> x.data])
<1>1. x.data \in Trees /\ x.data \in Payloads
  BY DEF ImagesOf, Payloads, Trees
<1>2. Typed(x.data, "flat_dt") \in Images
  BY <1>1, TypedImage DEF Images, Types
<1> QED BY <1>1, <1>2, ImagesAreRead DEF Files, FileLoads, ReadDtb

\* The three of a FIT image, once FitWriter has accepted them.
LEMMA FitFileLoads ==
  ASSUME NEW k \in Images, NEW r \in ImagesOf(FsData), NEW d \in ImagesOf(Trees),
         d.data # EmptyDtb, FitReady(k, r, d)
  PROVE  Fit(k, r, d) \in Files /\ FileLoads(Fit(k, r, d))
<1> DEFINE f == Fit(k, r, d)
<1>1. /\ k.info.os \in Oss \cup {Invalid} /\ k.info.addr \in Addrs \cup {NoAddr}
      /\ r.info.os \in Oss \cup {Invalid}
  BY DEF Images, ImagesOf, Infos
<1>2. /\ f.kernel \in Images /\ f.kernel.info.type = "kernel"
      /\ f.ramdisk \in ImagesOf(FsData) /\ f.ramdisk.info.type = "ramdisk"
      /\ f.fdt \in ImagesOf(Trees) /\ f.fdt.info.type = "flat_dt"
      /\ f.fdt.data # EmptyDtb
  <2>1. /\ FitImage(k, k.info.os, k.info.addr) \in Images
        /\ FitImage(k, k.info.os, k.info.addr).info.type = "kernel"
    BY <1>1, FitImageResult DEF FitReady, Images
  <2>2. /\ FitImage(r, r.info.os, NoAddr) \in ImagesOf(FsData)
        /\ FitImage(r, r.info.os, NoAddr).info.type = "ramdisk"
    BY <1>1, FitImageResult DEF FitReady
  <2>3. /\ FitImage(d, Invalid, NoAddr) \in ImagesOf(Trees)
        /\ FitImage(d, Invalid, NoAddr).info.type = "flat_dt"
        /\ FitImage(d, Invalid, NoAddr).data # EmptyDtb
    BY FitImageResult DEF FitReady
  <2> QED BY <2>1, <2>2, <2>3 DEF Fit
<1>3. f.fmt = "fit" /\ f = [fmt |-> "fit", kernel |-> f.kernel,
                           ramdisk |-> f.ramdisk, fdt |-> f.fdt]
  BY DEF Fit
<1> HIDE DEF f
<1>4. f \in Files
  BY <1>2, <1>3, SmallerPayloads DEF Files
<1>5. f.ramdisk \in Images /\ f.ramdisk.data \in FsData /\ f.fdt \in Images
  BY <1>2, SmallerPayloads DEF ImagesOf
<1>6. /\ ReadKernel("fit", f) = f.kernel
      /\ ReadFs("fit", f) = f.ramdisk
      /\ ReadDtb("fit", f) = f.fdt
  BY <1>2, <1>3, <1>5, ImagesAreRead DEF ReadKernel, ReadFs, ReadDtb, FitNode
<1>7. FileLoads(f)
  BY <1>2, <1>3, <1>5, <1>6, ImagesAreRead DEF FileLoads
<1> QED BY <1>4, <1>7 DEF f

\* What the three say of themselves survives: FitHelper has names for it.
LEMMA FitFileSays ==
  ASSUME NEW k \in Images, NEW r \in ImagesOf(FsData), NEW d \in ImagesOf(Trees),
         d.data # EmptyDtb, FitReady(k, r, d),
         Nameable(k), Nameable(r), Nameable(d)
  PROVE  LET f == Fit(k, r, d)
             k2 == ReadKernel("fit", f)
             r2 == ReadFs("fit", f)
             d2 == ReadDtb("fit", f)
         IN  /\ Read(k2) /\ Read(r2) /\ Read(d2)
             /\ FitReady(k2, r2, d2) /\ Fit(k2, r2, d2) = f
             /\ <<k2.data, r2.data, d2.data>> = <<k.data, r.data, d.data>>
             /\ k2.info = [k.info EXCEPT !.name = NoName]
<1> DEFINE f == Fit(k, r, d)
           k2 == FitImage(k, k.info.os, k.info.addr)
           r2 == FitImage(r, r.info.os, NoAddr)
           d2 == FitImage(d, Invalid, NoAddr)
<1>1. /\ k.info.os \in Oss \cup {Invalid} /\ k.info.addr \in Addrs \cup {NoAddr}
      /\ r.info.os \in Oss \cup {Invalid}
  BY DEF Images, ImagesOf, Infos
<1>2. /\ k2 \in Images /\ r2 \in ImagesOf(FsData) /\ d2 \in ImagesOf(Trees)
      /\ <<k2.data, r2.data, d2.data>> = <<k.data, r.data, d.data>>
      /\ k2.info.type = k.info.type /\ r2.info.type = r.info.type
      /\ d2.info.type = d.info.type
  <2>1. /\ k2 \in Images /\ k2.data = k.data /\ k2.info.type = k.info.type
    BY <1>1, FitImageResult DEF Images
  <2>2. /\ r2 \in ImagesOf(FsData) /\ r2.data = r.data
        /\ r2.info.type = r.info.type
    <3>1. NoAddr \in Addrs \cup {NoAddr} /\ r.info.os \in Oss \cup {Invalid}
      BY <1>1
    <3> QED
      BY <3>1, FitImageResult, ZenonT(30)
  <2>3. /\ d2 \in ImagesOf(Trees) /\ d2.data = d.data
        /\ d2.info.type = d.info.type
    BY FitImageResult
  <2> HIDE DEF k2, r2, d2
  <2> QED BY <2>1, <2>2, <2>3
<1>3. /\ FitName(k.info.os, FitOss) = k.info.os
      /\ FitName(k.info.arch, FitArches) = k.info.arch
      /\ FitName(r.info.os, FitOss) = r.info.os
      /\ FitName(r.info.arch, FitArches) = r.info.arch
      /\ FitName(d.info.arch, FitArches) = d.info.arch
      /\ FitName(Invalid, FitOss) = Invalid
  BY DEF FitName, Nameable, FitReady
<1>4. /\ FitImage(k2, k2.info.os, k2.info.addr) = k2
      /\ FitImage(r2, r2.info.os, NoAddr) = r2
      /\ FitImage(d2, Invalid, NoAddr) = d2
  <2>1. k2.info.addr = k.info.addr /\ FitImage(k2, k2.info.os, k.info.addr) = k2
    BY <1>1, FitImageTwice DEF Images
  <2>2. FitImage(r2, r2.info.os, NoAddr) = r2
    BY <1>1, FitImageTwice
  <2>3. d2.info.os = Invalid /\ FitImage(d2, d2.info.os, NoAddr) = d2
    BY <1>3, FitImageTwice
  <2> QED BY <2>1, <2>2, <2>3
<1>5. /\ k2.info.os = k.info.os /\ k2.info.arch = k.info.arch
      /\ r2.info.os = r.info.os /\ r2.info.arch = r.info.arch
      /\ d2.info.arch = d.info.arch
  BY <1>1, <1>3, FitImageTwice DEF Images
<1>6. k2.info = [k.info EXCEPT !.name = NoName]
  <2>1. k2.info = [os |-> k.info.os, arch |-> k.info.arch, type |-> k.info.type,
                   name |-> NoName, addr |-> k.info.addr]
    BY <1>3 DEF FitImage, Images, ImagesOf
  <2>2. k.info \in Infos
    BY DEF Images, ImagesOf
  <2> QED BY <2>1, <2>2 DEF Infos
<1>7. f = [fmt |-> "fit", kernel |-> k2, ramdisk |-> r2, fdt |-> d2]
  BY DEF Fit
<1> HIDE DEF f, k2, r2, d2
<1>8. /\ r2 \in Images /\ r2.data \in FsData /\ d2 \in Images
  BY <1>2, SmallerPayloads DEF ImagesOf
<1>9. /\ ReadKernel("fit", f) = k2 /\ ReadFs("fit", f) = r2
      /\ ReadDtb("fit", f) = d2
  BY <1>2, <1>7, <1>8, ImagesAreRead DEF ReadKernel, ReadFs, ReadDtb, FitNode
<1>10. Read(k2) /\ Read(r2) /\ Read(d2)
  BY <1>2, <1>8, ImagesAreRead
<1>11. FitReady(k2, r2, d2)
  BY <1>2, <1>5 DEF FitReady
<1>12. Fit(k2, r2, d2) = f
  BY <1>4, <1>7 DEF Fit
<1> QED BY <1>2, <1>6, <1>9, <1>10, <1>11, <1>12 DEF f

----------------------------------------------------------------------------
(* What set does to an image *)

LEMMA DescribedResult ==
  ASSUME NEW D, NEW x \in ImagesOf(D), NEW param \in DOMAIN Values,
         NEW v \in Values[param]
  PROVE  Described(x, param, v) \in ImagesOf(D)
<1> DEFINE i == [x.info EXCEPT ![param] = v]
<1>1. x.info \in Infos
  BY DEF ImagesOf
<1>2. i \in Infos
  <2>1. param \in {"os", "arch", "type", "name"}
    BY DEF Values
  <2>2. CASE param = "os"
    BY <2>2, <1>1 DEF Values, Infos
  <2>3. CASE param = "arch"
    BY <2>3, <1>1 DEF Values, Infos
  <2>4. CASE param = "type"
    BY <2>4, <1>1 DEF Values, Infos
  <2>5. CASE param = "name"
    BY <2>5, <1>1 DEF Values, Infos
  <2> QED BY <2>1, <2>2, <2>3, <2>4, <2>5
<1>3. Described(x, param, v) = [x EXCEPT !.info = i]
  BY DEF Described
<1> HIDE DEF i
<1> QED BY <1>2, <1>3 DEF ImagesOf

----------------------------------------------------------------------------
(* The steps *)

IInv == TypeOK /\ StoredFilesLoad

\* Steps that leave the files alone.
LEMMA MemoryStep ==
  ASSUME IInv, UNCHANGED disk,
         Slot(kernel', Payloads), Slot(fs', FsData \cup {EmptyFs}), Slot(dtb', Trees),
         reply' \in {"Ok", "Warning", "Error", "Exception"}
  PROVE  IInv'
BY DEF IInv, TypeOK, StoredFilesLoad, Slot

\* Steps that write a file.
LEMMA WriteStep ==
  ASSUME IInv, NEW p \in Outs, NEW f \in Files, FileLoads(f), Write(p, f)
  PROVE  IInv'
<1>1. p \in Paths
  BY ProcessorAssumption
<1>2. disk' = [disk EXCEPT ![p] = f] /\ reply' = "Ok" /\ UNCHANGED slots
  BY DEF Write, Answer
<1>3. TypeOK'
  BY <1>1, <1>2 DEF IInv, TypeOK, Slot, slots
<1>4. \A q \in Outs : disk'[q] = disk[q] \/ disk'[q] = f
  BY <1>2, ProcessorAssumption DEF IInv, TypeOK
<1>5. StoredFilesLoad'
  BY <1>4 DEF IInv, StoredFilesLoad
<1> QED BY <1>3, <1>5 DEF IInv

LEMMA RefuseStep ==
  ASSUME IInv, NEW s \in {"Ok", "Error"}, Refuse(s)
  PROVE  IInv'
BY MemoryStep DEF Refuse, Answer, slots, IInv, TypeOK, Slot

LEMMA CrashStep ==
  ASSUME IInv, Crash
  PROVE  IInv'
BY MemoryStep DEF Crash, Answer, Slot

LEMMA LoadKernelStep ==
  ASSUME IInv, NEW p \in Paths, NEW format \in {"gz", "fit"}, LoadKernel(p, format)
  PROVE  IInv'
<1> DEFINE x == ReadKernel(format, disk[p])
<1>1. Found(p) => disk[p] \in Files
  BY DEF Found, IInv, TypeOK
<1>2. Found(p) => x \in Images \cup Fails
  BY <1>1, ReadKernelResult
<1>3. ASSUME Found(p), x \notin Fails, kernel' = x, Replaced(kernel # NoImage),
             UNCHANGED <<fs, dtb, disk>>
      PROVE  IInv'
  BY <1>2, <1>3, MemoryStep DEF Replaced, Answer, IInv, TypeOK, Slot, Images
<1> QED BY <1>3, RefuseStep, CrashStep DEF LoadKernel, Fails

LEMMA LoadFsStep ==
  ASSUME IInv, NEW p \in Paths, NEW format \in {"cpio", "gz", "legacy", "fit"},
         LoadFs(p, format)
  PROVE  IInv'
<1> DEFINE x == ReadFs(format, disk[p])
<1>1. Found(p) => disk[p] \in Files
  BY DEF Found, IInv, TypeOK
<1>2. Found(p) => x \in ImagesOf(FsData) \cup Fails
  BY <1>1, ReadFsResult
<1>3. ASSUME Found(p), x \notin Fails, fs' = x, Replaced(FsLoaded),
             UNCHANGED <<kernel, dtb, disk>>
      PROVE  IInv'
  BY <1>2, <1>3, MemoryStep, SmallerPayloads DEF Replaced, Answer, IInv, TypeOK, Slot
<1> QED BY <1>3, RefuseStep, CrashStep DEF LoadFs, Fails

LEMMA LoadDtbStep ==
  ASSUME IInv, NEW p \in Paths, NEW format \in {"dtb", "fit"}, LoadDtb(p, format)
  PROVE  IInv'
<1> DEFINE x == ReadDtb(format, disk[p])
<1>1. Found(p) => disk[p] \in Files
  BY DEF Found, IInv, TypeOK
<1>2. Found(p) => x \in ImagesOf(Trees) \cup Fails
  BY <1>1, ReadDtbResult
<1>3. ASSUME Found(p), x # Throws, dtb' = DtbOf(x), Answer("Ok"),
             UNCHANGED <<kernel, fs, disk>>
      PROVE  IInv'
  <2>1. DtbOf(x) \in ImagesOf(Trees)
    BY <1>2, <1>3, DtbOfResult
  <2> QED BY <2>1, <1>3, MemoryStep DEF Answer, IInv, TypeOK, Slot
<1> QED BY <1>3, RefuseStep, CrashStep DEF LoadDtb

LEMMA LoadAllStep ==
  ASSUME IInv, NEW p \in Paths, LoadAll(p)
  PROVE  IInv'
<1> DEFINE k == ReadKernel("fit", disk[p])
           r == ReadFs("fit", disk[p])
           d == ReadDtb("fit", disk[p])
<1>1. Found(p) => disk[p] \in Files
  BY DEF Found, IInv, TypeOK
<1>2. Found(p) => /\ k \in Images \cup Fails
                  /\ r \in ImagesOf(FsData) \cup Fails
                  /\ d \in ImagesOf(Trees) \cup Fails
  BY <1>1, ReadKernelResult, ReadFsResult, ReadDtbResult
<1>3. ASSUME Found(p), k \notin Fails, kernel' = k, UNCHANGED <<fs, dtb, disk>>,
             reply' \in {"Warning", "Error"}
      PROVE  IInv'
  BY <1>2, <1>3, MemoryStep DEF IInv, TypeOK, Slot, Images
<1>4. ASSUME Found(p), k \notin Fails, r \notin Fails, kernel' = k, fs' = r,
             UNCHANGED <<dtb, disk>>, reply' = "Warning"
      PROVE  IInv'
  BY <1>2, <1>4, MemoryStep, SmallerPayloads DEF IInv, TypeOK, Slot, Images
<1>5. ASSUME Found(p), k \notin Fails, r \notin Fails, d # Throws,
             kernel' = k, fs' = r, dtb' = DtbOf(d), UNCHANGED disk, reply' = "Ok"
      PROVE  IInv'
  <2>1. DtbOf(d) \in ImagesOf(Trees)
    BY <1>2, <1>5, DtbOfResult
  <2> QED BY <2>1, <1>2, <1>5, MemoryStep, SmallerPayloads
          DEF IInv, TypeOK, Slot, Images
<1>6. {k, r} \cap Fails = {} => k \notin Fails /\ r \notin Fails
  OBVIOUS
<1> HIDE DEF k, r, d
<1> QED BY <1>3, <1>4, <1>5, <1>6, RefuseStep, CrashStep
        DEF LoadAll, Answer, Fails, k, r, d

LEMMA SetStep ==
  ASSUME IInv, NEW param \in DOMAIN Values, NEW v,
         SetKernel(param, v) \/ SetFs(param, v) \/ SetDtb(param, v)
  PROVE  IInv'
<1>1. \A D : \A x \in ImagesOf(D) : CanSet(x, param, v) =>
        Described(x, param, v) \in ImagesOf(D)
  BY DescribedResult DEF CanSet
<1>2. CASE SetKernel(param, v)
  <2>1. ASSUME CanSet(kernel, param, v), kernel' = Described(kernel, param, v),
               Answer("Ok"), UNCHANGED <<fs, dtb, disk>>
        PROVE  IInv'
    BY <1>1, <2>1, MemoryStep DEF CanSet, Answer, IInv, TypeOK, Slot
  <2> QED BY <1>2, <2>1, RefuseStep DEF SetKernel
<1>3. CASE SetFs(param, v)
  <2>1. ASSUME CanSet(fs, param, v), fs' = Described(fs, param, v),
               Answer("Ok"), UNCHANGED <<kernel, dtb, disk>>
        PROVE  IInv'
    BY <1>1, <2>1, MemoryStep DEF CanSet, Answer, IInv, TypeOK, Slot
  <2> QED BY <1>3, <2>1, RefuseStep DEF SetFs
<1>4. CASE SetDtb(param, v)
  <2>1. ASSUME CanSet(dtb, param, v), dtb' = Described(dtb, param, v),
               Answer("Ok"), UNCHANGED <<kernel, fs, disk>>
        PROVE  IInv'
    BY <1>1, <2>1, MemoryStep DEF CanSet, Answer, IInv, TypeOK, Slot
  <2> QED BY <1>4, <2>1, RefuseStep DEF SetDtb
<1> QED BY <1>2, <1>3, <1>4

LEMMA StoreStep ==
  ASSUME IInv, NEW p \in Outs, Store(p)
  PROVE  IInv'
<1>1. /\ FsLoaded => fs \in ImagesOf(FsData)
      /\ dtb # NoImage => dtb \in ImagesOf(Trees)
      /\ kernel # NoImage => kernel \in Images
  BY DEF FsLoaded, IInv, TypeOK, Slot, ImagesOf, Images
<1>2. CASE StoreCpio(p)
  BY <1>1, <1>2, FsFileLoads, WriteStep, RefuseStep DEF StoreCpio
<1>3. CASE StoreGz(p)
  BY <1>1, <1>3, FsFileLoads, WriteStep, RefuseStep DEF StoreGz
<1>4. CASE StoreLegacy(p)
  BY <1>1, <1>4, FsFileLoads, WriteStep, RefuseStep DEF StoreLegacy
<1>5. CASE StoreDtb(p)
  BY <1>1, <1>5, DtbFileLoads, WriteStep, RefuseStep DEF StoreDtb
<1>6. CASE StoreAll(p)
  <2>1. CanStoreAll /\ FitReady(kernel, fs, dtb) =>
          Fit(kernel, fs, dtb) \in Files /\ FileLoads(Fit(kernel, fs, dtb))
    BY <1>1, FitFileLoads DEF CanStoreAll, DtbLoaded
  <2> QED BY <2>1, <1>6, WriteStep, RefuseStep DEF StoreAll
<1> QED BY <1>2, <1>3, <1>4, <1>5, <1>6 DEF Store

LEMMA EditStep ==
  ASSUME IInv, Edit
  PROVE  IInv'
<1>1. fs \in ImagesOf(FsData \cup {EmptyFs})
  BY DEF Edit, IInv, TypeOK, Slot
<1>2. ASSUME NEW d \in FsData \cup {EmptyFs}, fs' = [fs EXCEPT !.data = d],
             Answer("Ok"), UNCHANGED <<kernel, dtb, disk>>
      PROVE  IInv'
  <2>1. fs' \in ImagesOf(FsData \cup {EmptyFs})
    BY <1>1, <1>2 DEF ImagesOf
  <2> QED BY <2>1, <1>2, MemoryStep DEF Answer, IInv, TypeOK, Slot
<1> QED BY <1>2, CrashStep DEF Edit

----------------------------------------------------------------------------
(* The theorems *)

LEMMA Initially == Init => IInv
BY ProcessorAssumption DEF Init, IInv, TypeOK, StoredFilesLoad, Slot

LEMMA Preserved == IInv /\ [Next]_vars => IInv'
<1> SUFFICES ASSUME IInv, [Next]_vars PROVE IInv'
  OBVIOUS
<1>1. ASSUME NEW p \in Paths, Load(p) PROVE IInv'
  BY <1>1, LoadKernelStep, LoadFsStep, LoadDtbStep, LoadAllStep DEF Load
<1>2. CASE Set
  <2>1. ASSUME NEW say \in Said,
               SetKernel(say[1], say[2]) \/ SetFs(say[1], say[2])
                 \/ SetDtb(say[1], say[2])
        PROVE  IInv'
    <3>1. say[1] \in DOMAIN Values
      BY ProcessorAssumption DEF Values
    <3> QED BY <2>1, <3>1, SetStep
  <2>2. CASE SetAll
    BY <2>2, RefuseStep, CrashStep DEF SetAll
  <2> QED BY <1>2, <2>1, <2>2 DEF Set
<1>3. ASSUME NEW p \in Outs, Store(p) PROVE IInv'
  BY <1>3, StoreStep
<1>4. CASE Edit
  BY <1>4, EditStep
<1>5. CASE UNCHANGED vars
  BY <1>5 DEF vars, IInv, TypeOK, StoredFilesLoad, Slot
<1> QED BY <1>1, <1>2, <1>3, <1>4, <1>5 DEF Next

LEMMA Always == Spec => []IInv
BY Initially, Preserved, PTL DEF Spec

\* At every moment of every script each slot is null or holds an image whose
\* data is of the kind its readers produce, and every file is of a known form
\* (the fields of BaseImageBlob and what Load.cs assigns to them).
THEOREM TypeCorrect == Spec => []TypeOK
BY Always, PTL DEF IInv

\* Whatever was loaded, set, edited and stored before, a file that store wrote
\* is read back by the readers of its format (Store.cs against Load.cs).
THEOREM StoredFilesAreReadable == Spec => []StoredFilesLoad
BY Always, PTL DEF IInv

\* Kernel, ramfs and device tree of a FIT image that a script can write make the
\* same three again when they are loaded, and the same file when they are
\* written once more (FitWriter.cs against the FitReaders).
THEOREM FitRoundTrip == Spec => []FitReadsBack
<1>1. TypeOK => FitReadsBack
  <2> SUFFICES ASSUME TypeOK, CanStoreAll, FitReady(kernel, fs, dtb),
                      Nameable(kernel), Nameable(fs), Nameable(dtb)
               PROVE  FitReadsBack
    BY DEF FitReadsBack
  <2>1. /\ kernel \in Images /\ fs \in ImagesOf(FsData) /\ dtb \in ImagesOf(Trees)
        /\ dtb.data # EmptyDtb
    BY DEF CanStoreAll, FsLoaded, DtbLoaded, TypeOK, Slot, Images, ImagesOf
  <2> QED BY <2>1, FitFileSays DEF FitReadsBack
<1> QED BY <1>1, TypeCorrect, PTL

----------------------------------------------------------------------------
(* What an error costs *)

Spared == reply' = "Error" => /\ UNCHANGED <<fs, dtb, disk>>
                              /\ kernel # NoImage => UNCHANGED kernel

LEMMA OtherAnswers ==
  /\ \A s : Refuse(s) => Spared
  /\ Crash => Spared
  /\ \A s : Answer(s) /\ s # "Error" => Spared
  /\ \A loaded : Replaced(loaded) => Spared
  /\ \A p, f : Write(p, f) => Spared
BY DEF Refuse, Crash, Answer, Replaced, Write, slots, Spared

\* The one step that changes a slot before it fails is load of a FIT image whose
\* ramfs is not read: the kernel's slot was empty when it was filled.
LEMMA LoadSpares ==
  ASSUME NEW p, Load(p)
  PROVE  Spared
<1>1. ASSUME NEW format, LoadKernel(p, format) PROVE Spared
  BY <1>1, OtherAnswers DEF LoadKernel
<1>2. ASSUME NEW format, LoadFs(p, format) PROVE Spared
  BY <1>2, OtherAnswers DEF LoadFs
<1>3. ASSUME NEW format, LoadDtb(p, format) PROVE Spared
  BY <1>3, OtherAnswers DEF LoadDtb
<1>4. CASE LoadAll(p)
  <2>1. ASSUME kernel = NoImage, UNCHANGED <<fs, dtb, disk>> PROVE Spared
    BY <2>1 DEF Spared
  <2> QED
    BY <1>4, <2>1, OtherAnswers DEF LoadAll
<1> QED
  BY <1>1, <1>2, <1>3, <1>4 DEF Load

LEMMA StepSpares ==
  ASSUME [Next]_vars
  PROVE  Spared
<1>1. CASE UNCHANGED vars
  BY <1>1 DEF vars, Spared
<1>2. ASSUME NEW param, NEW v, SetKernel(param, v) \/ SetFs(param, v) \/ SetDtb(param, v)
      PROVE  Spared
  BY <1>2, OtherAnswers DEF SetKernel, SetFs, SetDtb
<1>3. CASE SetAll
  BY <1>3, OtherAnswers DEF SetAll
<1>4. ASSUME NEW p, Store(p) PROVE Spared
  BY <1>4, OtherAnswers DEF Store, StoreCpio, StoreGz, StoreLegacy, StoreDtb, StoreAll
<1>5. CASE Edit
  BY <1>5, OtherAnswers DEF Edit
<1> QED
  BY <1>1, <1>2, <1>3, <1>4, <1>5, LoadSpares DEF Next, Set

\* A step that answers Error has changed no file and no image that was there:
\* what the script has so far is what it had before (Load.cs, Set.cs, Store.cs).
THEOREM ErrorsAreHarmless == Spec => ErrorCostsNothing
<1>1. [Next]_vars => (reply' = "Error" => /\ UNCHANGED <<fs, dtb, disk>>
                                          /\ kernel # NoImage => UNCHANGED kernel)
  BY StepSpares DEF Spared
<1> QED
  BY <1>1, PTL DEF Spec, ErrorCostsNothing

=============================================================================
