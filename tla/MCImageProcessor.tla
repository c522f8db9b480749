-------------------------- MODULE MCImageProcessor --------------------------
(***************************************************************************)
(* Small instances of ImageProcessor: one file to write and a few to read.  *)
(***************************************************************************)
EXTENDS ImageProcessor

CONSTANTS k1, r1, d1, linux, arm

Image(d, os, arch, t, addr) ==
  [data |-> d, info |-> [os |-> os, arch |-> arch, type |-> t, name |-> NoName,
                         addr |-> addr]]

GoodKernel  == Image(k1, linux, arm, "kernel", 1)
GoodRamdisk == Image(r1, linux, arm, "ramdisk", NoAddr)
GoodFdt     == Image(d1, Invalid, arm, "flat_dt", NoAddr)

FitOf(k, r, d) == [fmt |-> "fit", kernel |-> k, ramdisk |-> r, fdt |-> d]

GoodFit == FitOf(GoodKernel, GoodRamdisk, GoodFdt)

\* Files of every format, and FIT images in which a part cannot be read.
GivenFiles ==
  [out |-> GoodFit,
   kgz |-> [fmt |-> "gz", data |-> k1],
   cpio |-> [fmt |-> "cpio", data |-> r1],
   nodisk |-> FitOf(GoodKernel, Incomplete, GoodFdt),
   nofdt |-> FitOf(GoodKernel, GoodRamdisk, Incomplete),
   throws |-> FitOf(Incomplete, Broken, Missing),
   legacy |-> [fmt |-> "legacy", image |-> Image(r1, linux, arm, "ramdisk", 1)],
   none |-> NoFile]

GivenSaid == {<<"os", linux>>, <<"arch", arm>>, <<"arch", Wrong>>, <<"type", "ramdisk">>}

GivenPaths == DOMAIN GivenFiles

=============================================================================
