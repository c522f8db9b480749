---------------------------- MODULE MCExt4Journal ----------------------------
(***************************************************************************)
(* The journal on a small device, against what a journal promises: one     *)
(* block of metadata with the cache writing back, two with it writing      *)
(* through, and a log that is reused several times.                        *)
(***************************************************************************)
EXTENDS Ext4Journal

CONSTANTS Plain, Other

MC_Pool == {"x", "y"}
MC_Values == {Plain, Other, Magic}
MC_Through == [writeBack |-> FALSE, maxlen |-> 8, values |-> {Plain, Magic},
               pool |-> {"x"}, maxId |-> 4, sessions |-> 2]
MC_Back == [writeBack |-> TRUE, maxlen |-> 8, values |-> {Plain, Other},
            pool |-> {"x"}, maxId |-> 4, sessions |-> 2]
MC_BackLong == [MC_Back EXCEPT !.maxlen = 20]
MC_BackTwo == [writeBack |-> TRUE, maxlen |-> 20, values |-> {Plain, Other},
               pool |-> {"x", "y"}, maxId |-> 3, sessions |-> 1]
MC_Setups == {MC_Through, MC_Back, MC_BackLong, MC_BackTwo}
MC_StopLast == {2}

\* A first session that ends in order, and one after it.
MC_OneThrough == {MC_Through}
MC_StopFirst == {1}

\* A log so long that nothing has to be written to its place.
MC_OneLong == {[MC_BackLong EXCEPT !.sessions = 1]}
=============================================================================
