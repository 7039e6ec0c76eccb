------------------------------- MODULE VostPack -------------------------------
(***************************************************************************)
(* GitStore::pack and gc (gitstore.cpp): the objects of a repository are   *)
(* collected, written to one pack, and the loose files of all of them      *)
(* removed, one by one, without vost.lock: other processes write objects,  *)
(* and pack, at the same time, and a call may fail or its process die.     *)
(* An object is a commit's index; trees and blobs share its fate.          *)
(***************************************************************************)
EXTENDS Naturals, FiniteSets

CONSTANTS
    Object,          \* the objects there may be
    Packer,          \* the handles pack() is called on
    InsertsFail      \* whether git_packbuilder_insert may fail

ASSUME PackAssumption == IsFiniteSet(Object) /\ InsertsFail \in BOOLEAN

VARIABLES
    loose,       \* objects that have a loose file
    packed,      \* objects in some pack
    packing      \* per handle, how far pack() is: [pc, oids, count]

packVars == <<loose, packed, packing>>

(* The objects a reader finds.                                             *)
Readable == loose \cup packed

NotPacking == [pc |-> "idle", oids |-> {}, count |-> 0]

PackInit ==
    /\ loose = {} /\ packed = {}
    /\ packing = [p \in Packer |-> NotPacking]

(* git_odb_foreach.  An empty repository is left alone.                    *)
CollectOids(p) ==
    /\ packing[p].pc = "idle" /\ Readable # {}
    /\ packing' = [packing EXCEPT ![p] = [pc |-> "write", oids |-> Readable, count |-> 0]]
    /\ UNCHANGED <<loose, packed>>

(* Mistaken: the loose files are removed before the pack is there.         *)
WritePackLast(p) ==
    /\ packing[p].pc = "write"
    /\ loose' = loose \ packing[p].oids
    /\ packing' = [packing EXCEPT ![p].pc = "remove", ![p].count = Cardinality(packing[p].oids)]
    /\ UNCHANGED packed

(* An object whose insertion fails is skipped.  The pack appears under its *)
(* name when it is complete.                                               *)
WritePack(p) ==
    /\ packing[p].pc = "write"
    /\ \E skipped \in IF InsertsFail THEN SUBSET packing[p].oids ELSE {{}} :
          LET inserted == packing[p].oids \ skipped
          IN /\ packed' = packed \cup inserted
             /\ packing' = [packing EXCEPT
                  ![p] = IF inserted = {} THEN NotPacking
                         ELSE [pc |-> "remove", oids |-> packing[p].oids,
                               count |-> Cardinality(inserted)]]
    /\ UNCHANGED loose

(* The loose files of all objects collected go, inserted or not.           *)
RemoveLoose(p) ==
    /\ packing[p].pc = "remove"
    /\ \E o \in packing[p].oids :
          /\ loose' = loose \ {o}
          /\ packing' = IF packing[p].oids = {o} THEN [packing EXCEPT ![p] = NotPacking]
                        ELSE [packing EXCEPT ![p].oids = packing[p].oids \ {o}]
    /\ UNCHANGED packed

(* A call throws, or the process dies.                                     *)
PackFails(p) ==
    /\ packing[p].pc # "idle"
    /\ packing' = [packing EXCEPT ![p] = NotPacking]
    /\ UNCHANGED <<loose, packed>>

PackStep(p) == WritePack(p) \/ RemoveLoose(p) \/ PackFails(p)

(* Any process writes objects as loose files, unless they are there, or,   *)
(* receiving a push, a fetch or a bundle, as a pack.                       *)
StoreLoose(os) == loose' = loose \cup (os \ Readable) /\ UNCHANGED <<packed, packing>>

StorePack(os) == packed' = packed \cup os /\ UNCHANGED <<loose, packing>>

PackNext ==
    \/ \E p \in Packer : CollectOids(p) \/ PackStep(p)
    \/ \E os \in SUBSET Object : StoreLoose(os) \/ StorePack(os)

PackSpec == PackInit /\ [][PackNext]_packVars

-----------------------------------------------------------------------------
PackTypeOK ==
    /\ loose \subseteq Object /\ packed \subseteq Object
    /\ packing \in [Packer -> [pc : {"idle", "write", "remove"}, oids : SUBSET Object,
                               count : Nat]]

(* What the loose files are removed for is in a pack: pack() can stop      *)
(* anywhere, and run twice at once.                                        *)
PackHasRemoved ==
    \A p \in Packer : packing[p].pc = "remove" => packing[p].oids \subseteq packed

(* No object becomes unreadable, whether a reference leads to it or a      *)
(* commit of another process that is about to be made its branch's.        *)
ObjectsKept == [][Readable \subseteq Readable']_packVars
=============================================================================
