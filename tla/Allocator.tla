----------------------------- MODULE Allocator -----------------------------
(***************************************************************************)
(* What CollectedHeap promises its users: allocate returns a range of the  *)
(* heap that overlaps no object in use, and the only way an object stops   *)
(* being in use is that the collector hands it to memoryFreed.  How blocks *)
(* are kept is not visible here.  The module is only ever implemented,     *)
(* never run: its actions read the new value of objects.                   *)
(***************************************************************************)
EXTENDS HeapBlock

CONSTANT RawSizes    \* the sizes mutators ask for

VARIABLES objects,   \* objects in use
          condemned  \* objects the collector has handed to memoryFreed

allocatorVars == <<objects, condemned>>

apart(o, p) == extentEnd(o) <= p.addr \/ extentEnd(p) <= o.addr

AllocatorInit == objects = {} /\ condemned = {}

Hand ==
    /\ condemned = {}
    /\ UNCHANGED condemned
    /\ \E o \in objects' \ objects :
         /\ objects' = objects \cup {o}
         /\ o.size \in RawSizes /\ 0 <= o.addr /\ extentEnd(o) <= heapSize
         /\ \A p \in objects : apart(o, p)

Condemn ==
    /\ condemned = {}
    /\ condemned' \in SUBSET objects
    /\ UNCHANGED objects

Release(o) ==
    /\ o \in condemned
    /\ objects' = objects \ {o}
    /\ condemned' = condemned \ {o}

AllocatorNext ==
    \/ Hand
    \/ Condemn
    \/ \E o \in condemned : Release(o)

AllocatorSpec == AllocatorInit /\ [][AllocatorNext]_allocatorVars
=============================================================================
