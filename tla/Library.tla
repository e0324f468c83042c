------------------------------ MODULE Library ------------------------------
(***************************************************************************)
(* A process that uses one of Objects or the event manager.  None of these *)
(* has state in common with another, or calls another's operations, so     *)
(* that what is true of each for itself is true of all of them together.   *)
(***************************************************************************)
EXTENDS Objects, EventManager

libraryVars == <<allVars, eventVars>>

LibraryInit == /\ using \in {"buffers", "pointers", "bits", "tlvs", "monitor", "manager",
                             "events"}
               /\ EachStarts /\ EventInit

UsesObjects == Next /\ UNCHANGED eventVars

UsesEvents == using = "events" /\ EventNext /\ UNCHANGED allVars

LibraryNext == UsesObjects \/ UsesEvents

LibrarySpec == LibraryInit /\ [][LibraryNext]_libraryVars
=============================================================================
