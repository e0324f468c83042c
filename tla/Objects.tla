------------------------------ MODULE Objects ------------------------------
(***************************************************************************)
(* The objects that stand on their own: a process uses one of them, chosen *)
(* at its start, in any order of calls.  They share no state, so that what *)
(* is checked of each for itself is true of all of them together.          *)
(***************************************************************************)
EXTENDS BufferManager, PointerLookup, Bitlist, TLV, MemMonitor, ObjectManager

VARIABLE using

allVars == <<using, bufferVars, lookupVars, bitVars, tlvVars, monitorVars, omVars>>

EachStarts == /\ BufferInit /\ LookupInit /\ BitInit /\ TLVInit /\ MonitorInit
              /\ OMInit /\ (using # "manager" => files["om"] = NoFile)

Init == /\ using \in {"buffers", "pointers", "bits", "tlvs", "monitor", "manager"}
        /\ EachStarts

UsesBuffers == /\ using = "buffers" /\ BufferNext
               /\ UNCHANGED <<using, lookupVars, bitVars, tlvVars, monitorVars, omVars>>

UsesPointers == /\ using = "pointers" /\ LookupNext
                /\ UNCHANGED <<using, bufferVars, bitVars, tlvVars, monitorVars, omVars>>

UsesBits == /\ using = "bits" /\ BitNext
            /\ UNCHANGED <<using, bufferVars, lookupVars, tlvVars, monitorVars, omVars>>

UsesTLVs == /\ using = "tlvs" /\ TLVNext
            /\ UNCHANGED <<using, bufferVars, lookupVars, bitVars, monitorVars, omVars>>

UsesMonitor == /\ using = "monitor" /\ MonitorNext
               /\ UNCHANGED <<using, bufferVars, lookupVars, bitVars, tlvVars, omVars>>

UsesManager == /\ using = "manager" /\ OMNext
               /\ UNCHANGED <<using, bufferVars, lookupVars, bitVars, tlvVars, monitorVars>>

Next == \/ UsesBuffers \/ UsesPointers \/ UsesBits
        \/ UsesTLVs \/ UsesMonitor \/ UsesManager

Spec == Init /\ [][Next]_allVars
=============================================================================
