------------------------------ MODULE MCRecordAR ------------------------------
(***************************************************************************)
(* Instances of RecordAR for TLC: the methods the app calls in each run.   *)
(***************************************************************************)
EXTENDS RecordAR

AllUses == {"record", "recordForDuration", "pause", "stop", "stopAndExport",
            "cancel", "prepare"}

\* A recording that begins and ends.
StoppingUses == {"record", "stop", "cancel"}

=============================================================================
