--------------------------- MODULE MCVolumeCreate ---------------------------
(* Requests that make volumes, all the replicated ones in one group. *)
EXTENDS VolumeCreate, TLC

CONSTANTS v1, v2, v3, r1, Failures, UndoFailures, Timeouts, Removals

MCLimit == "failure" :> Failures @@ "undo_failure" :> UndoFailures
           @@ "timeout" :> Timeouts @@ "removal" :> Removals

MCSymmetry == Permutations({v1, v2, v3})
=============================================================================
