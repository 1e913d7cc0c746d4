--------------------------- MODULE MCBackendRouting ---------------------------
(* Two nodes, a volume and its snapshot; two backends of the block driver and one
   of the file driver. *)
EXTENDS BackendRouting, TLC

CONSTANTS n1, n2, db1, snap1, Creates, Removes, Lookups, Faults

MCLimit == "create" :> Creates @@ "remove" :> Removes
             @@ "lookup" :> Lookups @@ "fault" :> Faults

\* A volume on the default backend and on the other one, an import, a snapshot, and
\* shares.
MCRequest ==
  {"size" :> "good",
   "backend" :> "array2",
   "importVol" :> "good" @@ "backend" :> "array2",
   "virtualCopyOf" :> "good",
   "filePersona" :> "empty"}

MCSymmetry == Permutations({n1, n2})
=============================================================================
