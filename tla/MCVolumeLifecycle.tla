-------------------------- MODULE MCVolumeLifecycle --------------------------
(* A volume db1 with a snapshot snap1, and three calls. *)
EXTENDS VolumeLifecycle, TLC

CONSTANTS db1, snap1, copy1, volume, snapshot, c1, c2, c3, Failures, Expiries

R(op, name, src) == [op |-> op, name |-> name, src |-> src]

MCPastRequest ==
  volume :> R("create", db1, None) @@ snapshot :> R("snapshot", snap1, db1)

MCPastParent == volume :> None @@ snapshot :> volume

MCRequest ==
  { R("create", db1, None), R("create", copy1, None), R("clone", copy1, db1),
    R("snapshot", snap1, db1), R("snapshot", copy1, db1),
    R("remove", db1, None), R("remove", snap1, None), R("remove", copy1, None),
    R("inspect", db1, None) }

MCLimit == "failure" :> Failures @@ "expiry" :> Expiries

MCSymmetry == Permutations({c1, c2, c3})
=============================================================================
