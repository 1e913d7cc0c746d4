---------------------------- MODULE FencedVolume ----------------------------
(***************************************************************************)
(* What volume fencing promises to containers: a volume serves containers  *)
(* of one node at a time, a container keeps the volume until it lets go of *)
(* it, and another node gets the volume only by taking it from all of them *)
(* at once.                                                                *)
(***************************************************************************)
CONSTANTS Node, MountId, NodeOf

VARIABLE serving  \* the mounts through which the volume can be reached

TypeOK == serving \subseteq MountId

Init == serving = {}

\* A mount succeeds: only next to others of the same node.
Start(m) ==
  /\ m \notin serving
  /\ \A x \in serving : NodeOf[x] = NodeOf[m]
  /\ serving' = serving \union {m}

\* A container lets go of the volume.
Stop(m) ==
  /\ m \in serving
  /\ serving' = serving \ {m}

\* A node takes the volume away from the containers of another one.
TakeOver(n) ==
  /\ serving # {}
  /\ \A x \in serving : NodeOf[x] # n
  /\ serving' = {}

Next ==
  \/ \E m \in MountId : Start(m) \/ Stop(m)
  \/ \E n \in Node : TakeOver(n)

Spec == Init /\ [][Next]_serving
=============================================================================
