---------------------------- MODULE MCHostAccess ----------------------------
(* Two volumes of one node, attached, detached and evicted at the same time. *)
EXTENDS HostAccess, TLC

CONSTANTS v1, v2, p1, p2, Failures, Requests

MCLimit == "failure" :> Failures @@ "request" :> Requests

MCSymmetry == Permutations({v1, v2}) \union Permutations({p1, p2})
=============================================================================
