---------------------------- MODULE MCVolumeMount ----------------------------
(* Two nodes; two mount ids on the first, one on the second. *)
EXTENDS VolumeMount, TLC

CONSTANTS n1, n2, c1, c2, c3, Requests, Timeouts, Expiries, Failures

MCNodeOf == c1 :> n1 @@ c2 :> n1 @@ c3 :> n2

MCLimit == "request" :> Requests @@ "timeout" :> Timeouts
             @@ "expiry" :> Expiries @@ "failure" :> Failures

MCSymmetry == Permutations({c1, c2})
=============================================================================
