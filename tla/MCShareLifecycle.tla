-------------------------- MODULE MCShareLifecycle --------------------------
(* The share logs on a default FPG, the share data on an administrator's or on the same. *)
EXTENDS ShareLifecycle, TLC

CONSTANTS logs, data, media, cache, cpg1, cpg2, DockerFpg_1, DockerFpg_2, DockerFpg_3,
          legacy, ip1, ip2, ip9, old1, old2, c1, c2, c3

Create(share, cpg, fpg) == [op |-> "create", share |-> share, cpg |-> cpg, fpg |-> fpg]
Remove(share) == [op |-> "remove", share |-> share, cpg |-> None, fpg |-> None]

MCStock ==
  DockerFpg_1 :> [cpg |-> cpg1, ip |-> ip1, owned |-> TRUE]
    @@ legacy :> [cpg |-> cpg1, ip |-> ip9, owned |-> FALSE]

MCPastRequest ==
  old1 :> Create(logs, cpg1, None) @@ old2 :> Create(data, cpg1, legacy)

MCPastFpg == old1 :> DockerFpg_1 @@ old2 :> legacy

MCRequest ==
  { Create(media, cpg1, None), Create(cache, cpg2, None), Create(data, cpg1, legacy),
    Create(logs, cpg1, DockerFpg_1), Remove(logs), Remove(data), Remove(media) }

MCSymmetry == Permutations({c1, c2, c3})
=============================================================================
