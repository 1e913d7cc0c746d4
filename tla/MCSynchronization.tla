-------------------------- MODULE MCSynchronization --------------------------
(* Three calls and two names: the volume v and its snapshot s. *)
EXTENDS Synchronization, TLC

CONSTANTS v, s, first, second, third

\* create_snapshot(s of v) and clone_volume(v to s) take the names in opposite
\* orders; create_volume(v) joins a remote copy group that is named v as well, and
\* waits for itself.
MCInverted == first :> <<s, v>> @@ second :> <<v, s>> @@ third :> <<v, v>>
=============================================================================
