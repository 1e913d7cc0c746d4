------------------------------ MODULE VolumeCreate ------------------------------
(***************************************************************************)
(* What a volume consists of on the array, and how it is put together and  *)
(* taken apart: create_volume with its undo list, the VV set a volume gets *)
(* for flash cache or QoS, the remote copy group of a replicated one,      *)
(* remove_volume of both, and the import of a volume that exists           *)
(* (volume_manager.py, hpe_3par_common.py).  Every call to the array is an *)
(* action of its own.                                                      *)
(*                                                                         *)
(* A volume is known by the request that makes it, whose id only it has.   *)
(* The requests are on different names, so that the lock of the name does  *)
(* not hold them up; VolumeLifecycle has the ones on the same name.        *)
(***************************************************************************)
EXTENDS Naturals, Sequences, FiniteSets

CONSTANTS
  Volume,  \* the volumes that requests make
  Ref,     \* volumes that an administrator made on the array
  None,    \* no request, no such volume
  Free,    \* nobody holds the lock of the group
  Limit    \* how often each kind of event below may happen

\* A call that raises, and one that raises while it undoes another; a lock of the
\* group that is not acquired in time; a request to remove a volume.
Event == {"failure", "undo_failure", "timeout", "removal"}

\* What volumedriver_create lets through: a plain volume, one with flash-cache,
\* with qos-name, or with replicationGroup.
Kind == {"plain", "flash", "qos", "replicated"}

Request == [kind : Kind, ref : {None}] \union [kind : {"import"}, ref : Ref]

ASSUME CreateAssumption ==
  /\ None \notin Ref
  /\ Volume \intersect Ref = {}
  /\ Free \notin Volume
  /\ Limit \in [Event -> Nat]

VARIABLES
  req,    \* the request that makes each volume
  pc,     \* where its thread is
  asked,  \* the volumes someone has asked to remove
  undo,   \* undo_steps of the thread
  found,  \* rcg_info, the local variable: what _find_rcg or _create_rcg returned
  info,   \* vol['rcg_info'], in the thread and in the record
  saved,  \* the volumes with a record in etcd
  disk,   \* volumes on the array
  from,   \* what a volume was called on the array before its import
  vvs,    \* VV sets named after a volume
  member, \* the volumes in the set of their request
  group,  \* the remote copy group
  lock,   \* holder of the etcd lock of the group
  used    \* how many events of each kind have happened

thread == <<req, pc, asked, undo, found, info>>
array == <<disk, from, vvs, member, group>>
vars == <<thread, saved, array, lock, used>>

-----------------------------------------------------------------------------
Making == {"qos", "create", "vvs", "policy", "join", "find", "lock", "new_group", "tune",
           "fetch", "state", "stop", "add", "start", "save"}
Importing == {"detail", "rename", "renamed", "import_save"}
Removing == {"delete", "role", "halt", "leave", "erase", "recount", "drop", "restart",
             "unrecord"}

\* "undo" runs _rollback; "made", "failed" and "removed" are ends, and "kept" that
\* of a removal that failed.
Point == Making \union Importing \union Removing
           \union {"idle", "undo", "made", "failed", "kept", "removed"}

Step == {"volume", "vvs", "member", "rcg", "group"}

\* What the record says about replication: nothing, the names of the group, or the
\* error response that the decorator of _create_rcg returns when it has no lock.
Info == {"none", "group", "response"}

TypeOK ==
  /\ req \in [Volume -> Request \union {None}]
  /\ pc \in [Volume -> Point]
  /\ asked \subseteq Volume
  /\ undo \in [Volume -> Seq(Step)]
  /\ found \in [Volume -> Info]
  /\ info \in [Volume -> Info]
  /\ saved \subseteq Volume
  /\ disk \subseteq Volume \union Ref
  /\ from \in [Volume -> Ref \union {None}]
  /\ vvs \subseteq Volume
  /\ member \subseteq Volume
  /\ group \in [exists : BOOLEAN, started : BOOLEAN, vols : SUBSET Volume]
  /\ lock \in Volume \union {Free}
  /\ used \in [Event -> Nat]
  /\ \A e \in Event : used[e] <= Limit[e]

NoGroup == [exists |-> FALSE, started |-> FALSE, vols |-> {}]

Init ==
  /\ req = [v \in Volume |-> None]
  /\ pc = [v \in Volume |-> "idle"]
  /\ asked = {}
  /\ undo = [v \in Volume |-> <<>>]
  /\ found = [v \in Volume |-> "none"]
  /\ info = [v \in Volume |-> "none"]
  /\ saved = {}
  /\ disk = Ref
  /\ from = [v \in Volume |-> None]
  /\ vvs = {}
  /\ member = {}
  /\ group = NoGroup
  /\ lock = Free
  /\ used = [e \in Event |-> 0]

-----------------------------------------------------------------------------
Spend(e) == used[e] < Limit[e] /\ used' = [used EXCEPT ![e] = @ + 1]

GoTo(v, p) == pc' = [pc EXCEPT ![v] = p]

\* The except clause of create_volume; the qos check comes before its try, and an
\* import has a rollback only when saving has failed.
Handler(v) ==
  IF pc[v] \in {"qos", "detail", "rename", "renamed"} THEN "failed"
  ELSE IF pc[v] \in Removing /\ v \in asked THEN "kept"
  ELSE "undo"

\* Whose failure it is when the call at pc raises.
FailureOf(v) ==
  IF pc[v] \in Removing /\ v \notin asked THEN "undo_failure" ELSE "failure"

\* What goes on when delete_volume returns: remove_volume deletes the record, and
\* _rollback takes the next step.
AfterDelete(v) == IF v \in asked THEN "unrecord" ELSE "undo"

\* The exception is raised, by etcd or by the array, which has done nothing.
Raise(v) ==
  /\ GoTo(v, Handler(v))
  /\ lock' = IF lock = v THEN Free ELSE lock
  /\ UNCHANGED <<req, asked, undo, found, info, saved, array>>

\* The calls whose exception goes to the handler; what _rollback and the driver
\* ignore is with their actions.
CallRaises(v) ==
  /\ pc[v] \notin {"idle", "undo", "made", "failed", "kept", "removed", "lock", "halt"}
  /\ Spend(FailureOf(v))
  /\ Raise(v)

\* The array refuses the call, for a reason that is in its state.
Refused(v) == Raise(v) /\ UNCHANGED used

\* A call to the array that works, changing only what the action says.
Works(v, p) ==
  /\ GoTo(v, p)
  /\ UNCHANGED <<req, asked, saved, used>>

\* A success, and the step that would take it back.
Done(v, p, step) ==
  /\ Works(v, p)
  /\ undo' = [undo EXCEPT ![v] = Append(@, step)]

-----------------------------------------------------------------------------
Receive(v, r) ==
  /\ pc[v] = "idle"
  /\ req' = [req EXCEPT ![v] = r]
  /\ GoTo(v, CASE r.kind = "qos" -> "qos" [] r.kind = "import" -> "detail" [] OTHER -> "create")
  /\ UNCHANGED <<asked, undo, found, info, saved, array, lock, used>>

\* get_qos_detail.
CheckQos(v) ==
  /\ pc[v] = "qos"
  /\ Works(v, "create")
  /\ UNCHANGED <<undo, found, info, array, lock>>

CreateVolume(v) ==
  /\ pc[v] = "create"
  /\ Done(v, CASE req[v].kind = "flash" -> "vvs"
               [] req[v].kind = "qos" -> "policy"
               [] req[v].kind = "replicated" -> "find"
               [] OTHER -> "save", "volume")
  /\ disk' = disk \union {v}
  /\ UNCHANGED <<found, info, from, vvs, member, group, lock>>

\* A bug to be noticed: the set is made without an undo step.
CreateVvsForGood(v) ==
  /\ pc[v] = "vvs"
  /\ Works(v, "policy")
  /\ vvs' = vvs \union {v}
  /\ UNCHANGED <<undo, found, info, disk, from, member, group, lock>>

\* A set of its own when the volume asks for flash cache and has none for QoS.
CreateVvs(v) ==
  /\ pc[v] = "vvs"
  /\ Done(v, "policy", "vvs")
  /\ vvs' = vvs \union {v}
  /\ UNCHANGED <<found, info, disk, from, member, group, lock>>

\* set_flash_cache_policy_on_vvs, which nothing takes back.
SetPolicy(v) ==
  /\ pc[v] = "policy"
  /\ Works(v, "join")
  /\ UNCHANGED <<undo, found, info, array, lock>>

JoinVvs(v) ==
  /\ pc[v] = "join"
  /\ Done(v, "save", "member")
  /\ member' = member \union {v}
  /\ UNCHANGED <<found, info, disk, from, vvs, group, lock>>

-----------------------------------------------------------------------------
\* Which calls the array takes: a group is changed while it is stopped, removed
\* when it is stopped and empty, and stopping or starting it twice may be refused.
CanStop == group.exists
CanStart == group.exists
CanAdd == group.exists /\ ~group.started
CanLeave(v) == v \in group.vols /\ ~group.started
CanDropGroup == group.exists /\ ~group.started /\ group.vols = {}

Stop == group' = [group EXCEPT !.started = FALSE]
Start == group' = [group EXCEPT !.started = TRUE]

FindGroup(v) ==
  /\ pc[v] = "find"
  /\ Works(v, IF group.exists THEN "state" ELSE "lock")
  /\ found' = [found EXCEPT ![v] = IF group.exists THEN "group" ELSE @]
  /\ UNCHANGED <<undo, info, array, lock>>

LockGroup(v) ==
  /\ pc[v] = "lock"
  /\ lock = Free
  /\ lock' = v
  /\ Works(v, "new_group")
  /\ UNCHANGED <<undo, found, info, array>>

\* The decorator answers for _create_rcg, and the creation goes on with its answer.
LockTimeout(v) ==
  /\ pc[v] = "lock"
  /\ lock # Free
  /\ Spend("timeout")
  /\ GoTo(v, "state")
  /\ found' = [found EXCEPT ![v] = "response"]
  /\ UNCHANGED <<req, asked, undo, info, saved, array, lock>>

NewGroup(v) ==
  /\ pc[v] = "new_group"
  /\ \/ /\ ~group.exists
        /\ group' = [NoGroup EXCEPT !.exists = TRUE]
        /\ Works(v, "tune")
        /\ UNCHANGED <<undo, found, info, disk, from, vvs, member, lock>>
     \/ group.exists /\ Refused(v)

\* The policies or the period of the group are set.
TuneGroup(v) ==
  /\ pc[v] = "tune"
  /\ Works(v, "fetch")
  /\ UNCHANGED <<undo, found, info, array, lock>>

\* The group is read again, the lock is released, and only now is there an undo step.
FetchGroup(v) ==
  /\ pc[v] = "fetch"
  /\ \/ /\ group.exists
        /\ Done(v, "state", "rcg")
        /\ found' = [found EXCEPT ![v] = "group"]
        /\ lock' = Free
        /\ UNCHANGED <<info, array>>
     \/ ~group.exists /\ Refused(v)

\* add_volume_to_rcg reads whether the group is started ...
ReadState(v) ==
  /\ pc[v] = "state"
  /\ \/ /\ group.exists
        /\ Works(v, IF group.started THEN "stop" ELSE "add")
        /\ UNCHANGED <<undo, found, info, array, lock>>
     \/ ~group.exists /\ Refused(v)

\* ... stops it if so ...
StopGroup(v) ==
  /\ pc[v] = "stop"
  /\ \/ /\ CanStop /\ Stop
        /\ Works(v, "add")
        /\ UNCHANGED <<undo, found, info, disk, from, vvs, member, lock>>
     \/ ~(CanStop /\ group.started) /\ Refused(v)

\* A bug to be noticed: a refusal is taken for a volume that is there already.
AddUnlessRefused(v) ==
  /\ pc[v] = "add"
  /\ Works(v, "start")
  /\ group' = IF CanAdd THEN [group EXCEPT !.vols = @ \union {v}] ELSE group
  /\ UNCHANGED <<undo, found, info, disk, from, vvs, member, lock>>

AddToGroup(v) ==
  /\ pc[v] = "add"
  /\ \/ /\ CanAdd
        /\ group' = [group EXCEPT !.vols = @ \union {v}]
        /\ Works(v, "start")
        /\ UNCHANGED <<undo, found, info, disk, from, vvs, member, lock>>
     \/ ~CanAdd /\ Refused(v)

\* ... and starts it in any case, before there is an undo step for the addition.
StartGroup(v) ==
  /\ pc[v] = "start"
  /\ \/ /\ CanStart /\ Start
        /\ Done(v, "save", "group")
        /\ info' = [info EXCEPT ![v] = found[v]]
        /\ UNCHANGED <<found, disk, from, vvs, member, lock>>
     \/ ~(CanStart /\ ~group.started) /\ Refused(v)

SaveVolume(v) ==
  /\ pc[v] \in {"save", "import_save"}
  /\ saved' = saved \union {v}
  /\ GoTo(v, "made")
  /\ undo' = [undo EXCEPT ![v] = <<>>]
  /\ UNCHANGED <<req, asked, found, info, array, lock, used>>

-----------------------------------------------------------------------------
\* _rollback takes the steps from the last to the first and goes on when one raises.
Top(v) == undo[v][Len(undo[v])]
Pop(v) == undo' = [undo EXCEPT ![v] = SubSeq(@, 1, Len(@) - 1)]

RollingBack(v) == pc[v] = "undo" /\ undo[v] # <<>>

Ignored(v) ==
  /\ Pop(v)
  /\ UNCHANGED <<req, pc, asked, found, info, saved, array, lock>>

UndoRaises(v) == RollingBack(v) /\ Spend("undo_failure") /\ Ignored(v)

\* remove_volume_from_rcg is called with vol_name, looks for bkend_vol_name, and
\* raises KeyError before it has called the array.
UndoGroup(v) ==
  /\ RollingBack(v) /\ Top(v) = "group"
  /\ Ignored(v)
  /\ UNCHANGED used

UndoRcg(v) ==
  /\ RollingBack(v) /\ Top(v) = "rcg"
  /\ \/ /\ CanDropGroup
        /\ group' = NoGroup
        /\ Pop(v)
        /\ UNCHANGED <<req, pc, asked, found, info, saved, disk, from, vvs, member, lock, used>>
     \/ ~CanDropGroup /\ Ignored(v) /\ UNCHANGED used

UndoMember(v) ==
  /\ RollingBack(v) /\ Top(v) = "member"
  /\ member' = member \ {v}
  /\ Pop(v)
  /\ UNCHANGED <<req, pc, asked, found, info, saved, disk, from, vvs, group, lock, used>>

UndoVvs(v) ==
  /\ RollingBack(v) /\ Top(v) = "vvs"
  /\ vvs' = vvs \ {v}
  /\ Pop(v)
  /\ UNCHANGED <<req, pc, asked, found, info, saved, disk, from, member, group, lock, used>>

\* delete_volume looks at the same dictionary that create_volume has put rcg_info in.
DeleteFrom(v) ==
  CASE info[v] = "none" -> "delete" [] info[v] = "group" -> "role" [] OTHER -> "kept"

UndoVolume(v) ==
  /\ RollingBack(v) /\ Top(v) = "volume"
  /\ Pop(v)
  /\ GoTo(v, IF info[v] = "response" THEN "undo" ELSE DeleteFrom(v))
  /\ UNCHANGED <<req, asked, found, info, saved, array, lock, used>>

RollbackEnds(v) ==
  /\ pc[v] = "undo" /\ undo[v] = <<>>
  /\ GoTo(v, "failed")
  /\ UNCHANGED <<req, asked, undo, found, info, saved, array, lock, used>>

-----------------------------------------------------------------------------
\* remove_volume: rcg_info that is no dictionary makes delete_volume raise.
Remove(v) ==
  /\ v \in saved
  /\ pc[v] \in {"made", "kept"}
  /\ Spend("removal")
  /\ asked' = asked \union {v}
  /\ GoTo(v, DeleteFrom(v))
  /\ UNCHANGED <<req, undo, found, info, saved, array, lock>>

\* A volume in a set is taken out of it first, but the set stays; one that is in a
\* group is refused, and one that is gone is as good as deleted.
DeleteVolume(v) ==
  /\ pc[v] = "delete"
  /\ \/ /\ v \notin group.vols
        /\ disk' = disk \ {v}
        /\ member' = member \ {v}
        /\ Works(v, AfterDelete(v))
        /\ UNCHANGED <<undo, found, info, from, vvs, group, lock>>
     \/ v \in group.vols /\ Refused(v)

\* _do_volume_replication_destroy.  A group that is gone raises HTTPNotFound, which
\* delete_volume takes for a volume that is gone.
ReadRole(v) ==
  /\ pc[v] = "role"
  /\ Works(v, IF group.exists THEN "halt" ELSE AfterDelete(v))
  /\ UNCHANGED <<undo, found, info, array, lock>>

\* What stopRemoteCopy raises is ignored.
HaltGroup(v) ==
  /\ pc[v] = "halt"
  /\ GoTo(v, "leave")
  /\ \/ CanStop /\ Stop /\ UNCHANGED used
     \/ ~(CanStop /\ group.started) /\ UNCHANGED <<group, used>>
     \/ Spend(FailureOf(v)) /\ UNCHANGED group
  /\ UNCHANGED <<req, asked, undo, found, info, saved, disk, from, vvs, member, lock>>

\* What removeVolumeFromRemoteCopyGroup raises should be ignored as well, but the
\* handler calls six.iteritems on the exception and raises AttributeError.
LeaveGroup(v) ==
  /\ pc[v] = "leave"
  /\ \/ /\ CanLeave(v)
        /\ group' = [group EXCEPT !.vols = @ \ {v}]
        /\ Works(v, "erase")
        /\ UNCHANGED <<undo, found, info, disk, from, vvs, member, lock>>
     \/ ~CanLeave(v) /\ Refused(v)

EraseVolume(v) ==
  /\ pc[v] = "erase"
  /\ \/ /\ v \in disk
        /\ disk' = disk \ {v}
        /\ Works(v, "recount")
        /\ UNCHANGED <<undo, found, info, from, vvs, member, group, lock>>
     \/ v \notin disk /\ Refused(v)

\* A bug to be noticed: the group is not started again.
CountOnly(v) ==
  /\ pc[v] = "recount"
  /\ Works(v, IF group.exists /\ group.vols = {} THEN "drop" ELSE AfterDelete(v))
  /\ UNCHANGED <<undo, found, info, array, lock>>

\* The group goes when its last volume has gone, and is started again otherwise.
CountGroup(v) ==
  /\ pc[v] = "recount"
  /\ Works(v, CASE ~group.exists -> AfterDelete(v)
                [] group.exists /\ group.vols = {} -> "drop"
                [] OTHER -> "restart")
  /\ UNCHANGED <<undo, found, info, array, lock>>

DropGroup(v) ==
  /\ pc[v] = "drop"
  /\ \/ /\ CanDropGroup
        /\ group' = NoGroup
        /\ Works(v, AfterDelete(v))
        /\ UNCHANGED <<undo, found, info, disk, from, vvs, member, lock>>
     \/ /\ ~group.exists
        /\ Works(v, AfterDelete(v))
        /\ UNCHANGED <<undo, found, info, array, lock>>
     \/ group.exists /\ ~CanDropGroup /\ Refused(v)

RestartGroup(v) ==
  /\ pc[v] = "restart"
  /\ \/ /\ CanStart /\ Start
        /\ Works(v, AfterDelete(v))
        /\ UNCHANGED <<undo, found, info, disk, from, vvs, member, lock>>
     \/ /\ ~group.exists
        /\ Works(v, AfterDelete(v))
        /\ UNCHANGED <<undo, found, info, array, lock>>
     \/ group.exists /\ group.started /\ Refused(v)

DeleteRecord(v) ==
  /\ pc[v] = "unrecord"
  /\ saved' = saved \ {v}
  /\ GoTo(v, "removed")
  /\ UNCHANGED <<req, asked, undo, found, info, array, lock, used>>

-----------------------------------------------------------------------------
\* manage_existing: the volume is looked up by the name the administrator gave it.
ReadDetail(v) ==
  /\ pc[v] = "detail"
  /\ \/ req[v].ref \in disk /\ Works(v, "rename")
        /\ UNCHANGED <<undo, found, info, array, lock>>
     \/ req[v].ref \notin disk /\ Refused(v)

\* Bugs to be noticed: a volume that is gone is imported, or one is taken for its new
\* name.
RenameUnseen(v) ==
  /\ pc[v] = "rename"
  /\ disk' = (disk \ {req[v].ref}) \union {v}
  /\ from' = [from EXCEPT ![v] = req[v].ref]
  /\ Works(v, "renamed")
  /\ UNCHANGED <<undo, found, info, vvs, member, group, lock>>

RenameSwapped(v) ==
  /\ pc[v] = "rename"
  /\ req[v].ref \in disk
  /\ disk' = (disk \ {req[v].ref}) \union {v}
  /\ from' = [from EXCEPT ![v] = v]
  /\ Works(v, "renamed")
  /\ UNCHANGED <<undo, found, info, vvs, member, group, lock>>

\* modifyVolume gives it the name of a Docker volume.
Rename(v) ==
  /\ pc[v] = "rename"
  /\ \/ /\ req[v].ref \in disk
        /\ disk' = (disk \ {req[v].ref}) \union {v}
        /\ from' = [from EXCEPT ![v] = req[v].ref]
        /\ Works(v, "renamed")
        /\ UNCHANGED <<undo, found, info, vvs, member, group, lock>>
     \/ req[v].ref \notin disk /\ Refused(v)

\* It is read again under its new name.  The one undo step there is if saving fails
\* passes the name where the driver takes the details, which raises AttributeError:
\* the rollback does nothing.
ReadRenamed(v) ==
  /\ pc[v] = "renamed"
  /\ Works(v, "import_save")
  /\ UNCHANGED <<undo, found, info, array, lock>>

-----------------------------------------------------------------------------
Create(v) ==
  \/ \E r \in Request : Receive(v, r)
  \/ CheckQos(v) \/ CreateVolume(v) \/ CreateVvs(v) \/ SetPolicy(v) \/ JoinVvs(v)
  \/ SaveVolume(v)

Replicate(v) ==
  \/ FindGroup(v) \/ LockGroup(v) \/ LockTimeout(v) \/ NewGroup(v) \/ TuneGroup(v)
  \/ FetchGroup(v) \/ ReadState(v) \/ StopGroup(v) \/ AddToGroup(v) \/ StartGroup(v)

Rollback(v) ==
  \/ UndoRaises(v) \/ UndoGroup(v) \/ UndoRcg(v) \/ UndoMember(v) \/ UndoVvs(v)
  \/ UndoVolume(v) \/ RollbackEnds(v)

Destroy(v) ==
  \/ Remove(v) \/ DeleteVolume(v) \/ ReadRole(v) \/ HaltGroup(v) \/ LeaveGroup(v)
  \/ EraseVolume(v) \/ CountGroup(v) \/ DropGroup(v) \/ RestartGroup(v) \/ DeleteRecord(v)

Import(v) == ReadDetail(v) \/ Rename(v) \/ ReadRenamed(v)

Next ==
  \E v \in Volume :
    CallRaises(v) \/ Create(v) \/ Replicate(v) \/ Rollback(v) \/ Destroy(v) \/ Import(v)

Spec == Init /\ [][Next]_vars

-----------------------------------------------------------------------------
Quiet == \A v \in Volume : pc[v] \in {"idle", "made", "failed", "kept", "removed"}

NothingFailed == used["failure"] = 0 /\ used["undo_failure"] = 0

\* Unless an undo step itself has failed, a creation that failed has left nothing
\* behind that it made outside of a group: neither the volume, nor its VV set, nor its
\* place in one, whichever step failed and whatever the others did meanwhile
\* (create_volume, _rollback).
FailedLeavesNothing ==
  \A v \in Volume :
    pc[v] = "failed" /\ req[v].kind # "import" /\ used["undo_failure"] = 0 =>
      v \notin vvs \union member /\ (v \in disk => v \in group.vols)

\* A volume that is on record as replicated is in the group, in spite of the other
\* creations and removals that stop, start, create and delete the same group, until
\* someone asks to remove it (add_volume_to_rcg, _do_volume_replication_destroy).
ReplicatedIsInGroup ==
  \A v \in saved \ asked : info[v] # "none" => group.exists /\ v \in group.vols

\* When no call has failed, no removal has been given up and nothing is under way, a
\* group with volumes is started: every stop is followed by a start, of this request
\* or of another one that got in between, though a creation that loses such a race
\* gives up (add_volume_to_rcg, _do_volume_replication_destroy).
GroupReplicates ==
  Quiet /\ NothingFailed /\ (\A v \in Volume : pc[v] # "kept") /\ group.vols # {}
    => group.started

\* Two imports of one volume do not both succeed: no two records stand for the same
\* volume, and each of them for one that is there (manage_existing).
OneRecordPerRef ==
  \A v \in saved \ asked :
    req[v].kind = "import" =>
      /\ v \in disk
      /\ \A w \in saved : w # v => from[w] # from[v]

\* docs/peer-persistence-based-replication.md: "in case of failure during the
\* operation at any stage, previous actions are rolled back. E.g. if for some reason,
\* volume Test_RCG_Vol could not be added to Test_RCG, the volume is removed from the
\* array."  The addition has no undo step yet when the start after it fails, and the one
\* it gets later calls remove_volume_from_rcg with the wrong argument.
FailureIsRolledBack ==
  \A v \in Volume :
    pc[v] = "failed" /\ req[v].kind = "replicated" /\ used["undo_failure"] = 0 => v \notin disk
=============================================================================
