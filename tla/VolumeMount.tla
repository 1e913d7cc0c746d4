----------------------------- MODULE VolumeMount -----------------------------
(***************************************************************************)
(* Mounting one block volume from several hosts: mount_volume,             *)
(* _synchronized_mount_volume and unmount_volume of volume_manager.py with *)
(* the volume fencing they implement over the etcd record.                 *)
(*                                                                         *)
(* A mount id is one Docker mount, made by one container on one node; each *)
(* request is a thread of that node's plugin.  Every step that reads or    *)
(* writes etcd, calls the array or touches the host is an action of its    *)
(* own.  The critical sections run under the etcd lock of the volume name. *)
(***************************************************************************)
EXTENDS Naturals, FiniteSets

CONSTANTS
  Node,        \* hosts that run the plugin, by their node_id
  MountId,     \* Docker mount ids
  NodeOf,      \* the node on which each mount id is used
  NoNode,      \* absent node_mount_info, null path_info
  Absent,      \* no old_path_info entry for a node
  Free,        \* nobody holds the lock
  Dead,        \* the lock is held by a thread that no longer exists
  Delay,       \* mount_conflict_delay: one-second checks before a takeover
  Multipath,   \* whether attached devices are device-mapper devices
  Limit        \* how often each kind of event below may happen

\* Requests, lock timeouts, leases that expire under a live holder, and failures:
\* a call to etcd, the array or the host that raises, or a crash.
Event == {"request", "timeout", "expiry", "failure"}

ASSUME MountAssumption ==
  /\ NodeOf \in [MountId -> Node]
  /\ NoNode \notin Node /\ Absent \notin Node /\ NoNode # Absent
  /\ Free \notin MountId /\ Dead \notin MountId /\ Free # Dead
  /\ Delay \in Nat
  /\ Multipath \in BOOLEAN
  /\ Limit \in [Event -> Nat]

VARIABLES
  rec,    \* the volume record in etcd: node_mount_info, path_info, old_path_info
  lock,   \* holder of the etcd lock on the volume name
  pc,     \* where the request of each mount id is
  view,   \* the copy of the record ("vol", then path_info) each request works on
  polls,  \* checks made by _wait_for_graceful_vol_unmount
  vlun,   \* nodes to whose host the array exports the volume
  dev,    \* nodes on which the device is attached
  mnt,    \* nodes on which the file system is mounted
  wiped,  \* mount ids through which the volume was in use when rm -rf removed its contents
  used    \* how many events of each kind have happened

vars == <<rec, lock, pc, view, polls, vlun, dev, mnt, wiped, used>>
host == <<vlun, dev, mnt, wiped>>

-----------------------------------------------------------------------------
(* Records and program points *)

\* node_mount_info is {owner: ids}; path_info is named by the node that made it.
Record == [owner : Node \union {NoNode}, ids : SUBSET MountId,
           path : Node \union {NoNode},
           old : [Node -> Node \union {NoNode, Absent}]]

NewRecord == [owner |-> NoNode, ids |-> {}, path |-> NoNode,
              old |-> [n \in Node |-> Absent]]

\* The record with one of its three parts replaced.
WithMounts(r, owner, ids) == [r EXCEPT !.owner = owner, !.ids = ids]
WithPath(r, path) == [r EXCEPT !.path = path]
WithOld(r, old) == [r EXCEPT !.old = old]

\* "up": Docker was told the mount succeeded; "lost": it was, and another node
\* has since removed the VLUN; "phantom": the lock timed out and Docker was told
\* Err '' without a mount point.
Resting == {"idle", "up", "lost", "phantom"}

MountPoint == {"m_read", "add_id", "evict", "save_old", "remount", "remount_path",
               "remount_ids", "export", "connect", "mkfs", "mount_dir",
               "save_ids", "save_path", "m_ok", "m_fail"}

UnmountPoint == {"u_read", "u_old", "u_ids", "u_pop", "u_path", "umount",
                 "disconnect", "terminate", "clear_path", "u_end"}

Critical == MountPoint \union UnmountPoint

Point == Resting \union {"poll", "m_lock", "u_lock"} \union Critical

TypeOK ==
  /\ rec \in Record
  /\ lock \in MountId \union {Free, Dead}
  /\ pc \in [MountId -> Point]
  /\ view \in [MountId -> Record]
  /\ polls \in [MountId -> 0..Delay]
  /\ vlun \subseteq Node /\ dev \subseteq Node /\ mnt \subseteq Node
  /\ wiped \subseteq MountId
  /\ used \in [Event -> Nat]
  /\ \A e \in Event : used[e] <= Limit[e]

Init ==
  /\ rec = NewRecord
  /\ lock = Free
  /\ pc = [m \in MountId |-> "idle"]
  /\ view = [m \in MountId |-> NewRecord]
  /\ polls = [m \in MountId |-> 0]
  /\ vlun = {} /\ dev = {} /\ mnt = {}
  /\ wiped = {}
  /\ used = [e \in Event |-> 0]

Spend(e) == used[e] < Limit[e] /\ used' = [used EXCEPT ![e] = @ + 1]

GoTo(m, p) == pc' = [pc EXCEPT ![m] = p]

\* An etcd, array or host call of m raises; control continues at p.
Fails(m, p) == Spend("failure") /\ GoTo(m, p)

-----------------------------------------------------------------------------
(* mount_volume: the check before the lock *)

\* _is_vol_mounted_on_this_node indexes path_info: a null one raises TypeError.
PathMissing(m, r) == r.owner = NodeOf[m] /\ r.path = NoNode

OwnedElsewhere(m, r) == r.owner \notin {NoNode, NodeOf[m]}

\* A failed Mount is followed by an Unmount with the same id, which Docker sends.
MountRequest(m) ==
  /\ pc[m] = "idle"
  /\ Spend("request")
  /\ GoTo(m, CASE OwnedElsewhere(m, rec) /\ Delay > 0 -> "poll"
               [] PathMissing(m, rec) -> "u_lock"
               [] OTHER -> "m_lock")
  /\ polls' = [polls EXCEPT ![m] = 0]
  /\ UNCHANGED <<rec, lock, view, host>>

\* A bug to be noticed: one check too many, range(0, mount_conflict_delay + 1).
PollOnceMore(m) ==
  /\ pc[m] = "poll"
  /\ polls' = [polls EXCEPT ![m] = @ + 1]
  /\ GoTo(m, IF rec.owner = NoNode \/ polls[m] = Delay THEN "m_lock" ELSE "poll")
  /\ UNCHANGED <<rec, lock, view, host, used>>

\* One round of _wait_for_graceful_vol_unmount.
Poll(m) ==
  /\ pc[m] = "poll"
  /\ polls' = [polls EXCEPT ![m] = @ + 1]
  /\ GoTo(m, IF rec.owner = NoNode \/ polls[m] + 1 = Delay THEN "m_lock" ELSE "poll")
  /\ UNCHANGED <<rec, lock, view, host, used>>

-----------------------------------------------------------------------------
(* The lock on the volume name *)

Acquire(m) ==
  /\ pc[m] \in {"m_lock", "u_lock"}
  /\ lock = Free
  /\ lock' = m
  /\ GoTo(m, IF pc[m] = "m_lock" THEN "m_read" ELSE "u_read")
  /\ UNCHANGED <<rec, view, polls, host, used>>

\* try_lock_name gives up; __synchronized answers Err '' in place of the method.
LockTimeout(m) ==
  /\ pc[m] \in {"m_lock", "u_lock"}
  /\ lock # Free
  /\ Spend("timeout")
  /\ GoTo(m, IF pc[m] = "m_lock" THEN "phantom" ELSE "idle")
  /\ UNCHANGED <<rec, lock, view, polls, host>>

\* A bug to be noticed: the lock is released on success only, not in a finally.
UnlockOnSuccess(m) ==
  lock' = IF lock = m /\ pc[m] # "m_fail" THEN Free ELSE lock

\* try_unlock_name deletes the caller's own queue entry and no other.
Unlock(m) == lock' = IF lock = m THEN Free ELSE lock

\* The response leaves the plugin; the local copy of the record goes with the call.
Return(m, p) ==
  /\ Unlock(m)
  /\ GoTo(m, p)
  /\ view' = [view EXCEPT ![m] = NewRecord]
  /\ polls' = [polls EXCEPT ![m] = 0]
  /\ UNCHANGED <<rec, host, used>>

MountReturn(m) ==
  \/ pc[m] = "m_ok" /\ Return(m, "up")
  \/ pc[m] = "m_fail" /\ Return(m, "u_lock")

UnmountReturn(m) == pc[m] = "u_end" /\ Return(m, "idle")

\* lock_ttl passes: always in the end for a lock whose thread died, and for a
\* live holder when its critical section outlasts the 300 s, which nothing renews.
OrphanExpires ==
  /\ lock = Dead
  /\ lock' = Free
  /\ UNCHANGED <<rec, pc, view, polls, host, used>>

LeaseExpires ==
  /\ lock \in MountId
  /\ Spend("expiry")
  /\ lock' = Free
  /\ UNCHANGED <<rec, pc, view, polls, host>>

-----------------------------------------------------------------------------
(* _synchronized_mount_volume *)

\* check_if_mounted looks for the device and directory of path_info: those of
\* another node may not be found here although the volume is mounted.
Answers(n) == {b \in BOOLEAN : IF rec.path = n THEN b = (n \in mnt) ELSE b => n \in mnt}

MountRead(m) ==
  LET n == NodeOf[m] IN
  /\ pc[m] = "m_read"
  /\ view' = [view EXCEPT ![m] = rec]
  /\ \E mounted \in Answers(n) :
       GoTo(m, CASE rec.owner = NoNode -> "export"
                 [] OwnedElsewhere(m, rec) -> "evict"
                 [] PathMissing(m, rec) -> "m_fail"
                 [] OTHER -> CASE mounted -> "add_id"
                               [] ~mounted /\ Multipath /\ n \in dev -> "remount"
                               [] OTHER -> "export")
  /\ UNCHANGED <<rec, lock, polls, host, used>>

\* A bug to be noticed: the id is appended to the local copy only.
AddIdLocally(m) ==
  /\ pc[m] = "add_id"
  /\ GoTo(m, "m_ok")
  /\ UNCHANGED <<rec, lock, view, polls, host, used>>

\* VolumeOwnedAndMounted: _update_mount_id_list
AddId(m) ==
  /\ pc[m] = "add_id"
  /\ \/ /\ GoTo(m, "m_ok")
        /\ rec' = IF m \in view[m].ids THEN rec
                  ELSE WithMounts(rec, view[m].owner, view[m].ids \union {m})
        /\ UNCHANGED used
     \/ m \notin view[m].ids /\ Fails(m, "m_fail") /\ UNCHANGED rec
  /\ UNCHANGED <<lock, view, polls, host>>

\* force_remove_volume_vlun looks for a VLUN twice and removes those of its host.
ForceAttempts == 2

\* The containers that were running on the nodes in gone lose the volume.
Lose(gone, m, p) ==
  pc' = [x \in MountId |->
           CASE x = m -> p
             [] x # m /\ pc[x] = "up" /\ NodeOf[x] \in gone -> "lost"
             [] OTHER -> pc[x]]

\* A bug to be noticed: the VLUN of the node that owns the volume is kept.
EvictNothing(m) ==
  /\ pc[m] = "evict"
  /\ GoTo(m, "save_old")
  /\ UNCHANGED <<rec, lock, view, polls, host, used>>

Evict(m) ==
  /\ pc[m] = "evict"
  /\ \E gone \in SUBSET vlun :
       /\ vlun' = vlun \ gone
       /\ \/ /\ gone = vlun \/ Cardinality(gone) = ForceAttempts
             /\ Lose(gone, m, "save_old")
             /\ UNCHANGED used
          \/ /\ Cardinality(gone) < ForceAttempts
             /\ Spend("failure")
             /\ Lose(gone, m, "m_fail")
  /\ UNCHANGED <<rec, lock, view, polls, dev, mnt, wiped>>

\* The connection information of the evicted node is kept for its own unmount.
SaveOld(m) ==
  LET v == view[m] IN
  /\ pc[m] = "save_old"
  /\ \/ /\ GoTo(m, "export")
        /\ rec' = WithOld(rec, [v.old EXCEPT ![v.owner] = v.path])
        /\ UNCHANGED used
     \/ Fails(m, "m_fail") /\ UNCHANGED rec
  /\ UNCHANGED <<lock, view, polls, host>>

\* VolumeOwnedAndNotMounted with the device present: mount it again.
Remount(m) ==
  /\ pc[m] = "remount"
  /\ \/ GoTo(m, "remount_path") /\ mnt' = mnt \union {NodeOf[m]} /\ UNCHANGED used
     \/ Fails(m, "m_fail") /\ UNCHANGED mnt
  /\ UNCHANGED <<rec, lock, view, polls, vlun, dev, wiped>>

RemountPath(m) ==
  /\ pc[m] = "remount_path"
  /\ \/ /\ GoTo(m, IF m \in view[m].ids THEN "m_ok" ELSE "remount_ids")
        /\ rec' = WithPath(rec, view[m].path)
        /\ UNCHANGED used
     \/ Fails(m, "m_fail") /\ UNCHANGED rec
  /\ UNCHANGED <<lock, view, polls, host>>

\* The stale mount ids of before the reboot are replaced by the new one.
RemountIds(m) ==
  /\ pc[m] = "remount_ids"
  /\ \/ /\ GoTo(m, "m_ok")
        /\ rec' = WithMounts(rec, NodeOf[m], {m})
        /\ UNCHANGED used
     \/ Fails(m, "m_fail") /\ UNCHANGED rec
  /\ UNCHANGED <<lock, view, polls, host>>

\* Node n can read and write the volume through its mount.
Usable(n) == n \in mnt /\ n \in dev /\ n \in vlun

\* The mounts through which the volume is in use.
Serving == {m \in MountId : pc[m] = "up" /\ Usable(NodeOf[m])}

\* _rollback runs the undo functions registered so far, the last one first, and
\* ignores what they raise.  remove_dir is rm -rf of the mount directory: it removes the
\* contents of the volume when that is mounted there, as umount_dir has failed, or as
\* mount_dir has and an earlier mount was left behind.
Rollback(m, undo) ==
  LET n == NodeOf[m] IN
  \E failed \in SUBSET undo :
    /\ used["failure"] + 1 + Cardinality(failed) <= Limit["failure"]
    /\ used' = [used EXCEPT !["failure"] = @ + 1 + Cardinality(failed)]
    /\ mnt' = IF "umount" \in undo \ failed THEN mnt \ {n} ELSE mnt
    /\ wiped' = IF "rmdir" \in undo /\ n \in mnt'
                THEN wiped \union Serving ELSE wiped
    /\ dev' = IF "disconnect" \in undo \ failed THEN dev \ {n} ELSE dev
    /\ vlun' = IF "terminate" \in undo \ failed THEN vlun \ {n} ELSE vlun
    /\ GoTo(m, "m_fail")

\* create_export and initialize_connection; the VLUN may exist when they raise,
\* and terminate_connection is not registered yet.
Export(m) ==
  /\ pc[m] = "export"
  /\ \/ /\ GoTo(m, "connect")
        /\ vlun' = vlun \union {NodeOf[m]}
        /\ UNCHANGED used
     \/ /\ Fails(m, "m_fail")
        /\ vlun' \in {vlun, vlun \union {NodeOf[m]}}
  /\ UNCHANGED <<rec, lock, view, polls, dev, mnt, wiped>>

Connect(m) ==
  /\ pc[m] = "connect"
  /\ \/ /\ GoTo(m, "mkfs")
        /\ dev' = dev \union {NodeOf[m]}
        /\ UNCHANGED <<vlun, mnt, wiped, used>>
     \/ Rollback(m, {"terminate"})
  /\ UNCHANGED <<rec, lock, view, polls>>

\* create_filesystem and mkdir_for_mounting raise past every handler: nothing
\* is rolled back.
MakeFilesystem(m) ==
  /\ pc[m] = "mkfs"
  /\ \/ GoTo(m, "mount_dir") /\ UNCHANGED used
     \/ Fails(m, "m_fail")
  /\ UNCHANGED <<rec, lock, view, polls, host>>

\* The removal of lost+found from the mounted volume raises past every handler, too.
MountDir(m) ==
  /\ pc[m] = "mount_dir"
  /\ \/ /\ GoTo(m, "save_ids") /\ UNCHANGED used
        /\ mnt' = mnt \union {NodeOf[m]} /\ UNCHANGED <<vlun, dev, wiped>>
     \/ /\ Fails(m, "m_fail")
        /\ mnt' = mnt \union {NodeOf[m]} /\ UNCHANGED <<vlun, dev, wiped>>
     \/ Rollback(m, {"terminate", "disconnect", "rmdir"})
  /\ UNCHANGED <<rec, lock, view, polls>>

\* node_mount_info to save: the existing one when this node already owns the
\* volume (fall-through of the reboot case), {node: [mount_id]} otherwise.
NewIds(m) == IF view[m].owner = NodeOf[m] THEN view[m].ids ELSE {m}

SaveIds(m) ==
  /\ pc[m] = "save_ids"
  /\ \/ /\ GoTo(m, "save_path")
        /\ rec' = WithMounts(rec, NodeOf[m], NewIds(m))
        /\ UNCHANGED <<host, used>>
     \/ Rollback(m, {"terminate", "disconnect", "rmdir", "umount"}) /\ UNCHANGED rec
  /\ UNCHANGED <<lock, view, polls>>

SavePath(m) ==
  /\ pc[m] = "save_path"
  /\ \/ /\ GoTo(m, "m_ok")
        /\ rec' = WithPath(rec, NodeOf[m])
        /\ UNCHANGED <<host, used>>
     \/ Rollback(m, {"terminate", "disconnect", "rmdir", "umount"}) /\ UNCHANGED rec
  /\ UNCHANGED <<lock, view, polls>>

-----------------------------------------------------------------------------
(* unmount_volume *)

UnmountRequest(m) ==
  /\ pc[m] \in {"up", "lost", "phantom"}
  /\ GoTo(m, "u_lock")
  /\ UNCHANGED <<rec, lock, view, polls, host, used>>

UnmountRead(m) ==
  /\ pc[m] = "u_read"
  /\ view' = [view EXCEPT ![m] = rec]
  /\ GoTo(m, CASE rec.owner = NoNode -> "u_path"
               [] rec.owner = NodeOf[m] -> "u_ids"
               [] OwnedElsewhere(m, rec) ->
                    IF rec.old[NodeOf[m]] = Absent THEN "u_end" ELSE "u_old")
  /\ UNCHANGED <<rec, lock, polls, host, used>>

\* A bug to be noticed: the connection information is dropped, not used.
UnmountOldForgets(m) ==
  /\ pc[m] = "u_old"
  /\ GoTo(m, "u_end")
  /\ rec' = WithOld(view[m], [view[m].old EXCEPT ![NodeOf[m]] = Absent])
  /\ UNCHANGED <<lock, view, polls, host, used>>

\* Not the owner any more: take the connection information the owner kept.  The
\* record is saved whole; json.loads raises on a null path_info.
UnmountOld(m) ==
  LET n == NodeOf[m] IN
  /\ pc[m] = "u_old"
  /\ \/ /\ GoTo(m, IF view[m].old[n] = NoNode THEN "u_end" ELSE "umount")
        /\ rec' = WithOld(view[m], [view[m].old EXCEPT ![n] = Absent])
        /\ view' = [view EXCEPT ![m] = WithPath(@, @.old[n])]
        /\ UNCHANGED used
     \/ Fails(m, "u_end") /\ UNCHANGED <<rec, view>>
  /\ UNCHANGED <<lock, polls, host>>

\* A bug to be noticed: the volume is unmounted under the remaining containers.
UnmountIdsAlways(m) ==
  /\ pc[m] = "u_ids"
  /\ GoTo(m, "u_pop")
  /\ rec' = WithMounts(rec, view[m].owner, view[m].ids \ {m})
  /\ UNCHANGED <<lock, view, polls, host, used>>

UnmountIds(m) ==
  LET left == view[m].ids \ {m} IN
  /\ pc[m] = "u_ids"
  /\ \/ /\ GoTo(m, IF left = {} THEN "u_pop" ELSE "u_end")
        /\ rec' = WithMounts(rec, view[m].owner, left)
        /\ UNCHANGED used
     \/ Fails(m, "u_end") /\ UNCHANGED rec
  /\ UNCHANGED <<lock, view, polls, host>>

\* vol.pop('node_mount_info') and save_vol(vol)
UnmountPop(m) ==
  /\ pc[m] = "u_pop"
  /\ \/ /\ GoTo(m, "u_path")
        /\ rec' = WithMounts(view[m], NoNode, {})
        /\ UNCHANGED used
     \/ Fails(m, "u_end") /\ UNCHANGED rec
  /\ UNCHANGED <<lock, view, polls, host>>

\* get_vol_path_info reads etcd again; without path_info the unmount raises.
UnmountPath(m) ==
  /\ pc[m] = "u_path"
  /\ GoTo(m, IF rec.path = NoNode THEN "u_end" ELSE "umount")
  /\ view' = [view EXCEPT ![m] = WithPath(@, rec.path)]
  /\ UNCHANGED <<rec, lock, polls, host, used>>

\* What is left of a set of nodes when m takes its node out by the path_info it
\* works from; one that another node made names nothing, or the right thing.
TakenOut(m, nodes) ==
  {nodes \ {NodeOf[m]}} \union (IF view[m].path = NodeOf[m] THEN {} ELSE {nodes})

\* umount_dir, then remove_dir; either may raise past the rest.
Umount(m) ==
  /\ pc[m] = "umount"
  /\ \/ GoTo(m, "disconnect") /\ mnt' \in TakenOut(m, mnt) /\ UNCHANGED used
     \/ Fails(m, "u_end") /\ mnt' \in {mnt, mnt \ {NodeOf[m]}}
  /\ UNCHANGED <<rec, lock, view, polls, vlun, dev, wiped>>

Disconnect(m) ==
  /\ pc[m] = "disconnect"
  /\ \/ GoTo(m, "terminate") /\ dev' \in TakenOut(m, dev) /\ UNCHANGED used
     \/ Fails(m, "u_end") /\ UNCHANGED dev
  /\ UNCHANGED <<rec, lock, view, polls, vlun, mnt, wiped>>

\* terminate_connection: what it raises is logged and the unmount goes on.
Terminate(m) ==
  LET next == IF OwnedElsewhere(m, view[m]) THEN "u_end" ELSE "clear_path" IN
  /\ pc[m] = "terminate"
  /\ \/ GoTo(m, next) /\ vlun' = vlun \ {NodeOf[m]} /\ UNCHANGED used
     \/ Fails(m, next) /\ UNCHANGED vlun
  /\ UNCHANGED <<rec, lock, view, polls, dev, mnt, wiped>>

ClearPath(m) ==
  /\ pc[m] = "clear_path"
  /\ \/ GoTo(m, "u_end") /\ rec' = WithPath(rec, NoNode) /\ UNCHANGED used
     \/ Fails(m, "u_end") /\ UNCHANGED rec
  /\ UNCHANGED <<lock, view, polls, host>>

-----------------------------------------------------------------------------
(* Crashes *)

\* The plugin process of node n dies with its threads; a lock one of them holds
\* stays in etcd.  When the host goes down too, its containers, mounts and
\* devices are gone; a device whose VLUN still exists may be found at boot.
Dies(n, survivors) ==
  /\ pc' = [m \in MountId |->
              IF NodeOf[m] = n /\ pc[m] \notin survivors THEN "idle" ELSE pc[m]]
  /\ view' = [m \in MountId |-> IF NodeOf[m] = n THEN NewRecord ELSE view[m]]
  /\ polls' = [m \in MountId |-> IF NodeOf[m] = n THEN 0 ELSE polls[m]]
  /\ lock' = IF lock \in MountId /\ NodeOf[lock] = n THEN Dead ELSE lock
  /\ Spend("failure")
  /\ UNCHANGED <<rec, vlun, wiped>>

PluginCrash(n) == Dies(n, Resting) /\ UNCHANGED <<dev, mnt>>

Reboot(n) ==
  /\ Dies(n, {})
  /\ mnt' = mnt \ {n}
  /\ \/ dev' = dev \ {n}
     \/ n \in vlun /\ dev' = dev \union {n}

-----------------------------------------------------------------------------
MountStep(m) ==
  \/ MountRead(m) \/ AddId(m) \/ Evict(m) \/ SaveOld(m)
  \/ Remount(m) \/ RemountPath(m) \/ RemountIds(m)
  \/ Export(m) \/ Connect(m) \/ MakeFilesystem(m) \/ MountDir(m)
  \/ SaveIds(m) \/ SavePath(m) \/ MountReturn(m)

UnmountStep(m) ==
  \/ UnmountRead(m) \/ UnmountOld(m) \/ UnmountIds(m) \/ UnmountPop(m)
  \/ UnmountPath(m) \/ Umount(m) \/ Disconnect(m) \/ Terminate(m)
  \/ ClearPath(m) \/ UnmountReturn(m)

\* What the threads of the plugins do once a request has come in.
Thread(m) == Poll(m) \/ Acquire(m) \/ MountStep(m) \/ UnmountStep(m)

Next ==
  \/ \E m \in MountId : MountRequest(m) \/ UnmountRequest(m) \/ LockTimeout(m) \/ Thread(m)
  \/ OrphanExpires \/ LeaseExpires
  \/ \E n \in Node : PluginCrash(n) \/ Reboot(n)

Spec == Init /\ [][Next]_vars

-----------------------------------------------------------------------------
(* Fairness: a thread of a live plugin runs on, the etcd lock serves its waiters
   in order (so one that keeps being enabled to take it does), and etcd drops the
   lease of a dead thread.  Nothing obliges Docker to send a request. *)

Fairness ==
  /\ \A m \in MountId : WF_vars(Thread(m)) /\ SF_vars(Acquire(m))
  /\ WF_vars(OrphanExpires)

FairSpec == Spec /\ Fairness

-----------------------------------------------------------------------------
(* Properties *)

\* Fencing (mount_volume's takeover): two running containers on different nodes
\* never both reach the volume, whose file system admits one host, whichever one call
\* has failed, plugin died or node rebooted.
FencedUse ==
  used["failure"] <= 1 =>
    \A x, y \in MountId :
      pc[x] = "up" /\ pc[y] = "up" /\ NodeOf[x] # NodeOf[y]
        => ~(Usable(NodeOf[x]) /\ Usable(NodeOf[y]))

\* What is promised to the mounts through which the volume is in use: mounts come and
\* go, and are taken over, as FencedVolume allows.
Fenced == INSTANCE FencedVolume WITH serving <- Serving

ImplementsFencing == Fenced!Spec

\* A mount Docker was told succeeded is mounted, attached and exported until it
\* is unmounted or evicted: no step of another request takes it away.
UpMeansUsable == \A m \in MountId : pc[m] = "up" => Usable(NodeOf[m])

\* node_mount_info names the node and the mount id of every running container,
\* so no other container's unmount takes the volume down (unmount_volume stops at
\* a non-empty list), and path_info is the one its own node made.
UpIsRecorded ==
  \A m \in MountId :
    pc[m] = "up" =>
      rec.owner = NodeOf[m] /\ m \in rec.ids /\ rec.path = NodeOf[m]

QuietNode(n) == \A m \in MountId : NodeOf[m] = n => pc[m] = "idle"

\* What stays on a node without containers or requests is on record: an exported
\* VLUN as the owner's, a mount or device as the owner's or in old_path_info.
LeftoverOnRecord ==
  \A n \in Node :
    QuietNode(n) =>
      /\ n \in vlun => rec.owner = n
      /\ n \in mnt \union dev => rec.owner = n \/ rec.old[n] # Absent

\* Nothing has failed and no lease has run out so far.
Calm == used["failure"] = 0 /\ used["expiry"] = 0

\* The first failure, with whatever undo functions fail after it, never makes rm -rf
\* remove the contents of the volume under a running container, on whichever node:
\* the mount that rolls back is the first on its node and has evicted the others.
\* After an earlier failure it may (a plugin that died after evicting, or a mount left
\* behind), as _rollback goes on to remove_dir when umount_dir raises.
NotWipedInUse == [][Calm => wiped' = wiped]_vars

\* Every request comes back, whatever the other nodes do.
RequestReturns == \A m \in MountId : pc[m] \notin Resting ~> pc[m] \in Resting

=============================================================================
