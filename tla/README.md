# Formal verification of hpedockerplugin

The plugin serves the Docker volume API on every host of a cluster. It makes
volumes, snapshots, clones and file shares on HPE 3PAR arrays, exports them to the
host, mounts them for containers, and keeps what it knows in etcd, which all hosts
share. There is no coordinator: the plugins agree through etcd records and etcd
locks only. That is where the hard behaviour is, and what these modules are about.

All paths below are relative to `src/hpedockerplugin/` unless they say otherwise.

## 1. Inventory

### Processes

* The **web server** (`hpe_storage_api.py`) runs on the twisted reactor, one thread.
  It checks a request and hands it to an orchestrator.
* **Worker threads**: `Orchestrator._execute_request` defers most operations to a
  thread of the reactor's pool. `volumedriver_create` and `manage_existing` run on
  the reactor itself.
* **Initialization threads**, one for each backend
  (`backend_async_initializer.py`), and **share threads**, one for each share that
  is created or deleted (`file_manager.py`, `cmd/cmd_deleteshare.py`).
* **Other hosts** run the same processes on the same etcd and array.

### Components

| Component | State | Operations | What is hard | What makes it correct |
|---|---|---|---|---|
| Block mount and fencing (`volume_manager.py` 1221-1955) | `node_mount_info`, `path_info`, `old_path_info` of the record; VLUNs; devices and mounts of each host | mount, wait for a graceful unmount, takeover, unmount, rollback | a check before the lock; takeover while the old node still runs; late unmounts; reboots; steps that fail in the middle | two nodes never use a volume at once; a mounted volume stays mounted until its own unmount; nothing is left behind off the record; a rollback does not delete what a container uses |
| Locks (`synchronization.py`, `EtcdLock` in `etcdutil.py`) | a queue and a lease for each name | acquire, nested acquire, release in a finally, time-out | leases of 300 s that nothing renews, waits of 300 s, opposite orders, a failed acquisition is answered like a success | mutual exclusion, no leak, no release of another's lock, every call returns |
| Volume lifecycle (`volume_manager.py` 195-908, 995-1110, 2010-2075) | records in etcd with their `snapshots` lists, volumes on the array | create, clone, snapshot, remove, inspect with synchronization, import | two stores without a transaction; unlocked reads; look-up by name | names are unique, live snapshots are in their parent's list, no volume without a record |
| Undo lists, VV sets, remote copy groups (`volume_manager.py` 1957-2160, `hpe/hpe_3par_common.py`) | sets and groups on the array | create, add, remove, undo | undo steps with wrong parameters or not registered | a failed creation leaves nothing |
| etcd records (`etcdutil.py`) | one key for each volume, share, FPG, backend | save (blind), update (read, modify, compare and swap), delete, look up by name | blind writes of a whole record that was read earlier | no lost update |
| Orchestrators (`backend_orchestrator.py`, `file_backend_orchestrator.py`) | cache from volume to backend, manager and state of each backend | route, cache, remove | eviction of a cache entry before the removal has run, and on one node only; default backend as a fallback; requests during initialization | a request reaches the volume's own backend; nothing stays on an array without a record |
| API and router (`hpe_storage_api.py`, `request_router.py`) | none of their own | guards before operations; share lock around a call that only starts a thread | the lock is released when the Deferred is returned | guards are made again under the lock |
| Options (`request_validator.py`, `request_context.py`, `volumedriver_create`) | none | which operation, which backend, or a refusal | two sets of rules for one set of options | what is validated is what is carried out |
| File personas (`file_manager.py`, `cmd/*.py`) | share status, FPG, VFS and IP metadata | create and delete shares, FPGs and VFSs by commands with undo | threads, crashes in CREATING, two kinds of lock | shares end AVAILABLE or FAILED, IPs are not used twice and not lost, no FPG is deleted under a share |
| Share mount (`file_manager.py` 553-560 and 713-917, `cmd/cmd_deleteshare.py`) | mount ids of each node in the share record, clients of the share, mode and owner | mount, unmount, removal | whole-record writes of a stale record; a removal goes by a record read earlier; reboots | what a container uses stays mounted, recorded and stored |
| VFS IP pool (`hpe/vfs_ip_pool.py`) | none | expand ranges | boundaries, ranges over subnets | exactly the addresses of the range |
| 3PAR drivers (`hpe/hpe_3par_fc.py`, `hpe_3par_iscsi.py`, `hpe_3par_common.py`) | hosts and VLUNs on the array | find or make the host and the VLUN, terminate | other users of the host | host entries and VLUNs fit together |
| File system helpers (`fileutil.py`) | file system and directories | mkfs, mount, umount, rm -rf | any error of `blkid` counts as an empty device | nothing is formatted or deleted that holds data |
| Configuration, names, exceptions | none | - | - | - |

The hazards, each at its line, with the properties that cover it or the reason why
none does yet, are in `PROJECT.json`.

### Interaction

A request passes the API guard, the router or orchestrator, and runs a method of a
manager under the etcd lock of a name. The method calls other decorated methods
(nested locks), the driver, the host and etcd. Volumes, snapshots, clones and remote
copy groups share one name space of locks: `EtcdLock` passes only the name to
python-etcd and not the root of its type. A lock that cannot be taken is answered
`{"Err": ""}`, which Docker reads as success.

## 2. Plan

Done:

1. `VolumeMount` and the promise it keeps, `FencedVolume`; proofs.
2. `Synchronization`; proofs.
3. `VolumeLifecycle`; proofs.
4. `ShareLifecycle`: creation and removal of file shares; proofs.
5. `VolumeCreate`: what a volume consists of, its undo list, remote copy groups, import;
   proofs.
6. `HostAccess`: the hosts and VLUNs of the drivers; proofs.
7. `RequestOptions` and `BackendRouting`, which extends it; proofs.
8. `ShareMount`: the mounts and unmounts of shares, and their removal meanwhile; proofs.

Next, in this order:

9. `FencedUse` of `VolumeMount` with one failure, which the runs check and the theorem
   excludes: it needs an invariant of half-done takeovers and rollbacks.
10. `VolumeMount` extended by replicated volumes (1556-1585) and by volumes attached
    without being mounted, and composed with `VolumeLifecycle` on one record.
11. `VolumeCreate` extended by clones and by snapshot schedules.
12. IP ranges against a reference definition.

Every safety property that a passing run checks is also the statement of a theorem
(section 5). Theorems still worth proving: that of 9, and that containers of one node
share a mount, as a consequence of the refinement.

## 3. The modules and the code

### VolumeMount

One volume, any number of hosts and Docker mount ids. A mount id is one Docker mount
and one request at a time: Docker sends the unmount of an id after its mount has been
answered, also when the mount failed.

* `rec` is the etcd record: `owner` and `ids` are `node_mount_info`, `path` is the node
  whose `path_info` is stored, `old` is `old_path_info`.
* `view` is the local variable `vol` and, in an unmount, the `path_info` it goes by.
* `vlun`, `dev`, `mnt` are the exports of the array, the devices attached and the file
  systems mounted, each a set of nodes. `wiped` has the mount ids that used the volume
  when `rm -rf` ran on a directory where it was still mounted.
* `pc` is where the request is. Its resting values are Docker's view: `up` is a mount
  that was reported as successful, `lost` is one whose VLUN another node has removed,
  `phantom` is one that timed out on the lock and was answered without an error.

Every call to etcd, the array or the host is an action, in the order of the code, with
its success and its exception. `Poll` is the wait for a graceful unmount, `Evict` is
`force_remove_volume_vlun`, `Rollback` runs the undo list registered so far and ignores
what the undo functions raise. `TakenOut` and `Answers` are nondeterministic where the
code works from the `path_info` of another node, which may or may not name something on
this one. `PluginCrash` kills the threads of a node and leaves its lock behind; `Reboot`
also takes containers, mounts and devices.

`FencedVolume` is what containers are promised: mounts of one node at a time, each kept
until it lets go, and taken over only all at once. `ImplementsFencing` instantiates it
with `serving` refined to the mounts that are up on a node with a working mount.

### Synchronization

The decorators over `EtcdLock`, with time in ticks. `Plan` gives the names each call
locks, outermost first. `holder` is the head of each etcd queue: a frame (a call and
its nesting depth), `Dead` for an entry whose owner will not delete it, or `Free`.
`TryLock`, `LockFailed`, `CallInner`, `EndBody` and `Unlock` are the steps of
`__synchronized`; a release that fails is logged and forgotten; `Expire` is the lease.
`Tick` passes time for all and keeps nobody past a deadline.

### VolumeLifecycle

Any calls that create, clone, snapshot, remove and inspect. A volume is known by the
call that made it, as its id is drawn by that call; records are looked up by name, and
where two have the name the model takes either, for the code takes the first in the
order of the random ids. `saved`, `children` and `parent` are the records with their
`snapshots` and `snap_metadata`, `array` is what exists on the array. `Receive` is the
API's look without a lock. The look under the lock, the source read under the second
lock, the driver call, the write of the record and the write of the parent's record are
separate actions, and so are the array call, `remove_snapshot` and the deletion in a
removal, and the read, the comparison, each dropped record and the write-back of an
inspection, which takes no lock. Where the order of a list would matter only for which
of two entries of one name comes first, the model keeps a set and takes either.

External, from how the code uses it: the array deletes no volume that has snapshots,
takes away expired snapshots, and makes no snapshot of a missing volume.

### ShareLifecycle

Any calls that create or remove a share on one backend, over any CPGs and FPGs. A
creation is the thread of `_create_share`; its steps are the commands in `cmd/`, each
call to etcd or to the array an action. A removal is `route_remove_request`,
`DeleteShareCmd` and the thread it leaves behind.

* `rec` are the share records, `meta` the FPG metadata, and `defaults`, `locked`, `inUse`
  and `drawn` are the metadata of the backend: `default_fpgs`, `ips_locked_for_use`,
  `ips_in_use` (a list that may hold an address twice, so a count) and `counter`. What the
  code does to the backend's metadata it does under one lock, except for the look at
  `default_fpgs`, so each such section is one action.
* `fpgs`, `vfs`, `exports` and `stores` are the array. An exported share is known by the
  call that made it and by its FPG, which together stand for the id the array gives.
* `view` is `share_args` of a creation and `share_info` of a removal, `todo` the rest of
  the generator `_get_default_available_fpg`, `target` the name of a new FPG, `made` the
  list `undo_cmds`. `CreateVfsCmd` and `SetQuotaCmd` are left out of `made`, as the first
  undoes nothing and the second only the quota.
* `lock` has the locks of shares, CPGs and FPGs. `Fail` is an exception on its way out of
  `_create_share_on_fpg`, which gives up the CPG's lock; the undo runs under the lock of
  the share only.

`GetExistingFpg` and `PickDefaultFpg` end in a use of the FPG, a failure or the making of
a new one, where room on the FPG is a choice. `MakeAvailable` writes the record that is
there; when there is none, its `EtcdMetadataNotFound` is taken by `_create_share_on_fpg`
for a missing FPG, as in the code. `MarkShareFailed` has the `TypeError` that ends a
removal whose record could not be deleted.

External: an FPG that is deleted on the array takes its VFS, stores and shares with it,
and the array refuses a share or a VFS on an FPG that is not there. A call that raises
has had no effect.

### VolumeCreate

Requests that make volumes of different names at once: a plain one, one with flash cache
or with a QoS set, a replicated one, an import. A volume is known by its request. All the
replicated ones name one remote copy group, which is where they meet.

* `disk`, `vvs`, `member` and `group` are the array: volumes, VV sets named after a
  volume, volumes that are in the set of their request, and the group with its state.
* `saved` and `info` are the records and their `rcg_info`; `found` is the local variable
  that `_find_rcg` or `_create_rcg` fills. `undo` is `undo_steps`. `from` is the name an
  imported volume had.
* `pc` walks through `create_volume` (`Making`), `manage_existing` (`Importing`) and
  `delete_volume` with `_do_volume_replication_destroy` (`Removing`), one array call an
  action. `Raise` sends an exception to the handler of that place: `_rollback`, or the
  request's end.

The creation of a group is under the lock of its name; `LockTimeout` is the decorator's
answer that the creation then takes for a group. Nothing else about a group is locked.
The undo of an addition (`UndoGroup`) raises before it calls the array; `_rollback` goes
on. `UndoVolume` runs the same `delete_volume` as a removal.

External, from how the code uses it: a group is changed while it is stopped and deleted
when it is stopped and empty; a volume of a group cannot be deleted.

### HostAccess

Any volumes of one node, attached, detached and evicted at the same time; the lock of a
volume keeps the calls about one volume apart. `protocol` is the driver: Fibre Channel,
iSCSI with one path, or with multipath.

* `hosts` are the array's hosts, under the node's name (`Own`) or another one an
  administrator chose (`Other`); `foreign` are those the plugin has not made; `path` is
  the host that has the node's WWNs or IQN; `vluns` has volume, host, port and LUN id.
* `name`, `todo`, `lun` and `attempt` are the locals: the host a call works with, the
  ports still to do, the LUN id, the round of `force_remove_volume_vlun`.

The actions from `GetHost` to `ReadHost` are `_create_host` with its helpers, where the
two drivers differ in whose name they go by; `FindVluns` and `Export` make the VLUNs.
`AskHost` to `DeleteHost` are `terminate_connection` and `delete_vlun`, `GetVlun` to
`EvictHost` the eviction. External: the array gives a volume one LUN id on a host, and
keeps a host that has VLUNs.

### RequestOptions and BackendRouting

`RequestOptions` has no state: `Outcome` maps the options of a creation to the operation
and the backend they lead to, or to a refusal. It has the two sets of rules side by side,
`ValidNames` and `Operation` of the validator, `NamesRefused` and `Branch` of
`volumedriver_create`, and the file persona's own. Of a value it keeps whether it is
good, empty, bad or a backend's name.

`BackendRouting` sends requests by them, on any nodes. `state` is the manager of each
backend on each node, `cache` the node's cache of each driver, `record` the names in etcd
with the backend and the array's id, `array` what is on the arrays, `queue` the requests
deferred to a thread with the backend they were resolved to. `Resolve` is the cache,
then the record, then the default backend. What a manager does under the lock of the
name is one step (`RunSnapshot`, `RunRemoveVolume`, `RunRemoveShare`). `homes` is
history: the backends on which a name has ever been made.

### ShareMount

One share; containers on any nodes, and administrators who may remove it. `share` is the
record: status, and the mount ids of each node in `path_info`. `clients`, `mounted`,
`perms` and `data` are the array and the hosts. `req` is the request of each client with
the record as it was read: the router reads it under the share's lock, but the thread
runs after the release, and saves all of it.

`Receive` is the router; `Refuse` to `PermissionsRefused` are `mount_share`, `NotThere`
to `SaveShare` are `unmount_share`, whose helpers a removal and a failed mount use too;
`RefuseRemoval` is the look of `remove_share` at
`path_info`, which goes by the record as read; `BeginRemoval` to `DeleteFails` are
`DeleteShareCmd`. `Raise` is an exception, `Crash` and
`Reboot` what they say. `disturbed` is history: requests have overlapped, or an unmount
has stopped half way or a reboot left a record of a mount that is gone.

## 4. Runs

| Run | Module and configuration | Shows |
|---|---|---|
| `mount_fencing` | MCVolumeMount.cfg | no failures, one lock time-out: containers keep a working and recorded mount, nothing stays on a quiet node off the record, the protocol implements `FencedVolume` |
| `mount_failures` | MCVolumeMountFailure.cfg | two failures, crashes or reboots: until the second one two nodes never use the volume at once; a step that fails with its undo does not delete what a container uses, unless something has failed before it |
| `mount_returns` | MCVolumeMountLive.cfg | every request returns, with a failure, a time-out and an expired lease |
| `sync_locks` | MCSynchronization.cfg | two calls are inside of one name only after an expired lease; a lease expires under its holder only by waits for inner locks; no leak, no foreign release; every call returns in spite of opposite orders and of a call that waits for itself |
| `lifecycle` | MCVolumeLifecycle.cfg | names are unique but for clones, live snapshots stay in their parent's list but for inspections, nothing is lost on the array but for inspections that delete by name |
| `share_lifecycle` | MCShareLifecycle.cfg | no two virtual file servers with one address while nobody removes; no address lost but by a thread that died; an administrator's FPG stays; a FAILED share has nothing exported; a share in CREATING is worked on |
| `create` | MCVolumeCreate.cfg | with a failure, a failing undo, a lock time-out and two removals: a failed creation leaves no volume outside of the group, no VV set and no member; replicated volumes stay in the group; a group with volumes runs when all is quiet and nothing failed; a volume is imported once |
| `create_rollback` | MCVolumeCreateRollback.cfg | finding: a replicated volume whose group could not be started is not taken back |
| `host_access` | MCHostAccess.cfg | an attached volume keeps its VLUNs and its host whatever the other volume does; a detached one has none left; LUN ids fit together; no host of the plugin stays idle |
| `requests` | MCBackendRouting.cfg | nothing stays on an array without a record while its name keeps its backend, and a snapshot is where its volume is, with stale caches, requests during initialization and restarts |
| `removed_where_created` | MCBackendRoutingStale.cfg | finding: a stale cache of another node sends a removal to the old backend |
| `share_mount` | MCShareMount.cfg | requests that do not overlap keep what is used mounted, allowed and recorded, and no share is removed while it is used; nobody uses a share before its mode and owner are set, overlapping or not |

### Bounds and why they are enough

* Mounts: two nodes; two mount ids on one and one on the other, so that containers
  share a mount and nodes compete. Five requests let every id mount and two of them
  come back, which is enough for takeover, graceful unmount by the new owner, late
  unmount by the old one and a new mount after it. `Delay = 1` gives both ends of the
  wait. The two ids of one node are symmetric. Two failures are the least with which a
  step and its undo fail together. The liveness run has two requests and no
  symmetry.
* Locks: three calls and two names are the smallest where two calls meet in opposite
  order while a third waits for itself. A patience of three ticks and a lease of three
  keep the ratio of the code (300 s each); bodies take at most one tick in total.
* Lifecycle: a volume, its snapshot, one free name and three calls, symmetric in the
  calls: enough for a removal, a new snapshot of the name and an inspection, the
  shortest way to lose a record. Two failures, so that a rollback may fail too.
* Shares: two CPGs, as creations of one CPG wait for each other; an FPG of the plugin
  and one of an administrator, each with a share, and room for two new ones; a pool of
  two addresses, so that it can be exhausted. Three calls allow a removal whose thread
  is late, a new creation of the name, and a creation on the other CPG; one failure or
  crash. The calls are symmetric.
* Creation: three requests, so that two creations and a removal of one group meet, and a
  plain one beside them; two removals, as the second may come after a first that failed;
  one volume to import, which two requests want. One failure, and one more in an undo.
* Hosts: two volumes and two ports are the least where a host is shared and where a call
  can stop between two VLUNs; two LUN ids, as many as volumes. Six requests let each
  volume be attached, evicted or detached, and attached again.
* Requests: two nodes, so that one's cache is stale; two names, a volume and its
  snapshot; two block backends and a file backend. Two creations, two removals, one
  look-up and one fault (a manager that cannot be made, or a restart): the second creation
  may use a name again.
* Share mounts: two containers on one node and one on the other with an administrator;
  five requests allow three mounts, an unmount and a removal; two failures.

`UniqueIps` is claimed only for runs without removals and `FailedIsClean` only while
nobody removes the share, as removals delete FPGs and records that a creation counts on
(section 6). `FailedIsClean` is claimed for one failure, as an undo command that raises
leaves the others undone. `FailedLeavesNothing` allows a volume that is in the group, and
no more: that is `create_rollback`. `NoOrphan` is claimed for names that have been used on
one backend only, and for shares that are not removed twice at once, as the second removal
works by the id of the first. `IntactUnlessDisturbed` is claimed for requests that come
one at a time, as the documentation of shares asks for (`docs/share_usage.md` 313), and
until an unmount stops half way or a node reboots with the share on record.

`FencedUse` is claimed up to the first failure and its consequences: with two it does not
hold, nor when a lease expires under a live holder; the code makes no claim for these.
`NotWipedInUse` is about the step with which the first failure comes: the mount that rolls
back is then the only one on its node and has evicted the other. It says nothing of a
volume that nobody uses, whose contents `_rollback` deletes when `umount_dir` has failed
(`volume_manager.py` 2020), nor of a rollback after an earlier failure, as that may have
left a mount behind or a node evicted that still has the volume. `UpMeansUsable` does not
hold with one failure, as a takeover that fails after the eviction has taken the volume
from the old node. A step that raises is taken not to have had its effect on etcd; on the array and
the host both outcomes are possible where the code can tell them apart later.

### Fairness

`mount_returns` assumes that the threads of a live plugin run on (they wait only for
the lock and for time), that a caller who keeps finding the lock free in turn gets it
(etcd serves its queue in order, hence strong fairness of `Acquire`), and that etcd
drops the lease of a dead holder. Docker is not obliged to do anything. `sync_locks`
assumes the same of threads and locks, and that time passes: a run of endlessly many
calls does not fit into one tick (strong fairness of `Tick`, which is disabled whenever
a deadline is due).

`CHECK_DEADLOCK FALSE` is set throughout because Docker may stop asking, and the number
of requests is bounded.

## 5. Proofs

| Theorem | Module | Statement |
|---|---|---|
| `TypeCorrect` | VolumeMount_proof | `Spec => []TypeOK`, with any failures |
| `FencingCorrect` | VolumeMount_proof | `NoFault => (Spec => [](UpMeansUsable /\ UpIsRecorded))` |
| `FencedUseCorrect` | VolumeMount_proof | `NoFault => (Spec => []FencedUse)` |
| `RecordCorrect` | VolumeMount_proof | `NoFault => (Spec => []UpIsRecorded)` |
| `NothingUnrecorded` | VolumeMount_proof | `NoFault => (Spec => []LeftoverOnRecord)` |
| `VolumeNotWiped` | VolumeMount_proof | `Spec => NotWipedInUse` |
| `FencingImplemented` | VolumeMount_proof | `NoFault => (Spec => ImplementsFencing)` |
| `TypeCorrect` | Synchronization_proof | `Spec => []TypeOK` |
| `MutualExclusion` | Synchronization_proof | `Spec => []OverlapNeedsExpiry` |
| `NoLeak` | Synchronization_proof | `Spec => []HeldFromInside` |
| `OnlyOwnRelease` | Synchronization_proof | `Spec => NoForeignRelease` |
| `LeasesLastBodies` | Synchronization_proof | `Spec => []LateOnlyByWaiting` |
| `TypeCorrect` | VolumeLifecycle_proof | `Spec => []TypeOK` |
| `NamesAreUnique` | VolumeLifecycle_proof | `Spec => []UniqueUnlessCloned` |
| `NothingIsLost` | VolumeLifecycle_proof | `Spec => []NothingLost` |
| `ReferencesStay` | VolumeLifecycle_proof | `Spec => BackReferenceKept` |
| `TypeCorrect` | VolumeCreate_proof | `Spec => []TypeOK` |
| `NothingLeftBehind` | VolumeCreate_proof | `Spec => []FailedLeavesNothing` |
| `ReplicatedStays` | VolumeCreate_proof | `Spec => []ReplicatedIsInGroup` |
| `GroupIsStarted` | VolumeCreate_proof | `Spec => []GroupReplicates` |
| `RecordsAreOne` | VolumeCreate_proof | `Spec => []OneRecordPerRef` |
| `TypeCorrect` | HostAccess_proof | `Spec => []TypeOK` |
| `StaysReachable` | HostAccess_proof | `Spec => []AttachedIsReachable` |
| `RemovedEverywhere` | HostAccess_proof | `Spec => []DetachedIsGone` |
| `LunsAreOne` | HostAccess_proof | `Spec => []LunsAgree` |
| `HostsAreUsed` | HostAccess_proof | `Spec => []NoIdleHost` |
| `TypeCorrect` | BackendRouting_proof | `Spec => []TypeOK` |
| `NothingLeft` | BackendRouting_proof | `Spec => []NoOrphan` |
| `SnapshotsFollow` | BackendRouting_proof | `Spec => []SnapshotWithSource` |
| `OptionsAgree` | BackendRouting_proof | what `ValidNames` admits is refused by no name and branches to its `Operation`, or to a plain creation when `replicationGroup` is empty, for any set of options |
| `TypeCorrect` | ShareLifecycle_proof | `Spec => []TypeOK` |
| `ForeignFpgsKept` | ShareLifecycle_proof | `Spec => []ForeignKept` |
| `LockedIpsHaveHolder` | ShareLifecycle_proof | `Spec => []LockedIpsAccounted` |
| `CreatingIsWorkedOn` | ShareLifecycle_proof | `Spec => []Settled` |
| `AddressesAreUnique` | ShareLifecycle_proof | `Spec => []UniqueIps` |
| `FailuresAreClean` | ShareLifecycle_proof | `Spec => []FailedIsClean` |
| `TypeCorrect` | ShareMount_proof | `Spec => []TypeOK` |
| `PermissionsSet` | ShareMount_proof | `Spec => []PermissionsBeforeUse` |
| `SequentialIntact` | ShareMount_proof | `Spec => []IntactUnlessDisturbed` |

They hold for every value of the constants that the named assumptions admit; TLC
evaluates these in the runs. `MountAssumption` (of `VolumeMount` and of `ShareMount`),
`SyncAssumption`, `HostAssumption` and `CreateAssumption` say that the values standing for
nothing or nobody are none of the others, that the names of different things differ, and
that limits are numbers. So do `NoShareAssumption`, `RecordAssumption` and
`RoutingAssumption`, for records. `ShareAssumption` and `LifecycleAssumption` describe what
there may be in the beginning: FPGs with addresses of their own, and shares, volumes and
snapshots that the plugin could have made; of two volumes of one name one is a clone, as
`_clone_volume` alone does not look. `OptionsAssumption` says that a backend is of one
kind, and that the default is one of them. Every inductive invariant below was also
checked by TLC on the instance of its run, `CalmInv` with three requests.

*Mounts.* `TypeInv` strengthens the type invariant for the induction. `FencingInv` adds
four parts: `LockInv`, that the requests in a critical section are exactly the holder of
the lock; `UpInv`, the two properties themselves; `Settled`, that between two critical
sections the volume is exported to its owner only, whose mount works, and path and owner
agree; and `Holder`, what the request inside has done so far, point by point, including
that nobody is up while the record and the host disagree. `Settled` and `Holder` are
needed because the properties say nothing of a record that is half written. `NoFault`
(no failure event, no lease that expires under its holder) is a real restriction: with a
failure `UpMeansUsable` is false. Requests, lock time-outs and the conflict delay are
unbounded. The refinement follows step by step: `Start` is the answer to a mount,
`Stop` the unmount request, `TakeOver` the eviction, everything else stutters.

`NothingUnrecorded` adds `LeftoverInv`: whatever a node has of the volume is the owner's or
is named by `path_info` or `old_path_info`, between two critical sections; and inside of
one, what the request has still to write or to take away (`LeftHolder`). `VolumeNotWiped`
has no such premise, as the property itself ends with the first failure: `CalmInv` says
that `FencingInv` holds until then (`Calm`), however many failures the limits admit
(`StepSpares`, `CalmBefore`). So a mount that comes to its undo list then is alone
inside, and `Holder` says that nobody is up with the volume while it makes the export
(`RollbackSpares`), whichever of the undo functions fail with it.

*Locks.* `LockInv` says that a frame that is inside with a running lease holds its name,
that a holder is inside, and that only frames inside count as late. The rest follows.
`LeasesLastBodies` assumes nothing of the lease and the timeout. For the code's values, 300 s
each, it says that the lease of an innermost lock, taken by most calls alone, outlasts
every body that is shorter than it, and that only a call that waits for another lock
inside can lose its own (section 6). `LeaseInv` bounds the age of each lease that its
holder still has by what its call has spent (`Spent`): the ticks in bodies, a full wait
for every inner lock behind it, and the present wait; a frame that becomes late has
spent the lease.

*Volume lifecycle.* Nothing is assumed of failures, crashes and expirations, nor of how
many calls there are. `DataInv` says that a volume on record, on the array or in a list
was made by a call that got so far. `CallInv` has, for each call, what it has read
(`SeenInv`, `ViewInv`), which locks it holds (`LockInv`), and the two parts that matter:
`UniqueInv`, that from the look under the lock of a name to the write nobody but a clone
has saved a record of it, as who would must hold the lock; and `ListInv`, that a list about
to be written still has every live snapshot of the volume, because it was read under the
lock that is held. The proof of `ReferencesStay` failed at first for a reason: a list that
an inspection had brought back could be cut by a snapshot call that had read it before,
which takes five calls and is out of the run's bounds. The property now names that case (`PutBack`); it is another effect of the inspections that write
without a lock (section 6). `LossInv` follows a volume from the failed write to the
rollback that deletes it, by the number of failures.

*Volume creation.* Nothing is assumed of failures. `Bottom` says that the step that undoes
the volume is the first on the list and is there once; `LeftInv`, that what a creation has
made and not saved is on its list or in the group; `InfoInv`, that a volume has replication
details only from when it is in the group, to the removal that takes it out. That is what
`ReplicatedStays` rests on: nobody but its own removal takes a volume out of a group, and
the array deletes no group that is not empty. `GroupInv` keeps a witness for a group that
is stopped without failures: a request that is going to start it (`Starter`), though not
always the one that stopped it. `FromInv` says that the name of an imported volume is gone,
so that the rename of a second import fails.

*Hosts.* Nothing is assumed of failures or of which driver it is. `OnPath` says that the
node is known by one name at a time: all VLUNs are to the host that has its path. The
calls for other volumes of the node, which hold other locks, can do five things to the
array only (`ArrayStep`): give the path to the node's own host when nobody has it, remove
a host without VLUNs, make a VLUN on the path, remove VLUNs of their own volume, or
nothing. What a call knows survives each of them (`NameOk`, `RemovesAll`, `Reaches`). The
host that a call has found may be removed before it makes its VLUN; the VLUN then fails,
it does not go elsewhere. `LunInv` relates the LUN id a call wants to use to the VLUNs
there are, and `HostInv` names who minds a host that has none.

*Backends and options.* `PlaceInv` says that a cache entry, a record and an object are on
a backend that the name has been used on (`homes`), `SentInv` the same of deferred removals;
so with one home none of them can be wrong, which is `NothingLeft`. For shares `AloneInv`
adds that until a second removal is asked for, the record that a removal took along is
still the one there is. `SnapshotInv` goes through every step that writes a record, as the
volume may only go when it has no snapshots. `OptionsAgree` is not about states, so no run
checks it: the options that the validator admits for each operation are few enough to
follow `volumedriver_create` with each, for any combination of them.

*Shares.* Nothing is assumed of failures, crashes, lock time-outs or removals: the three
first three invariants hold with any number of them. `TypeOK` is inductive only together with
`RecInv` and `CallInv`: the CPG that goes into metadata comes from a request or a record
that has one, and a share is put on an FPG that has been chosen. `ShareInv` then has one
part for each invariant, and `MadeInv`, on which all of them rest: what is on the undo
list at each point of a creation. An address is on it only after the FPG it was claimed
for, the command being undone is the last entry, and a creation goes to another FPG only
while it has made none.

* `ForeignKept` rests on `ForeignCall`: from the moment `CreateFpgCmd` has made an FPG to
  the end of its undo, its name is not one of an administrator's, because the array
  refuses a name that is there; and no metadata is ever saved for an administrator's FPG,
  so that `_fpg_owned_by_docker` tells it apart in a removal.
* `LockedIpsAccounted` keeps a witness for each locked address: the creation whose `view`
  has it, from the claim to `mark_ip_in_use` or the undo. A thread whose undo raised ends
  as `broken`, one that died as `dead`: neither is a normal end, and both may keep it.
* `Settled` keeps the creation of the name as its witness; a second creation or a removal
  finds the status CREATING or the lock and does not write. A thread that ended as
  `broken` or `dead` may leave the record in CREATING for good.

The last two rest on `CreationInv`, which adds three parts to `ShareInv`. `OnceInv`: a
creation has one FPG and one address on its undo list, and who removes has asked to.

* `UniqueIps` rests on `ApartInv`, which holds as long as nobody removes: creations that
  have an FPG, from when the array made it to the undo, have different ones, which exist;
  and their addresses differ, each locked or on the VFS of the creation's own FPG. An
  address that is claimed is therefore neither on the array nor another creation's, and
  the undo of a claim frees nobody else's. With removals neither half is true (section 6).
* `FailedIsClean` rests on `CleanInv`: an exported share of a name that nobody removes has
  a creation that succeeded, that ended by an exception or died, or that still has the
  share on its undo list or takes it back at once (`Kept`). It also has to know that the
  record is there (`Recorded`), or `MakeAvailable` would make a second FPG and leave the
  first share behind.

*Share mounts.* Nothing is assumed of failures, crashes and reboots. `TypeInv` adds to the
types that only containers mount and unmount, so that the ids on record are containers.
`PermissionsSet` rests on `Untouched`, which holds while mode and owner have to be set and
are not: nobody uses the share, no container is on record, in a record read earlier either,
and no mount is about to be saved. A second first mount sets them again, which is why it
does not matter that requests overlap. `SequentialIntact` rests on `Orderly`, which holds
while `disturbed` is false: one request is active, the record it has read is the present
one, what is used is mounted, allowed and recorded, and what is recorded is mounted and
allowed but for the node of an unmount that is half done; `Progress` has what is known at
each step: of a removal that has begun, that no container is on record.

*Model-checked only:* the liveness properties (`RequestReturns`, `EveryCallReturns`), as
neither fairness nor `ENABLED` can be reasoned about here; `FencedUse` with a failure,
which is 9 of the plan; and the two findings, which are counterexamples.

## 6. Findings

Shown by a run:

1. `create_rollback` (`volume_manager.py` 2157): the undo step of an addition to a group
   is registered after the group has been started again, and it passes `vol_name` where
   the driver takes `bkend_vol_name`; the volume stays in the group and on the array.
2. `removed_where_created` (`backend_orchestrator.py` 122): the cache is asked before the
   record, and only the node that removes a volume drops its entry; a removal on another
   node goes to the backend of an earlier volume of the name.

Met while modelling, and in the hazards where a property is near; the model has each of
them, the properties are stated so as not to claim otherwise:

* `old_path_info` is looked at only while somebody owns the volume (`volume_manager.py`
  1784), so the late unmount of an evicted node, after the new owner's, raises and leaves
  its mount and device.
* After a reboot that loses the device, the mount writes the stale mount ids back and
  drops the new one (1672).
* The lease of a lock is as long as one wait (`etcdutil.py` 522), so a wait for a nested
  lock can let a second node into the outer method.
* `_clone_volume` does not look whether its name is in use (871).
* An inspection writes an old snapshot list back without the lock and deletes records by
  name, so that it can forget a live snapshot or delete the record of a new volume. What it has
  put back, a snapshot call that had read the list before takes off again.
* A removal counts the shares of an FPG and deletes it under the FPG's lock, a creation
  on an existing FPG holds the CPG's (`cmd/cmd_deleteshare.py` 69); the undo of a claim
  also unlocks an address that has been claimed anew (`cmd/cmd_claimavailableip.py` 35).
* The undo of a default FPG drops the default FPGs of every CPG; an FPG whose metadata
  could not be saved is not undone; a removal that can write but not delete a record ends
  with a `TypeError`.
* A creation that does not get the group's lock saves the decorator's answer as
  `rcg_info`, and the volume can never be removed (`volume_manager.py` 248). A removal of
  a replicated volume that failed in the middle cannot be repeated, as its handler
  iterates over an exception (`hpe/hpe_3par_common.py` 1017). The set a flash-cache volume
  gets is not deleted with it. The undo step of an import passes a string for the details.
* With iSCSI multipath an attachment after one that failed half way gives the missing
  ports another LUN id (`hpe/hpe_3par_iscsi.py` 265); with Fibre Channel it does not add
  them (`hpe/hpe_3par_fc.py` 171).
* A volume with an empty `replicationGroup` is validated as replicated and made plain
  (`hpe_storage_api.py` 507); an import without `backend` is checked against `DEFAULT`
  where the default may be another (`request_validator.py` 124); `snaphotPrefix` is
  misspelt there (24), which does no harm. A backend with a `replication_device` makes
  ordinary volumes when there is no `replicationGroup`, which the comment at the call
  (514-516) and `docs/replication.md` 31 rule out; a line is logged (571).
* `remove_share` refuses a share that is mounted by the record that the router read
  (`file_manager.py` 554): a mount that comes in between is not seen, and the share is
  wiped under its container. A mount that raises after NFS has mounted the share keeps later first mounts out; a second
  removal saves the record of a share that is gone, as FAILED.

## 7. Not modelled

Replicated volumes in mounts and attachment without a mount; snapshot schedules, VV sets
of clones; CHAP and the choice of the least used iSCSI port; clones in `BackendRouting`,
which are resolved like snapshots: section 2 says where the first ones go. VFS IP ranges
are expanded once from the configuration; the pool is a constant. In `ShareLifecycle`,
sizes and quotas are choices, the request's `size` being data, and what a command did on
the array before it raised is left out; in `VolumeCreate` and `HostAccess` a call that
raises has had no effect. What `blkid` says of a device (`fileutil.py` 37) is not part of
`VolumeMount`, which knows no contents but that they were deleted. python-etcd is external, and its lock is modelled from the
two arguments that `etcdutil.py` 522 passes: the lease is counted from the grant. If the
library counts `lock_ttl` from when the caller queues, a lease is shorter by the wait for
the lock itself; the locking properties but `LateOnlyByWaiting` say nothing of how long a
lease is, and that one then has one wait more to allow.

Steps that the code makes in more pieces: the import of a snapshot, which reads and saves
the parent's record whole without a lock (`volume_manager.py` 417-493), saves in
`VolumeCreate` only its own record. `PreferHost` of `HostAccess` is both `queryHost` and
the `getHost` after it (`hpe/hpe_3par_common.py` 1234); if the host goes in between, the
code makes a new one (`hpe/hpe_3par_fc.py` 304). In `BackendRouting` a volume and a share
cannot have one name, as the API looks for both; that look takes no lock, and the
managers look for their own kind only. The syntax of option
values, logging, help texts, list and capabilities answers, and the patched third-party
code have no state of their own.
