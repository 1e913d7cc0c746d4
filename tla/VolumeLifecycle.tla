---------------------------- MODULE VolumeLifecycle ----------------------------
(***************************************************************************)
(* How block volumes and snapshots come and go: create_volume,             *)
(* clone_volume, create_snapshot, remove_volume and the inspection that    *)
(* synchronizes the snapshots with the array (volume_manager.py), each     *)
(* step on the array or in etcd an action of its own.                      *)
(*                                                                         *)
(* A volume is known by the call that made it: its id is a uuid4 that only *)
(* this call draws.  Its name is the one the call was given, and records   *)
(* are looked up by name.  The lease of a live holder is long enough here; *)
(* Synchronization has what happens otherwise.                             *)
(***************************************************************************)
EXTENDS Naturals, FiniteSets

CONSTANTS
  Call,       \* threads that serve one request each, on any node
  Name,       \* names that Docker users give to volumes and snapshots
  Request,    \* the requests that may come in
  Past,       \* the calls that have made what exists in the beginning
  PastRequest,\* what those calls did
  PastParent, \* the volume of which each of them made a snapshot, if it did
  None,       \* no request, no volume
  Free,       \* nobody holds the lock
  Limit       \* how often each kind of event below may happen

\* A call to etcd or the array that raises, or the death of the thread's plugin;
\* the array removing a snapshot whose expirationHours are over.
Event == {"failure", "expiry"}

\* A request is about "name", and makes it from "src" if it copies.
Op == {"create", "clone", "snapshot", "remove", "inspect"}
Makes == {"create", "clone", "snapshot"}
Copies == {"clone", "snapshot"}

ASSUME LifecycleAssumption ==
  /\ Request \subseteq [op : Op, name : Name, src : Name \union {None}]
  /\ \A r \in Request : r.op \in Copies <=> r.src # None
  /\ Past \subseteq Call
  /\ PastRequest \in [Past -> {r \in Request : r.op \in Makes}]
  /\ PastParent \in [Past -> Past \union {None}]
  /\ \A c, d \in Past : c # d /\ PastRequest[c].name = PastRequest[d].name =>
       "clone" \in {PastRequest[c].op, PastRequest[d].op}
  /\ \A c \in Past : PastRequest[c].op = "snapshot" <=> PastParent[c] # None
  /\ None \notin Call /\ None \notin Request /\ None \notin Name
  /\ Free \notin Call
  /\ Limit \in [Event -> Nat]

VARIABLES
  req,      \* the request each call serves
  pc,       \* where it is
  view,     \* the record a call works on, and its copy of the snapshots there
  lock,     \* holder of the etcd lock on each name
  saved,    \* the volumes that have a record in etcd
  children, \* the "snapshots" of each record
  parent,   \* the volume_id each snapshot was made of, also in its snap_metadata
  array,    \* the volumes and snapshots on the array
  used      \* how many events of each kind have happened

vars == <<req, pc, view, lock, saved, children, parent, array, used>>
etcd == <<saved, children, parent>>

-----------------------------------------------------------------------------
\* "made", "undone", "done" and "dead" are ends: the volume was made, what had been
\* done was rolled back, anything else, and the plugin died.
Point == {"idle", "outer", "read", "inner", "source", "make", "save", "save_parent",
          "destroy", "parent", "update_parent", "delete", "compare", "drop",
          "update_list", "made", "undone", "done", "dead"}

View == [vol : Call \union {None}, of : Call \union {None},
         snaps : SUBSET Call, drop : SUBSET Call]

NoView == [vol |-> None, of |-> None, snaps |-> {}, drop |-> {}]

IsSnap(v) == req[v].op = "snapshot"

TypeOK ==
  /\ req \in [Call -> Request \union {None}]
  /\ pc \in [Call -> Point]
  /\ view \in [Call -> View]
  /\ lock \in [Name -> Call \union {Free}]
  /\ saved \subseteq Call
  /\ children \in [Call -> SUBSET Call]
  /\ parent \in [Call -> Call \union {None}]
  /\ array \subseteq Call
  /\ \A v \in saved \union array : req[v] # None /\ (IsSnap(v) <=> parent[v] # None)
  /\ used \in [Event -> Nat]
  /\ \A e \in Event : used[e] <= Limit[e]

Init ==
  /\ req = [c \in Call |-> IF c \in Past THEN PastRequest[c] ELSE None]
  /\ pc = [c \in Call |-> IF c \in Past THEN "made" ELSE "idle"]
  /\ view = [c \in Call |-> NoView]
  /\ lock = [n \in Name |-> Free]
  /\ saved = Past
  /\ children = [c \in Call |-> {s \in Past : PastParent[s] = c}]
  /\ parent = [c \in Call |-> IF c \in Past THEN PastParent[c] ELSE None]
  /\ array = Past
  /\ used = [e \in Event |-> 0]

-----------------------------------------------------------------------------
Spend(e, k) == used[e] + k <= Limit[e] /\ used' = [used EXCEPT ![e] = @ + k]

GoTo(c, p) == pc' = [pc EXCEPT ![c] = p]

See(c, v) == view' = [view EXCEPT ![c] = v]

\* get_vol_byname returns the first of the records with the name, in the order of
\* their ids, or None.
Named(n) == {v \in saved : req[v].name = n}

\* The finally clauses release what the call holds; the response goes out.
End(c, p) ==
  /\ GoTo(c, p)
  /\ lock' = [n \in Name |-> IF lock[n] = c THEN Free ELSE lock[n]]

\* The response goes out, nothing else has happened.
Refuse(c) == End(c, "done") /\ UNCHANGED <<req, view, etcd, array, used>>

\* VolumeDriver.Create looks for the name before anything else, without a lock;
\* an inspection takes no lock at all.
Receive(c, r) ==
  /\ pc[c] = "idle"
  /\ req' = [req EXCEPT ![c] = r]
  /\ GoTo(c, CASE r.op = "inspect" -> "read"
               [] r.op \in Makes /\ Named(r.name) # {} -> "done"
               [] OTHER -> "outer")
  /\ UNCHANGED <<view, lock, etcd, array, used>>

\* The name in the first decorator, and the one in that of the method it calls:
\* _create_snapshot, _clone_volume or remove_snapshot.
Outer(c) == IF req[c].op = "clone" THEN req[c].src ELSE req[c].name

Inner(c) == CASE req[c].op = "clone" -> req[c].name
              [] req[c].op = "snapshot" -> req[c].src
              [] OTHER -> req[view[c].vol].src

LockOuter(c) ==
  /\ pc[c] = "outer"
  /\ lock[Outer(c)] = Free
  /\ lock' = [lock EXCEPT ![Outer(c)] = c]
  /\ GoTo(c, "read")
  /\ UNCHANGED <<req, view, etcd, array, used>>

AfterInner(c) == CASE req[c].op = "clone" -> "make"
                   [] req[c].op = "snapshot" -> "source"
                   [] OTHER -> "parent"

\* A bug to be noticed: the inner method has lost its decorator.
SkipInner(c) ==
  /\ pc[c] = "inner"
  /\ GoTo(c, AfterInner(c))
  /\ UNCHANGED <<req, view, lock, etcd, array, used>>

LockInner(c) ==
  /\ pc[c] = "inner"
  /\ lock[Inner(c)] = Free
  /\ lock' = [lock EXCEPT ![Inner(c)] = c]
  /\ GoTo(c, AfterInner(c))
  /\ UNCHANGED <<req, view, etcd, array, used>>

\* HPEPluginLockFailed: the method is answered with Err '' and not run; a removal
\* goes on when remove_snapshot comes back.
LockTimeout(c) ==
  \/ /\ pc[c] = "outer" /\ lock[Outer(c)] # Free
     /\ Refuse(c)
  \/ /\ pc[c] = "inner" /\ lock[Inner(c)] # Free
     /\ IF req[c].op = "remove"
          THEN GoTo(c, "delete") /\ UNCHANGED <<req, view, lock, etcd, array, used>>
          ELSE Refuse(c)

-----------------------------------------------------------------------------
(* create_volume, clone_volume and create_snapshot *)

\* A bug to be noticed: the check of VolumeDriver.Create is held to be enough.
CreateUnchecked(c) ==
  /\ pc[c] = "read" /\ req[c].op = "create"
  /\ GoTo(c, "make") /\ UNCHANGED <<req, view, lock, etcd, array, used>>

Create(c) ==
  /\ pc[c] = "read" /\ req[c].op = "create"
  /\ IF Named(req[c].name) # {}
       THEN Refuse(c)
       ELSE GoTo(c, "make") /\ UNCHANGED <<req, view, lock, etcd, array, used>>

\* No source, one that has an active task, too small a size or a snapshot ends it.
\* Nobody looks again whether the name of the clone is in use.
Clone(c) ==
  /\ pc[c] = "read" /\ req[c].op = "clone"
  /\ \/ Refuse(c)
     \/ \E v \in Named(req[c].src) :
          /\ ~IsSnap(v)
          /\ See(c, [NoView EXCEPT !.of = v])
          /\ GoTo(c, "inner")
          /\ UNCHANGED <<req, lock, etcd, array, used>>

Snapshot(c) ==
  /\ pc[c] = "read" /\ req[c].op = "snapshot"
  /\ IF Named(req[c].name) # {}
       THEN Refuse(c)
       ELSE GoTo(c, "inner") /\ UNCHANGED <<req, view, lock, etcd, array, used>>

\* _create_snapshot reads the source under both locks and refuses one that is
\* missing, busy on the array or a snapshot itself.
ReadSource(c) ==
  /\ pc[c] = "source"
  /\ \/ Refuse(c)
     \/ \E v \in Named(req[c].src) :
          /\ ~IsSnap(v)
          /\ See(c, [NoView EXCEPT !.of = v, !.snaps = children[v]])
          /\ GoTo(c, "make")
          /\ UNCHANGED <<req, lock, etcd, array, used>>

\* A bug to be noticed: the snapshot is made without volume_id.
MakeLoose(c) ==
  /\ pc[c] = "make"
  /\ array' = array \union {c}
  /\ GoTo(c, "save")
  /\ UNCHANGED <<req, view, lock, etcd, used>>

\* The driver makes the volume or copies its source, which the array must have.
\* When it raises, the volume may be there, and no undo step is registered.
Make(c) ==
  /\ pc[c] = "make"
  /\ parent' = IF IsSnap(c) THEN [parent EXCEPT ![c] = view[c].of] ELSE parent
  /\ \/ /\ view[c].of \in array \union {None}
        /\ array' = array \union {c}
        /\ GoTo(c, "save")
        /\ UNCHANGED <<lock, used>>
     \/ /\ view[c].of \in Call \ array
        /\ End(c, "done")
        /\ UNCHANGED <<array, used>>
     \/ /\ Spend("failure", 1)
        /\ End(c, "done")
        /\ array' \in {array, array \union {c}}
  /\ UNCHANGED <<req, view, saved, children>>

\* A bug to be noticed: the driver's undo step is not registered.
UndoRecord(c, undo) ==
  /\ Spend("failure", 1)
  /\ saved' = IF "record" \in undo THEN saved \ {c} ELSE saved
  /\ End(c, "undone")
  /\ UNCHANGED array

\* _rollback after a step that raised; it ignores what the undo functions raise.
Undo(c, undo) ==
  \E failed \in SUBSET undo :
    /\ Spend("failure", 1 + Cardinality(failed))
    /\ saved' = IF "record" \in undo \ failed THEN saved \ {c} ELSE saved
    /\ array' = IF "array" \in failed THEN array ELSE array \ {c}
    /\ End(c, "undone")

SaveRecord(c) ==
  /\ pc[c] = "save"
  /\ \/ /\ saved' = saved \union {c}
        /\ IF IsSnap(c) THEN GoTo(c, "save_parent") /\ UNCHANGED lock ELSE End(c, "made")
        /\ UNCHANGED <<array, used>>
     \/ Undo(c, {"array"})
  /\ UNCHANGED <<req, view, children, parent>>

\* save_vol of the source, whole, as it was read; it would bring a deleted one back.
SaveParent(c) ==
  LET v == view[c].of IN
  /\ pc[c] = "save_parent"
  /\ \/ /\ saved' = saved \union {v}
        /\ children' = [children EXCEPT ![v] = view[c].snaps \union {c}]
        /\ End(c, "made")
        /\ UNCHANGED <<array, used>>
     \/ Undo(c, {"array", "record"}) /\ UNCHANGED children
  /\ UNCHANGED <<req, view, parent>>

-----------------------------------------------------------------------------
(* remove_volume and remove_snapshot *)

Remove(c) ==
  /\ pc[c] = "read" /\ req[c].op = "remove"
  /\ \/ Named(req[c].name) = {} /\ Refuse(c)
     \/ \E v \in Named(req[c].name) :
          IF children[v] # {}
            THEN Refuse(c)
            ELSE /\ See(c, [NoView EXCEPT !.vol = v])
                 /\ GoTo(c, "destroy")
                 /\ UNCHANGED <<req, lock, etcd, array, used>>

\* delete_volume of the driver takes a missing volume for deleted; the array does
\* not delete a volume that has snapshots.
Destroy(c) ==
  LET v == view[c].vol
      kids == {s \in array : parent[s] = v}
  IN
  /\ pc[c] = "destroy"
  /\ \/ /\ kids = {}
        /\ array' = array \ {v}
        /\ GoTo(c, IF IsSnap(v) THEN "inner" ELSE "delete")
        /\ UNCHANGED <<lock, used>>
     \/ kids # {} /\ End(c, "done") /\ UNCHANGED <<array, used>>
     \/ Spend("failure", 1) /\ End(c, "done") /\ UNCHANGED array
  /\ UNCHANGED <<req, view, etcd>>

\* Back from remove_snapshot, whatever it answers.
BackFromParent(c) ==
  /\ GoTo(c, "delete")
  /\ lock' = [lock EXCEPT ![Inner(c)] = Free]

\* remove_snapshot takes the first entry with the snapshot's name off its copy.
ReadParent(c) ==
  LET v == view[c].vol
      entries(p) == {s \in children[p] : req[s].name = req[v].name}
      parents == Named(req[v].src)
  IN
  /\ pc[c] = "parent"
  /\ \/ /\ parents = {} \/ \E p \in parents : entries(p) = {}
        /\ BackFromParent(c)
        /\ UNCHANGED view
     \/ \E p \in parents : \E s \in entries(p) :
          /\ See(c, [view[c] EXCEPT !.of = p, !.snaps = children[p] \ {s}])
          /\ GoTo(c, "update_parent")
          /\ UNCHANGED lock
  /\ UNCHANGED <<req, etcd, array, used>>

\* update_vol reads the record again and replaces its list; what it raises is
\* answered and forgotten.
UpdateParent(c) ==
  LET p == view[c].of IN
  /\ pc[c] = "update_parent"
  /\ \/ p \in saved /\ children' = [children EXCEPT ![p] = view[c].snaps] /\ UNCHANGED used
     \/ p \notin saved /\ UNCHANGED <<children, used>>
     \/ Spend("failure", 1) /\ UNCHANGED children
  /\ BackFromParent(c)
  /\ UNCHANGED <<req, view, saved, parent, array>>

\* delete_vol raises when the record is gone; then the call ends the same way.
DeleteRecord(c) ==
  /\ pc[c] = "delete"
  /\ \/ saved' = saved \ {view[c].vol} /\ UNCHANGED used
     \/ Spend("failure", 1) /\ UNCHANGED saved
  /\ End(c, "done")
  /\ UNCHANGED <<req, view, children, parent, array>>

-----------------------------------------------------------------------------
(* get_volume_snap_details, which takes no lock *)

\* The record inspected, or the parent's for a snapshot, and its list.
Inspect(c) ==
  /\ pc[c] = "read" /\ req[c].op = "inspect"
  /\ \/ Refuse(c)
     \/ \E v \in Named(req[c].name) :
        \E p \in IF IsSnap(v) THEN Named(req[v].src) ELSE {v} :
          /\ children[p] # {}
          /\ See(c, [NoView EXCEPT !.of = p, !.snaps = children[p]])
          /\ GoTo(c, "compare")
          /\ UNCHANGED <<req, lock, etcd, array, used>>

\* _get_snapshots_to_be_deleted: those the array does not list for the volume.
Compare(c) ==
  LET gone == {s \in view[c].snaps : ~(s \in array /\ parent[s] = view[c].of)} IN
  /\ pc[c] = "compare"
  /\ See(c, [view[c] EXCEPT !.drop = gone])
  /\ GoTo(c, IF gone = {} THEN "done" ELSE "drop")
  /\ UNCHANGED <<req, lock, etcd, array, used>>

\* _remove_snap_record deletes the record that has the name of the dropped entry,
\* whichever it is, and raises if there is none.
DropRecord(c) ==
  /\ pc[c] = "drop"
  /\ \E s \in view[c].drop :
       LET left == view[c].drop \ {s} IN
       \/ \E v \in Named(req[s].name) :
            /\ saved' = saved \ {v}
            /\ See(c, [view[c] EXCEPT !.snaps = @ \ {s}, !.drop = left])
            /\ GoTo(c, IF left = {} THEN "update_list" ELSE "drop")
            /\ UNCHANGED used
       \/ Named(req[s].name) = {} /\ GoTo(c, "done") /\ UNCHANGED <<view, saved, used>>
       \/ Spend("failure", 1) /\ GoTo(c, "done") /\ UNCHANGED <<view, saved>>
  /\ UNCHANGED <<req, lock, children, parent, array>>

\* update_vol of the list that was read in the beginning.
UpdateList(c) ==
  LET p == view[c].of IN
  /\ pc[c] = "update_list"
  /\ GoTo(c, "done")
  /\ \/ p \in saved /\ children' = [children EXCEPT ![p] = view[c].snaps] /\ UNCHANGED used
     \/ p \notin saved /\ UNCHANGED <<children, used>>
     \/ Spend("failure", 1) /\ UNCHANGED children
  /\ UNCHANGED <<req, view, lock, saved, parent, array>>

-----------------------------------------------------------------------------
\* The array removes a snapshot whose time is over.
Expire(s) ==
  /\ s \in array /\ IsSnap(s)
  /\ Spend("expiry", 1)
  /\ array' = array \ {s}
  /\ UNCHANGED <<req, pc, view, lock, etcd>>

Final == {"made", "undone", "done", "dead"}

\* The plugin dies; the locks of its call stay until their lease is over.
Crash(c) ==
  /\ pc[c] \notin Final \union {"idle"}
  /\ Spend("failure", 1)
  /\ GoTo(c, "dead")
  /\ UNCHANGED <<req, view, lock, etcd, array>>

OrphanExpires(n) ==
  /\ lock[n] # Free
  /\ pc[lock[n]] = "dead"
  /\ lock' = [lock EXCEPT ![n] = Free]
  /\ UNCHANGED <<req, pc, view, etcd, array, used>>

Making(c) ==
  Create(c) \/ Clone(c) \/ Snapshot(c) \/ ReadSource(c)
    \/ Make(c) \/ SaveRecord(c) \/ SaveParent(c)

Removing(c) ==
  Remove(c) \/ Destroy(c) \/ ReadParent(c) \/ UpdateParent(c) \/ DeleteRecord(c)

Inspecting(c) == Inspect(c) \/ Compare(c) \/ DropRecord(c) \/ UpdateList(c)

Next ==
  \/ \E c \in Call :
       \/ \E r \in Request : Receive(c, r)
       \/ LockOuter(c) \/ LockInner(c) \/ LockTimeout(c)
       \/ Making(c) \/ Removing(c) \/ Inspecting(c)
       \/ Expire(c) \/ Crash(c)
  \/ \E n \in Name : OrphanExpires(n)

Spec == Init /\ [][Next]_vars

-----------------------------------------------------------------------------
(* Properties *)

SameName(u, v) == u # v /\ req[u].name = req[v].name

\* Names are unique as far as create_volume and create_snapshot go, which look for
\* the name again under its lock: of two records of a name, one is a clone's.
UniqueUnlessCloned ==
  \A u, v \in saved : SameName(u, v) => "clone" \in {req[u].op, req[v].op}

Inspected(p) == \E c \in Call : pc[c] = "update_list" /\ view[c].of = p

\* An inspection that is over had s in its copy of the list of p, and may have put it
\* back there.
PutBack(s, p) ==
  \E c \in Call :
    /\ pc[c] = "done" /\ req[c].op = "inspect"
    /\ view[c].of = p /\ s \in view[c].snaps

\* No snapshot call loses the back reference that another one made: a live snapshot
\* leaves the list of its parent only when an inspection writes back its old copy, or
\* when one had brought it back after the call had read the list.
ReferenceLost(s, p) ==
  s \in array \intersect array' /\ s \in saved /\ s \in children[p] /\ s \notin children'[p]

BackReferenceKept ==
  [][\A s, p \in Call : ReferenceLost(s, p) => Inspected(p) \/ PutBack(s, p)]_vars

\* An inspection may have deleted the record of v for another of the same name.
MistakenForSnapshot(v) ==
  \E c, s \in Call :
    /\ req[c] # None /\ req[c].op = "inspect"
    /\ req[s] # None /\ req[s].op = "snapshot" /\ SameName(s, v)

\* Nothing stays on the array without a record, neither what a call has answered
\* to have made nor what it has rolled back after one failure, unless an inspection
\* has taken it for a snapshot of the same name.
NothingLost ==
  \A v \in array \ saved :
    \/ pc[v] \notin {"made", "undone"}
    \/ pc[v] = "undone" /\ used["failure"] > 1
    \/ MistakenForSnapshot(v)
=============================================================================
