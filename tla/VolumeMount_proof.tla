-------------------------- MODULE VolumeMount_proof --------------------------
(* Proofs about mounting a volume with fencing, as modelled in VolumeMount. *)
EXTENDS VolumeMount, FiniteSetTheorems, TLAPS

-----------------------------------------------------------------------------
(* Type correctness *)

\* TypeOK, and what makes it inductive: a poll is under way only while checks are
\* left, and an unmount works from old_path_info only when it found an entry.
TypeInv ==
  /\ TypeOK
  /\ \A m \in MountId : pc[m] = "poll" => polls[m] < Delay
  /\ \A m \in MountId : pc[m] = "u_old" => view[m].old[NodeOf[m]] # Absent

\* How the parts of a record change.
LEMMA RecordFacts ==
  /\ NewRecord \in Record
  /\ \A r \in Record :
       /\ r.owner \in Node \union {NoNode} /\ r.ids \in SUBSET MountId
       /\ r.path \in Node \union {NoNode}
       /\ r.old \in [Node -> Node \union {NoNode, Absent}]
  /\ \A r \in Record, o \in Node \union {NoNode}, i \in SUBSET MountId :
       /\ WithMounts(r, o, i) \in Record
       /\ WithMounts(r, o, i).owner = o /\ WithMounts(r, o, i).ids = i
       /\ WithMounts(r, o, i).path = r.path /\ WithMounts(r, o, i).old = r.old
  /\ \A r \in Record, p \in Node \union {NoNode} :
       /\ WithPath(r, p) \in Record /\ WithPath(r, p).path = p
       /\ WithPath(r, p).owner = r.owner /\ WithPath(r, p).ids = r.ids
       /\ WithPath(r, p).old = r.old
  /\ \A r \in Record, f \in [Node -> Node \union {NoNode, Absent}] :
       /\ WithOld(r, f) \in Record /\ WithOld(r, f).old = f
       /\ WithOld(r, f).owner = r.owner /\ WithOld(r, f).ids = r.ids
       /\ WithOld(r, f).path = r.path
<1> USE DEF Record
<1>1. NewRecord \in Record
  BY DEF NewRecord
<1>2. ASSUME NEW r \in Record, NEW o \in Node \union {NoNode}, NEW i \in SUBSET MountId
      PROVE  /\ WithMounts(r, o, i) \in Record
             /\ WithMounts(r, o, i).owner = o /\ WithMounts(r, o, i).ids = i
             /\ WithMounts(r, o, i).path = r.path /\ WithMounts(r, o, i).old = r.old
  BY DEF WithMounts
<1>3. ASSUME NEW r \in Record, NEW p \in Node \union {NoNode}
      PROVE  /\ WithPath(r, p) \in Record /\ WithPath(r, p).path = p
             /\ WithPath(r, p).owner = r.owner /\ WithPath(r, p).ids = r.ids
             /\ WithPath(r, p).old = r.old
  BY DEF WithPath
<1>4. ASSUME NEW r \in Record, NEW f \in [Node -> Node \union {NoNode, Absent}]
      PROVE  /\ WithOld(r, f) \in Record /\ WithOld(r, f).old = f
             /\ WithOld(r, f).owner = r.owner /\ WithOld(r, f).ids = r.ids
             /\ WithOld(r, f).path = r.path
  BY DEF WithOld
<1>5. \A r \in Record :
       /\ r.owner \in Node \union {NoNode} /\ r.ids \in SUBSET MountId
       /\ r.path \in Node \union {NoNode}
       /\ r.old \in [Node -> Node \union {NoNode, Absent}]
  OBVIOUS
<1> HIDE DEF Record
<1> QED
  BY <1>1, <1>2, <1>3, <1>4, <1>5

\* A counter that is spent stays within its limit.
LEMMA SpendFacts ==
  ASSUME TypeOK, NEW e \in Event, Spend(e)
  PROVE  used' \in [Event -> Nat] /\ \A x \in Event : used'[x] <= Limit[x]
<1>1. used \in [Event -> Nat] /\ Limit \in [Event -> Nat]
      /\ \A x \in Event : used[x] <= Limit[x]
  BY MountAssumption DEF TypeOK
<1>2. used[e] < Limit[e] /\ used' = [used EXCEPT ![e] = used[e] + 1]
  BY DEF Spend
<1> QED
  BY <1>1, <1>2

\* The undo functions of a mount are few.
Undo == {"terminate", "disconnect", "rmdir", "umount"}

LEMMA UndoFacts ==
  /\ {"terminate"} \in SUBSET Undo
  /\ {"terminate", "disconnect", "rmdir"} \in SUBSET Undo
  /\ {"terminate", "disconnect", "rmdir", "umount"} \in SUBSET Undo
BY DEF Undo

LEMMA UndoFinite == IsFiniteSet(Undo)
<1>1. IsFiniteSet({"terminate"})
  BY FS_Singleton
<1>2. IsFiniteSet({"terminate"} \union {"disconnect"})
  BY <1>1, FS_AddElement
<1>3. IsFiniteSet(({"terminate"} \union {"disconnect"}) \union {"rmdir"})
  BY <1>2, FS_AddElement
<1>4. IsFiniteSet((({"terminate"} \union {"disconnect"}) \union {"rmdir"}) \union {"umount"})
  BY <1>3, FS_AddElement
<1>5. (({"terminate"} \union {"disconnect"}) \union {"rmdir"}) \union {"umount"} = Undo
  BY DEF Undo
<1> QED
  BY <1>4, <1>5

\* The undo list is finite, and so is what fails of it.
LEMMA RollbackFacts ==
  ASSUME TypeOK, NEW m \in MountId,
         NEW undo \in SUBSET Undo, Rollback(m, undo)
  PROVE  /\ pc' = [pc EXCEPT ![m] = "m_fail"]
         /\ vlun' \subseteq Node /\ dev' \subseteq Node /\ mnt' \subseteq Node
         /\ wiped' \subseteq MountId
         /\ used' \in [Event -> Nat] /\ \A x \in Event : used'[x] <= Limit[x]
         /\ ~Calm'
<1>1. PICK failed \in SUBSET undo :
        /\ used["failure"] + 1 + Cardinality(failed) <= Limit["failure"]
        /\ used' = [used EXCEPT !["failure"] = @ + 1 + Cardinality(failed)]
  BY DEF Rollback
<1>2. Cardinality(failed) \in Nat
  BY UndoFinite, FS_Subset, FS_CardinalityType
<1>3. /\ used' \in [Event -> Nat] /\ \A x \in Event : used'[x] <= Limit[x]
      /\ used'["failure"] > 0
  BY <1>1, <1>2, MountAssumption DEF TypeOK, Event
<1>4. wiped' \subseteq MountId
  BY DEF Rollback, Serving, TypeOK
<1> QED
  BY <1>3, <1>4 DEF Rollback, GoTo, TypeOK, Calm

\* The program points by name.
LEMMA PointFacts ==
  {"idle", "up", "lost", "phantom", "poll", "m_lock", "u_lock", "m_read", "add_id",
   "evict", "save_old", "remount", "remount_path", "remount_ids", "export", "connect",
   "mkfs", "mount_dir", "save_ids", "save_path", "m_ok", "m_fail", "u_read", "u_old",
   "u_ids", "u_pop", "u_path", "umount", "disconnect", "terminate", "clear_path",
   "u_end"} = Point
BY DEF Point, Resting, Critical, MountPoint, UnmountPoint

\* The events are counted within their limits.
UsedOK == used \in [Event -> Nat] /\ \A e \in Event : used[e] <= Limit[e]

\* A step of one request keeps TypeInv when what it writes is well typed.
LEMMA StepType ==
  ASSUME TypeInv, NEW m \in MountId, NEW p \in Point, pc' = [pc EXCEPT ![m] = p],
         p = "poll" => polls'[m] < Delay,
         p = "u_old" => view'[m].old[NodeOf[m]] # Absent,
         NEW r \in Record, view' = [view EXCEPT ![m] = r],
         NEW k \in 0..Delay, polls' = [polls EXCEPT ![m] = k],
         rec' \in Record, lock' \in MountId \union {Free, Dead},
         vlun' \subseteq Node, dev' \subseteq Node, mnt' \subseteq Node,
         wiped' \subseteq MountId, UsedOK'
  PROVE  TypeInv'
<1>1. pc' \in [MountId -> Point] /\ view' \in [MountId -> Record]
      /\ polls' \in [MountId -> 0..Delay]
  BY DEF TypeInv, TypeOK
<1>2. \A x \in MountId : pc'[x] = "poll" => polls'[x] < Delay
  BY DEF TypeInv, TypeOK
<1>3. \A x \in MountId : pc'[x] = "u_old" => view'[x].old[NodeOf[x]] # Absent
  BY DEF TypeInv, TypeOK
<1> QED
  BY <1>1, <1>2, <1>3 DEF TypeInv, TypeOK, UsedOK

\* The same for a step that leaves the request's copy and its polls alone.
LEMMA PlainStepType ==
  ASSUME TypeInv, NEW m \in MountId, NEW p \in Point \ {"poll", "u_old"},
         pc' = [pc EXCEPT ![m] = p], UNCHANGED <<view, polls>>,
         rec' \in Record, lock' \in MountId \union {Free, Dead},
         vlun' \subseteq Node, dev' \subseteq Node, mnt' \subseteq Node,
         wiped' \subseteq MountId, UsedOK'
  PROVE  TypeInv'
<1>1. view' = [view EXCEPT ![m] = view[m]] /\ polls' = [polls EXCEPT ![m] = polls[m]]
      /\ view[m] \in Record /\ polls[m] \in 0..Delay
  BY DEF TypeInv, TypeOK
<1> QED
  BY <1>1, StepType

\* What a failing step does to the counters and to control.
LEMMA FailsFacts ==
  ASSUME TypeOK, NEW m, NEW p, Fails(m, p)
  PROVE  pc' = [pc EXCEPT ![m] = p] /\ UsedOK'
<1>1. "failure" \in Event /\ Spend("failure")
  BY DEF Event, Fails
<1> QED
  BY <1>1, SpendFacts DEF Fails, GoTo, UsedOK

\* The program starts in TypeInv.
LEMMA TypeInitial == Init => TypeInv
<1> SUFFICES ASSUME Init PROVE TypeInv
  OBVIOUS
<1>1. /\ \A m \in MountId : pc[m] = "idle"
      /\ pc \in [MountId -> Point] /\ view \in [MountId -> Record]
  BY RecordFacts, PointFacts DEF Init
<1>2. polls \in [MountId -> 0..Delay]
  BY MountAssumption DEF Init
<1>3. /\ used \in [Event -> Nat] /\ \A e \in Event : used[e] <= Limit[e]
  BY MountAssumption DEF Init
<1>4. rec \in Record /\ lock \in MountId \union {Free, Dead} /\ wiped \subseteq MountId
      /\ vlun \subseteq Node /\ dev \subseteq Node /\ mnt \subseteq Node
  BY RecordFacts DEF Init
<1> QED
  BY <1>1, <1>2, <1>3, <1>4 DEF TypeInv, TypeOK

\* Every step keeps TypeInv.
LEMMA TypeInductive == TypeInv /\ [Next]_vars => TypeInv'
<1> SUFFICES ASSUME TypeInv, [Next]_vars PROVE TypeInv'
  OBVIOUS
<1>a. /\ rec \in Record /\ lock \in MountId \union {Free, Dead}
      /\ vlun \subseteq Node /\ dev \subseteq Node /\ mnt \subseteq Node
      /\ wiped \subseteq MountId /\ UsedOK /\ TypeOK
      /\ \A m \in MountId : view[m] \in Record /\ polls[m] \in 0..Delay /\ NodeOf[m] \in Node
  BY MountAssumption DEF TypeInv, TypeOK, UsedOK
<1>b. ASSUME UNCHANGED used PROVE UsedOK'
  BY <1>a, <1>b DEF UsedOK
<1>c. ASSUME NEW e \in Event, Spend(e) PROVE UsedOK'
  BY <1>a, <1>c, SpendFacts DEF UsedOK
<1>1. ASSUME NEW m \in MountId, AddId(m) PROVE TypeInv'
  <2>1. \E p \in Point \ {"poll", "u_old"} : pc' = [pc EXCEPT ![m] = p]
    BY <1>1, <1>a, PointFacts DEF AddId, GoTo, Fails
  <2>2. UsedOK'
    BY <1>1, <1>a, <1>b, FailsFacts DEF AddId, host, UsedOK
  <2>3. /\ rec' \in Record /\ lock' \in MountId \union {Free, Dead}
        /\ vlun' \subseteq Node /\ dev' \subseteq Node /\ mnt' \subseteq Node
        /\ wiped' \subseteq MountId
    <3>1. /\ view[m].owner \in Node \union {NoNode} /\ view[m].ids \in SUBSET MountId
          /\ view[m].path \in Node \union {NoNode}
          /\ view[m].old \in [Node -> Node \union {NoNode, Absent}]
      BY <1>a, RecordFacts
    <3>2. WithMounts(rec, view[m].owner, view[m].ids \union {m}) \in Record
      BY <3>1, <1>a, RecordFacts
    <3> QED
      BY <1>1, <1>a, <3>2 DEF AddId, host
  <2>4. UNCHANGED <<view, polls>>
    BY <1>1 DEF AddId
  <2> QED
    BY <2>1, <2>2, <2>3, <2>4, PlainStepType
<1>2. ASSUME NEW m \in MountId, SaveOld(m) PROVE TypeInv'
  <2>1. \E p \in Point \ {"poll", "u_old"} : pc' = [pc EXCEPT ![m] = p]
    BY <1>2, <1>a, PointFacts DEF SaveOld, GoTo, Fails
  <2>2. UsedOK'
    BY <1>2, <1>a, <1>b, FailsFacts DEF SaveOld, host, UsedOK
  <2>3. /\ rec' \in Record /\ lock' \in MountId \union {Free, Dead}
        /\ vlun' \subseteq Node /\ dev' \subseteq Node /\ mnt' \subseteq Node
        /\ wiped' \subseteq MountId
    <3>1. /\ view[m].owner \in Node \union {NoNode} /\ view[m].ids \in SUBSET MountId
          /\ view[m].path \in Node \union {NoNode}
          /\ view[m].old \in [Node -> Node \union {NoNode, Absent}]
      BY <1>a, RecordFacts
    <3>2. WithOld(rec, [view[m].old EXCEPT ![view[m].owner] = view[m].path]) \in Record
      BY <3>1, <1>a, RecordFacts
    <3> QED
      BY <1>2, <1>a, <3>2 DEF SaveOld, host
  <2>4. UNCHANGED <<view, polls>>
    BY <1>2 DEF SaveOld
  <2> QED
    BY <2>1, <2>2, <2>3, <2>4, PlainStepType
<1>3. ASSUME NEW m \in MountId, Remount(m) PROVE TypeInv'
  <2>1. \E p \in Point \ {"poll", "u_old"} : pc' = [pc EXCEPT ![m] = p]
    BY <1>3, <1>a, PointFacts DEF Remount, GoTo, Fails
  <2>2. UsedOK'
    BY <1>3, <1>a, <1>b, FailsFacts DEF Remount, host, UsedOK
  <2>3. /\ rec' \in Record /\ lock' \in MountId \union {Free, Dead}
        /\ vlun' \subseteq Node /\ dev' \subseteq Node /\ mnt' \subseteq Node
        /\ wiped' \subseteq MountId
    BY <1>3, <1>a, RecordFacts DEF Remount, host
  <2>4. UNCHANGED <<view, polls>>
    BY <1>3 DEF Remount
  <2> QED
    BY <2>1, <2>2, <2>3, <2>4, PlainStepType
<1>4. ASSUME NEW m \in MountId, RemountPath(m) PROVE TypeInv'
  <2>1. \E p \in Point \ {"poll", "u_old"} : pc' = [pc EXCEPT ![m] = p]
    BY <1>4, <1>a, PointFacts DEF RemountPath, GoTo, Fails
  <2>2. UsedOK'
    BY <1>4, <1>a, <1>b, FailsFacts DEF RemountPath, host, UsedOK
  <2>3. /\ rec' \in Record /\ lock' \in MountId \union {Free, Dead}
        /\ vlun' \subseteq Node /\ dev' \subseteq Node /\ mnt' \subseteq Node
        /\ wiped' \subseteq MountId
    BY <1>4, <1>a, RecordFacts DEF RemountPath, host
  <2>4. UNCHANGED <<view, polls>>
    BY <1>4 DEF RemountPath
  <2> QED
    BY <2>1, <2>2, <2>3, <2>4, PlainStepType
<1>5. ASSUME NEW m \in MountId, RemountIds(m) PROVE TypeInv'
  <2>1. \E p \in Point \ {"poll", "u_old"} : pc' = [pc EXCEPT ![m] = p]
    BY <1>5, <1>a, PointFacts DEF RemountIds, GoTo, Fails
  <2>2. UsedOK'
    BY <1>5, <1>a, <1>b, FailsFacts DEF RemountIds, host, UsedOK
  <2>3. /\ rec' \in Record /\ lock' \in MountId \union {Free, Dead}
        /\ vlun' \subseteq Node /\ dev' \subseteq Node /\ mnt' \subseteq Node
        /\ wiped' \subseteq MountId
    BY <1>5, <1>a, RecordFacts DEF RemountIds, host
  <2>4. UNCHANGED <<view, polls>>
    BY <1>5 DEF RemountIds
  <2> QED
    BY <2>1, <2>2, <2>3, <2>4, PlainStepType
<1>6. ASSUME NEW m \in MountId, Export(m) PROVE TypeInv'
  <2>1. \E p \in Point \ {"poll", "u_old"} : pc' = [pc EXCEPT ![m] = p]
    BY <1>6, <1>a, PointFacts DEF Export, GoTo, Fails
  <2>2. UsedOK'
    BY <1>6, <1>a, <1>b, FailsFacts DEF Export, host, UsedOK
  <2>3. /\ rec' \in Record /\ lock' \in MountId \union {Free, Dead}
        /\ vlun' \subseteq Node /\ dev' \subseteq Node /\ mnt' \subseteq Node
        /\ wiped' \subseteq MountId
    BY <1>6, <1>a, RecordFacts DEF Export, host
  <2>4. UNCHANGED <<view, polls>>
    BY <1>6 DEF Export
  <2> QED
    BY <2>1, <2>2, <2>3, <2>4, PlainStepType
<1>7. ASSUME NEW m \in MountId, Connect(m) PROVE TypeInv'
  <2>1. \E p \in Point \ {"poll", "u_old"} : pc' = [pc EXCEPT ![m] = p]
    BY <1>7, <1>a, PointFacts, RollbackFacts, UndoFacts DEF Connect, GoTo, Fails
  <2>2. UsedOK'
    BY <1>7, <1>a, <1>b, FailsFacts, RollbackFacts, UndoFacts DEF Connect, host, UsedOK
  <2>3. /\ rec' \in Record /\ lock' \in MountId \union {Free, Dead}
        /\ vlun' \subseteq Node /\ dev' \subseteq Node /\ mnt' \subseteq Node
        /\ wiped' \subseteq MountId
    BY <1>7, <1>a, RecordFacts, RollbackFacts, UndoFacts DEF Connect, host
  <2>4. UNCHANGED <<view, polls>>
    BY <1>7 DEF Connect
  <2> QED
    BY <2>1, <2>2, <2>3, <2>4, PlainStepType
<1>8. ASSUME NEW m \in MountId, MakeFilesystem(m) PROVE TypeInv'
  <2>1. \E p \in Point \ {"poll", "u_old"} : pc' = [pc EXCEPT ![m] = p]
    BY <1>8, <1>a, PointFacts DEF MakeFilesystem, GoTo, Fails
  <2>2. UsedOK'
    BY <1>8, <1>a, <1>b, FailsFacts DEF MakeFilesystem, host, UsedOK
  <2>3. /\ rec' \in Record /\ lock' \in MountId \union {Free, Dead}
        /\ vlun' \subseteq Node /\ dev' \subseteq Node /\ mnt' \subseteq Node
        /\ wiped' \subseteq MountId
    BY <1>8, <1>a, RecordFacts DEF MakeFilesystem, host
  <2>4. UNCHANGED <<view, polls>>
    BY <1>8 DEF MakeFilesystem
  <2> QED
    BY <2>1, <2>2, <2>3, <2>4, PlainStepType
<1>9. ASSUME NEW m \in MountId, MountDir(m) PROVE TypeInv'
  <2>1. \E p \in Point \ {"poll", "u_old"} : pc' = [pc EXCEPT ![m] = p]
    BY <1>9, <1>a, PointFacts, RollbackFacts, UndoFacts DEF MountDir, GoTo, Fails
  <2>2. UsedOK'
    BY <1>9, <1>a, <1>b, FailsFacts, RollbackFacts, UndoFacts DEF MountDir, host, UsedOK
  <2>3. /\ rec' \in Record /\ lock' \in MountId \union {Free, Dead}
        /\ vlun' \subseteq Node /\ dev' \subseteq Node /\ mnt' \subseteq Node
        /\ wiped' \subseteq MountId
    BY <1>9, <1>a, RecordFacts, RollbackFacts, UndoFacts DEF MountDir, host
  <2>4. UNCHANGED <<view, polls>>
    BY <1>9 DEF MountDir
  <2> QED
    BY <2>1, <2>2, <2>3, <2>4, PlainStepType
<1>10. ASSUME NEW m \in MountId, SaveIds(m) PROVE TypeInv'
  <2>1. \E p \in Point \ {"poll", "u_old"} : pc' = [pc EXCEPT ![m] = p]
    BY <1>10, <1>a, PointFacts, RollbackFacts, UndoFacts DEF SaveIds, GoTo, Fails
  <2>2. UsedOK'
    BY <1>10, <1>a, <1>b, FailsFacts, RollbackFacts, UndoFacts DEF SaveIds, host, UsedOK
  <2>3. /\ rec' \in Record /\ lock' \in MountId \union {Free, Dead}
        /\ vlun' \subseteq Node /\ dev' \subseteq Node /\ mnt' \subseteq Node
        /\ wiped' \subseteq MountId
    <3>1. WithMounts(rec, NodeOf[m], NewIds(m)) \in Record
      BY <1>a, RecordFacts DEF NewIds
    <3>2. rec' \in Record
      BY <1>10, <1>a, <3>1 DEF SaveIds
    <3> QED
      BY <1>10, <1>a, <3>2, RollbackFacts, UndoFacts DEF SaveIds, host
  <2>4. UNCHANGED <<view, polls>>
    BY <1>10 DEF SaveIds
  <2> QED
    BY <2>1, <2>2, <2>3, <2>4, PlainStepType
<1>11. ASSUME NEW m \in MountId, SavePath(m) PROVE TypeInv'
  <2>1. \E p \in Point \ {"poll", "u_old"} : pc' = [pc EXCEPT ![m] = p]
    BY <1>11, <1>a, PointFacts, RollbackFacts, UndoFacts DEF SavePath, GoTo, Fails
  <2>2. UsedOK'
    BY <1>11, <1>a, <1>b, FailsFacts, RollbackFacts, UndoFacts DEF SavePath, host, UsedOK
  <2>3. /\ rec' \in Record /\ lock' \in MountId \union {Free, Dead}
        /\ vlun' \subseteq Node /\ dev' \subseteq Node /\ mnt' \subseteq Node
        /\ wiped' \subseteq MountId
    <3>1. rec' \in Record
      BY <1>11, <1>a, RecordFacts DEF SavePath
    <3> QED
      BY <1>11, <1>a, <3>1, RollbackFacts, UndoFacts DEF SavePath, host
  <2>4. UNCHANGED <<view, polls>>
    BY <1>11 DEF SavePath
  <2> QED
    BY <2>1, <2>2, <2>3, <2>4, PlainStepType
<1>12. ASSUME NEW m \in MountId, UnmountRequest(m) PROVE TypeInv'
  <2>1. \E p \in Point \ {"poll", "u_old"} : pc' = [pc EXCEPT ![m] = p]
    BY <1>12, <1>a, PointFacts DEF UnmountRequest, GoTo, Fails
  <2>2. UsedOK'
    BY <1>12, <1>a, <1>b, FailsFacts DEF UnmountRequest, host, UsedOK
  <2>3. /\ rec' \in Record /\ lock' \in MountId \union {Free, Dead}
        /\ vlun' \subseteq Node /\ dev' \subseteq Node /\ mnt' \subseteq Node
        /\ wiped' \subseteq MountId
    BY <1>12, <1>a, RecordFacts DEF UnmountRequest, host
  <2>4. UNCHANGED <<view, polls>>
    BY <1>12 DEF UnmountRequest
  <2> QED
    BY <2>1, <2>2, <2>3, <2>4, PlainStepType
<1>13. ASSUME NEW m \in MountId, UnmountIds(m) PROVE TypeInv'
  <2>1. \E p \in Point \ {"poll", "u_old"} : pc' = [pc EXCEPT ![m] = p]
    BY <1>13, <1>a, PointFacts DEF UnmountIds, GoTo, Fails
  <2>2. UsedOK'
    BY <1>13, <1>a, <1>b, FailsFacts DEF UnmountIds, host, UsedOK
  <2>3. /\ rec' \in Record /\ lock' \in MountId \union {Free, Dead}
        /\ vlun' \subseteq Node /\ dev' \subseteq Node /\ mnt' \subseteq Node
        /\ wiped' \subseteq MountId
    <3>1. /\ view[m].owner \in Node \union {NoNode} /\ view[m].ids \in SUBSET MountId
          /\ view[m].path \in Node \union {NoNode}
          /\ view[m].old \in [Node -> Node \union {NoNode, Absent}]
      BY <1>a, RecordFacts
    <3>2. WithMounts(rec, view[m].owner, view[m].ids \ {m}) \in Record
      BY <3>1, <1>a, RecordFacts
    <3> QED
      BY <1>13, <1>a, <3>2 DEF UnmountIds, host
  <2>4. UNCHANGED <<view, polls>>
    BY <1>13 DEF UnmountIds
  <2> QED
    BY <2>1, <2>2, <2>3, <2>4, PlainStepType
<1>14. ASSUME NEW m \in MountId, UnmountPop(m) PROVE TypeInv'
  <2>1. \E p \in Point \ {"poll", "u_old"} : pc' = [pc EXCEPT ![m] = p]
    BY <1>14, <1>a, PointFacts DEF UnmountPop, GoTo, Fails
  <2>2. UsedOK'
    BY <1>14, <1>a, <1>b, FailsFacts DEF UnmountPop, host, UsedOK
  <2>3. /\ rec' \in Record /\ lock' \in MountId \union {Free, Dead}
        /\ vlun' \subseteq Node /\ dev' \subseteq Node /\ mnt' \subseteq Node
        /\ wiped' \subseteq MountId
    <3>1. /\ view[m].owner \in Node \union {NoNode} /\ view[m].ids \in SUBSET MountId
          /\ view[m].path \in Node \union {NoNode}
          /\ view[m].old \in [Node -> Node \union {NoNode, Absent}]
      BY <1>a, RecordFacts
    <3>2. WithMounts(view[m], NoNode, {}) \in Record
      BY <3>1, <1>a, RecordFacts
    <3> QED
      BY <1>14, <1>a, <3>2 DEF UnmountPop, host
  <2>4. UNCHANGED <<view, polls>>
    BY <1>14 DEF UnmountPop
  <2> QED
    BY <2>1, <2>2, <2>3, <2>4, PlainStepType
<1>15. ASSUME NEW m \in MountId, Umount(m) PROVE TypeInv'
  <2>1. \E p \in Point \ {"poll", "u_old"} : pc' = [pc EXCEPT ![m] = p]
    BY <1>15, <1>a, PointFacts DEF Umount, GoTo, Fails
  <2>2. UsedOK'
    BY <1>15, <1>a, <1>b, FailsFacts DEF Umount, host, UsedOK
  <2>3. /\ rec' \in Record /\ lock' \in MountId \union {Free, Dead}
        /\ vlun' \subseteq Node /\ dev' \subseteq Node /\ mnt' \subseteq Node
        /\ wiped' \subseteq MountId
    BY <1>15, <1>a, RecordFacts DEF Umount, host, TakenOut
  <2>4. UNCHANGED <<view, polls>>
    BY <1>15 DEF Umount
  <2> QED
    BY <2>1, <2>2, <2>3, <2>4, PlainStepType
<1>16. ASSUME NEW m \in MountId, Disconnect(m) PROVE TypeInv'
  <2>1. \E p \in Point \ {"poll", "u_old"} : pc' = [pc EXCEPT ![m] = p]
    BY <1>16, <1>a, PointFacts DEF Disconnect, GoTo, Fails
  <2>2. UsedOK'
    BY <1>16, <1>a, <1>b, FailsFacts DEF Disconnect, host, UsedOK
  <2>3. /\ rec' \in Record /\ lock' \in MountId \union {Free, Dead}
        /\ vlun' \subseteq Node /\ dev' \subseteq Node /\ mnt' \subseteq Node
        /\ wiped' \subseteq MountId
    BY <1>16, <1>a, RecordFacts DEF Disconnect, host, TakenOut
  <2>4. UNCHANGED <<view, polls>>
    BY <1>16 DEF Disconnect
  <2> QED
    BY <2>1, <2>2, <2>3, <2>4, PlainStepType
<1>17. ASSUME NEW m \in MountId, Terminate(m) PROVE TypeInv'
  <2>1. \E p \in Point \ {"poll", "u_old"} : pc' = [pc EXCEPT ![m] = p]
    BY <1>17, <1>a, PointFacts DEF Terminate, GoTo, Fails
  <2>2. UsedOK'
    BY <1>17, <1>a, <1>b, FailsFacts DEF Terminate, host, UsedOK
  <2>3. /\ rec' \in Record /\ lock' \in MountId \union {Free, Dead}
        /\ vlun' \subseteq Node /\ dev' \subseteq Node /\ mnt' \subseteq Node
        /\ wiped' \subseteq MountId
    BY <1>17, <1>a, RecordFacts DEF Terminate, host
  <2>4. UNCHANGED <<view, polls>>
    BY <1>17 DEF Terminate
  <2> QED
    BY <2>1, <2>2, <2>3, <2>4, PlainStepType
<1>18. ASSUME NEW m \in MountId, ClearPath(m) PROVE TypeInv'
  <2>1. \E p \in Point \ {"poll", "u_old"} : pc' = [pc EXCEPT ![m] = p]
    BY <1>18, <1>a, PointFacts DEF ClearPath, GoTo, Fails
  <2>2. UsedOK'
    BY <1>18, <1>a, <1>b, FailsFacts DEF ClearPath, host, UsedOK
  <2>3. /\ rec' \in Record /\ lock' \in MountId \union {Free, Dead}
        /\ vlun' \subseteq Node /\ dev' \subseteq Node /\ mnt' \subseteq Node
        /\ wiped' \subseteq MountId
    BY <1>18, <1>a, RecordFacts DEF ClearPath, host
  <2>4. UNCHANGED <<view, polls>>
    BY <1>18 DEF ClearPath
  <2> QED
    BY <2>1, <2>2, <2>3, <2>4, PlainStepType
<1>19. ASSUME NEW m \in MountId, LockTimeout(m) PROVE TypeInv'
  <2>1. \E p \in Point \ {"poll", "u_old"} : pc' = [pc EXCEPT ![m] = p]
    BY <1>19, <1>a, PointFacts DEF LockTimeout, GoTo, Fails
  <2>2. UsedOK'
    BY <1>19, <1>a, <1>c DEF LockTimeout, Event
  <2>3. /\ rec' \in Record /\ lock' \in MountId \union {Free, Dead}
        /\ vlun' \subseteq Node /\ dev' \subseteq Node /\ mnt' \subseteq Node
        /\ wiped' \subseteq MountId
    BY <1>19, <1>a, RecordFacts DEF LockTimeout, host
  <2>4. UNCHANGED <<view, polls>>
    BY <1>19 DEF LockTimeout
  <2> QED
    BY <2>1, <2>2, <2>3, <2>4, PlainStepType
<1>20. ASSUME NEW m \in MountId, Acquire(m) PROVE TypeInv'
  <2>1. \E p \in Point \ {"poll", "u_old"} : pc' = [pc EXCEPT ![m] = p]
    BY <1>20, <1>a, PointFacts DEF Acquire, GoTo, Fails
  <2>2. UsedOK'
    BY <1>20, <1>a, <1>b, FailsFacts DEF Acquire, host, UsedOK
  <2>3. /\ rec' \in Record /\ lock' \in MountId \union {Free, Dead}
        /\ vlun' \subseteq Node /\ dev' \subseteq Node /\ mnt' \subseteq Node
        /\ wiped' \subseteq MountId
    BY <1>20, <1>a, RecordFacts DEF Acquire, host
  <2>4. UNCHANGED <<view, polls>>
    BY <1>20 DEF Acquire
  <2> QED
    BY <2>1, <2>2, <2>3, <2>4, PlainStepType
<1>31. ASSUME NEW m \in MountId, MountRequest(m) PROVE TypeInv'
  <2>1. PICK p \in {"poll", "m_lock", "u_lock"} :
          pc' = [pc EXCEPT ![m] = p] /\ (p = "poll" => Delay > 0)
    <3>1. CASE OwnedElsewhere(m, rec) /\ Delay > 0
      BY <1>31, <3>1, <1>a DEF MountRequest, GoTo, OwnedElsewhere, PathMissing
    <3>2. CASE PathMissing(m, rec)
      BY <1>31, <3>2, <1>a DEF MountRequest, GoTo, OwnedElsewhere, PathMissing
    <3>3. CASE ~(OwnedElsewhere(m, rec) /\ Delay > 0) /\ ~PathMissing(m, rec)
      BY <1>31, <3>3 DEF MountRequest, GoTo
    <3> QED
      BY <3>1, <3>2, <3>3
  <2>2. polls' = [polls EXCEPT ![m] = 0] /\ polls'[m] = 0 /\ 0 \in 0..Delay
    BY <1>31, MountAssumption DEF MountRequest, TypeInv, TypeOK
  <2>3. UsedOK'
    BY <1>31, <1>c DEF MountRequest, Event
  <2>4. view' = [view EXCEPT ![m] = view[m]]
    BY <1>31 DEF MountRequest, TypeInv, TypeOK
  <2>5. UNCHANGED <<rec, lock, host>>
    BY <1>31 DEF MountRequest
  <2> QED
    BY <2>1, <2>2, <2>3, <2>4, <2>5, <1>a, StepType, PointFacts, MountAssumption DEF host
<1>32. ASSUME NEW m \in MountId, Poll(m) PROVE TypeInv'
  <2>0. polls[m] \in 0..Delay /\ polls[m] < Delay /\ Delay \in Nat
    BY <1>32, <1>a, MountAssumption DEF Poll, TypeInv
  <2>1. PICK p \in {"poll", "m_lock"} :
          pc' = [pc EXCEPT ![m] = p] /\ (p = "poll" => polls[m] + 1 # Delay)
    BY <1>32 DEF Poll, GoTo
  <2>2. /\ polls' = [polls EXCEPT ![m] = polls[m] + 1]
        /\ polls'[m] = polls[m] + 1 /\ polls[m] + 1 \in 0..Delay
    BY <1>32, <2>0 DEF Poll, TypeInv, TypeOK
  <2>4. view' = [view EXCEPT ![m] = view[m]]
    BY <1>32 DEF Poll, TypeInv, TypeOK
  <2>5. UNCHANGED <<rec, lock, host, used>>
    BY <1>32 DEF Poll
  <2> QED
    <3>1. p = "poll" => polls'[m] < Delay
      BY <2>0, <2>1, <2>2
    <3>2. p \in Point /\ p # "u_old"
      BY <2>1, PointFacts
    <3> QED
      BY <3>1, <3>2, <2>1, <2>2, <2>4, <2>5, <1>a, <1>b, StepType DEF host
<1>33. ASSUME NEW m \in MountId, MountReturn(m) \/ UnmountReturn(m) PROVE TypeInv'
  <2>1. PICK p \in {"up", "u_lock", "idle"} : Return(m, p)
    BY <1>33 DEF MountReturn, UnmountReturn
  <2>2. /\ pc' = [pc EXCEPT ![m] = p] /\ view' = [view EXCEPT ![m] = NewRecord]
        /\ polls' = [polls EXCEPT ![m] = 0] /\ 0 \in 0..Delay
        /\ lock' \in MountId \union {Free, Dead} /\ UNCHANGED <<rec, host, used>>
    BY <2>1, <1>a, MountAssumption DEF Return, GoTo, Unlock
  <2> QED
    BY <2>1, <2>2, <1>a, <1>b, StepType, PointFacts, RecordFacts DEF host
<1>34. ASSUME NEW m \in MountId, MountRead(m) PROVE TypeInv'
  <2>1. PICK p \in Point \ {"poll", "u_old"} : pc' = [pc EXCEPT ![m] = p]
    BY <1>34, PointFacts DEF MountRead, GoTo
  <2>2. view' = [view EXCEPT ![m] = rec] /\ polls' = [polls EXCEPT ![m] = polls[m]]
        /\ UNCHANGED <<rec, lock, host, used>>
    BY <1>34 DEF MountRead, TypeInv, TypeOK
  <2> QED
    BY <2>1, <2>2, <1>a, <1>b, StepType DEF host
<1>35. ASSUME NEW m \in MountId, Evict(m) PROVE TypeInv'
  <2>1. PICK gone \in SUBSET vlun :
          /\ vlun' = vlun \ gone
          /\ \/ Lose(gone, m, "save_old") /\ UNCHANGED used
             \/ Lose(gone, m, "m_fail") /\ Spend("failure")
    BY <1>35 DEF Evict
  <2>2. /\ pc' \in [MountId -> Point]
        /\ \A x \in MountId : pc'[x] \in {"poll", "u_old"} => pc'[x] = pc[x]
    BY <2>1, PointFacts DEF Lose, TypeInv, TypeOK
  <2>3. UsedOK'
    BY <2>1, <1>b, <1>c DEF Event
  <2>4. UNCHANGED <<rec, lock, view, polls, dev, mnt, wiped>> /\ vlun' \subseteq Node
    BY <1>35, <2>1, <1>a DEF Evict
  <2> QED
    BY <2>2, <2>3, <2>4 DEF TypeInv, TypeOK, UsedOK
<1>36. ASSUME NEW m \in MountId, UnmountRead(m) PROVE TypeInv'
  <2>1. PICK p \in {"u_path", "u_ids", "u_end", "u_old"} :
          pc' = [pc EXCEPT ![m] = p] /\ (p = "u_old" => rec.old[NodeOf[m]] # Absent)
    <3>1. CASE rec.owner = NoNode
      BY <1>36, <3>1, <1>a, MountAssumption DEF UnmountRead, GoTo, OwnedElsewhere
    <3>2. CASE rec.owner = NodeOf[m]
      BY <1>36, <3>2, <1>a, MountAssumption DEF UnmountRead, GoTo, OwnedElsewhere
    <3>3. CASE rec.owner \notin {NoNode, NodeOf[m]} /\ rec.old[NodeOf[m]] = Absent
      BY <1>36, <3>3 DEF UnmountRead, GoTo, OwnedElsewhere
    <3>4. CASE rec.owner \notin {NoNode, NodeOf[m]} /\ rec.old[NodeOf[m]] # Absent
      BY <1>36, <3>4 DEF UnmountRead, GoTo, OwnedElsewhere
    <3> QED
      BY <3>1, <3>2, <3>3, <3>4
  <2>2. view' = [view EXCEPT ![m] = rec] /\ polls' = [polls EXCEPT ![m] = polls[m]]
        /\ view'[m] = rec /\ UNCHANGED <<rec, lock, host, used>>
    BY <1>36 DEF UnmountRead, TypeInv, TypeOK
  <2> QED
    BY <2>1, <2>2, <1>a, <1>b, StepType, PointFacts DEF host
<1>37. ASSUME NEW m \in MountId, UnmountOld(m) PROVE TypeInv'
  <2> DEFINE o == view[m].old
  <2>1. PICK p \in {"u_end", "umount"} : pc' = [pc EXCEPT ![m] = p]
    BY <1>37 DEF UnmountOld, GoTo, Fails
  <2>2. o[NodeOf[m]] \in Node \union {NoNode} /\ o \in [Node -> Node \union {NoNode, Absent}]
    BY <1>37, <1>a, RecordFacts DEF UnmountOld, TypeInv
  <2>3. rec' \in Record
    <3>1. WithOld(view[m], [o EXCEPT ![NodeOf[m]] = Absent]) \in Record
      BY <2>2, <1>a, RecordFacts
    <3> QED
      BY <1>37, <3>1, <1>a DEF UnmountOld
  <2>4. PICK r \in Record : view' = [view EXCEPT ![m] = r]
    <3>1. view = [view EXCEPT ![m] = view[m]]
      BY DEF TypeInv, TypeOK
    <3> QED
      BY <1>37, <2>2, <1>a, <3>1, RecordFacts DEF UnmountOld
  <2>5. UsedOK'
    BY <1>37, <1>a, <1>b, FailsFacts DEF UnmountOld
  <2>6. polls' = [polls EXCEPT ![m] = polls[m]] /\ UNCHANGED <<lock, host>>
    BY <1>37 DEF UnmountOld, TypeInv, TypeOK
  <2> QED
    BY <2>1, <2>3, <2>4, <2>5, <2>6, <1>a, StepType, PointFacts DEF host
<1>38. ASSUME NEW m \in MountId, UnmountPath(m) PROVE TypeInv'
  <2>1. PICK p \in {"u_end", "umount"} : pc' = [pc EXCEPT ![m] = p]
    BY <1>38 DEF UnmountPath, GoTo
  <2>2. /\ view' = [view EXCEPT ![m] = WithPath(view[m], rec.path)]
        /\ polls' = [polls EXCEPT ![m] = polls[m]]
        /\ UNCHANGED <<rec, lock, host, used>>
    BY <1>38 DEF UnmountPath, TypeInv, TypeOK
  <2>3. WithPath(view[m], rec.path) \in Record
    BY <1>a, RecordFacts
  <2> QED
    BY <2>1, <2>2, <2>3, <1>a, <1>b, StepType, PointFacts DEF host
<1>39. ASSUME NEW n \in Node, PluginCrash(n) \/ Reboot(n) PROVE TypeInv'
  <2>1. PICK S \in {Resting, {}} : Dies(n, S)
    BY <1>39 DEF PluginCrash, Reboot
  <2>2. dev' \subseteq Node /\ mnt' \subseteq Node
    BY <1>39, <1>a DEF PluginCrash, Reboot
  <2>3. /\ pc' \in [MountId -> Point]
        /\ \A x \in MountId : pc'[x] \in {"poll", "u_old"} => pc'[x] = pc[x] /\ NodeOf[x] # n
    BY <2>1, PointFacts DEF Dies, TypeInv, TypeOK, Resting
  <2>4. /\ view' \in [MountId -> Record] /\ polls' \in [MountId -> 0..Delay]
        /\ \A x \in MountId : NodeOf[x] # n => view'[x] = view[x] /\ polls'[x] = polls[x]
    <3>1. /\ view' = [x \in MountId |-> IF NodeOf[x] = n THEN NewRecord ELSE view[x]]
          /\ polls' = [x \in MountId |-> IF NodeOf[x] = n THEN 0 ELSE polls[x]]
      BY <2>1 DEF Dies
    <3>2. view \in [MountId -> Record] /\ polls \in [MountId -> 0..Delay]
      BY DEF TypeInv, TypeOK
    <3>3. NewRecord \in Record
      BY RecordFacts
    <3>4. 0 \in 0..Delay
      BY MountAssumption
    <3>5. view' \in [MountId -> Record]
      BY <3>1, <3>2, <3>3
    <3>6. polls' \in [MountId -> 0..Delay]
      BY <3>1, <3>2, <3>4
    <3> QED
      BY <3>1, <3>5, <3>6
  <2>5. UsedOK'
    BY <2>1, <1>c DEF Dies, Event
  <2>6. lock' \in MountId \union {Free, Dead} /\ UNCHANGED <<rec, vlun, wiped>>
    BY <2>1, <1>a DEF Dies
  <2> QED
    BY <2>2, <2>3, <2>4, <2>5, <2>6 DEF TypeInv, TypeOK, UsedOK
<1>40. ASSUME OrphanExpires \/ LeaseExpires PROVE TypeInv'
  <2>1. UsedOK'
    BY <1>40, <1>b, <1>c DEF OrphanExpires, LeaseExpires, Event
  <2> QED
    BY <1>40, <2>1 DEF OrphanExpires, LeaseExpires, TypeInv, TypeOK, UsedOK, host
<1>41. ASSUME UNCHANGED vars PROVE TypeInv'
  BY <1>41 DEF vars, TypeInv, TypeOK
<1> QED
  BY <1>1, <1>2, <1>3, <1>4, <1>5, <1>6, <1>7, <1>8, <1>9, <1>10, <1>11, <1>12,
     <1>13, <1>14, <1>15, <1>16, <1>17, <1>18, <1>19, <1>20, <1>31, <1>32, <1>33,
     <1>34, <1>35, <1>36, <1>37, <1>38, <1>39, <1>40, <1>41
     DEF Next, Thread, MountStep, UnmountStep

\* Every state of the mount protocol is well typed, in every execution, failures
\* and crashes included.
THEOREM TypeCorrect == Spec => []TypeOK
<1>1. Init => TypeInv
  BY TypeInitial
<1>2. TypeInv /\ [Next]_vars => TypeInv'
  BY TypeInductive
<1>3. TypeInv => TypeOK
  BY DEF TypeInv
<1> QED
  BY <1>1, <1>2, <1>3, PTL DEF Spec

-----------------------------------------------------------------------------
(***************************************************************************)
(* Fencing, for any nodes, mount ids and conflict delay and any number of  *)
(* requests and lock timeouts, when no call fails, no process crashes and  *)
(* no critical section outlasts its lease.                                 *)
(***************************************************************************)

NoFault == Limit["failure"] = 0 /\ Limit["expiry"] = 0

\* Where no fault may happen, none has.
LEMMA AlwaysCalm ==
  ASSUME NoFault
  PROVE  (TypeOK => Calm) /\ (TypeOK' => Calm')
<1>1. TypeOK => Calm
  BY DEF NoFault, Calm, TypeOK, Event
<1>2. TypeOK' => Calm'
  BY DEF NoFault, Calm, TypeOK, Event
<1> QED
  BY <1>1, <1>2

-----------------------------------------------------------------------------
(* The inductive invariant *)

\* The lock has one live holder, the only request inside a critical section.
LockInv == lock # Dead /\ \A m \in MountId : pc[m] \in Critical <=> lock = m

UpInv == UpMeansUsable /\ UpIsRecorded

NoneUp == \A m \in MountId : pc[m] # "up"

\* Between two critical sections the volume is exported to its owner only, whose
\* mount works, and it has a path_info exactly when it has an owner.
Settled ==
  /\ vlun \subseteq {rec.owner}
  /\ rec.path = rec.owner
  /\ rec.owner # NoNode => Usable(rec.owner)

\* Where the request that holds the lock has got to, point by point.
Holder(m) ==
  LET n == NodeOf[m]
      v == view[m]
      At(P) == pc[m] \in P
  IN
  /\ ~At({"remount", "remount_path", "remount_ids", "m_fail"})
  /\ At({"m_read", "u_read", "add_id", "evict", "u_old", "m_ok", "u_ids", "u_pop", "u_end"})
       => Settled
  /\ At({"add_id", "evict", "save_old", "u_old", "u_ids", "u_pop"})
       => v.owner = rec.owner /\ v.path = rec.path
  /\ At({"add_id", "u_old", "u_ids"}) => v.ids = rec.ids
  /\ At({"evict", "save_old", "u_old"}) => OwnedElsewhere(m, rec)
  /\ At({"add_id", "u_ids", "u_pop", "m_ok", "save_path"}) => rec.owner = n
  /\ At({"m_ok", "save_path"}) => m \in rec.ids
  /\ At({"save_old", "export", "clear_path"}) => vlun = {}
  /\ At({"export", "connect", "mkfs", "mount_dir", "save_ids"})
       => rec.owner # n /\ v.owner # n
  /\ At({"connect", "mkfs", "mount_dir", "save_ids", "save_path"}) => vlun = {n}
  /\ At({"mkfs", "mount_dir", "save_ids", "save_path"}) => n \in dev
  /\ At({"save_ids", "save_path"}) => n \in mnt
  /\ At({"save_path", "u_pop"}) => NoneUp
  /\ At({"u_path", "clear_path"}) => rec.owner = NoNode
  /\ At({"u_path"}) => /\ ~OwnedElsewhere(m, v) /\ vlun \subseteq {n}
                       /\ rec.path = NoNode => vlun = {}
  /\ At({"umount", "disconnect", "terminate"})
       => IF OwnedElsewhere(m, v) THEN Settled /\ rec.owner = v.owner
          ELSE rec.owner = NoNode /\ vlun \subseteq {n}

FencingInv ==
  /\ TypeInv /\ LockInv /\ UpInv
  /\ lock = Free => Settled
  /\ \A m \in MountId : lock = m => Holder(m)

-----------------------------------------------------------------------------
(* How steps keep it *)

\* A step after which still nothing has failed spends no failure and no expiry.
LEMMA FaultFree ==
  ASSUME Calm', TypeOK
  PROVE  ~Spend("failure") /\ ~Spend("expiry")
<1>1. /\ used \in [Event -> Nat] /\ "failure" \in Event /\ "expiry" \in Event
  BY DEF TypeOK, Event
<1> QED
  BY <1>1 DEF Calm, Spend

\* A step outside the critical sections that makes nothing up.
LEMMA OutsideStep ==
  ASSUME FencingInv, TypeInv', NEW m \in MountId, NEW p, p \notin Critical, p # "up",
         pc[m] \notin Critical, pc' = [pc EXCEPT ![m] = p],
         UNCHANGED <<rec, lock, view, host>>
  PROVE  FencingInv'
<1>1. \A x \in MountId : pc'[x] = IF x = m THEN p ELSE pc[x]
  BY DEF FencingInv, TypeInv, TypeOK
<1>2. LockInv'
  BY <1>1 DEF FencingInv, LockInv
<1>3. UpInv'
  BY <1>1 DEF FencingInv, UpInv, UpMeansUsable, UpIsRecorded, Usable, host
<1>4. (lock = Free => Settled)'
  BY DEF FencingInv, Settled, Usable, host
<1>5. ASSUME NEW x \in MountId, lock' = x PROVE Holder(x)'
  <2>1. x # m /\ pc'[x] = pc[x] /\ Holder(x)
    BY <1>1, <1>5 DEF FencingInv, LockInv
  <2>2. NoneUp => NoneUp'
    BY <1>1 DEF NoneUp
  <2>3. Settled => Settled'
    BY DEF Settled, Usable, host
  <2> QED
    BY <2>1, <2>2, <2>3 DEF Holder, OwnedElsewhere, host
<1> QED
  BY <1>2, <1>3, <1>4, <1>5 DEF FencingInv

\* A step of the request that holds the lock, from one point of its critical
\* section to another.
LEMMA HolderStep ==
  ASSUME FencingInv, TypeInv', NEW m \in MountId, pc[m] \in Critical,
         NEW p \in Critical, pc' = [pc EXCEPT ![m] = p], lock' = lock,
         Holder(m)', UpInv'
  PROVE  FencingInv'
<1>1. \A x \in MountId : pc'[x] = IF x = m THEN p ELSE pc[x]
  BY DEF FencingInv, TypeInv, TypeOK
<1>2. lock = m /\ lock' # Free
  BY MountAssumption DEF FencingInv, LockInv
<1>3. LockInv'
  BY <1>1 DEF FencingInv, LockInv
<1> QED
  BY <1>2, <1>3 DEF FencingInv

\* Who is up stays right when the owner stays, keeps its mount and loses no id.
LEMMA UpKept ==
  ASSUME FencingInv, NEW m \in MountId, NEW p \in Critical, pc' = [pc EXCEPT ![m] = p],
         rec'.owner = rec.owner, rec'.path = rec.path,
         \A x \in rec.ids : x # m => x \in rec'.ids,
         rec.owner # NoNode /\ Usable(rec.owner) => Usable(rec.owner)'
  PROVE  UpInv'
<1>1. \A x \in MountId : pc'[x] = IF x = m THEN p ELSE pc[x]
  BY DEF FencingInv, TypeInv, TypeOK
<1>2. p # "up"
  BY DEF Critical, MountPoint, UnmountPoint
<1>3. ASSUME NEW x \in MountId, pc'[x] = "up"
      PROVE  /\ pc[x] = "up" /\ x # m /\ rec.owner = NodeOf[x] /\ x \in rec.ids
             /\ rec.path = NodeOf[x] /\ Usable(rec.owner) /\ rec.owner # NoNode
  BY <1>1, <1>2, <1>3, MountAssumption DEF FencingInv, UpInv, UpMeansUsable, UpIsRecorded
<1> QED
  BY <1>3 DEF UpInv, UpMeansUsable, UpIsRecorded, Usable

\* Nothing is up while the volume is not exported to its owner.
LEMMA NotExported ==
  ASSUME FencingInv, rec.owner \notin vlun
  PROVE  NoneUp
BY DEF FencingInv, UpInv, UpMeansUsable, UpIsRecorded, Usable, NoneUp

\* A volume without owner is not exported.
LEMMA NoOwner ==
  ASSUME TypeOK, Settled, rec.owner = NoNode
  PROVE  vlun = {}
BY MountAssumption DEF TypeOK, Settled

\* Where nothing is up, a step of the holder keeps it so.
LEMMA NoneUpKept ==
  ASSUME FencingInv, NoneUp, NEW m \in MountId, NEW p \in Critical,
         pc' = [pc EXCEPT ![m] = p]
  PROVE  NoneUp' /\ UpInv'
<1>1. p # "up" /\ pc \in [MountId -> Point]
  BY DEF Critical, MountPoint, UnmountPoint, FencingInv, TypeInv, TypeOK
<1>2. NoneUp'
  BY <1>1 DEF NoneUp
<1> QED
  BY <1>2 DEF NoneUp, UpInv, UpMeansUsable, UpIsRecorded

\* The initial state is settled.
LEMMA FencingInitial == Init => FencingInv
<1> SUFFICES ASSUME Init PROVE FencingInv
  OBVIOUS
<1>1. TypeInv
  BY TypeInitial
<1>2. LockInv
  BY MountAssumption DEF Init, LockInv, Critical, MountPoint, UnmountPoint
<1>3. UpInv
  BY DEF Init, UpInv, UpMeansUsable, UpIsRecorded
<1>4. Settled
  BY DEF Init, Settled, NewRecord
<1>5. \A m \in MountId : lock # m
  BY MountAssumption DEF Init
<1> QED
  BY <1>1, <1>2, <1>3, <1>4, <1>5 DEF FencingInv

-----------------------------------------------------------------------------
(* The steps *)

\* Every step that is not a fault keeps the invariant.
LEMMA FencingInductive == ASSUME Calm', FencingInv, [Next]_vars PROVE FencingInv'
<1>a. /\ TypeInv' /\ TypeInv /\ TypeOK
      /\ rec \in Record /\ rec' \in Record
      /\ \A m \in MountId : view[m] \in Record /\ NodeOf[m] \in Node /\ NodeOf[m] # NoNode
  BY TypeInductive, MountAssumption DEF FencingInv, TypeInv, TypeOK
<1>b. /\ \A m, p : ~Fails(m, p)
      /\ ~Spend("failure") /\ ~Spend("expiry")
  BY <1>a, FaultFree DEF Fails
<1>c. ASSUME NEW m \in MountId, pc[m] \in Critical
      PROVE  lock = m /\ Holder(m)
  BY <1>c DEF FencingInv, LockInv
<1>d. ASSUME NEW m \in MountId, NEW undo \in SUBSET Undo
      PROVE  ~Rollback(m, undo)
  BY <1>a, <1>d, RollbackFacts
<1>1. ASSUME NEW m \in MountId, MountRequest(m) PROVE FencingInv'
  <2>1. pc[m] \notin Critical /\ UNCHANGED <<rec, lock, view, host>>
    BY <1>1 DEF MountRequest, Critical, MountPoint, UnmountPoint
  <2>2. \E p \in {"poll", "u_lock", "m_lock"} : pc' = [pc EXCEPT ![m] = p]
    <3> DEFINE elsewhere == OwnedElsewhere(m, rec) /\ Delay > 0
               missing == PathMissing(m, rec)
    <3>1. ~(elsewhere /\ missing)
      BY DEF OwnedElsewhere, PathMissing
    <3>2. pc' = [pc EXCEPT ![m] = CASE elsewhere -> "poll" [] missing -> "u_lock"
                                    [] OTHER -> "m_lock"]
      BY <1>1 DEF MountRequest, GoTo
    <3> HIDE DEF elsewhere, missing
    <3> QED
      BY <3>1, <3>2
  <2>3. \A p \in {"poll", "u_lock", "m_lock"} : p \notin Critical /\ p # "up"
    BY DEF Critical, MountPoint, UnmountPoint
  <2> QED
    BY <2>1, <2>2, <2>3, <1>a, OutsideStep
<1>2. ASSUME NEW m \in MountId, Poll(m) PROVE FencingInv'
  <2>1. /\ pc[m] \notin Critical /\ UNCHANGED <<rec, lock, view, host>>
        /\ \E p \in {"poll", "m_lock"} : pc' = [pc EXCEPT ![m] = p]
    BY <1>2 DEF Poll, GoTo, Critical, MountPoint, UnmountPoint
  <2>2. \A p \in {"poll", "m_lock"} : p \notin Critical /\ p # "up"
    BY DEF Critical, MountPoint, UnmountPoint
  <2> QED
    BY <2>1, <2>2, <1>a, OutsideStep
<1>3. ASSUME NEW m \in MountId, LockTimeout(m) PROVE FencingInv'
  <2>1. /\ pc[m] \notin Critical /\ UNCHANGED <<rec, lock, view, host>>
        /\ \E p \in {"phantom", "idle"} : pc' = [pc EXCEPT ![m] = p]
    BY <1>3 DEF LockTimeout, GoTo, Critical, MountPoint, UnmountPoint
  <2>2. \A p \in {"phantom", "idle"} : p \notin Critical /\ p # "up"
    BY DEF Critical, MountPoint, UnmountPoint
  <2> QED
    BY <2>1, <2>2, <1>a, OutsideStep
<1>4. ASSUME NEW m \in MountId, UnmountRequest(m) PROVE FencingInv'
  <2>1. /\ pc[m] \notin Critical /\ UNCHANGED <<rec, lock, view, host>>
        /\ \E p \in {"u_lock"} : pc' = [pc EXCEPT ![m] = p]
    BY <1>4 DEF UnmountRequest, GoTo, Critical, MountPoint, UnmountPoint
  <2>2. \A p \in {"u_lock"} : p \notin Critical /\ p # "up"
    BY DEF Critical, MountPoint, UnmountPoint
  <2> QED
    BY <2>1, <2>2, <1>a, OutsideStep
<1>5. ASSUME NEW m \in MountId, Acquire(m) PROVE FencingInv'
  <2>1. PICK p \in {"m_read", "u_read"} : pc' = [pc EXCEPT ![m] = p]
    BY <1>5 DEF Acquire, GoTo
  <2>2. /\ lock = Free /\ lock' = m /\ pc[m] \in {"m_lock", "u_lock"}
        /\ UNCHANGED <<rec, view, host>> /\ Settled
    BY <1>5 DEF Acquire, FencingInv
  <2>3. \A x \in MountId : pc'[x] = IF x = m THEN p ELSE pc[x]
    BY <2>1, <1>a DEF TypeOK
  <2>4. LockInv'
    BY <2>1, <2>2, <2>3, MountAssumption
       DEF FencingInv, LockInv, Critical, MountPoint, UnmountPoint
  <2>5. UpInv'
    BY <2>1, <2>2, <2>3 DEF FencingInv, UpInv, UpMeansUsable, UpIsRecorded, Usable, host
  <2>6. Settled'
    BY <2>2 DEF Settled, Usable, host
  <2>7. Holder(m)'
    BY <2>1, <2>3, <2>6 DEF Holder
  <2> QED
    BY <1>a, <2>2, <2>4, <2>5, <2>7, MountAssumption DEF FencingInv
<1>6. ASSUME NEW m \in MountId, MountReturn(m) \/ UnmountReturn(m) PROVE FencingInv'
  <2>0. pc[m] \in {"m_ok", "m_fail", "u_end"}
    BY <1>6 DEF MountReturn, UnmountReturn
  <2>1. lock = m /\ Holder(m)
    BY <2>0, <1>c DEF Critical, MountPoint, UnmountPoint
  <2>2. /\ \/ pc[m] = "m_ok" /\ pc' = [pc EXCEPT ![m] = "up"]
           \/ pc[m] = "u_end" /\ pc' = [pc EXCEPT ![m] = "idle"]
        /\ lock' = Free /\ UNCHANGED <<rec, host>>
    BY <1>6, <2>1 DEF MountReturn, UnmountReturn, Return, Unlock, GoTo, Holder
  <2>3. Settled /\ (pc[m] = "m_ok" => rec.owner = NodeOf[m] /\ m \in rec.ids)
    BY <2>1, <2>2 DEF Holder
  <2>4. \A x \in MountId : x # m => pc'[x] = pc[x]
    BY <2>2, <1>a DEF TypeOK
  <2>5. (pc'[m] = "up" /\ pc[m] = "m_ok") \/ pc'[m] = "idle"
    BY <2>2, <1>a DEF TypeOK
  <2>6. LockInv'
    BY <2>1, <2>2, <2>4, <2>5, MountAssumption
       DEF FencingInv, LockInv, Critical, MountPoint, UnmountPoint
  <2>7. UpInv'
    BY <2>2, <2>3, <2>4, <2>5, <1>a
       DEF FencingInv, UpInv, UpMeansUsable, UpIsRecorded, Settled, Usable, host
  <2>8. Settled'
    BY <2>2, <2>3 DEF Settled, Usable, host
  <2> QED
    BY <1>a, <2>2, <2>6, <2>7, <2>8, MountAssumption DEF FencingInv
<1>7. ASSUME NEW m \in MountId, MountRead(m) PROVE FencingInv'
  <2>1. pc[m] = "m_read" /\ lock = m /\ Holder(m)
    BY <1>7, <1>c DEF MountRead, Critical, MountPoint, UnmountPoint
  <2>2. PICK p \in {"export", "evict", "add_id"} :
        /\ pc' = [pc EXCEPT ![m] = p] /\ lock' = lock
        /\ UNCHANGED <<rec, host>> /\ view'[m] = rec
        /\ p = "export" => rec.owner = NoNode
        /\ p = "evict" => OwnedElsewhere(m, rec)
        /\ p = "add_id" => rec.owner = NodeOf[m]
    BY <1>7, <2>1, <1>a, <1>b DEF MountRead, GoTo, host, Holder, Settled, Usable, Answers, OwnedElsewhere, PathMissing, TypeOK
  <2>3. pc'[m] = p /\ p \in Critical /\ pc[m] \in Critical
    BY <2>1, <2>2, <1>a DEF TypeOK, Critical, MountPoint, UnmountPoint
  <2>4. UpInv'
    BY <2>1, <2>2, <2>3, <1>a, UpKept DEF Holder, Usable, OwnedElsewhere, host
  <2>5. Holder(m)'
    <3>1. Settled'
      BY <2>1, <2>2 DEF Holder, Settled, Usable, host
    <3>2. rec.owner = NoNode => vlun = {}
      BY <2>1, <1>a, NoOwner DEF Holder
    <3> QED
      BY <2>1, <2>2, <2>3, <3>1, <3>2, <1>a DEF Holder, OwnedElsewhere, host
  <2> QED
    BY <1>a, <2>2, <2>3, <2>4, <2>5, HolderStep
<1>8. ASSUME NEW m \in MountId, AddId(m) PROVE FencingInv'
  <2>1. pc[m] = "add_id" /\ lock = m /\ Holder(m)
    BY <1>8, <1>c DEF AddId, Critical, MountPoint, UnmountPoint
  <2>2. PICK p \in {"m_ok"} :
        /\ pc' = [pc EXCEPT ![m] = p] /\ lock' = lock
        /\ rec'.owner = rec.owner /\ rec'.path = rec.path
        /\ rec'.ids = rec.ids \union {m}
        /\ UNCHANGED <<view, host>>
    BY <1>8, <2>1, <1>a, <1>b, RecordFacts DEF AddId, GoTo, host, Holder
  <2>3. pc'[m] = p /\ p \in Critical /\ pc[m] \in Critical
    BY <2>1, <2>2, <1>a DEF TypeOK, Critical, MountPoint, UnmountPoint
  <2>4. UpInv'
    BY <2>1, <2>2, <2>3, <1>a, UpKept DEF Holder, Usable, OwnedElsewhere, host
  <2>5. Holder(m)'
    BY <2>1, <2>2, <2>3, <1>a DEF Holder, Settled, Usable, OwnedElsewhere, host
  <2> QED
    BY <1>a, <2>2, <2>3, <2>4, <2>5, HolderStep
<1>9. ASSUME NEW m \in MountId, SaveOld(m) PROVE FencingInv'
  <2>1. pc[m] = "save_old" /\ lock = m /\ Holder(m)
    BY <1>9, <1>c DEF SaveOld, Critical, MountPoint, UnmountPoint
  <2>2. PICK p \in {"export"} :
        /\ pc' = [pc EXCEPT ![m] = p] /\ lock' = lock
        /\ rec'.owner = rec.owner /\ rec'.path = rec.path /\ rec'.ids = rec.ids
        /\ UNCHANGED <<view, host>>
    BY <1>9, <2>1, <1>a, <1>b, RecordFacts DEF SaveOld, GoTo, host, WithOld, Record
  <2>3. pc'[m] = p /\ p \in Critical /\ pc[m] \in Critical
    BY <2>1, <2>2, <1>a DEF TypeOK, Critical, MountPoint, UnmountPoint
  <2>4. UpInv'
    BY <2>1, <2>2, <2>3, <1>a, UpKept DEF Holder, Usable, OwnedElsewhere, host
  <2>5. Holder(m)'
    BY <2>1, <2>2, <2>3, <1>a DEF Holder, Settled, Usable, OwnedElsewhere, host
  <2> QED
    BY <1>a, <2>2, <2>3, <2>4, <2>5, HolderStep
<1>10. ASSUME NEW m \in MountId, Export(m) PROVE FencingInv'
  <2>1. pc[m] = "export" /\ lock = m /\ Holder(m)
    BY <1>10, <1>c DEF Export, Critical, MountPoint, UnmountPoint
  <2>2. PICK p \in {"connect"} :
        /\ pc' = [pc EXCEPT ![m] = p] /\ lock' = lock
        /\ vlun' = vlun \union {NodeOf[m]}
        /\ UNCHANGED <<rec, view, dev, mnt>>
    BY <1>10, <2>1, <1>a, <1>b DEF Export, GoTo, host
  <2>3. pc'[m] = p /\ p \in Critical /\ pc[m] \in Critical
    BY <2>1, <2>2, <1>a DEF TypeOK, Critical, MountPoint, UnmountPoint
  <2>4. NoneUp' /\ UpInv'
    <3>1. NoneUp
      BY <2>1, <1>a, NotExported DEF Holder
    <3> QED
      BY <3>1, <2>2, <2>3, NoneUpKept
  <2>5. Holder(m)'
    BY <2>1, <2>2, <2>3, <2>4, <1>a DEF Holder, Settled, Usable, OwnedElsewhere
  <2> QED
    BY <1>a, <2>2, <2>3, <2>4, <2>5, HolderStep
<1>11. ASSUME NEW m \in MountId, Connect(m) PROVE FencingInv'
  <2>1. pc[m] = "connect" /\ lock = m /\ Holder(m)
    BY <1>11, <1>c DEF Connect, Critical, MountPoint, UnmountPoint
  <2>2. PICK p \in {"mkfs"} :
        /\ pc' = [pc EXCEPT ![m] = p] /\ lock' = lock
        /\ dev' = dev \union {NodeOf[m]}
        /\ UNCHANGED <<rec, view, vlun, mnt>>
    BY <1>11, <2>1, <1>a, <1>b, <1>d, UndoFacts DEF Connect, GoTo, host
  <2>3. pc'[m] = p /\ p \in Critical /\ pc[m] \in Critical
    BY <2>1, <2>2, <1>a DEF TypeOK, Critical, MountPoint, UnmountPoint
  <2>4. NoneUp' /\ UpInv'
    <3>1. NoneUp
      BY <2>1, <1>a, NotExported DEF Holder
    <3> QED
      BY <3>1, <2>2, <2>3, NoneUpKept
  <2>5. Holder(m)'
    BY <2>1, <2>2, <2>3, <2>4, <1>a DEF Holder, Settled, Usable, OwnedElsewhere
  <2> QED
    BY <1>a, <2>2, <2>3, <2>4, <2>5, HolderStep
<1>12. ASSUME NEW m \in MountId, MakeFilesystem(m) PROVE FencingInv'
  <2>1. pc[m] = "mkfs" /\ lock = m /\ Holder(m)
    BY <1>12, <1>c DEF MakeFilesystem, Critical, MountPoint, UnmountPoint
  <2>2. PICK p \in {"mount_dir"} :
        /\ pc' = [pc EXCEPT ![m] = p] /\ lock' = lock
        /\ UNCHANGED <<rec, view, host>>
    BY <1>12, <2>1, <1>a, <1>b DEF MakeFilesystem, GoTo, host
  <2>3. pc'[m] = p /\ p \in Critical /\ pc[m] \in Critical
    BY <2>1, <2>2, <1>a DEF TypeOK, Critical, MountPoint, UnmountPoint
  <2>4. NoneUp' /\ UpInv'
    <3>1. NoneUp
      BY <2>1, <1>a, NotExported DEF Holder
    <3> QED
      BY <3>1, <2>2, <2>3, NoneUpKept
  <2>5. Holder(m)'
    BY <2>1, <2>2, <2>3, <2>4, <1>a DEF Holder, Settled, Usable, OwnedElsewhere, host
  <2> QED
    BY <1>a, <2>2, <2>3, <2>4, <2>5, HolderStep
<1>13. ASSUME NEW m \in MountId, MountDir(m) PROVE FencingInv'
  <2>1. pc[m] = "mount_dir" /\ lock = m /\ Holder(m)
    BY <1>13, <1>c DEF MountDir, Critical, MountPoint, UnmountPoint
  <2>2. PICK p \in {"save_ids"} :
        /\ pc' = [pc EXCEPT ![m] = p] /\ lock' = lock
        /\ mnt' = mnt \union {NodeOf[m]}
        /\ UNCHANGED <<rec, view, vlun, dev>>
    BY <1>13, <2>1, <1>a, <1>b, <1>d, UndoFacts DEF MountDir, GoTo, host
  <2>3. pc'[m] = p /\ p \in Critical /\ pc[m] \in Critical
    BY <2>1, <2>2, <1>a DEF TypeOK, Critical, MountPoint, UnmountPoint
  <2>4. NoneUp' /\ UpInv'
    <3>1. NoneUp
      BY <2>1, <1>a, NotExported DEF Holder
    <3> QED
      BY <3>1, <2>2, <2>3, NoneUpKept
  <2>5. Holder(m)'
    BY <2>1, <2>2, <2>3, <2>4, <1>a DEF Holder, Settled, Usable, OwnedElsewhere
  <2> QED
    BY <1>a, <2>2, <2>3, <2>4, <2>5, HolderStep
<1>14. ASSUME NEW m \in MountId, SaveIds(m) PROVE FencingInv'
  <2>1. pc[m] = "save_ids" /\ lock = m /\ Holder(m)
    BY <1>14, <1>c DEF SaveIds, Critical, MountPoint, UnmountPoint
  <2>0. /\ NewIds(m) = {m}
        /\ WithMounts(rec, NodeOf[m], {m}).owner = NodeOf[m]
        /\ WithMounts(rec, NodeOf[m], {m}).ids = {m}
        /\ WithMounts(rec, NodeOf[m], {m}).path = rec.path
    <3>1. view[m].owner # NodeOf[m]
      BY <2>1 DEF Holder
    <3>2. {m} \in SUBSET MountId /\ NodeOf[m] \in Node \union {NoNode}
      BY <1>a
    <3> QED
      BY <3>1, <3>2, <1>a, RecordFacts DEF NewIds
  <2>2. PICK p \in {"save_path"} :
        /\ pc' = [pc EXCEPT ![m] = p] /\ lock' = lock
        /\ rec'.owner = NodeOf[m] /\ rec'.path = rec.path /\ m \in rec'.ids
        /\ UNCHANGED <<view, host>>
    BY <1>14, <2>1, <1>a, <1>b, <1>d, <2>0, UndoFacts DEF SaveIds, GoTo, host
  <2>3. pc'[m] = p /\ p \in Critical /\ pc[m] \in Critical
    BY <2>1, <2>2, <1>a DEF TypeOK, Critical, MountPoint, UnmountPoint
  <2>4. NoneUp' /\ UpInv'
    <3>1. NoneUp
      BY <2>1, <1>a, NotExported DEF Holder
    <3> QED
      BY <3>1, <2>2, <2>3, NoneUpKept
  <2>5. Holder(m)'
    BY <2>1, <2>2, <2>3, <2>4, <1>a DEF Holder, Settled, Usable, OwnedElsewhere, host
  <2> QED
    BY <1>a, <2>2, <2>3, <2>4, <2>5, HolderStep
<1>15. ASSUME NEW m \in MountId, SavePath(m) PROVE FencingInv'
  <2>1. pc[m] = "save_path" /\ lock = m /\ Holder(m)
    BY <1>15, <1>c DEF SavePath, Critical, MountPoint, UnmountPoint
  <2>2. PICK p \in {"m_ok"} :
        /\ pc' = [pc EXCEPT ![m] = p] /\ lock' = lock
        /\ rec'.owner = rec.owner /\ rec'.path = NodeOf[m] /\ rec'.ids = rec.ids
        /\ UNCHANGED <<view, host>>
    BY <1>15, <2>1, <1>a, <1>b, <1>d, UndoFacts DEF SavePath, GoTo, host, WithPath, Record
  <2>3. pc'[m] = p /\ p \in Critical /\ pc[m] \in Critical
    BY <2>1, <2>2, <1>a DEF TypeOK, Critical, MountPoint, UnmountPoint
  <2>4. NoneUp' /\ UpInv'
    <3>1. NoneUp
      BY <2>1, <1>a, NotExported DEF Holder
    <3> QED
      BY <3>1, <2>2, <2>3, NoneUpKept
  <2>5. Holder(m)'
    BY <2>1, <2>2, <2>3, <2>4, <1>a DEF Holder, Settled, Usable, OwnedElsewhere, host
  <2> QED
    BY <1>a, <2>2, <2>3, <2>4, <2>5, HolderStep
<1>16. ASSUME NEW m \in MountId, UnmountRead(m) PROVE FencingInv'
  <2>1. pc[m] = "u_read" /\ lock = m /\ Holder(m)
    BY <1>16, <1>c DEF UnmountRead, Critical, MountPoint, UnmountPoint
  <2>2. PICK p \in {"u_path", "u_ids", "u_old", "u_end"} :
        /\ pc' = [pc EXCEPT ![m] = p] /\ lock' = lock
        /\ UNCHANGED <<rec, host>> /\ view'[m] = rec
        /\ p = "u_path" => rec.owner = NoNode
        /\ p = "u_old" => OwnedElsewhere(m, rec)
        /\ p = "u_ids" => rec.owner = NodeOf[m]
    BY <1>16, <2>1, <1>a, <1>b DEF UnmountRead, GoTo, host, OwnedElsewhere, TypeOK
  <2>3. pc'[m] = p /\ p \in Critical /\ pc[m] \in Critical
    BY <2>1, <2>2, <1>a DEF TypeOK, Critical, MountPoint, UnmountPoint
  <2>4. UpInv'
    BY <2>1, <2>2, <2>3, <1>a, UpKept DEF Holder, Usable, OwnedElsewhere, host
  <2>5. Holder(m)'
    <3>1. Settled'
      BY <2>1, <2>2 DEF Holder, Settled, Usable, host
    <3>2. rec.owner = NoNode => vlun = {}
      BY <2>1, <1>a, NoOwner DEF Holder
    <3> QED
      BY <2>1, <2>2, <2>3, <3>1, <3>2, <1>a DEF Holder, OwnedElsewhere, host
  <2> QED
    BY <1>a, <2>2, <2>3, <2>4, <2>5, HolderStep
<1>17. ASSUME NEW m \in MountId, UnmountOld(m) PROVE FencingInv'
  <2>1. pc[m] = "u_old" /\ lock = m /\ Holder(m)
    BY <1>17, <1>c DEF UnmountOld, Critical, MountPoint, UnmountPoint
  <2>2. PICK p \in {"u_end", "umount"} :
        /\ pc' = [pc EXCEPT ![m] = p] /\ lock' = lock
        /\ rec'.owner = rec.owner /\ rec'.path = rec.path /\ rec'.ids = rec.ids
        /\ view'[m].owner = view[m].owner
        /\ UNCHANGED host
    BY <1>17, <2>1, <1>a, <1>b, RecordFacts DEF UnmountOld, GoTo, host, Holder, WithOld, WithPath, Record, TypeOK
  <2>3. pc'[m] = p /\ p \in Critical /\ pc[m] \in Critical
    BY <2>1, <2>2, <1>a DEF TypeOK, Critical, MountPoint, UnmountPoint
  <2>4. UpInv'
    BY <2>1, <2>2, <2>3, <1>a, UpKept DEF Holder, Usable, OwnedElsewhere, host
  <2>5. Holder(m)'
    BY <2>1, <2>2, <2>3, <1>a DEF Holder, Settled, Usable, OwnedElsewhere, host
  <2> QED
    BY <1>a, <2>2, <2>3, <2>4, <2>5, HolderStep
<1>18. ASSUME NEW m \in MountId, UnmountIds(m) PROVE FencingInv'
  <2>1. pc[m] = "u_ids" /\ lock = m /\ Holder(m)
    BY <1>18, <1>c DEF UnmountIds, Critical, MountPoint, UnmountPoint
  <2>2. PICK p \in {"u_pop", "u_end"} :
        /\ pc' = [pc EXCEPT ![m] = p] /\ lock' = lock
        /\ rec'.owner = rec.owner /\ rec'.path = rec.path /\ rec'.ids = rec.ids \ {m}
        /\ p = "u_pop" => rec'.ids = {}
        /\ UNCHANGED <<view, host>>
    BY <1>18, <2>1, <1>a, <1>b, RecordFacts DEF UnmountIds, GoTo, host, Holder
  <2>3. pc'[m] = p /\ p \in Critical /\ pc[m] \in Critical
    BY <2>1, <2>2, <1>a DEF TypeOK, Critical, MountPoint, UnmountPoint
  <2>4. UpInv'
    BY <2>1, <2>2, <2>3, <1>a, UpKept DEF Holder, Usable, OwnedElsewhere, host
  <2>5. Holder(m)'
    <3>1. Settled'
      BY <2>1, <2>2 DEF Holder, Settled, Usable, host
    <3>2. rec.owner = NoNode => vlun = {}
      BY <2>1, <1>a, NoOwner DEF Holder
    <3>3. p = "u_pop" => NoneUp'
      BY <2>2, <2>4 DEF UpInv, UpIsRecorded, NoneUp
    <3> QED
      BY <2>1, <2>2, <2>3, <3>1, <3>2, <1>a, <3>3 DEF Holder, OwnedElsewhere, host
  <2> QED
    BY <1>a, <2>2, <2>3, <2>4, <2>5, HolderStep
<1>19. ASSUME NEW m \in MountId, UnmountPop(m) PROVE FencingInv'
  <2>1. pc[m] = "u_pop" /\ lock = m /\ Holder(m)
    BY <1>19, <1>c DEF UnmountPop, Critical, MountPoint, UnmountPoint
  <2>2. PICK p \in {"u_path"} :
        /\ pc' = [pc EXCEPT ![m] = p] /\ lock' = lock
        /\ rec'.owner = NoNode /\ rec'.path = rec.path
        /\ UNCHANGED <<view, host>>
    BY <1>19, <2>1, <1>a, <1>b DEF UnmountPop, GoTo, host, Holder, WithMounts, Record
  <2>3. pc'[m] = p /\ p \in Critical /\ pc[m] \in Critical
    BY <2>1, <2>2, <1>a DEF TypeOK, Critical, MountPoint, UnmountPoint
  <2>4. NoneUp' /\ UpInv'
    <3>1. NoneUp
      BY <2>1, <1>a, NotExported DEF Holder
    <3> QED
      BY <3>1, <2>2, <2>3, NoneUpKept
  <2>5. Holder(m)'
    BY <2>1, <2>2, <2>3, <2>4, <1>a DEF Holder, Settled, Usable, OwnedElsewhere, host
  <2> QED
    BY <1>a, <2>2, <2>3, <2>4, <2>5, HolderStep
<1>20. ASSUME NEW m \in MountId, UnmountPath(m) PROVE FencingInv'
  <2>1. pc[m] = "u_path" /\ lock = m /\ Holder(m)
    BY <1>20, <1>c DEF UnmountPath, Critical, MountPoint, UnmountPoint
  <2>2. PICK p \in {"u_end", "umount"} :
        /\ pc' = [pc EXCEPT ![m] = p] /\ lock' = lock
        /\ UNCHANGED <<rec, host>> /\ view'[m].owner = view[m].owner
        /\ p = "u_end" <=> rec.path = NoNode
    BY <1>20, <2>1, <1>a, <1>b DEF UnmountPath, GoTo, host, WithPath, Record, TypeOK
  <2>3. pc'[m] = p /\ p \in Critical /\ pc[m] \in Critical
    BY <2>1, <2>2, <1>a DEF TypeOK, Critical, MountPoint, UnmountPoint
  <2>4. UpInv'
    BY <2>1, <2>2, <2>3, <1>a, UpKept DEF Holder, Usable, OwnedElsewhere, host
  <2>5. Holder(m)'
    BY <2>1, <2>2, <2>3, <1>a DEF Holder, Settled, Usable, OwnedElsewhere, host
  <2> QED
    BY <1>a, <2>2, <2>3, <2>4, <2>5, HolderStep
<1>21. ASSUME NEW m \in MountId, Umount(m) PROVE FencingInv'
  <2>1. pc[m] = "umount" /\ lock = m /\ Holder(m)
    BY <1>21, <1>c DEF Umount, Critical, MountPoint, UnmountPoint
  <2>2. PICK p \in {"disconnect"} :
        /\ pc' = [pc EXCEPT ![m] = p] /\ lock' = lock
        /\ mnt' = mnt \/ mnt' = mnt \ {NodeOf[m]}
        /\ UNCHANGED <<rec, view, vlun, dev>>
    BY <1>21, <2>1, <1>a, <1>b DEF Umount, GoTo, host, TakenOut
  <2>3. pc'[m] = p /\ p \in Critical /\ pc[m] \in Critical
    BY <2>1, <2>2, <1>a DEF TypeOK, Critical, MountPoint, UnmountPoint
  <2>4. UpInv'
    BY <2>1, <2>2, <2>3, <1>a, UpKept DEF Holder, Usable, OwnedElsewhere
  <2>5. Holder(m)'
    BY <2>1, <2>2, <2>3, <1>a DEF Holder, Settled, Usable, OwnedElsewhere
  <2> QED
    BY <1>a, <2>2, <2>3, <2>4, <2>5, HolderStep
<1>22. ASSUME NEW m \in MountId, Disconnect(m) PROVE FencingInv'
  <2>1. pc[m] = "disconnect" /\ lock = m /\ Holder(m)
    BY <1>22, <1>c DEF Disconnect, Critical, MountPoint, UnmountPoint
  <2>2. PICK p \in {"terminate"} :
        /\ pc' = [pc EXCEPT ![m] = p] /\ lock' = lock
        /\ dev' = dev \/ dev' = dev \ {NodeOf[m]}
        /\ UNCHANGED <<rec, view, vlun, mnt>>
    BY <1>22, <2>1, <1>a, <1>b DEF Disconnect, GoTo, host, TakenOut
  <2>3. pc'[m] = p /\ p \in Critical /\ pc[m] \in Critical
    BY <2>1, <2>2, <1>a DEF TypeOK, Critical, MountPoint, UnmountPoint
  <2>4. UpInv'
    BY <2>1, <2>2, <2>3, <1>a, UpKept DEF Holder, Usable, OwnedElsewhere
  <2>5. Holder(m)'
    BY <2>1, <2>2, <2>3, <1>a DEF Holder, Settled, Usable, OwnedElsewhere
  <2> QED
    BY <1>a, <2>2, <2>3, <2>4, <2>5, HolderStep
<1>23. ASSUME NEW m \in MountId, Terminate(m) PROVE FencingInv'
  <2>1. pc[m] = "terminate" /\ lock = m /\ Holder(m)
    BY <1>23, <1>c DEF Terminate, Critical, MountPoint, UnmountPoint
  <2>2. PICK p \in {"u_end", "clear_path"} :
        /\ pc' = [pc EXCEPT ![m] = p] /\ lock' = lock
        /\ vlun' = vlun \ {NodeOf[m]}
        /\ p = "u_end" <=> OwnedElsewhere(m, view[m])
        /\ UNCHANGED <<rec, view, dev, mnt>>
    BY <1>23, <2>1, <1>a, <1>b DEF Terminate, GoTo, host
  <2>3. pc'[m] = p /\ p \in Critical /\ pc[m] \in Critical
    BY <2>1, <2>2, <1>a DEF TypeOK, Critical, MountPoint, UnmountPoint
  <2>4. UpInv'
    BY <2>1, <2>2, <2>3, <1>a, UpKept DEF Holder, Usable, OwnedElsewhere
  <2>5. Holder(m)'
    BY <2>1, <2>2, <2>3, <1>a DEF Holder, Settled, Usable, OwnedElsewhere
  <2> QED
    BY <1>a, <2>2, <2>3, <2>4, <2>5, HolderStep
<1>24. ASSUME NEW m \in MountId, ClearPath(m) PROVE FencingInv'
  <2>1. pc[m] = "clear_path" /\ lock = m /\ Holder(m)
    BY <1>24, <1>c DEF ClearPath, Critical, MountPoint, UnmountPoint
  <2>2. PICK p \in {"u_end"} :
        /\ pc' = [pc EXCEPT ![m] = p] /\ lock' = lock
        /\ rec'.owner = NoNode /\ rec'.path = NoNode /\ rec'.ids = rec.ids
        /\ UNCHANGED <<view, host>>
    BY <1>24, <2>1, <1>a, <1>b DEF ClearPath, GoTo, host, WithPath, Record, Holder
  <2>3. pc'[m] = p /\ p \in Critical /\ pc[m] \in Critical
    BY <2>1, <2>2, <1>a DEF TypeOK, Critical, MountPoint, UnmountPoint
  <2>4. NoneUp' /\ UpInv'
    <3>1. NoneUp
      BY <2>1, <1>a, NotExported DEF Holder
    <3> QED
      BY <3>1, <2>2, <2>3, NoneUpKept
  <2>5. Holder(m)'
    BY <2>1, <2>2, <2>3, <2>4, <1>a DEF Holder, Settled, Usable, OwnedElsewhere, host
  <2> QED
    BY <1>a, <2>2, <2>3, <2>4, <2>5, HolderStep
<1>25. ASSUME NEW m \in MountId, Evict(m) PROVE FencingInv'
  <2>1. pc[m] = "evict" /\ lock = m /\ Holder(m)
    BY <1>25, <1>c DEF Evict, Critical, MountPoint, UnmountPoint
  <2>2. PICK gone \in SUBSET vlun :
        /\ vlun' = vlun \ gone
        /\ gone = vlun \/ Cardinality(gone) = ForceAttempts
        /\ Lose(gone, m, "save_old") /\ UNCHANGED <<rec, lock, view, dev, mnt>>
    BY <1>25, <1>b DEF Evict
  <2>3. Cardinality(gone) # ForceAttempts
    <3>1. gone \subseteq {rec.owner}
      BY <2>1, <2>2 DEF Holder, Settled
    <3>2. gone = {} \/ gone = {rec.owner}
      BY <3>1
    <3>3. Cardinality(gone) = 0 \/ Cardinality(gone) = 1
      BY <3>2, FS_EmptySet, FS_Singleton
    <3> QED
      BY <3>3 DEF ForceAttempts
  <2>4. vlun' = {} /\ gone = vlun
    BY <2>2, <2>3
  <2>5. \A x \in MountId :
          pc'[x] = IF x = m THEN "save_old"
                   ELSE IF pc[x] = "up" /\ NodeOf[x] \in vlun THEN "lost" ELSE pc[x]
    BY <2>2, <2>4 DEF Lose
  <2>6. NoneUp'
    BY <2>5 DEF NoneUp, FencingInv, UpInv, UpMeansUsable, Usable
  <2>7. LockInv'
    BY <2>1, <2>2, <2>5 DEF FencingInv, LockInv, Critical, MountPoint, UnmountPoint
  <2>8. Holder(m)'
    BY <2>1, <2>2, <2>4, <2>5 DEF Holder, OwnedElsewhere
  <2>9. lock' = m /\ lock' # Free
    BY <2>1, <2>2, MountAssumption
  <2> QED
    BY <1>a, <2>6, <2>7, <2>8, <2>9
       DEF FencingInv, NoneUp, UpInv, UpMeansUsable, UpIsRecorded
<1>26. ASSUME NEW m \in MountId, Remount(m) \/ RemountPath(m) \/ RemountIds(m) PROVE FALSE
  <2>1. pc[m] \in {"remount", "remount_path", "remount_ids"}
    BY <1>26 DEF Remount, RemountPath, RemountIds
  <2> QED
    BY <2>1, <1>c DEF Holder, Critical, MountPoint, UnmountPoint
<1>27. ASSUME NEW n \in Node, PluginCrash(n) \/ Reboot(n) PROVE FALSE
  BY <1>27, <1>b DEF PluginCrash, Reboot, Dies
<1>28. ASSUME OrphanExpires \/ LeaseExpires PROVE FALSE
  BY <1>28, <1>b DEF OrphanExpires, LeaseExpires, FencingInv, LockInv
<1>29. ASSUME UNCHANGED vars PROVE FencingInv'
  BY <1>29, <1>a DEF vars, FencingInv, LockInv, UpInv, UpMeansUsable, UpIsRecorded, Usable,
     Settled, Holder, NoneUp, OwnedElsewhere
<1> QED
    BY <1>1, <1>2, <1>3, <1>4, <1>5, <1>6, <1>7, <1>8, <1>9, <1>10, <1>11,
       <1>12, <1>13, <1>14, <1>15, <1>16, <1>17, <1>18, <1>19, <1>20, <1>21,
       <1>22, <1>23, <1>24, <1>25, <1>26, <1>27, <1>28, <1>29
       DEF Next, Thread, MountStep, UnmountStep

-----------------------------------------------------------------------------
(* What stays on a node *)

\* Where a request is still making what it has not recorded yet, or is still taking out
\* what it has already taken off the record.
Busy == {"mkfs", "mount_dir", "save_ids", "u_path", "umount", "disconnect"}

OnRecord(n) == rec.owner = n \/ rec.old[n] # Absent

\* An entry of old_path_info names its own node; and a node with a mount or a device is on
\* record, but for that of the request that is at it.
LeftInv ==
  /\ \A n \in Node : rec.old[n] \in {n, Absent}
  /\ \A n \in mnt \union dev :
       OnRecord(n) \/ \E m \in MountId : lock = m /\ NodeOf[m] = n /\ pc[m] \in Busy

LeftHolder(m) ==
  LET n == NodeOf[m]
      At(P) == pc[m] \in P
  IN
  /\ At({"evict", "save_old", "u_old", "u_ids", "u_pop"}) => view[m].old = rec.old
  /\ At({"save_old"}) => rec.path = rec.owner
  /\ At({"u_old"}) => rec.old[n] # Absent
  /\ At({"export", "connect", "mkfs", "mount_dir", "save_ids"})
       => rec.owner = NoNode \/ rec.old[rec.owner] # Absent
  /\ At({"u_path"}) =>
       /\ rec.path \in {NoNode, n}
       /\ rec.path = NoNode /\ n \in mnt \union dev => rec.old[n] # Absent
  /\ At({"umount", "disconnect"}) => view[m].path = n
  /\ At({"disconnect"}) => n \notin mnt

LeftoverInv == LeftInv /\ \A m \in MountId : lock = m => LeftHolder(m)

\* A step outside the critical sections.
LEMMA LeftOutside ==
  ASSUME FencingInv, LeftoverInv, NEW m \in MountId, pc[m] \notin Critical,
         \A x \in MountId : x # m => pc'[x] = pc[x], UNCHANGED <<rec, lock, view, host>>
  PROVE  LeftoverInv'
<1>1. \A x \in MountId : lock = x => pc'[x] = pc[x]
  BY DEF FencingInv, LockInv
<1>2. LeftInv'
  BY <1>1 DEF LeftoverInv, LeftInv, OnRecord, host
<1>3. ASSUME NEW x \in MountId, lock' = x PROVE LeftHolder(x)'
  BY <1>1, <1>3 DEF LeftoverInv, LeftHolder, host
<1> QED
  BY <1>2, <1>3 DEF LeftoverInv

\* A step of the request that holds the lock.
LEMMA LeftInside ==
  ASSUME NEW m \in MountId, lock = m, lock' = m,
         \A n \in Node : rec'.old[n] \in {n, Absent},
         \A n \in mnt' \union dev' : OnRecord(n)' \/ (NodeOf[m] = n /\ pc'[m] \in Busy),
         LeftHolder(m)'
  PROVE  LeftoverInv'
BY DEF LeftoverInv, LeftInv

\* What there is where the request that holds the lock is.
LEMMA LeftFacts ==
  ASSUME FencingInv, LeftoverInv, NEW m \in MountId, pc[m] \in Critical
  PROVE  /\ lock = m /\ Holder(m) /\ LeftHolder(m)
         /\ \A n \in Node : rec.old[n] \in {n, Absent}
         /\ \A n \in mnt \union dev : OnRecord(n) \/ (NodeOf[m] = n /\ pc[m] \in Busy)
         /\ mnt \subseteq Node /\ dev \subseteq Node /\ NodeOf[m] \in Node /\ NodeOf[m] # NoNode
         /\ rec \in Record /\ view[m] \in Record /\ pc \in [MountId -> Point]
         /\ view \in [MountId -> Record]
<1>1. lock = m /\ Holder(m)
  BY DEF FencingInv, LockInv
<1>2. LeftHolder(m)
  BY <1>1 DEF LeftoverInv
<1>3. /\ \A n \in Node : rec.old[n] \in {n, Absent}
      /\ \A n \in mnt \union dev : OnRecord(n) \/ (NodeOf[m] = n /\ pc[m] \in Busy)
  BY <1>1 DEF LeftoverInv, LeftInv
<1> QED
  BY <1>1, <1>2, <1>3, MountAssumption DEF FencingInv, TypeInv, TypeOK

LEMMA LeftoverInductive ==
  ASSUME Calm', FencingInv, FencingInv', LeftoverInv, [Next]_vars
  PROVE  LeftoverInv'
<1>a. /\ \A m, p : ~Fails(m, p)
      /\ ~Spend("failure") /\ ~Spend("expiry")
  BY FaultFree DEF Fails, FencingInv, TypeInv
<1>b. ASSUME NEW m \in MountId, NEW undo \in SUBSET Undo
      PROVE  ~Rollback(m, undo)
  BY <1>b, RollbackFacts DEF FencingInv, TypeInv
<1>c. pc \in [MountId -> Point] /\ pc' \in [MountId -> Point]
      /\ view \in [MountId -> Record] /\ view' \in [MountId -> Record]
  BY DEF FencingInv, TypeInv, TypeOK
<1>d. ASSUME NEW m \in MountId, lock' = m PROVE Holder(m)'
  BY <1>d DEF FencingInv
<1>1. ASSUME NEW m \in MountId,
             MountRequest(m) \/ Poll(m) \/ LockTimeout(m) \/ UnmountRequest(m)
      PROVE  LeftoverInv'
  <2>1. pc[m] \notin Critical /\ (\A x \in MountId : x # m => pc'[x] = pc[x])
        /\ UNCHANGED <<rec, lock, view, host>>
    BY <1>1, <1>c
       DEF MountRequest, Poll, LockTimeout, UnmountRequest, GoTo, Critical, MountPoint, UnmountPoint
  <2> QED
    BY <2>1, LeftOutside
<1>2. ASSUME NEW m \in MountId, Acquire(m) PROVE LeftoverInv'
  <2>1. /\ lock = Free /\ lock' = m /\ pc'[m] \in {"m_read", "u_read"}
        /\ UNCHANGED <<rec, view, host>>
    BY <1>2, <1>c DEF Acquire, GoTo
  <2>2. \A n \in mnt \union dev : OnRecord(n)
    BY <2>1, MountAssumption DEF LeftoverInv, LeftInv
  <2>3. LeftInv'
    BY <2>1, <2>2 DEF LeftoverInv, LeftInv, OnRecord, host
  <2>4. LeftHolder(m)'
    BY <2>1 DEF LeftHolder
  <2> QED
    BY <2>1, <2>3, <2>4 DEF LeftoverInv
<1>3. ASSUME NEW m \in MountId, MountReturn(m) \/ UnmountReturn(m) PROVE LeftoverInv'
  <2>1. pc[m] \in {"m_ok", "m_fail", "u_end"} /\ pc[m] \in Critical
    BY <1>3 DEF MountReturn, UnmountReturn, Critical, MountPoint, UnmountPoint
  <2>2. lock' = Free /\ UNCHANGED <<rec, host>>
    BY <1>3, <2>1, LeftFacts DEF MountReturn, UnmountReturn, Return, Unlock
  <2>3. \A n \in mnt \union dev : OnRecord(n)
    BY <2>1, LeftFacts DEF Busy
  <2> QED
    BY <2>1, <2>2, <2>3, LeftFacts, MountAssumption DEF LeftoverInv, LeftInv, OnRecord, host
<1>4. ASSUME NEW m \in MountId, MountRead(m) PROVE LeftoverInv'
  <2>1. pc[m] = "m_read" /\ pc[m] \in Critical
    BY <1>4 DEF MountRead, Critical, MountPoint, UnmountPoint
  <2>2. lock' = m /\ UNCHANGED <<rec, host>> /\ view'[m] = rec
    BY <1>4, <2>1, <1>c, LeftFacts DEF MountRead
  <2>3. pc'[m] \in {"export", "evict", "add_id"} /\ (pc'[m] = "export" => rec.owner = NoNode)
    BY <1>4, <2>1, <1>c, LeftFacts
       DEF MountRead, GoTo, Holder, Settled, Usable, Answers, OwnedElsewhere, PathMissing
  <2>4. LeftHolder(m)'
    BY <2>1, <2>2, <2>3 DEF LeftHolder
  <2> QED
    BY <2>1, <2>2, <2>4, LeftFacts, LeftInside DEF OnRecord, host, Busy
<1>5. ASSUME NEW m \in MountId, AddId(m) \/ SavePath(m) \/ ClearPath(m) PROVE LeftoverInv'
  <2>1. pc[m] \in {"add_id", "save_path", "clear_path"} /\ pc[m] \in Critical
    BY <1>5 DEF AddId, SavePath, ClearPath, Critical, MountPoint, UnmountPoint
  <2>2. /\ lock' = m /\ UNCHANGED host
        /\ pc'[m] \in {"m_ok", "u_end"}
    BY <1>5, <2>1, <1>a, <1>b, <1>c, LeftFacts, UndoFacts DEF AddId, SavePath, ClearPath, GoTo
  <2>3. rec'.old = rec.old /\ rec'.owner = rec.owner
    BY <1>5, <2>1, <1>a, <1>b, <1>c, LeftFacts, RecordFacts
       DEF AddId, SavePath, ClearPath, Holder
  <2>4. LeftHolder(m)'
    BY <2>2 DEF LeftHolder
  <2> QED
    BY <2>1, <2>2, <2>3, <2>4, LeftFacts, LeftInside DEF OnRecord, host, Busy
<1>6. ASSUME NEW m \in MountId, Evict(m) PROVE LeftoverInv'
  <2>1. pc[m] = "evict" /\ pc[m] \in Critical
    BY <1>6 DEF Evict, Critical, MountPoint, UnmountPoint
  <2>2. lock' = m /\ UNCHANGED <<rec, view, mnt, dev>> /\ pc'[m] = "save_old"
    BY <1>6, <2>1, <1>a, <1>c, LeftFacts DEF Evict, Lose
  <2>3. LeftHolder(m)'
    BY <2>1, <2>2, LeftFacts DEF LeftHolder, Holder, Settled
  <2> QED
    BY <2>1, <2>2, <2>3, LeftFacts, LeftInside DEF OnRecord, Busy
<1>7. ASSUME NEW m \in MountId, SaveOld(m) PROVE LeftoverInv'
  <2> DEFINE o == rec.owner
  <2>1. pc[m] = "save_old" /\ pc[m] \in Critical
    BY <1>7 DEF SaveOld, Critical, MountPoint, UnmountPoint
  <2>2. /\ lock' = m /\ UNCHANGED host /\ pc'[m] = "export"
        /\ rec' = WithOld(rec, [view[m].old EXCEPT ![view[m].owner] = view[m].path])
    BY <1>7, <2>1, <1>a, <1>c, LeftFacts DEF SaveOld, GoTo
  <2>3. /\ view[m].owner = o /\ view[m].path = rec.path /\ o \notin {NoNode, NodeOf[m]}
        /\ view[m].old = rec.old /\ o \in Node /\ rec.old \in [Node -> Node \union {NoNode, Absent}]
    BY <2>1, LeftFacts, RecordFacts DEF Holder, LeftHolder, OwnedElsewhere
  <2>4. rec.path = o
    BY <2>1, LeftFacts DEF LeftHolder
  <2>5. /\ rec'.owner = o /\ rec'.old = [rec.old EXCEPT ![o] = o]
        /\ rec'.old \in [Node -> Node \union {NoNode, Absent}]
    <3>1. [rec.old EXCEPT ![o] = o] \in [Node -> Node \union {NoNode, Absent}]
      BY <2>3
    <3>2. rec' = WithOld(rec, [rec.old EXCEPT ![o] = o]) /\ rec \in Record
      BY <2>1, <2>2, <2>3, <2>4, LeftFacts
    <3> QED
      BY <3>1, <3>2, RecordFacts
  <2>6. /\ \A n \in Node : rec'.old[n] \in {n, Absent} /\ (rec.old[n] # Absent => rec'.old[n] # Absent)
        /\ rec'.old[o] # Absent
    BY <2>1, <2>3, <2>5, LeftFacts, MountAssumption
  <2>7. LeftHolder(m)'
    BY <2>2, <2>5, <2>6 DEF LeftHolder
  <2>8. \A n \in mnt' \union dev' : OnRecord(n)'
    BY <2>1, <2>2, <2>5, <2>6, LeftFacts DEF OnRecord, host, Busy
  <2> QED
    BY <2>1, <2>2, <2>6, <2>7, <2>8, LeftFacts, LeftInside
<1>8. ASSUME NEW m \in MountId, Export(m) \/ MakeFilesystem(m) PROVE LeftoverInv'
  <2>1. pc[m] \in {"export", "mkfs"} /\ pc[m] \in Critical
    BY <1>8 DEF Export, MakeFilesystem, Critical, MountPoint, UnmountPoint
  <2>2. /\ lock' = m /\ UNCHANGED <<rec, view, mnt, dev>>
        /\ \/ pc[m] = "export" /\ pc'[m] = "connect"
           \/ pc[m] = "mkfs" /\ pc'[m] = "mount_dir"
    <3>1. CASE Export(m)
      BY <3>1, <2>1, <1>a, <1>c, LeftFacts DEF Export, GoTo
    <3>2. CASE MakeFilesystem(m)
      BY <3>2, <2>1, <1>a, <1>c, LeftFacts DEF MakeFilesystem, GoTo, host
    <3> QED
      BY <1>8, <3>1, <3>2
  <2>3. LeftHolder(m)'
    BY <2>1, <2>2, LeftFacts DEF LeftHolder
  <2> QED
    BY <2>1, <2>2, <2>3, LeftFacts, LeftInside DEF OnRecord, Busy
<1>9. ASSUME NEW m \in MountId, Connect(m) \/ MountDir(m) PROVE LeftoverInv'
  <2>1. pc[m] \in {"connect", "mount_dir"} /\ pc[m] \in Critical
    BY <1>9 DEF Connect, MountDir, Critical, MountPoint, UnmountPoint
  <2>2. /\ lock' = m /\ UNCHANGED <<rec, view>> /\ pc'[m] \in {"mkfs", "save_ids"}
        /\ mnt' \union dev' = mnt \union dev \union {NodeOf[m]}
    BY <1>9, <2>1, <1>a, <1>b, <1>c, LeftFacts, UndoFacts DEF Connect, MountDir, GoTo
  <2>3. LeftHolder(m)'
    BY <2>1, <2>2, LeftFacts DEF LeftHolder
  <2> QED
    BY <2>1, <2>2, <2>3, LeftFacts, LeftInside DEF OnRecord, Busy
<1>10. ASSUME NEW m \in MountId, SaveIds(m) PROVE LeftoverInv'
  <2>1. pc[m] = "save_ids" /\ pc[m] \in Critical
    BY <1>10 DEF SaveIds, Critical, MountPoint, UnmountPoint
  <2>2. /\ lock' = m /\ UNCHANGED <<view, host>> /\ pc'[m] = "save_path"
        /\ rec' = WithMounts(rec, NodeOf[m], NewIds(m))
    BY <1>10, <2>1, <1>a, <1>b, <1>c, LeftFacts, UndoFacts DEF SaveIds, GoTo
  <2>3. rec'.owner = NodeOf[m] /\ rec'.old = rec.old
    <3>1. NewIds(m) \in SUBSET MountId
      BY <2>1, LeftFacts, RecordFacts DEF NewIds
    <3> QED
      BY <2>1, <2>2, <3>1, LeftFacts, RecordFacts
  <2>4. LeftHolder(m)'
    BY <2>2 DEF LeftHolder
  <2>5. \A n \in mnt' \union dev' : OnRecord(n)'
    <3>1. rec.owner = NoNode \/ rec.old[rec.owner] # Absent
      BY <2>1, LeftFacts DEF LeftHolder
    <3>2. \A n \in mnt \union dev : rec.owner = n \/ rec.old[n] # Absent \/ n = NodeOf[m]
      BY <2>1, LeftFacts DEF OnRecord
    <3>3. NoNode \notin mnt \union dev
      BY <2>1, LeftFacts, MountAssumption
    <3> QED
      BY <2>2, <2>3, <3>1, <3>2, <3>3 DEF OnRecord, host
  <2> QED
    BY <2>1, <2>2, <2>3, <2>4, <2>5, LeftFacts, LeftInside
<1>11. ASSUME NEW m \in MountId, UnmountRead(m) PROVE LeftoverInv'
  <2>1. pc[m] = "u_read" /\ pc[m] \in Critical
    BY <1>11 DEF UnmountRead, Critical, MountPoint, UnmountPoint
  <2>2. lock' = m /\ UNCHANGED <<rec, host>> /\ view'[m] = rec
    BY <1>11, <2>1, <1>c, LeftFacts DEF UnmountRead
  <2>3. /\ pc'[m] \in {"u_path", "u_ids", "u_old", "u_end"}
        /\ pc'[m] = "u_path" => rec.owner = NoNode /\ rec.path = NoNode
        /\ pc'[m] = "u_old" => rec.old[NodeOf[m]] # Absent
    BY <1>11, <2>1, <1>c, LeftFacts DEF UnmountRead, GoTo, OwnedElsewhere, Holder, Settled
  <2>4. LeftHolder(m)'
    BY <2>1, <2>2, <2>3, LeftFacts DEF LeftHolder, host, OnRecord, Busy
  <2> QED
    BY <2>1, <2>2, <2>4, LeftFacts, LeftInside DEF OnRecord, host, Busy
<1>12. ASSUME NEW m \in MountId, UnmountOld(m) PROVE LeftoverInv'
  <2> DEFINE n == NodeOf[m]
  <2>1. pc[m] = "u_old" /\ pc[m] \in Critical
    BY <1>12 DEF UnmountOld, Critical, MountPoint, UnmountPoint
  <2>2. view[m].old = rec.old /\ view[m].owner = rec.owner /\ rec.old[n] = n /\ n # NoNode
    BY <2>1, LeftFacts DEF LeftHolder, Holder
  <2>3. /\ lock' = m /\ UNCHANGED host /\ pc'[m] = "umount"
        /\ rec' = WithOld(view[m], [view[m].old EXCEPT ![n] = Absent])
        /\ view' = [view EXCEPT ![m] = WithPath(view[m], view[m].old[n])]
    BY <1>12, <2>1, <2>2, <1>a, <1>c, LeftFacts DEF UnmountOld, GoTo
  <2>4. /\ rec'.owner = rec.owner /\ rec'.old = [rec.old EXCEPT ![n] = Absent]
        /\ rec.old \in [Node -> Node \union {NoNode, Absent}]
    <3>1. [view[m].old EXCEPT ![n] = Absent] \in [Node -> Node \union {NoNode, Absent}]
      BY <2>1, LeftFacts, RecordFacts
    <3>2. rec' = WithOld(view[m], [view[m].old EXCEPT ![n] = Absent]) /\ view[m] \in Record
      BY <2>1, <2>3, LeftFacts
    <3>3. rec'.owner = view[m].owner /\ rec'.old = [view[m].old EXCEPT ![n] = Absent]
      BY <3>1, <3>2, RecordFacts
    <3> QED
      BY <3>1, <3>3, <2>1, <2>2, LeftFacts, RecordFacts
  <2>5. view'[m].path = n
    BY <2>1, <2>2, <2>3, <1>c, LeftFacts, RecordFacts
  <2>6. LeftHolder(m)'
    BY <2>3, <2>5 DEF LeftHolder
  <2>7. \A x \in Node : rec'.old[x] \in {x, Absent} /\ (x # n => rec'.old[x] = rec.old[x])
    BY <2>1, <2>4, LeftFacts
  <2>8. \A x \in mnt' \union dev' : OnRecord(x)' \/ x = n
    BY <2>1, <2>3, <2>4, <2>7, LeftFacts DEF OnRecord, host
  <2> QED
    BY <2>3, <2>1, <2>6, <2>7, <2>8, LeftFacts, LeftInside DEF Busy
<1>13. ASSUME NEW m \in MountId, UnmountIds(m) PROVE LeftoverInv'
  <2>1. pc[m] = "u_ids" /\ pc[m] \in Critical
    BY <1>13 DEF UnmountIds, Critical, MountPoint, UnmountPoint
  <2>2. /\ lock' = m /\ UNCHANGED <<view, host>> /\ pc'[m] \in {"u_pop", "u_end"}
        /\ rec' = WithMounts(rec, view[m].owner, view[m].ids \ {m})
    BY <1>13, <2>1, <1>a, <1>c, LeftFacts DEF UnmountIds, GoTo
  <2>3. rec'.owner = rec.owner /\ rec'.old = rec.old
    BY <2>1, <2>2, LeftFacts, RecordFacts DEF Holder
  <2>4. LeftHolder(m)'
    BY <2>1, <2>2, <2>3, LeftFacts DEF LeftHolder
  <2> QED
    BY <2>1, <2>2, <2>3, <2>4, LeftFacts, LeftInside DEF OnRecord, host, Busy
<1>14. ASSUME NEW m \in MountId, UnmountPop(m) PROVE LeftoverInv'
  <2>1. pc[m] = "u_pop" /\ pc[m] \in Critical
    BY <1>14 DEF UnmountPop, Critical, MountPoint, UnmountPoint
  <2>2. /\ lock' = m /\ UNCHANGED <<view, host>> /\ pc'[m] = "u_path"
        /\ rec' = WithMounts(view[m], NoNode, {})
    BY <1>14, <2>1, <1>a, <1>c, LeftFacts DEF UnmountPop, GoTo
  <2>3. rec'.path = NodeOf[m] /\ rec'.old = rec.old /\ rec.owner = NodeOf[m]
    <3>1. /\ rec.owner = NodeOf[m] /\ view[m].path = rec.path /\ rec.path = rec.owner
          /\ view[m].old = rec.old
      <4>1. Holder(m) /\ LeftHolder(m)
        BY <2>1, LeftFacts
      <4>2. rec.owner = NodeOf[m] /\ view[m].path = rec.path
        BY <2>1, <4>1 DEF Holder
      <4>4. Settled
        BY <2>1, <4>1, SMT DEF Holder
      <4>3. view[m].old = rec.old
        BY <2>1, <4>1 DEF LeftHolder
      <4> QED
        BY <4>2, <4>3, <4>4 DEF Settled
    <3>2. {} \in SUBSET MountId /\ NoNode \in Node \union {NoNode} /\ view[m] \in Record
      BY <2>1, LeftFacts
    <3>3. rec'.path = view[m].path /\ rec'.old = view[m].old
      BY <2>2, <3>2 DEF WithMounts, Record
    <3> QED
      BY <3>1, <3>3
  <2>4. LeftHolder(m)'
    BY <2>1, <2>2, <2>3, LeftFacts DEF LeftHolder
  <2>5. \A n \in mnt' \union dev' : OnRecord(n)' \/ n = NodeOf[m]
    BY <2>1, <2>2, <2>3, LeftFacts DEF OnRecord, host
  <2> QED
    BY <2>1, <2>2, <2>3, <2>4, <2>5, LeftFacts, LeftInside DEF Busy
<1>15. ASSUME NEW m \in MountId, UnmountPath(m) PROVE LeftoverInv'
  <2>1. pc[m] = "u_path" /\ pc[m] \in Critical
    BY <1>15 DEF UnmountPath, Critical, MountPoint, UnmountPoint
  <2>2. /\ lock' = m /\ UNCHANGED <<rec, host>>
        /\ pc'[m] = (IF rec.path = NoNode THEN "u_end" ELSE "umount")
        /\ view'[m].path = rec.path
    BY <1>15, <2>1, <1>c, LeftFacts, RecordFacts DEF UnmountPath, GoTo
  <2>3. LeftHolder(m)'
    BY <2>1, <2>2, LeftFacts DEF LeftHolder
  <2>4. \A n \in mnt \union dev : OnRecord(n) \/ (NodeOf[m] = n /\ pc'[m] \in Busy)
    BY <2>1, <2>2, LeftFacts DEF OnRecord, LeftHolder, Busy
  <2> QED
    BY <2>1, <2>2, <2>3, <2>4, LeftFacts, LeftInside DEF OnRecord, host
<1>16. ASSUME NEW m \in MountId, Umount(m) PROVE LeftoverInv'
  <2>1. pc[m] = "umount" /\ pc[m] \in Critical
    BY <1>16 DEF Umount, Critical, MountPoint, UnmountPoint
  <2>2. /\ lock' = m /\ UNCHANGED <<rec, view, dev>> /\ pc'[m] = "disconnect"
        /\ mnt' = mnt \ {NodeOf[m]}
    BY <1>16, <2>1, <1>a, <1>c, LeftFacts DEF Umount, GoTo, TakenOut, LeftHolder
  <2>3. LeftHolder(m)'
    BY <2>1, <2>2, LeftFacts DEF LeftHolder
  <2> QED
    BY <2>1, <2>2, <2>3, LeftFacts, LeftInside DEF OnRecord, Busy
<1>17. ASSUME NEW m \in MountId, Disconnect(m) PROVE LeftoverInv'
  <2>1. pc[m] = "disconnect" /\ pc[m] \in Critical
    BY <1>17 DEF Disconnect, Critical, MountPoint, UnmountPoint
  <2>2. /\ lock' = m /\ UNCHANGED <<rec, view, mnt>> /\ pc'[m] = "terminate"
        /\ dev' = dev \ {NodeOf[m]} /\ NodeOf[m] \notin mnt
    BY <1>17, <2>1, <1>a, <1>c, LeftFacts DEF Disconnect, GoTo, TakenOut, LeftHolder
  <2>3. LeftHolder(m)'
    BY <2>2 DEF LeftHolder
  <2> QED
    BY <2>1, <2>2, <2>3, LeftFacts, LeftInside DEF OnRecord, Busy
<1>18. ASSUME NEW m \in MountId, Terminate(m) PROVE LeftoverInv'
  <2>1. pc[m] = "terminate" /\ pc[m] \in Critical
    BY <1>18 DEF Terminate, Critical, MountPoint, UnmountPoint
  <2>2. /\ lock' = m /\ UNCHANGED <<rec, view, mnt, dev>> /\ pc'[m] \in {"u_end", "clear_path"}
    BY <1>18, <2>1, <1>a, <1>c, LeftFacts DEF Terminate, GoTo
  <2>3. LeftHolder(m)'
    BY <2>2 DEF LeftHolder
  <2> QED
    BY <2>1, <2>2, <2>3, LeftFacts, LeftInside DEF OnRecord, Busy
<1>19. ASSUME NEW m \in MountId, Remount(m) \/ RemountPath(m) \/ RemountIds(m) PROVE FALSE
  <2>1. pc[m] \in {"remount", "remount_path", "remount_ids"} /\ pc[m] \in Critical
    BY <1>19 DEF Remount, RemountPath, RemountIds, Critical, MountPoint, UnmountPoint
  <2> QED
    BY <2>1, LeftFacts DEF Holder
<1>20. ASSUME NEW n \in Node, PluginCrash(n) \/ Reboot(n) PROVE FALSE
  BY <1>20, <1>a DEF PluginCrash, Reboot, Dies
<1>21. ASSUME OrphanExpires \/ LeaseExpires PROVE FALSE
  BY <1>21, <1>a DEF OrphanExpires, LeaseExpires, FencingInv, LockInv
<1>22. ASSUME UNCHANGED vars PROVE LeftoverInv'
  BY <1>22 DEF vars, LeftoverInv, LeftInv, LeftHolder, OnRecord
<1> QED
  BY <1>1, <1>2, <1>3, <1>4, <1>5, <1>6, <1>7, <1>8, <1>9, <1>10, <1>11, <1>12, <1>13, <1>14,
     <1>15, <1>16, <1>17, <1>18, <1>19, <1>20, <1>21, <1>22
     DEF Next, Thread, MountStep, UnmountStep

-----------------------------------------------------------------------------
(* The theorems *)

\* A container that is up has a mount that works and is on record as the
\* owner's, whatever requests and lock timeouts happen meanwhile.
THEOREM FencingCorrect ==
  ASSUME NoFault
  PROVE  Spec => [](UpMeansUsable /\ UpIsRecorded)
<1>1. Init => FencingInv
  BY FencingInitial
<1>2. FencingInv /\ [Next]_vars => FencingInv'
  BY FencingInductive, TypeInductive, AlwaysCalm DEF FencingInv, TypeInv
<1>3. FencingInv => UpMeansUsable /\ UpIsRecorded
  BY DEF FencingInv, UpInv
<1> QED
  BY <1>1, <1>2, <1>3, PTL DEF Spec

\* Two running containers on different nodes never both reach the volume.
THEOREM FencedUseCorrect ==
  ASSUME NoFault
  PROVE  Spec => []FencedUse
<1>1. UpMeansUsable /\ UpIsRecorded => FencedUse
  BY DEF UpIsRecorded, FencedUse
<1> QED
  BY <1>1, FencingCorrect, PTL

\* node_mount_info and path_info name the node and the mount of every running container.
THEOREM RecordCorrect ==
  ASSUME NoFault
  PROVE  Spec => []UpIsRecorded
<1>1. UpMeansUsable /\ UpIsRecorded => UpIsRecorded
  OBVIOUS
<1> QED
  BY <1>1, FencingCorrect, PTL

\* At first nothing is mounted, and old_path_info is empty.
LEMMA LeftoverInitial == Init => LeftoverInv
<1> SUFFICES ASSUME Init PROVE LeftoverInv
  OBVIOUS
<1>1. LeftInv
  BY DEF Init, LeftInv, NewRecord
<1>2. \A m \in MountId : lock # m
  BY MountAssumption DEF Init
<1> QED
  BY <1>1, <1>2 DEF LeftoverInv

\* The array exports the volume to its owner, or to the node of the holder of the lock.
LEMMA ExportedOnRecord ==
  ASSUME FencingInv, NEW n \in vlun, rec.owner # n
  PROVE  \E m \in MountId : lock = m /\ NodeOf[m] = n
<1>1. lock # Free /\ lock # Dead /\ lock \in MountId \union {Free, Dead}
  BY DEF FencingInv, LockInv, Settled, TypeInv, TypeOK
<1>2. PICK m \in MountId : lock = m
  BY <1>1
<1>3. pc[m] \in Critical /\ Holder(m)
  BY <1>2 DEF FencingInv, LockInv
<1>4. ~Settled
  BY DEF Settled
<1>5. vlun \subseteq {NodeOf[m]}
  <2>1. pc[m] \in {"save_old", "export", "clear_path", "connect", "mkfs", "mount_dir", "save_ids",
                   "save_path", "u_path", "umount", "disconnect", "terminate"}
    BY <1>3, <1>4 DEF Holder, Critical, MountPoint, UnmountPoint
  <2>2. CASE pc[m] \in {"save_old", "export", "clear_path"}
    BY <1>3, <2>2 DEF Holder
  <2>3. CASE pc[m] \in {"connect", "mkfs", "mount_dir", "save_ids", "save_path"}
    BY <1>3, <2>3 DEF Holder
  <2>4. CASE pc[m] \in {"u_path", "umount", "disconnect", "terminate"}
    BY <1>3, <1>4, <2>4 DEF Holder
  <2> QED
    BY <2>1, <2>2, <2>3, <2>4
<1> QED
  BY <1>2, <1>5

\* A node without containers and requests keeps nothing that the record does not name: its
\* VLUN is the owner's, and a mount or device is the owner's or in old_path_info.
THEOREM NothingUnrecorded ==
  ASSUME NoFault
  PROVE  Spec => []LeftoverOnRecord
<1>1. Init => FencingInv /\ LeftoverInv
  BY FencingInitial, LeftoverInitial
<1>2. FencingInv /\ LeftoverInv /\ [Next]_vars => (FencingInv /\ LeftoverInv)'
  BY FencingInductive, LeftoverInductive, TypeInductive, AlwaysCalm DEF FencingInv, TypeInv
<1>3. FencingInv /\ LeftoverInv => LeftoverOnRecord
  <2> SUFFICES ASSUME FencingInv, LeftoverInv, NEW n \in Node, QuietNode(n)
               PROVE  /\ n \in vlun => rec.owner = n
                      /\ n \in mnt \union dev => rec.owner = n \/ rec.old[n] # Absent
    BY DEF LeftoverOnRecord
  <2>1. \A m \in MountId : lock = m => NodeOf[m] # n
    BY DEF QuietNode, FencingInv, LockInv, Critical, MountPoint, UnmountPoint
  <2> QED
    BY <2>1, ExportedOnRecord DEF LeftoverInv, LeftInv, OnRecord
<1> QED
  BY <1>1, <1>2, <1>3, PTL DEF Spec

\* What serves is what is up.
LEMMA ServingIsUp ==
  ASSUME FencingInv
  PROVE  Serving = {m \in MountId : pc[m] = "up"}
BY DEF FencingInv, UpInv, UpMeansUsable, Serving

\* Faults are counted, and a count never goes back.
LEMMA CalmBefore ==
  ASSUME TypeOK, Calm', [Next]_vars
  PROVE  Calm
<1>1. ASSUME NEW e \in Event, Spend(e) PROVE Calm
  <2>1. used \in [Event -> Nat] /\ "failure" \in Event /\ "expiry" \in Event
    BY DEF TypeOK, Event
  <2> QED
    BY <1>1, <2>1 DEF Spend, Calm
<1>2. ASSUME UNCHANGED used PROVE Calm
  BY <1>2 DEF Calm
<1>3. ASSUME NEW m \in MountId, MountStep(m) PROVE Calm
  <2>1. ASSUME NEW undo \in SUBSET Undo PROVE ~Rollback(m, undo)
    BY <2>1, RollbackFacts
  <2>2. UNCHANGED used \/ Spend("failure")
    BY <1>3, <2>1, UndoFacts DEF MountStep, MountRead, AddId, Evict, SaveOld, Remount,
       RemountPath, RemountIds, Export, Connect, MakeFilesystem, MountDir, SaveIds, SavePath,
       MountReturn, Return, Fails
  <2> QED
    BY <2>2, <1>1, <1>2 DEF Event
<1>4. ASSUME NEW m \in MountId, UnmountStep(m) PROVE Calm
  <2>1. UNCHANGED used \/ Spend("failure")
    BY <1>4 DEF UnmountStep, UnmountRead, UnmountOld, UnmountIds, UnmountPop, UnmountPath,
       Umount, Disconnect, Terminate, ClearPath, UnmountReturn, Return, Fails
  <2> QED
    BY <2>1, <1>1, <1>2 DEF Event
<1>5. ASSUME NEW m \in MountId,
             MountRequest(m) \/ UnmountRequest(m) \/ LockTimeout(m) \/ Poll(m) \/ Acquire(m)
      PROVE  Calm
  <2>1. UNCHANGED used \/ Spend("request") \/ Spend("timeout")
    BY <1>5 DEF MountRequest, UnmountRequest, LockTimeout, Poll, Acquire
  <2> QED
    BY <2>1, <1>1, <1>2 DEF Event
<1>6. ASSUME \/ OrphanExpires \/ LeaseExpires
             \/ \E n \in Node : PluginCrash(n) \/ Reboot(n)
             \/ UNCHANGED vars
      PROVE  Calm
  <2>1. UNCHANGED used \/ Spend("expiry") \/ Spend("failure")
    BY <1>6 DEF OrphanExpires, LeaseExpires, PluginCrash, Reboot, Dies, vars
  <2> QED
    BY <2>1, <1>1, <1>2 DEF Event
<1> QED
  BY <1>3, <1>4, <1>5, <1>6 DEF Next, Thread

\* While FencingInv holds, a rollback of m that reaches remove_dir finds nothing in use:
\* m has evicted the other nodes and no container of its own node is up.
LEMMA RollbackSpares ==
  ASSUME FencingInv, NEW m \in MountId, MountDir(m) \/ SaveIds(m) \/ SavePath(m)
  PROVE  wiped' = wiped
<1>1. lock = m /\ Holder(m) /\ pc[m] \in {"mount_dir", "save_ids", "save_path"}
  BY DEF MountDir, SaveIds, SavePath, FencingInv, LockInv, Critical, MountPoint, UnmountPoint
<1>2. NoneUp
  <2>1. CASE pc[m] = "save_path"
    BY <1>1, <2>1 DEF Holder
  <2>2. CASE pc[m] \in {"mount_dir", "save_ids"}
    BY <1>1, <2>2, NotExported DEF Holder
  <2> QED
    BY <1>1, <2>1, <2>2
<1>3. Serving = {}
  BY <1>2, ServingIsUp DEF NoneUp
<1>4. ASSUME NEW undo, Rollback(m, undo) PROVE wiped' = wiped
  BY <1>3, <1>4 DEF Rollback
<1> QED
  BY <1>4 DEF MountDir, SaveIds, SavePath, host

\* No step from a state of FencingInv removes contents that are in use.
LEMMA StepSpares ==
  ASSUME FencingInv, [Next]_vars
  PROVE  wiped' = wiped
<1>1. ASSUME NEW m \in MountId, MountStep(m), ~(MountDir(m) \/ SaveIds(m) \/ SavePath(m))
      PROVE  wiped' = wiped
  BY <1>1 DEF MountStep, MountRead, AddId, Evict, SaveOld, Remount, RemountPath,
     RemountIds, Export, Connect, Rollback, MakeFilesystem, MountReturn, Return, host
<1>2. ASSUME NEW m \in MountId, UnmountStep(m) PROVE wiped' = wiped
  BY <1>2 DEF UnmountStep, UnmountRead, UnmountOld, UnmountIds, UnmountPop, UnmountPath,
     Umount, Disconnect, Terminate, ClearPath, UnmountReturn, Return, host
<1>3. ASSUME NEW m \in MountId,
             MountRequest(m) \/ UnmountRequest(m) \/ LockTimeout(m) \/ Poll(m) \/ Acquire(m)
      PROVE  wiped' = wiped
  BY <1>3 DEF MountRequest, UnmountRequest, LockTimeout, Poll, Acquire, host
<1>4. ASSUME \/ OrphanExpires \/ LeaseExpires
             \/ \E n \in Node : PluginCrash(n) \/ Reboot(n)
             \/ UNCHANGED vars
      PROVE  wiped' = wiped
  BY <1>4 DEF OrphanExpires, LeaseExpires, PluginCrash, Reboot, Dies, host, vars
<1> QED
  BY <1>1, <1>2, <1>3, <1>4, RollbackSpares DEF Next, Thread

\* Until the first fault the program is in FencingInv.
CalmInv == TypeInv /\ (Calm => FencingInv)

\* The first failure, however many undo functions fail with it, does not make _rollback
\* remove the contents of the volume under a running container.
THEOREM VolumeNotWiped == Spec => NotWipedInUse
<1>1. Init => CalmInv
  BY FencingInitial, TypeInitial DEF CalmInv
<1>2. CalmInv /\ [Next]_vars => CalmInv'
  <2> SUFFICES ASSUME CalmInv, [Next]_vars PROVE CalmInv'
    OBVIOUS
  <2>1. TypeInv'
    BY TypeInductive DEF CalmInv
  <2>2. ASSUME Calm' PROVE FencingInv'
    BY <2>2, CalmBefore, FencingInductive DEF CalmInv, TypeInv
  <2> QED
    BY <2>1, <2>2 DEF CalmInv
<1>3. CalmInv /\ [Next]_vars => [Calm => wiped' = wiped]_vars
  BY StepSpares DEF CalmInv
<1> QED
  BY <1>1, <1>2, <1>3, PTL DEF Spec, NotWipedInUse

\* Most steps of a request neither start nor end what is up.
LEMMA UpUntouched ==
  ASSUME Calm', FencingInv, NEW m \in MountId,
         \/ MountRequest(m) \/ LockTimeout(m) \/ Poll(m) \/ Acquire(m)
         \/ MountStep(m) /\ ~MountReturn(m) /\ ~Evict(m)
         \/ UnmountStep(m)
  PROVE  \E p : pc' = [pc EXCEPT ![m] = p] /\ pc[m] # "up" /\ p # "up"
<1>a. /\ \A p : ~Fails(m, p)
      /\ \A undo \in SUBSET Undo : ~Rollback(m, undo)
  <2>1. TypeOK /\ ~Spend("failure")
    BY FaultFree DEF FencingInv, TypeInv
  <2>2. ASSUME NEW undo \in SUBSET Undo, Rollback(m, undo)
        PROVE  FALSE
    BY <2>2, RollbackFacts DEF FencingInv, TypeInv
  <2> QED
    BY <2>1, <2>2 DEF Fails
<1>1. CASE MountRequest(m) \/ LockTimeout(m) \/ Poll(m) \/ Acquire(m)
  BY <1>1 DEF MountRequest, LockTimeout, Poll, Acquire, GoTo
<1>2. CASE MountRead(m)
  BY <1>2 DEF MountRead, GoTo
<1>3. CASE AddId(m) \/ SaveOld(m) \/ Remount(m) \/ RemountPath(m) \/ RemountIds(m)
  BY <1>3 DEF AddId, SaveOld, Remount, RemountPath, RemountIds, GoTo, Fails
<1>4. CASE Export(m) \/ Connect(m) \/ MakeFilesystem(m) \/ MountDir(m)
           \/ SaveIds(m) \/ SavePath(m)
  BY <1>4, <1>a, UndoFacts DEF Export, Connect, MakeFilesystem, MountDir, SaveIds, SavePath, GoTo
<1>5. CASE UnmountRead(m)
  <2>1. CASE rec.owner = NoNode
    BY <1>5, <2>1, MountAssumption DEF UnmountRead, GoTo, OwnedElsewhere
  <2>2. CASE rec.owner = NodeOf[m]
    BY <1>5, <2>2, MountAssumption DEF UnmountRead, GoTo, OwnedElsewhere
  <2>3. CASE rec.owner \notin {NoNode, NodeOf[m]}
    BY <1>5, <2>3 DEF UnmountRead, GoTo, OwnedElsewhere
  <2> QED
    BY <2>1, <2>2, <2>3
<1>6. CASE UnmountOld(m) \/ UnmountIds(m) \/ UnmountPop(m) \/ UnmountPath(m) \/ Umount(m)
  BY <1>6, <1>a DEF UnmountOld, UnmountIds, UnmountPop, UnmountPath, Umount, GoTo
<1>7. CASE Disconnect(m) \/ Terminate(m) \/ ClearPath(m) \/ UnmountReturn(m)
  BY <1>7, <1>a DEF Disconnect, Terminate, ClearPath, UnmountReturn, Return, GoTo
<1> QED
  BY <1>1, <1>2, <1>3, <1>4, <1>5, <1>6, <1>7 DEF MountStep, UnmountStep

\* Each step is a step of FencedVolume or leaves what serves alone.
LEMMA FencingStep ==
  ASSUME Calm', FencingInv, FencingInv', [Next]_vars
  PROVE  [Fenced!Next]_Serving
<1> DEFINE up == {m \in MountId : pc[m] = "up"}
<1>a. Serving = up /\ Serving' = up'
  <2>1. Serving = up
    BY ServingIsUp
  <2>2. Serving' = up'
    BY DEF FencingInv, UpInv, UpMeansUsable, Serving
  <2> QED
    BY <2>1, <2>2
<1>b. pc \in [MountId -> Point] /\ \A m \in MountId : NodeOf[m] \in Node
  BY MountAssumption DEF FencingInv, TypeInv, TypeOK
<1>c. /\ \A x, y \in up : NodeOf[x] = NodeOf[y]
      /\ \A x, y \in up' : NodeOf[x] = NodeOf[y]
      /\ \A x \in up : NodeOf[x] = rec.owner
  BY DEF FencingInv, UpInv, UpIsRecorded
<1>1. ASSUME NEW m \in MountId,
             \/ MountRequest(m) \/ LockTimeout(m) \/ Poll(m) \/ Acquire(m)
             \/ MountStep(m) /\ ~MountReturn(m) /\ ~Evict(m)
             \/ UnmountStep(m)
      PROVE  Serving' = Serving
  <2>1. PICK p : pc' = [pc EXCEPT ![m] = p] /\ pc[m] # "up" /\ p # "up"
    BY <1>1, UpUntouched
  <2> QED
    BY <2>1, <1>a, <1>b
<1>2. ASSUME NEW m \in MountId, UnmountRequest(m) PROVE [Fenced!Next]_Serving
  <2>1. up' = up \ {m}
    BY <1>2, <1>b DEF UnmountRequest, GoTo
  <2>2. CASE m \in up
    BY <2>1, <2>2, <1>a DEF Fenced!Next, Fenced!Stop
  <2>3. CASE m \notin up
    BY <2>1, <2>3, <1>a
  <2> QED
    BY <2>2, <2>3
<1>3. ASSUME NEW m \in MountId, MountReturn(m) PROVE [Fenced!Next]_Serving
  <2>1. pc[m] \in {"m_ok", "m_fail"}
    BY <1>3 DEF MountReturn
  <2>2. PICK p : pc' = [pc EXCEPT ![m] = p]
    BY <1>3 DEF MountReturn, Return, GoTo
  <2>3. m \notin up /\ (up' = up \/ up' = up \union {m})
    BY <2>1, <2>2, <1>b
  <2>4. CASE up' = up \union {m}
    <3>1. \A x \in up : NodeOf[x] = NodeOf[m]
      BY <2>4, <1>c
    <3> QED
      BY <3>1, <2>3, <2>4, <1>a DEF Fenced!Next, Fenced!Start
  <2> QED
    BY <2>3, <2>4, <1>a
<1>4. ASSUME NEW m \in MountId, Evict(m) PROVE [Fenced!Next]_Serving
  <2>1. pc[m] = "evict" /\ lock = m /\ Holder(m)
    BY <1>4 DEF Evict, FencingInv, LockInv, Critical, MountPoint, UnmountPoint
  <2>2. pc'[m] = "save_old" /\ lock' = m
    BY <1>4, <2>1, FaultFree DEF Evict, Lose, FencingInv, TypeInv
  <2>3. vlun' = {}
    BY <2>2 DEF FencingInv, Holder
  <2>4. up' = {}
    BY <2>3 DEF FencingInv, UpInv, UpMeansUsable, Usable
  <2>5. \A x \in up : NodeOf[x] # NodeOf[m]
    BY <2>1, <1>c DEF Holder, OwnedElsewhere
  <2>6. CASE up # {}
    BY <2>4, <2>5, <2>6, <1>a, <1>b DEF Fenced!Next, Fenced!TakeOver
  <2> QED
    BY <2>4, <2>6, <1>a
<1>5. ASSUME NEW n \in Node, PluginCrash(n) \/ Reboot(n) PROVE FALSE
  BY <1>5, FaultFree DEF PluginCrash, Reboot, Dies, FencingInv, TypeInv
<1>6. ASSUME OrphanExpires \/ LeaseExpires PROVE FALSE
  BY <1>6, FaultFree DEF OrphanExpires, LeaseExpires, FencingInv, LockInv, TypeInv
<1>7. ASSUME UNCHANGED vars PROVE Serving' = Serving
  BY <1>7, <1>a DEF vars
<1> QED
  BY <1>1, <1>2, <1>3, <1>4, <1>5, <1>6, <1>7 DEF Next, Thread, MountStep

\* Mounting implements FencedVolume: the volume changes node only by a takeover
\* that stops every container of the node that loses it.
THEOREM FencingImplemented ==
  ASSUME NoFault
  PROVE  Spec => ImplementsFencing
<1>1. Init => Fenced!Init
  BY DEF Init, Fenced!Init, Serving
<1>2. Init => FencingInv
  BY FencingInitial
<1>3. FencingInv /\ [Next]_vars => FencingInv'
  BY FencingInductive, TypeInductive, AlwaysCalm DEF FencingInv, TypeInv
<1>4. FencingInv /\ FencingInv' /\ [Next]_vars => [Fenced!Next]_Serving
  BY FencingStep, AlwaysCalm DEF FencingInv, TypeInv
<1> QED
  BY <1>1, <1>2, <1>3, <1>4, PTL DEF Spec, ImplementsFencing, Fenced!Spec

=============================================================================
