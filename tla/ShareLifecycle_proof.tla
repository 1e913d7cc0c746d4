------------------------ MODULE ShareLifecycle_proof ------------------------
(* Proofs about the creation and removal of file shares, as modelled in ShareLifecycle. *)
EXTENDS ShareLifecycle, SequenceTheorems, TLAPS

-----------------------------------------------------------------------------
(* Type correctness *)

\* Where a creation is before it has an FPG, after, and while it undoes.
Early == {"enter", "init", "getter", "pick", "draw", "fpg", "default", "fpg_meta"}
Late == {"claim", "vfs", "vfs_meta", "mark", "create", "save_id", "quota", "finish"}
Undo == {"undo_share", "undo_store", "undo_ip", "undo_fpg", "undo_default", "undo_meta"}

Creation == Early \union Late \union {"fail"} \union Undo

Removal == {"delete_share", "forget", "mark_failed", "store", "count", "owned",
            "delete_fpg", "forget_fpg", "release"}

\* What makes TypeOK inductive: what is written into the metadata comes from a request
\* or a record with a CPG, and a share is put on an FPG that has a name.
CallInv(c) ==
  /\ pc[c] \in Creation =>
       /\ req[c] \in RequestType /\ req[c].cpg \in Cpg
       /\ ~Default(c) => target[c] \in Fpg
  /\ pc[c] \in Creation \union Removal => view[c].cpg \in Cpg
  /\ pc[c] \in {"fpg", "default", "fpg_meta"} => target[c] \in Fpg
  /\ pc[c] \in Late => MyFpg(c) \in Fpg
  /\ pc[c] = "vfs" => view[c].ip \in Ip

RecInv == \A s \in Share : rec[s] # None => rec[s].cpg \in Cpg

TypeInv ==
  /\ TypeOK
  /\ RecInv
  /\ \A c \in Call : CallInv(c)

\* The fields of a request and of a record.
LEMMA RequestFacts ==
  ASSUME NEW r \in RequestType
  PROVE  /\ r.op \in {"create", "remove"} /\ r.share \in Share
         /\ r.cpg \in Cpg \union {None} /\ r.fpg \in Fpg \union {None}
         /\ r.op = "create" => r.cpg \in Cpg
BY DEF RequestType

LEMMA RecordFacts ==
  /\ NoRecord \in Record
  /\ \A r \in Record :
       /\ r.cpg \in Cpg \union {None} /\ r.fpg \in Fpg \union {None}
       /\ r.ip \in Ip \union {None}
       /\ r.status \in {"CREATING", "AVAILABLE", "FAILED"}
  /\ \A r \in Record, f \in Fpg :
       /\ [r EXCEPT !.fpg = f] \in Record
       /\ [r EXCEPT !.fpg = f].cpg = r.cpg /\ [r EXCEPT !.fpg = f].fpg = f
       /\ [r EXCEPT !.fpg = f].ip = r.ip /\ [r EXCEPT !.fpg = f].status = r.status
  /\ \A r \in Record, a \in Ip :
       /\ [r EXCEPT !.ip = a] \in Record
       /\ [r EXCEPT !.ip = a].cpg = r.cpg /\ [r EXCEPT !.ip = a].fpg = r.fpg
       /\ [r EXCEPT !.ip = a].ip = a /\ [r EXCEPT !.ip = a].status = r.status
  /\ \A r \in Record, s \in {"CREATING", "AVAILABLE", "FAILED"} :
       /\ [r EXCEPT !.status = s] \in Record
       /\ [r EXCEPT !.status = s].cpg = r.cpg /\ [r EXCEPT !.status = s].fpg = r.fpg
       /\ [r EXCEPT !.status = s].ip = r.ip /\ [r EXCEPT !.status = s].status = s
  /\ \A r \in Record, i \in Call \X Fpg :
       /\ [r EXCEPT !.id = i] \in Record
       /\ [r EXCEPT !.id = i].cpg = r.cpg /\ [r EXCEPT !.id = i].fpg = r.fpg
       /\ [r EXCEPT !.id = i].ip = r.ip /\ [r EXCEPT !.id = i].status = r.status
<1> USE DEF Record
<1>1. NoRecord \in Record
  BY DEF NoRecord
<1>2. ASSUME NEW r \in Record
      PROVE  /\ r.cpg \in Cpg \union {None} /\ r.fpg \in Fpg \union {None}
             /\ r.ip \in Ip \union {None}
             /\ r.status \in {"CREATING", "AVAILABLE", "FAILED"}
  OBVIOUS
<1>3. ASSUME NEW r \in Record, NEW f \in Fpg
      PROVE  /\ [r EXCEPT !.fpg = f] \in Record
             /\ [r EXCEPT !.fpg = f].cpg = r.cpg /\ [r EXCEPT !.fpg = f].fpg = f
             /\ [r EXCEPT !.fpg = f].ip = r.ip /\ [r EXCEPT !.fpg = f].status = r.status
  OBVIOUS
<1>4. ASSUME NEW r \in Record, NEW a \in Ip
      PROVE  /\ [r EXCEPT !.ip = a] \in Record
             /\ [r EXCEPT !.ip = a].cpg = r.cpg /\ [r EXCEPT !.ip = a].fpg = r.fpg
             /\ [r EXCEPT !.ip = a].ip = a /\ [r EXCEPT !.ip = a].status = r.status
  OBVIOUS
<1>5. ASSUME NEW r \in Record, NEW s \in {"CREATING", "AVAILABLE", "FAILED"}
      PROVE  /\ [r EXCEPT !.status = s] \in Record
             /\ [r EXCEPT !.status = s].cpg = r.cpg /\ [r EXCEPT !.status = s].fpg = r.fpg
             /\ [r EXCEPT !.status = s].ip = r.ip /\ [r EXCEPT !.status = s].status = s
  OBVIOUS
<1>6. ASSUME NEW r \in Record, NEW i \in Call \X Fpg
      PROVE  /\ [r EXCEPT !.id = i] \in Record
             /\ [r EXCEPT !.id = i].cpg = r.cpg /\ [r EXCEPT !.id = i].fpg = r.fpg
             /\ [r EXCEPT !.id = i].ip = r.ip /\ [r EXCEPT !.id = i].status = r.status
  OBVIOUS
<1> QED
  BY <1>1, <1>2, <1>3, <1>4, <1>5, <1>6

\* The types of the data, apart from where the calls are and what they hold.
CallOK ==
  /\ req \in [Call -> RequestType \union {None}]
  /\ view \in [Call -> Record]
  /\ todo \in [Call -> SUBSET Fpg]
  /\ target \in [Call -> Fpg \union {None}]
  /\ made \in [Call -> Seq({"fpg", "ip", "share"})]

RecOK ==
  /\ rec \in [Share -> Record \union {None}]
  /\ RecInv

PoolOK ==
  /\ meta \in [Cpg \X Fpg -> Ip \union {NoVfs, None}]
  /\ defaults \in [Cpg -> SUBSET Fpg]
  /\ locked \subseteq Pool
  /\ inUse \in [Ip -> Nat]
  /\ drawn \subseteq DefaultName

ArrayOK ==
  /\ fpgs \in [Fpg -> Cpg \union {None}]
  /\ vfs \in [Fpg -> Ip \union {None}]
  /\ \A f \in Fpg : vfs[f] # None => fpgs[f] # None
  /\ exports \subseteq Call \X Fpg
  /\ stores \subseteq Fpg \X Share
  /\ \A e \in exports : vfs[e[2]] # None
  /\ \A e \in stores : vfs[e[1]] # None

ControlOK ==
  /\ pc \in [Call -> Point]
  /\ lock \in [Key -> Call \union {Free}]

FailuresOK == failures \in 0 .. Failures

LEMMA TypeParts ==
  TypeInv <=> /\ CallOK /\ RecOK /\ PoolOK /\ ArrayOK /\ ControlOK /\ FailuresOK
              /\ \A c \in Call : CallInv(c)
BY DEF TypeInv, TypeOK, CallOK, RecOK, PoolOK, ArrayOK, ControlOK, FailuresOK

LEMMA Untouched ==
  /\ CallOK /\ UNCHANGED call => CallOK'
  /\ RecOK /\ UNCHANGED rec => RecOK'
  /\ PoolOK /\ UNCHANGED <<meta, defaults, ips, drawn>> => PoolOK'
  /\ ArrayOK /\ UNCHANGED array => ArrayOK'
  /\ FailuresOK /\ UNCHANGED failures => FailuresOK'
  /\ FailuresOK /\ Fault => FailuresOK'
<1>1. CallOK /\ UNCHANGED call => CallOK'
  BY DEF CallOK, call
<1>2. RecOK /\ UNCHANGED rec => RecOK'
  BY DEF RecOK, RecInv
<1>3. PoolOK /\ UNCHANGED <<meta, defaults, ips, drawn>> => PoolOK'
  BY DEF PoolOK, ips
<1>4. ArrayOK /\ UNCHANGED array => ArrayOK'
  BY DEF ArrayOK, array
<1>5. FailuresOK /\ UNCHANGED failures => FailuresOK'
  BY DEF FailuresOK
<1>6. FailuresOK /\ Fault => FailuresOK'
  BY ShareAssumption DEF FailuresOK, Fault
<1> QED
  BY <1>1, <1>2, <1>3, <1>4, <1>5, <1>6

\* Call c moves to one of the points P; the others stay where they are.
Moves(c, P) ==
  /\ ControlOK'
  /\ pc'[c] \in P
  /\ \A d \in Call \ {c} : pc'[d] = pc[d]

LEMMA PointFacts ==
  /\ Creation \subseteq Point /\ Removal \subseteq Point /\ Final \subseteq Point
  /\ "idle" \in Point
BY DEF Creation, Removal, Early, Late, Undo, Final, Point

LEMMA ControlFacts ==
  ASSUME ControlOK, NEW c \in Call, NEW P \in SUBSET Point
  PROVE  /\ \A p \in P : GoTo(c, p) /\ UNCHANGED lock => Moves(c, P)
         /\ \A k : \A p \in P : GoTo(c, p) /\ Acquire(c, k) => Moves(c, P)
         /\ \A p \in P : End(c, p) => Moves(c, P)
         /\ "fail" \in P /\ Fail(c) => Moves(c, P)
         /\ \A undo \in Seq({"fpg", "ip", "share"}) :
              /\ {"failed", "undo_share", "undo_ip", "undo_fpg"} \subseteq P
              /\ UndoNext(c, undo)
              => Moves(c, P)
<1> USE DEF ControlOK, Moves
<1>1. ASSUME NEW p \in P, GoTo(c, p)
      PROVE  /\ pc' \in [Call -> Point] /\ pc'[c] \in P
             /\ \A d \in Call \ {c} : pc'[d] = pc[d]
  BY <1>1 DEF GoTo
<1>2. ASSUME NEW p \in P, GoTo(c, p), UNCHANGED lock PROVE Moves(c, P)
  BY <1>1, <1>2
<1>3. ASSUME NEW p \in P, NEW k, GoTo(c, p), Acquire(c, k) PROVE Moves(c, P)
  <2>1. lock' \in [Key -> Call \union {Free}]
    BY <1>3 DEF Acquire
  <2> QED
    BY <1>1, <1>3, <2>1
<1>4. ASSUME NEW p \in P, End(c, p) PROVE Moves(c, P)
  <2>1. lock' \in [Key -> Call \union {Free}]
    BY <1>4 DEF End
  <2> QED
    BY <1>1, <1>4, <2>1 DEF End
<1>5. ASSUME "fail" \in P, Fail(c) PROVE Moves(c, P)
  <2>1. lock' \in [Key -> Call \union {Free}]
    BY <1>5 DEF Fail
  <2> QED
    BY <1>1, <1>5, <2>1 DEF Fail
<1>6. ASSUME NEW undo \in Seq({"fpg", "ip", "share"}), UndoNext(c, undo),
             {"failed", "undo_share", "undo_ip", "undo_fpg"} \subseteq P
      PROVE  Moves(c, P)
  <2>1. CASE undo = <<>>
    BY <1>4, <1>6, <2>1 DEF UndoNext
  <2>2. CASE undo # <<>>
    <3>1. undo[Len(undo)] \in {"fpg", "ip", "share"}
      BY <1>6, <2>2
    <3>2. \/ GoTo(c, "undo_share") /\ UNCHANGED lock
          \/ GoTo(c, "undo_ip") /\ UNCHANGED lock
          \/ GoTo(c, "undo_fpg") /\ UNCHANGED lock
      BY <1>6, <2>2, <3>1 DEF UndoNext
    <3> QED
      BY <1>2, <1>6, <3>2
  <2> QED
    BY <2>1, <2>2
<1> QED
  BY <1>2, <1>3, <1>4, <1>5, <1>6

\* The other calls stay where they are, with what they know.
Alone(c) ==
  \A d \in Call \ {c} :
    /\ pc'[d] = pc[d] /\ req'[d] = req[d] /\ view'[d] = view[d]
    /\ target'[d] = target[d] /\ made'[d] = made[d]

LEMMA StepOfCall ==
  ASSUME TypeInv, NEW c \in Call, CallOK', RecOK', PoolOK', ArrayOK', FailuresOK',
         ControlOK', CallInv(c)', Alone(c)
  PROVE  TypeInv'
<1>1. \A d \in Call : CallInv(d)'
  BY DEF TypeInv, CallInv, Default, MyFpg, Alone
<1> QED
  BY <1>1 DEF TypeInv, TypeOK, CallOK, RecOK, PoolOK, ArrayOK, ControlOK, FailuresOK

\* What the call itself has to keep, as it goes on with its request.
LEMMA OwnCall ==
  ASSUME TypeInv, NEW c \in Call, pc[c] \in Creation \union Removal,
         req'[c] = req[c], view'[c].cpg = view[c].cpg,
         pc'[c] \in Creation => pc[c] \in Creation,
         ~Default(c) => target'[c] = target[c],
         pc'[c] \in {"fpg", "default", "fpg_meta"} => target'[c] \in Fpg,
         pc'[c] \in Late => view'[c].fpg \in Fpg,
         pc'[c] = "vfs" => view'[c].ip \in Ip
  PROVE  CallInv(c)'
BY DEF TypeInv, CallInv, Default, MyFpg

LEMMA MadeFacts ==
  ASSUME CallOK, NEW c \in Call
  PROVE  /\ made[c] \in Seq({"fpg", "ip", "share"})
         /\ \A x \in {"fpg", "ip", "share"} :
              made' = [made EXCEPT ![c] = Append(@, x)] =>
                made' \in [Call -> Seq({"fpg", "ip", "share"})]
         /\ Undone(c) => /\ made' \in [Call -> Seq({"fpg", "ip", "share"})]
                         /\ made'[c] \in Seq({"fpg", "ip", "share"})
<1> DEFINE S == Seq({"fpg", "ip", "share"})
<1>1. made \in [Call -> S] /\ made[c] \in S
  BY DEF CallOK
<1>2. ASSUME NEW x \in {"fpg", "ip", "share"} PROVE Append(made[c], x) \in S
  BY <1>1
<1>3. SubSeq(made[c], 1, Len(made[c]) - 1) \in S
  <2>1. CASE made[c] = <<>>
    BY <2>1
  <2>2. CASE made[c] # <<>>
    BY <1>1, <2>2
  <2> QED
    BY <2>1, <2>2
<1> HIDE DEF S
<1>4. \A x \in {"fpg", "ip", "share"} :
        made' = [made EXCEPT ![c] = Append(@, x)] => made' \in [Call -> S]
  BY <1>1, <1>2
<1>5. Undone(c) => made' \in [Call -> S] /\ made'[c] \in S
  BY <1>1, <1>3 DEF Undone
<1> QED
  BY <1>1, <1>4, <1>5 DEF S

LEMMA ViewFacts ==
  ASSUME CallOK, NEW c \in Call
  PROVE  /\ view[c] \in Record
         /\ \A f \in Fpg, a \in Ip :
              view' = [view EXCEPT ![c].fpg = f, ![c].ip = a] =>
                /\ view' \in [Call -> Record]
                /\ view'[c].cpg = view[c].cpg /\ view'[c].status = view[c].status
                /\ view'[c].fpg = f /\ view'[c].ip = a
         /\ \A f \in Fpg :
              view' = [view EXCEPT ![c].fpg = f] =>
                /\ view' \in [Call -> Record]
                /\ view'[c].cpg = view[c].cpg /\ view'[c].status = view[c].status
                /\ view'[c].fpg = f /\ view'[c].ip = view[c].ip
         /\ \A a \in Ip :
              view' = [view EXCEPT ![c].ip = a] =>
                /\ view' \in [Call -> Record]
                /\ view'[c].cpg = view[c].cpg /\ view'[c].status = view[c].status
                /\ view'[c].fpg = view[c].fpg /\ view'[c].ip = a
         /\ \A i \in Call \X Fpg :
              view' = [view EXCEPT ![c].id = i] =>
                /\ view' \in [Call -> Record]
                /\ view'[c].cpg = view[c].cpg /\ view'[c].status = view[c].status
                /\ view'[c].fpg = view[c].fpg /\ view'[c].ip = view[c].ip
         /\ view' = [view EXCEPT ![c].status = "FAILED"] =>
              /\ view' \in [Call -> Record]
              /\ view'[c].cpg = view[c].cpg /\ view'[c].status = "FAILED"
              /\ view'[c].fpg = view[c].fpg /\ view'[c].ip = view[c].ip
<1>1. view \in [Call -> Record] /\ view[c] \in Record
  BY DEF CallOK
<1>2. ASSUME NEW f \in Fpg, NEW a \in Ip, view' = [view EXCEPT ![c].fpg = f, ![c].ip = a]
      PROVE  /\ view' \in [Call -> Record]
             /\ view'[c].cpg = view[c].cpg /\ view'[c].status = view[c].status
             /\ view'[c].fpg = f /\ view'[c].ip = a
  BY <1>1, <1>2 DEF Record
<1>3. ASSUME NEW f \in Fpg, view' = [view EXCEPT ![c].fpg = f]
      PROVE  /\ view' \in [Call -> Record]
             /\ view'[c].cpg = view[c].cpg /\ view'[c].status = view[c].status
             /\ view'[c].fpg = f /\ view'[c].ip = view[c].ip
  BY <1>1, <1>3 DEF Record
<1>4. ASSUME NEW a \in Ip, view' = [view EXCEPT ![c].ip = a]
      PROVE  /\ view' \in [Call -> Record]
             /\ view'[c].cpg = view[c].cpg /\ view'[c].status = view[c].status
             /\ view'[c].fpg = view[c].fpg /\ view'[c].ip = a
  BY <1>1, <1>4 DEF Record
<1>5. ASSUME NEW i \in Call \X Fpg, view' = [view EXCEPT ![c].id = i]
      PROVE  /\ view' \in [Call -> Record]
             /\ view'[c].cpg = view[c].cpg /\ view'[c].status = view[c].status
             /\ view'[c].fpg = view[c].fpg /\ view'[c].ip = view[c].ip
  BY <1>1, <1>5 DEF Record
<1>6. ASSUME view' = [view EXCEPT ![c].status = "FAILED"]
      PROVE  /\ view' \in [Call -> Record]
             /\ view'[c].cpg = view[c].cpg /\ view'[c].status = "FAILED"
             /\ view'[c].fpg = view[c].fpg /\ view'[c].ip = view[c].ip
  BY <1>1, <1>6 DEF Record
<1> QED
  BY <1>1, <1>2, <1>3, <1>4, <1>5, <1>6

LEMMA CallFacts ==
  ASSUME TypeInv, NEW c \in Call
  PROVE  /\ view[c] \in Record /\ (view[c].fpg # None => view[c].fpg \in Fpg)
         /\ pc[c] \in Creation =>
              /\ MyCpg(c) \in Cpg /\ MyShare(c) \in Share /\ view[c].cpg \in Cpg
              /\ ~Default(c) => req[c].fpg \in Fpg /\ target[c] \in Fpg
         /\ pc[c] \in {"fpg", "default", "fpg_meta"} => target[c] \in Fpg
         /\ pc[c] \in Late => MyFpg(c) \in Fpg
         /\ pc[c] = "vfs" => view[c].ip \in Ip
BY TypeParts, RecordFacts, RequestFacts
   DEF TypeInv, CallInv, CallOK, Default, MyCpg, MyShare, MyFpg

LEMMA RecFacts ==
  ASSUME RecOK, NEW s
  PROVE  /\ \A r \in Record : r.cpg \in Cpg /\ rec' = [rec EXCEPT ![s] = r] => RecOK'
         /\ rec' = [rec EXCEPT ![s] = None] => RecOK'
         /\ \A x \in {"CREATING", "AVAILABLE", "FAILED"} :
              s \in Share /\ rec[s] # None /\ rec' = [rec EXCEPT ![s].status = x] => RecOK'
<1> USE DEF RecOK, RecInv
<1>1. ASSUME NEW r \in Record, r.cpg \in Cpg, rec' = [rec EXCEPT ![s] = r] PROVE RecOK'
  BY <1>1
<1>2. ASSUME rec' = [rec EXCEPT ![s] = None] PROVE RecOK'
  BY <1>2
<1>3. ASSUME NEW x \in {"CREATING", "AVAILABLE", "FAILED"}, s \in Share, rec[s] # None,
             rec' = [rec EXCEPT ![s].status = x]
      PROVE  RecOK'
  <2>0. rec[s] \in Record /\ rec[s].cpg \in Cpg
    BY <1>3
  <2>1. /\ [rec[s] EXCEPT !.status = x] \in Record
        /\ [rec[s] EXCEPT !.status = x].cpg \in Cpg
    BY <2>0 DEF Record
  <2>2. rec' = [rec EXCEPT ![s] = [rec[s] EXCEPT !.status = x]]
    BY <1>3
  <2> QED
    BY <1>1, <2>1, <2>2
<1> QED
  BY <1>1, <1>2, <1>3

LEMMA PoolFacts ==
  ASSUME PoolOK
  PROVE  /\ \A p, x : /\ x \in Ip \union {NoVfs, None} /\ meta' = [meta EXCEPT ![p] = x]
                     /\ UNCHANGED <<defaults, ips, drawn>>
                     => PoolOK'
         /\ \A g, x : /\ x \in SUBSET Fpg /\ defaults' = [defaults EXCEPT ![g] = x]
                     /\ UNCHANGED <<meta, ips, drawn>>
                     => PoolOK'
         /\ \A a \in Ip : inUse[a] \in Nat
         /\ \A g \in Cpg : defaults[g] \in SUBSET Fpg
<1>1. ASSUME NEW p, NEW x \in Ip \union {NoVfs, None}, meta' = [meta EXCEPT ![p] = x],
             UNCHANGED <<defaults, ips, drawn>>
      PROVE  PoolOK'
  BY <1>1 DEF PoolOK, ips
<1>2. ASSUME NEW g, NEW x \in SUBSET Fpg, defaults' = [defaults EXCEPT ![g] = x],
             UNCHANGED <<meta, ips, drawn>>
      PROVE  PoolOK'
  BY <1>2 DEF PoolOK, ips
<1>3. /\ \A a \in Ip : inUse[a] \in Nat
      /\ \A g \in Cpg : defaults[g] \in SUBSET Fpg
  BY DEF PoolOK
<1> QED
  BY <1>1, <1>2, <1>3
LEMMA ChoosingType ==
  ASSUME TypeInv, NEW c \in Call, Choosing(c)
  PROVE  TypeInv' /\ Alone(c)
<1>1. ASSUME Enter(c) PROVE TypeInv' /\ Alone(c)
  <2> USE <1>1
  <2>1. CallOK' /\ RecOK' /\ PoolOK' /\ ArrayOK' /\ FailuresOK'
    BY TypeParts, Untouched DEF Enter, call, array, ips
  <2>0. {"init", "done"} \subseteq Point
    BY DEF Point
  <2>2. Moves(c, {"init", "done"})
    BY <2>0, TypeParts, ControlFacts DEF Enter
  <2>3. CallInv(c)'
    BY <2>2, OwnCall, CallFacts, TypeParts
      DEF Enter, Moves, CallOK, At, call,
          Creation, Removal, Early, Late, Undo, MyFpg
  <2>4. Alone(c)
    BY <2>2, TypeParts DEF Enter, Alone, Moves, CallOK, call
  <2> QED
    BY <2>1, <2>2, <2>3, <2>4, StepOfCall DEF Moves
<1>2. ASSUME InitializeShare(c) PROVE TypeInv' /\ Alone(c)
  <2> USE <1>2
  <2>1. CallOK' /\ PoolOK' /\ ArrayOK' /\ FailuresOK'
    BY TypeParts, Untouched DEF InitializeShare, call, array, ips
  <2>2. RecOK'
    <3>1. view[c].cpg \in Cpg /\ view[c] \in Record
      BY CallFacts DEF InitializeShare, At, Creation, Early
    <3> QED
      BY <3>1, RecFacts, TypeParts DEF InitializeShare
  <2>0. {"getter"} \subseteq Point
    BY DEF Point
  <2>3. Moves(c, {"getter"})
    BY <2>0, TypeParts, ControlFacts DEF InitializeShare
  <2>4. CallInv(c)'
    BY <2>3, OwnCall, CallFacts, TypeParts
      DEF InitializeShare, Moves, CallOK, At, call,
          Creation, Removal, Early, Late, Undo, MyFpg
  <2>5. Alone(c)
    BY <2>3, TypeParts DEF InitializeShare, Alone, Moves, CallOK, call
  <2> QED
    BY <2>1, <2>2, <2>3, <2>4, <2>5, StepOfCall DEF Moves
<1>3. ASSUME GetExistingFpg(c) PROVE TypeInv' /\ Alone(c)
  <2> USE <1>3
  <2>1. RecOK' /\ PoolOK' /\ ArrayOK' /\ FailuresOK'
    BY TypeParts, Untouched DEF GetExistingFpg, Use, array, ips
  <2>2. CallOK'
    <3>1. CASE UNCHANGED view
      BY <3>1, Untouched, TypeParts DEF GetExistingFpg, call
    <3>2. CASE \E f \in Fpg, a \in Ip : Use(c, f, a)
      <4>1. view' \in [Call -> Record]
        BY <3>2, ViewFacts, TypeParts DEF Use
      <4> QED
        BY <4>1, TypeParts DEF GetExistingFpg, CallOK
    <3>3. req[c].fpg \in Fpg
      BY CallFacts DEF GetExistingFpg, At, Creation, Early
    <3>4. vfs[req[c].fpg] \in Ip \union {None}
      BY <3>3, TypeParts DEF ArrayOK
    <3> QED
      BY <3>1, <3>2, <3>3, <3>4 DEF GetExistingFpg
  <2>0. {"fpg", "fail", "create"} \subseteq Point
    BY DEF Point
  <2>3. Moves(c, {"fpg", "fail", "create"})
    BY <2>0, TypeParts, ControlFacts DEF GetExistingFpg, Use
  <2>4. CallInv(c)'
    <3>1. /\ pc[c] \in Creation /\ target[c] \in Fpg
           /\ req[c].fpg \in Fpg /\ vfs[req[c].fpg] \in Ip \union {None}
      BY CallFacts, TypeParts DEF GetExistingFpg, At, Creation, Early, ArrayOK
    <3>2. ASSUME NEW p \in {"draw", "pick", "fpg"}, GoTo(c, p) \/ Fail(c), UNCHANGED view
          PROVE  CallInv(c)'
      <4>1. pc'[c] \in {"draw", "pick", "fpg", "fail"}
        BY <3>2, TypeParts DEF GoTo, Fail, ControlOK
      <4> QED
        BY <3>1, <3>2, <4>1, OwnCall DEF GetExistingFpg, Late
    <3>3. ASSUME NEW f \in Fpg, NEW a \in Ip, Use(c, f, a) PROVE CallInv(c)'
      <4>1. pc'[c] = "create"
        BY <3>3, TypeParts DEF Use, GoTo, ControlOK
      <4>2. view'[c].cpg = view[c].cpg /\ view'[c].fpg = f
        BY <3>3, ViewFacts, TypeParts DEF Use
      <4> QED
        BY <3>1, <4>1, <4>2, OwnCall DEF GetExistingFpg
    <3> QED
      BY <3>1, <3>2, <3>3 DEF GetExistingFpg
  <2>5. Alone(c)
    BY <2>3, TypeParts DEF GetExistingFpg, Use, Alone, Moves, CallOK, call
  <2> QED
    BY <2>1, <2>2, <2>3, <2>4, <2>5, StepOfCall DEF Moves
<1>4. ASSUME GetDefaultFpgs(c) PROVE TypeInv' /\ Alone(c)
  <2> USE <1>4
  <2>1. RecOK' /\ PoolOK' /\ ArrayOK' /\ FailuresOK'
    BY TypeParts, Untouched DEF GetDefaultFpgs, array, ips
  <2>2. CallOK'
    <3>1. defaults[MyCpg(c)] \in SUBSET Fpg
      BY CallFacts, PoolFacts, TypeParts DEF GetDefaultFpgs, At, Creation, Early
    <3> QED
      BY <3>1, TypeParts DEF GetDefaultFpgs, CallOK
  <2>0. {"pick"} \subseteq Point
    BY DEF Point
  <2>3. Moves(c, {"pick"})
    BY <2>0, TypeParts, ControlFacts DEF GetDefaultFpgs
  <2>4. CallInv(c)'
    BY <2>3, OwnCall, CallFacts, ViewFacts, TypeParts
      DEF GetDefaultFpgs, Moves, CallOK, At, call,
          Creation, Removal, Early, Late, Undo, MyFpg
  <2>5. Alone(c)
    BY <2>3, TypeParts DEF GetDefaultFpgs, Alone, Moves, CallOK, call
  <2> QED
    BY <2>1, <2>2, <2>3, <2>4, <2>5, StepOfCall DEF Moves
<1>5. ASSUME PickDefaultFpg(c) PROVE TypeInv' /\ Alone(c)
  <2> USE <1>5
  <2>1. RecOK' /\ PoolOK' /\ ArrayOK' /\ FailuresOK'
    BY TypeParts, Untouched DEF PickDefaultFpg, Use, array, ips
  <2>2. CallOK'
    <3>0. todo[c] \in SUBSET Fpg /\ todo' \in [Call -> SUBSET Fpg]
      BY TypeParts DEF PickDefaultFpg, CallOK
    <3>1. CASE UNCHANGED view
      BY <3>0, <3>1, TypeParts DEF PickDefaultFpg, CallOK
    <3>2. CASE \E f \in Fpg, a \in Ip : Use(c, f, a)
      <4>1. view' \in [Call -> Record]
        BY <3>2, ViewFacts, TypeParts DEF Use
      <4> QED
        BY <3>0, <4>1, TypeParts DEF PickDefaultFpg, CallOK
    <3>3. \A f \in todo[c] : vfs[f] \in Ip \union {None} /\ f \in Fpg
      BY <3>0, TypeParts DEF ArrayOK
    <3> QED
      BY <3>1, <3>2, <3>3 DEF PickDefaultFpg
  <2>0. {"draw", "pick", "create", "fail"} \subseteq Point
    BY DEF Point
  <2>3. Moves(c, {"draw", "pick", "create", "fail"})
    BY <2>0, TypeParts, ControlFacts DEF PickDefaultFpg, Use
  <2>4. CallInv(c)'
    <3>1. /\ pc[c] \in Creation
           /\ \A f \in todo[c] : f \in Fpg /\ vfs[f] \in Ip \union {None}
      BY TypeParts DEF PickDefaultFpg, At, Creation, Early, CallOK, ArrayOK
    <3>2. ASSUME NEW p \in {"draw", "pick"}, GoTo(c, p) \/ Fail(c), UNCHANGED view
          PROVE  CallInv(c)'
      <4>1. pc'[c] \in {"draw", "pick", "fail"}
        BY <3>2, TypeParts DEF GoTo, Fail, ControlOK
      <4> QED
        BY <3>1, <3>2, <4>1, OwnCall DEF PickDefaultFpg, Late
    <3>3. ASSUME NEW f \in Fpg, NEW a \in Ip, Use(c, f, a) PROVE CallInv(c)'
      <4>1. pc'[c] = "create"
        BY <3>3, TypeParts DEF Use, GoTo, ControlOK
      <4>2. view'[c].cpg = view[c].cpg /\ view'[c].fpg = f
        BY <3>3, ViewFacts, TypeParts DEF Use
      <4> QED
        BY <3>1, <4>1, <4>2, OwnCall DEF PickDefaultFpg
    <3> QED
      BY <3>1, <3>2, <3>3 DEF PickDefaultFpg
  <2>5. Alone(c)
    BY <2>3, TypeParts DEF PickDefaultFpg, Use, Alone, Moves, CallOK, call
  <2> QED
    BY <2>1, <2>2, <2>3, <2>4, <2>5, StepOfCall DEF Moves
<1> QED
  BY <1>1, <1>2, <1>3, <1>4, <1>5 DEF Choosing

LEMMA MakingFpgType ==
  ASSUME TypeInv, NEW c \in Call, MakingFpg(c)
  PROVE  TypeInv' /\ Alone(c)
<1>1. ASSUME DrawName(c) PROVE TypeInv' /\ Alone(c)
  <2> USE <1>1
  <2>1. RecOK' /\ ArrayOK' /\ FailuresOK'
    BY TypeParts, Untouched DEF DrawName, array
  <2>2. CallOK'
    BY ShareAssumption, TypeParts DEF DrawName, CallOK
  <2>3. PoolOK'
    BY ShareAssumption, TypeParts DEF DrawName, PoolOK, ips
  <2>0. {"fpg"} \subseteq Point
    BY DEF Point
  <2>4. Moves(c, {"fpg"})
    BY <2>0, TypeParts, ControlFacts DEF DrawName
  <2>5. CallInv(c)'
    <3>1. target'[c] \in Fpg
      BY ShareAssumption, TypeParts DEF DrawName, CallOK
    <3> QED
      BY <2>4, <3>1, CallFacts, TypeParts
         DEF DrawName, CallInv, Moves, At, TypeInv,
             Creation, Removal, Early, Late, Undo, Default
  <2>6. Alone(c)
    BY <2>4, TypeParts DEF DrawName, Alone, Moves, CallOK, call
  <2> QED
    BY <2>1, <2>2, <2>3, <2>4, <2>5, <2>6, StepOfCall DEF Moves
<1>2. ASSUME CreateFpg(c) PROVE TypeInv' /\ Alone(c)
  <2> USE <1>2
  <2>1. CallOK' /\ RecOK' /\ PoolOK' /\ FailuresOK'
    BY TypeParts, Untouched DEF CreateFpg, call, ips
  <2>2. ArrayOK'
    <3>1. MyCpg(c) \in Cpg /\ target[c] \in Fpg /\ None \notin Cpg
      BY CallFacts, ShareAssumption DEF CreateFpg, At, Creation, Early
    <3>2. fpgs' \in [Fpg -> Cpg \union {None}]
      BY <3>1, TypeParts DEF CreateFpg, ArrayOK
    <3>3. \A f \in Fpg : fpgs[f] # None => fpgs'[f] # None
      BY <3>1, TypeParts DEF CreateFpg, ArrayOK
    <3> QED
      BY <3>2, <3>3, TypeParts DEF CreateFpg, ArrayOK
  <2>0. {"default", "fpg_meta", "draw", "fail"} \subseteq Point
    BY DEF Point
  <2>3. Moves(c, {"default", "fpg_meta", "draw", "fail"})
    BY <2>0, TypeParts, ControlFacts DEF CreateFpg
  <2>4. CallInv(c)'
    BY <2>3, OwnCall, CallFacts, TypeParts
      DEF CreateFpg, Moves, CallOK, At, call,
          Creation, Removal, Early, Late, Undo, MyFpg
  <2>5. Alone(c)
    BY <2>3, TypeParts DEF CreateFpg, Alone, Moves, CallOK, call
  <2> QED
    BY <2>1, <2>2, <2>3, <2>4, <2>5, StepOfCall DEF Moves
<1>3. ASSUME AddToDefaultFpg(c) PROVE TypeInv' /\ Alone(c)
  <2> USE <1>3
  <2>1. CallOK' /\ RecOK' /\ ArrayOK' /\ FailuresOK'
    BY TypeParts, Untouched DEF AddToDefaultFpg, call, array
  <2>2. PoolOK'
    <3>1. pc[c] \in Creation /\ pc[c] = "default"
      BY DEF AddToDefaultFpg, At, Creation, Early
    <3>2. defaults[MyCpg(c)] \union {target[c]} \in SUBSET Fpg
      BY <3>1, CallFacts, PoolFacts, TypeParts
    <3> QED
      BY <3>2, PoolFacts, TypeParts DEF AddToDefaultFpg
  <2>0. {"fpg_meta"} \subseteq Point
    BY DEF Point
  <2>3. Moves(c, {"fpg_meta"})
    BY <2>0, TypeParts, ControlFacts DEF AddToDefaultFpg
  <2>4. CallInv(c)'
    BY <2>3, OwnCall, CallFacts, TypeParts
      DEF AddToDefaultFpg, Moves, CallOK, At, call,
          Creation, Removal, Early, Late, Undo, MyFpg
  <2>5. Alone(c)
    BY <2>3, TypeParts DEF AddToDefaultFpg, Alone, Moves, CallOK, call
  <2> QED
    BY <2>1, <2>2, <2>3, <2>4, <2>5, StepOfCall DEF Moves
<1>4. ASSUME SaveFpgMetadata(c) PROVE TypeInv' /\ Alone(c)
  <2> USE <1>4
  <2>1. RecOK' /\ ArrayOK' /\ FailuresOK'
    BY TypeParts, Untouched DEF SaveFpgMetadata, array
  <2>2. CallOK'
    <3>1. target[c] \in Fpg
      BY CallFacts DEF SaveFpgMetadata, At
    <3>2. view' \in [Call -> Record]
      BY <3>1, ViewFacts, TypeParts DEF SaveFpgMetadata
    <3>3. made' \in [Call -> Seq({"fpg", "ip", "share"})]
      BY MadeFacts, TypeParts DEF SaveFpgMetadata
    <3> QED
      BY <3>2, <3>3, TypeParts DEF SaveFpgMetadata, CallOK
  <2>3. PoolOK'
    BY ShareAssumption, TypeParts DEF SaveFpgMetadata, PoolOK, ips
  <2>0. {"claim"} \subseteq Point
    BY DEF Point
  <2>4. Moves(c, {"claim"})
    BY TypeParts DEF SaveFpgMetadata, GoTo, ControlOK, Moves, Point
  <2>5. CallInv(c)'
    <3>1. pc[c] \in Creation /\ target[c] \in Fpg
      BY CallFacts DEF SaveFpgMetadata, At, Creation, Early
    <3>2. view'[c].cpg = view[c].cpg /\ view'[c].fpg = target[c]
      BY <3>1, ViewFacts, TypeParts DEF SaveFpgMetadata
    <3> QED
      BY <2>4, <3>1, <3>2, OwnCall DEF SaveFpgMetadata, Moves
  <2>6. Alone(c)
    BY <2>4, TypeParts DEF SaveFpgMetadata, Alone, Moves, CallOK, call
  <2> QED
    BY <2>1, <2>2, <2>3, <2>4, <2>5, <2>6, StepOfCall DEF Moves
<1>5. ASSUME ClaimAvailableIp(c) PROVE TypeInv' /\ Alone(c)
  <2> USE <1>5
  <2>1. RecOK' /\ ArrayOK' /\ FailuresOK'
    BY TypeParts, Untouched DEF ClaimAvailableIp, Claim, array
  <2>2. CallOK'
    <3>1. CASE UNCHANGED <<view, made>>
      BY <3>1, Untouched, TypeParts DEF ClaimAvailableIp, Claim, call
    <3>2. ASSUME NEW a \in Pool, view' = [view EXCEPT ![c].ip = a],
                 made' = [made EXCEPT ![c] = Append(@, "ip")]
          PROVE  CallOK'
      <4>1. view' \in [Call -> Record]
        BY <3>2, ViewFacts, ShareAssumption, TypeParts
      <4>2. made' \in [Call -> Seq({"fpg", "ip", "share"})]
        BY <3>2, MadeFacts, TypeParts
      <4> QED
        BY <4>1, <4>2, TypeParts DEF ClaimAvailableIp, Claim, CallOK
    <3> QED
      BY <3>1, <3>2 DEF ClaimAvailableIp, Claim
  <2>3. PoolOK'
    BY ShareAssumption, TypeParts DEF ClaimAvailableIp, Claim, PoolOK, ips
  <2>0. {"vfs", "fail"} \subseteq Point
    BY DEF Point
  <2>4. Moves(c, {"vfs", "fail"})
    BY <2>0, TypeParts, ControlFacts DEF ClaimAvailableIp, Claim
  <2>5. CallInv(c)'
    <3>1. pc[c] \in Creation /\ MyFpg(c) \in Fpg
      BY CallFacts DEF ClaimAvailableIp, Claim, At, Creation, Late
    <3>2. CASE Fail(c) /\ UNCHANGED view
      <4>1. pc'[c] = "fail"
        BY <3>2, TypeParts DEF Fail, GoTo, ControlOK
      <4> QED
        BY <3>1, <3>2, <4>1, OwnCall DEF ClaimAvailableIp, Claim, MyFpg
    <3>3. ASSUME NEW a \in Pool, view' = [view EXCEPT ![c].ip = a], GoTo(c, "vfs")
          PROVE  CallInv(c)'
      <4>1. pc'[c] = "vfs"
        BY <3>3, TypeParts DEF GoTo, ControlOK
      <4>0. a \in Ip
        BY <3>3, ShareAssumption
      <4>2. view'[c].cpg = view[c].cpg /\ view'[c].fpg = view[c].fpg /\ view'[c].ip \in Ip
        BY <3>3, <4>0, ViewFacts, TypeParts
      <4> QED
        BY <3>1, <4>1, <4>2, OwnCall DEF ClaimAvailableIp, Claim, MyFpg
    <3> QED
      BY <3>2, <3>3 DEF ClaimAvailableIp, Claim
  <2>6. Alone(c)
    BY <2>4, TypeParts DEF ClaimAvailableIp, Claim, Alone, Moves, CallOK, call
  <2> QED
    BY <2>1, <2>2, <2>3, <2>4, <2>5, <2>6, StepOfCall DEF Moves
<1>6. ASSUME CreateVfs(c) PROVE TypeInv' /\ Alone(c)
  <2> USE <1>6
  <2>1. CallOK' /\ RecOK' /\ PoolOK' /\ FailuresOK'
    BY TypeParts, Untouched DEF CreateVfs, call, ips
  <2>2. ArrayOK'
    <3>1. view[c].ip \in Ip /\ None \notin Ip
      BY CallFacts, ShareAssumption DEF CreateVfs, At
    <3>2. vfs' \in [Fpg -> Ip \union {None}]
      BY <3>1, TypeParts DEF CreateVfs, ArrayOK
    <3>3. \A f \in Fpg : vfs[f] # None => vfs'[f] # None
      BY <3>1, TypeParts DEF CreateVfs, ArrayOK
    <3>4. \A f \in Fpg : vfs'[f] # None => fpgs[f] # None
      BY <3>1, TypeParts DEF CreateVfs, ArrayOK
    <3> QED
      BY <3>2, <3>3, <3>4, TypeParts DEF CreateVfs, ArrayOK
  <2>0. {"vfs_meta", "fail"} \subseteq Point
    BY DEF Point
  <2>3. Moves(c, {"vfs_meta", "fail"})
    BY <2>0, TypeParts, ControlFacts DEF CreateVfs
  <2>4. CallInv(c)'
    BY <2>3, OwnCall, CallFacts, TypeParts
      DEF CreateVfs, Moves, CallOK, At, call,
          Creation, Removal, Early, Late, Undo, MyFpg
  <2>5. Alone(c)
    BY <2>3, TypeParts DEF CreateVfs, Alone, Moves, CallOK, call
  <2> QED
    BY <2>1, <2>2, <2>3, <2>4, <2>5, StepOfCall DEF Moves
<1>7. ASSUME UpdateFpgMetadata(c) PROVE TypeInv' /\ Alone(c)
  <2> USE <1>7
  <2>1. CallOK' /\ RecOK' /\ ArrayOK' /\ FailuresOK'
    BY TypeParts, Untouched DEF UpdateFpgMetadata, call, array
  <2>2. PoolOK'
    <3>1. CASE UNCHANGED meta
      BY <3>1, Untouched, TypeParts DEF UpdateFpgMetadata
    <3>2. CASE meta' = [meta EXCEPT ![<<MyCpg(c), target[c]>>] = view[c].ip]
      <4>1. view[c].ip \in Ip \union {NoVfs, None}
        BY CallFacts, RecordFacts
      <4> QED
        BY <3>2, <4>1, PoolFacts, TypeParts DEF UpdateFpgMetadata
    <3> QED
      BY <3>1, <3>2 DEF UpdateFpgMetadata
  <2>0. {"mark", "fail"} \subseteq Point
    BY DEF Point
  <2>3. Moves(c, {"mark", "fail"})
    BY <2>0, TypeParts, ControlFacts DEF UpdateFpgMetadata
  <2>4. CallInv(c)'
    BY <2>3, OwnCall, CallFacts, TypeParts
      DEF UpdateFpgMetadata, Moves, CallOK, At, call,
          Creation, Removal, Early, Late, Undo, MyFpg
  <2>5. Alone(c)
    BY <2>3, TypeParts DEF UpdateFpgMetadata, Alone, Moves, CallOK, call
  <2> QED
    BY <2>1, <2>2, <2>3, <2>4, <2>5, StepOfCall DEF Moves
<1>8. ASSUME MarkIpInUse(c) PROVE TypeInv' /\ Alone(c)
  <2> USE <1>8
  <2>1. CallOK' /\ RecOK' /\ ArrayOK' /\ FailuresOK'
    BY TypeParts, Untouched DEF MarkIpInUse, call, array
  <2>2. PoolOK'
    <3>1. CASE UNCHANGED ips
      BY <3>1, Untouched, TypeParts DEF MarkIpInUse
    <3>2. CASE ~UNCHANGED ips
      BY <3>2, ShareAssumption, TypeParts DEF MarkIpInUse, PoolOK, ips
    <3> QED
      BY <3>1, <3>2
  <2>0. {"create", "fail"} \subseteq Point
    BY DEF Point
  <2>3. Moves(c, {"create", "fail"})
    BY <2>0, TypeParts, ControlFacts DEF MarkIpInUse
  <2>4. CallInv(c)'
    BY <2>3, OwnCall, CallFacts, TypeParts
      DEF MarkIpInUse, Moves, CallOK, At, call,
          Creation, Removal, Early, Late, Undo, MyFpg
  <2>5. Alone(c)
    BY <2>3, TypeParts DEF MarkIpInUse, Alone, Moves, CallOK, call
  <2> QED
    BY <2>1, <2>2, <2>3, <2>4, <2>5, StepOfCall DEF Moves
<1> QED
  BY <1>1, <1>2, <1>3, <1>4, <1>5, <1>6, <1>7, <1>8 DEF MakingFpg

LEMMA MakingShareType ==
  ASSUME TypeInv, NEW c \in Call, MakingShare(c)
  PROVE  TypeInv' /\ Alone(c)
<1>1. ASSUME CreateShare(c) PROVE TypeInv' /\ Alone(c)
  <2> USE <1>1
  <2>1. RecOK' /\ PoolOK' /\ FailuresOK'
    BY TypeParts, Untouched DEF CreateShare, ips
  <2>2. CallOK' /\ ArrayOK'
    <3>0. MyFpg(c) \in Fpg /\ MyShare(c) \in Share
      BY CallFacts DEF CreateShare, At, Creation, Late
    <3>1. CASE UNCHANGED <<view, exports, stores>>
      BY <3>1, Untouched, TypeParts DEF CreateShare, call, array
    <3>2. CASE /\ vfs[MyFpg(c)] # None
               /\ exports' = exports \union {<<c, MyFpg(c)>>}
               /\ stores' = stores \union {<<MyFpg(c), MyShare(c)>>}
               /\ view' = [view EXCEPT ![c].id = <<c, MyFpg(c)>>]
      <4>0. <<c, MyFpg(c)>> \in Call \X Fpg
        BY <3>0
      <4>1. view' \in [Call -> Record]
        BY <3>2, <4>0, ViewFacts, TypeParts
      <4>2. CallOK'
        BY <4>1, TypeParts DEF CreateShare, CallOK
      <4>3. ArrayOK'
        BY <3>0, <3>2, TypeParts DEF CreateShare, ArrayOK
      <4> QED
        BY <4>2, <4>3
    <3> QED
      BY <3>1, <3>2 DEF CreateShare
  <2>0. {"save_id", "fail"} \subseteq Point
    BY DEF Point
  <2>3. Moves(c, {"save_id", "fail"})
    BY <2>0, TypeParts, ControlFacts DEF CreateShare
  <2>4. CallInv(c)'
    <3>1. pc[c] \in Creation /\ MyFpg(c) \in Fpg
      BY CallFacts DEF CreateShare, At, Creation, Late
    <3>2. <<c, MyFpg(c)>> \in Call \X Fpg
      BY <3>1
    <3>3. view'[c].cpg = view[c].cpg /\ view'[c].fpg = view[c].fpg
      BY <3>2, ViewFacts, TypeParts DEF CreateShare
    <3> QED
      BY <2>3, <3>1, <3>3, OwnCall DEF CreateShare, Moves, MyFpg
  <2>5. Alone(c)
    BY <2>3, TypeParts DEF CreateShare, Alone, Moves, CallOK, call
  <2> QED
    BY <2>1, <2>2, <2>3, <2>4, <2>5, StepOfCall DEF Moves
<1>2. ASSUME SaveShareId(c) PROVE TypeInv' /\ Alone(c)
  <2> USE <1>2
  <2>1. PoolOK' /\ ArrayOK' /\ FailuresOK'
    BY TypeParts, Untouched DEF SaveShareId, array, ips
  <2>2. RecOK'
    <3>1. CASE UNCHANGED rec
      BY <3>1, Untouched, TypeParts
    <3>2. CASE rec' = [rec EXCEPT ![MyShare(c)] = view[c]]
      <4>1. view[c].cpg \in Cpg /\ view[c] \in Record
        BY CallFacts DEF SaveShareId, At, Creation, Late
      <4> QED
        BY <3>2, <4>1, RecFacts, TypeParts
    <3> QED
      BY <3>1, <3>2 DEF SaveShareId
  <2>3. CallOK'
    BY RecordFacts, MadeFacts, TypeParts DEF SaveShareId, CallOK
  <2>0. {"quota", "undo_share"} \subseteq Point
    BY DEF Point
  <2>4. Moves(c, {"quota", "undo_share"})
    BY <2>0, TypeParts, ControlFacts DEF SaveShareId
  <2>5. CallInv(c)'
    BY <2>4, OwnCall, CallFacts, ViewFacts, TypeParts
      DEF SaveShareId, Moves, CallOK, At, call,
          Creation, Removal, Early, Late, Undo, MyFpg
  <2>6. Alone(c)
    BY <2>4, TypeParts DEF SaveShareId, Alone, Moves, CallOK, call
  <2> QED
    BY <2>1, <2>2, <2>3, <2>4, <2>5, <2>6, StepOfCall DEF Moves
<1>3. ASSUME SetQuota(c) PROVE TypeInv' /\ Alone(c)
  <2> USE <1>3
  <2>1. CallOK' /\ RecOK' /\ PoolOK' /\ ArrayOK' /\ FailuresOK'
    BY TypeParts, Untouched DEF SetQuota, QuotaFails, call, array, ips
  <2>0. {"finish", "fail", "undo_share"} \subseteq Point
    BY DEF Point
  <2>2. Moves(c, {"finish", "fail", "undo_share"})
    BY <2>0, TypeParts, ControlFacts DEF SetQuota, QuotaFails
  <2>3. CallInv(c)'
    BY <2>2, OwnCall, CallFacts, TypeParts
      DEF SetQuota, QuotaFails, Moves, CallOK, At, call,
          Creation, Removal, Early, Late, Undo, MyFpg
  <2>4. Alone(c)
    BY <2>2, TypeParts DEF SetQuota, QuotaFails, Alone, Moves, CallOK, call
  <2> QED
    BY <2>1, <2>2, <2>3, <2>4, StepOfCall DEF Moves
<1>4. ASSUME MakeAvailable(c) PROVE TypeInv' /\ Alone(c)
  <2> USE <1>4
  <2>1. CallOK' /\ PoolOK' /\ ArrayOK' /\ FailuresOK'
    BY TypeParts, Untouched DEF MakeAvailable, QuotaFails, call, array, ips
  <2>2. RecOK'
    <3>1. CASE UNCHANGED rec
      BY <3>1, Untouched, TypeParts
    <3>2. CASE rec[MyShare(c)] # None /\ rec' = [rec EXCEPT ![MyShare(c)].status = "AVAILABLE"]
      <4>1. MyShare(c) \in Share
        BY CallFacts DEF MakeAvailable, At, Creation, Late
      <4> QED
        BY <3>2, <4>1, RecFacts, TypeParts
    <3> QED
      BY <3>1, <3>2 DEF MakeAvailable
  <2>0. {"made", "fail", "draw", "fpg", "undo_share"} \subseteq Point
    BY DEF Point
  <2>3. Moves(c, {"made", "fail", "draw", "fpg", "undo_share"})
    BY <2>0, TypeParts, ControlFacts DEF MakeAvailable, QuotaFails
  <2>4. CallInv(c)'
    <3>1. pc[c] \in Creation /\ UNCHANGED call
      BY DEF MakeAvailable, At, Creation, Late
    <3>2. CASE pc'[c] = "fpg"
      <4>1. ~Default(c)
        BY <3>2, TypeParts DEF MakeAvailable, QuotaFails, GoTo, End, Fail, ControlOK
      <4>2. target[c] \in Fpg
        BY <3>1, <4>1, CallFacts
      <4> QED
        BY <3>1, <3>2, <4>2, OwnCall DEF call, Late
    <3>3. CASE pc'[c] \in {"made", "fail", "draw", "undo_share"}
      BY <3>1, <3>3, OwnCall DEF call, Late
    <3> QED
      BY <2>3, <3>2, <3>3 DEF Moves
  <2>5. Alone(c)
    BY <2>3, TypeParts DEF MakeAvailable, QuotaFails, Alone, Moves, CallOK, call
  <2> QED
    BY <2>1, <2>2, <2>3, <2>4, <2>5, StepOfCall DEF Moves
<1>5. ASSUME CreationRaises(c) PROVE TypeInv' /\ Alone(c)
  <2> USE <1>5
  <2>1. CallOK' /\ RecOK' /\ PoolOK' /\ ArrayOK' /\ FailuresOK'
    BY TypeParts, Untouched DEF CreationRaises, call, array, ips
  <2>0. {"fail"} \subseteq Point
    BY DEF Point
  <2>2. Moves(c, {"fail"})
    BY <2>0, TypeParts, ControlFacts DEF CreationRaises
  <2>3. CallInv(c)'
    BY <2>2, OwnCall, CallFacts, TypeParts
      DEF CreationRaises, Moves, CallOK, At, call,
          Creation, Removal, Early, Late, Undo, MyFpg
  <2>4. Alone(c)
    BY <2>2, TypeParts DEF CreationRaises, Alone, Moves, CallOK, call
  <2> QED
    BY <2>1, <2>2, <2>3, <2>4, StepOfCall DEF Moves
<1> QED
  BY <1>1, <1>2, <1>3, <1>4, <1>5 DEF MakingShare

LEMMA UndoingType == ASSUME TypeInv, NEW c \in Call, Undoing(c) PROVE TypeInv' /\ Alone(c)
<1>1. ASSUME SaveFailed(c) PROVE TypeInv' /\ Alone(c)
  <2> USE <1>1
  <2>1. PoolOK' /\ ArrayOK' /\ FailuresOK'
    BY TypeParts, Untouched DEF SaveFailed, array, ips
  <2>2. RecOK' /\ CallOK'
    <3>1. CASE UNCHANGED <<view, rec>>
      BY <3>1, Untouched, TypeParts DEF SaveFailed, call
    <3>2. CASE /\ view' = [view EXCEPT ![c].status = "FAILED"]
               /\ rec' = [rec EXCEPT ![MyShare(c)] = view'[c]]
      <4>1. view[c].cpg \in Cpg
        BY CallFacts DEF SaveFailed, At, Creation
      <4>2. view' \in [Call -> Record] /\ view'[c] \in Record /\ view'[c].cpg \in Cpg
        BY <3>2, <4>1, ViewFacts, TypeParts
      <4> QED
        BY <3>2, <4>2, RecFacts, TypeParts DEF SaveFailed, CallOK
    <3> QED
      BY <3>1, <3>2 DEF SaveFailed
  <2>0. {"failed", "undo_share", "undo_ip", "undo_fpg", "broken"} \subseteq Point
    BY DEF Point
  <2>3. Moves(c, {"failed", "undo_share", "undo_ip", "undo_fpg", "broken"})
    BY <2>0, TypeParts, ControlFacts, MadeFacts DEF SaveFailed, CallOK
  <2>4. CallInv(c)'
    BY <2>3, OwnCall, CallFacts, ViewFacts, TypeParts
      DEF SaveFailed, Moves, CallOK, At, call,
          Creation, Removal, Early, Late, Undo, MyFpg
  <2>5. Alone(c)
    BY <2>3, TypeParts DEF SaveFailed, Alone, Moves, CallOK, call
  <2> QED
    BY <2>1, <2>2, <2>3, <2>4, <2>5, StepOfCall DEF Moves
<1>2. ASSUME UndoRaises(c) PROVE TypeInv' /\ Alone(c)
  <2> USE <1>2
  <2>1. CallOK' /\ RecOK' /\ PoolOK' /\ ArrayOK' /\ FailuresOK'
    BY TypeParts, Untouched DEF UndoRaises, call, array, ips
  <2>0. {"broken", "fail"} \subseteq Point
    BY DEF Point
  <2>2. Moves(c, {"broken", "fail"})
    BY <2>0, TypeParts, ControlFacts DEF UndoRaises
  <2>3. CallInv(c)'
    BY <2>2, OwnCall, CallFacts, TypeParts
      DEF UndoRaises, Moves, CallOK, At, call,
          Creation, Removal, Early, Late, Undo, MyFpg
  <2>4. Alone(c)
    BY <2>2, TypeParts DEF UndoRaises, Alone, Moves, CallOK, call
  <2> QED
    BY <2>1, <2>2, <2>3, <2>4, StepOfCall DEF Moves
<1>3. ASSUME UndoShare(c) PROVE TypeInv' /\ Alone(c)
  <2> USE <1>3
  <2>1. CallOK' /\ RecOK' /\ PoolOK' /\ FailuresOK'
    BY TypeParts, Untouched DEF UndoShare, call, ips
  <2>2. ArrayOK'
    BY TypeParts DEF UndoShare, ArrayOK
  <2>0. {"undo_store"} \subseteq Point
    BY DEF Point
  <2>3. Moves(c, {"undo_store"})
    BY <2>0, TypeParts, ControlFacts DEF UndoShare
  <2>4. CallInv(c)'
    BY <2>3, OwnCall, CallFacts, TypeParts
      DEF UndoShare, Moves, CallOK, At, call,
          Creation, Removal, Early, Late, Undo, MyFpg
  <2>5. Alone(c)
    BY <2>3, TypeParts DEF UndoShare, Alone, Moves, CallOK, call
  <2> QED
    BY <2>1, <2>2, <2>3, <2>4, <2>5, StepOfCall DEF Moves
<1>4. ASSUME UndoStore(c) PROVE TypeInv' /\ Alone(c)
  <2> USE <1>4
  <2>1. RecOK' /\ PoolOK' /\ FailuresOK'
    BY TypeParts, Untouched DEF UndoStore, ips
  <2>2. CallOK'
    BY RecordFacts, MadeFacts, TypeParts DEF UndoStore, CallOK
  <2>3. ArrayOK'
    BY TypeParts DEF UndoStore, ArrayOK
  <2>0. {"failed", "undo_share", "undo_ip", "undo_fpg", "pick", "fail"} \subseteq Point
    BY DEF Point
  <2>4. Moves(c, {"failed", "undo_share", "undo_ip", "undo_fpg", "pick", "fail"})
    BY <2>0, TypeParts, ControlFacts, MadeFacts DEF UndoStore, CallOK
  <2>5. CallInv(c)'
    BY <2>4, OwnCall, CallFacts, ViewFacts, TypeParts
      DEF UndoStore, Moves, CallOK, At, call,
          Creation, Removal, Early, Late, Undo, MyFpg
  <2>6. Alone(c)
    BY <2>4, TypeParts DEF UndoStore, Undone, Alone, Moves, CallOK, call
  <2> QED
    BY <2>1, <2>2, <2>3, <2>4, <2>5, <2>6, StepOfCall DEF Moves
<1>5. ASSUME UndoIp(c) PROVE TypeInv' /\ Alone(c)
  <2> USE <1>5
  <2>1. RecOK' /\ ArrayOK' /\ FailuresOK'
    BY TypeParts, Untouched DEF UndoIp, array
  <2>2. CallOK'
    BY RecordFacts, MadeFacts, TypeParts DEF UndoIp, CallOK
  <2>3. PoolOK'
    <3>1. CASE view[c].ip \in Ip
      <4>1. (IF inUse[view[c].ip] > 0 THEN inUse[view[c].ip] - 1 ELSE 0) \in Nat
        BY <3>1, PoolFacts, TypeParts
      <4>2. inUse' \in [Ip -> Nat]
        BY <4>1, TypeParts DEF UndoIp, PoolOK
      <4> QED
        BY <4>2, TypeParts DEF UndoIp, PoolOK
    <3>2. CASE view[c].ip \notin Ip
      BY <3>2, TypeParts DEF UndoIp, PoolOK
    <3> QED
      BY <3>1, <3>2
  <2>0. {"failed", "undo_share", "undo_ip", "undo_fpg"} \subseteq Point
    BY DEF Point
  <2>4. Moves(c, {"failed", "undo_share", "undo_ip", "undo_fpg"})
    BY <2>0, TypeParts, ControlFacts, MadeFacts DEF UndoIp, CallOK
  <2>5. CallInv(c)'
    BY <2>4, OwnCall, CallFacts, ViewFacts, TypeParts
      DEF UndoIp, Moves, CallOK, At, call,
          Creation, Removal, Early, Late, Undo, MyFpg
  <2>6. Alone(c)
    BY <2>4, TypeParts DEF UndoIp, Undone, Alone, Moves, CallOK, call
  <2> QED
    BY <2>1, <2>2, <2>3, <2>4, <2>5, <2>6, StepOfCall DEF Moves
<1>6. ASSUME UndoFpg(c) PROVE TypeInv' /\ Alone(c)
  <2> USE <1>6
  <2>1. CallOK' /\ RecOK' /\ PoolOK' /\ FailuresOK'
    BY TypeParts, Untouched DEF UndoFpg, call, ips
  <2>2. ArrayOK'
    <3>1. CASE UNCHANGED array
      BY <3>1, TypeParts, Untouched
    <3>2. CASE DeleteFromArray(target[c])
      BY <3>2, TypeParts DEF DeleteFromArray, ArrayOK
    <3> QED
      BY <3>1, <3>2 DEF UndoFpg
  <2>0. {"undo_default", "undo_meta"} \subseteq Point
    BY DEF Point
  <2>3. Moves(c, {"undo_default", "undo_meta"})
    BY <2>0, TypeParts, ControlFacts DEF UndoFpg, DeleteFromArray
  <2>4. CallInv(c)'
    BY <2>3, OwnCall, CallFacts, TypeParts
      DEF UndoFpg, DeleteFromArray, Moves, CallOK, At, call,
          Creation, Removal, Early, Late, Undo, MyFpg
  <2>5. Alone(c)
    BY <2>3, TypeParts DEF UndoFpg, DeleteFromArray, Alone, Moves, CallOK, call
  <2> QED
    BY <2>1, <2>2, <2>3, <2>4, <2>5, StepOfCall DEF Moves
<1>7. ASSUME UndoDefault(c) PROVE TypeInv' /\ Alone(c)
  <2> USE <1>7
  <2>1. CallOK' /\ RecOK' /\ ArrayOK' /\ FailuresOK'
    BY TypeParts, Untouched DEF UndoDefault, call, array
  <2>2. PoolOK'
    <3>1. CASE defaults' = [g \in Cpg |-> {}]
      BY <3>1, TypeParts DEF UndoDefault, PoolOK, ips
    <3>2. CASE UNCHANGED defaults
      BY <3>2, Untouched, TypeParts DEF UndoDefault
    <3>3. CASE defaults' = [defaults EXCEPT ![MyCpg(c)] = defaults[MyCpg(c)] \ {target[c]}]
      <4>1. pc[c] \in Creation
        BY DEF UndoDefault, At, Creation, Undo
      <4>2. defaults[MyCpg(c)] \ {target[c]} \in SUBSET Fpg
        BY <4>1, CallFacts, PoolFacts, TypeParts
      <4> QED
        BY <3>3, <4>2, PoolFacts, TypeParts DEF UndoDefault
    <3> QED
      BY <3>1, <3>2, <3>3 DEF UndoDefault
  <2>0. {"undo_meta"} \subseteq Point
    BY DEF Point
  <2>3. Moves(c, {"undo_meta"})
    BY <2>0, TypeParts, ControlFacts DEF UndoDefault
  <2>4. CallInv(c)'
    BY <2>3, OwnCall, CallFacts, TypeParts
      DEF UndoDefault, Moves, CallOK, At, call,
          Creation, Removal, Early, Late, Undo, MyFpg
  <2>5. Alone(c)
    BY <2>3, TypeParts DEF UndoDefault, Alone, Moves, CallOK, call
  <2> QED
    BY <2>1, <2>2, <2>3, <2>4, <2>5, StepOfCall DEF Moves
<1>8. ASSUME UndoMeta(c) PROVE TypeInv' /\ Alone(c)
  <2> USE <1>8
  <2>1. RecOK' /\ ArrayOK' /\ FailuresOK'
    BY TypeParts, Untouched DEF UndoMeta, array
  <2>2. PoolOK'
    <3>1. CASE meta' = [meta EXCEPT ![<<MyCpg(c), target[c]>>] = None]
      BY <3>1, PoolFacts, TypeParts DEF UndoMeta
    <3>2. CASE UNCHANGED meta
      BY <3>2, Untouched, TypeParts DEF UndoMeta
    <3> QED
      BY <3>1, <3>2 DEF UndoMeta
  <2>3. CallOK'
    BY RecordFacts, MadeFacts, TypeParts DEF UndoMeta, CallOK
  <2>0. {"failed", "undo_share", "undo_ip", "undo_fpg"} \subseteq Point
    BY DEF Point
  <2>4. Moves(c, {"failed", "undo_share", "undo_ip", "undo_fpg"})
    BY <2>0, TypeParts, ControlFacts, MadeFacts DEF UndoMeta, CallOK
  <2>5. CallInv(c)'
    BY <2>4, OwnCall, CallFacts, ViewFacts, TypeParts
      DEF UndoMeta, Moves, CallOK, At, call,
          Creation, Removal, Early, Late, Undo, MyFpg
  <2>6. Alone(c)
    BY <2>4, TypeParts DEF UndoMeta, Undone, Alone, Moves, CallOK, call
  <2> QED
    BY <2>1, <2>2, <2>3, <2>4, <2>5, <2>6, StepOfCall DEF Moves
<1> QED
  BY <1>1, <1>2, <1>3, <1>4, <1>5, <1>6, <1>7, <1>8 DEF Undoing

LEMMA RemovingType ==
  ASSUME TypeInv, NEW c \in Call, Removing(c)
  PROVE  TypeInv' /\ Alone(c)
<1>1. ASSUME DeleteShare(c) PROVE TypeInv' /\ Alone(c)
  <2> USE <1>1
  <2>1. CallOK' /\ RecOK' /\ PoolOK' /\ FailuresOK'
    BY TypeParts, Untouched DEF DeleteShare, call, ips
  <2>2. ArrayOK'
    BY TypeParts DEF DeleteShare, ArrayOK
  <2>0. {"forget"} \subseteq Point
    BY DEF Point
  <2>3. Moves(c, {"forget"})
    BY <2>0, TypeParts, ControlFacts DEF DeleteShare
  <2>4. CallInv(c)'
    BY <2>3, OwnCall, CallFacts, TypeParts
      DEF DeleteShare, Moves, CallOK, At, call,
          Creation, Removal, Early, Late, Undo, MyFpg
  <2>5. Alone(c)
    BY <2>3, TypeParts DEF DeleteShare, Alone, Moves, CallOK, call
  <2> QED
    BY <2>1, <2>2, <2>3, <2>4, <2>5, StepOfCall DEF Moves
<1>2. ASSUME DeleteShareRecord(c) PROVE TypeInv' /\ Alone(c)
  <2> USE <1>2
  <2>1. CallOK' /\ PoolOK' /\ ArrayOK' /\ FailuresOK'
    BY TypeParts, Untouched DEF DeleteShareRecord, call, array, ips
  <2>2. RecOK'
    BY RecFacts, Untouched, TypeParts DEF DeleteShareRecord
  <2>0. {"done", "store", "mark_failed"} \subseteq Point
    BY DEF Point
  <2>3. Moves(c, {"done", "store", "mark_failed"})
    BY <2>0, TypeParts, ControlFacts DEF DeleteShareRecord
  <2>4. CallInv(c)'
    BY <2>3, OwnCall, CallFacts, TypeParts
      DEF DeleteShareRecord, Moves, CallOK, At, call,
          Creation, Removal, Early, Late, Undo, MyFpg
  <2>5. Alone(c)
    BY <2>3, TypeParts DEF DeleteShareRecord, Alone, Moves, CallOK, call
  <2> QED
    BY <2>1, <2>2, <2>3, <2>4, <2>5, StepOfCall DEF Moves
<1>3. ASSUME MarkShareFailed(c) PROVE TypeInv' /\ Alone(c)
  <2> USE <1>3
  <2>1. CallOK' /\ PoolOK' /\ ArrayOK' /\ FailuresOK'
    BY TypeParts, Untouched DEF MarkShareFailed, call, array, ips
  <2>2. RecOK'
    <3>1. CASE UNCHANGED rec
      BY <3>1, Untouched, TypeParts
    <3>2. CASE rec' = [rec EXCEPT ![MyShare(c)] = [view[c] EXCEPT !.status = "FAILED"]]
      <4>1. view[c].cpg \in Cpg /\ view[c] \in Record
        BY CallFacts, TypeParts DEF MarkShareFailed, At, CallInv, Removal
      <4>2. /\ [view[c] EXCEPT !.status = "FAILED"] \in Record
            /\ [view[c] EXCEPT !.status = "FAILED"].cpg \in Cpg
        BY <4>1 DEF Record
      <4> QED
        BY <3>2, <4>2, RecFacts, TypeParts
    <3> QED
      BY <3>1, <3>2 DEF MarkShareFailed
  <2>0. {"done", "store"} \subseteq Point
    BY DEF Point
  <2>3. Moves(c, {"done", "store"})
    BY <2>0, TypeParts, ControlFacts DEF MarkShareFailed
  <2>4. CallInv(c)'
    BY <2>3, OwnCall, CallFacts, TypeParts
      DEF MarkShareFailed, Moves, CallOK, At, call,
          Creation, Removal, Early, Late, Undo, MyFpg
  <2>5. Alone(c)
    BY <2>3, TypeParts DEF MarkShareFailed, Alone, Moves, CallOK, call
  <2> QED
    BY <2>1, <2>2, <2>3, <2>4, <2>5, StepOfCall DEF Moves
<1>4. ASSUME DeleteFileStore(c) PROVE TypeInv' /\ Alone(c)
  <2> USE <1>4
  <2>1. CallOK' /\ RecOK' /\ PoolOK' /\ FailuresOK'
    BY TypeParts, Untouched DEF DeleteFileStore, call, ips
  <2>2. ArrayOK'
    BY TypeParts DEF DeleteFileStore, ArrayOK
  <2>0. {"count"} \subseteq Point
    BY DEF Point
  <2>3. Moves(c, {"count"})
    BY <2>0, TypeParts, ControlFacts DEF DeleteFileStore
  <2>4. CallInv(c)'
    BY <2>3, OwnCall, CallFacts, TypeParts
      DEF DeleteFileStore, Moves, CallOK, At, call,
          Creation, Removal, Early, Late, Undo, MyFpg
  <2>5. Alone(c)
    BY <2>3, TypeParts DEF DeleteFileStore, Alone, Moves, CallOK, call
  <2> QED
    BY <2>1, <2>2, <2>3, <2>4, <2>5, StepOfCall DEF Moves
<1>5. ASSUME CountShares(c) PROVE TypeInv' /\ Alone(c)
  <2> USE <1>5
  <2>1. CallOK' /\ RecOK' /\ PoolOK' /\ ArrayOK' /\ FailuresOK'
    BY TypeParts, Untouched DEF CountShares, call, array, ips
  <2>0. {"done", "owned"} \subseteq Point
    BY DEF Point
  <2>2. Moves(c, {"done", "owned"})
    BY <2>0, TypeParts, ControlFacts DEF CountShares
  <2>3. CallInv(c)'
    BY <2>2, OwnCall, CallFacts, TypeParts
      DEF CountShares, Moves, CallOK, At, call,
          Creation, Removal, Early, Late, Undo, MyFpg
  <2>4. Alone(c)
    BY <2>2, TypeParts DEF CountShares, Alone, Moves, CallOK, call
  <2> QED
    BY <2>1, <2>2, <2>3, <2>4, StepOfCall DEF Moves
<1>6. ASSUME CheckOwner(c) PROVE TypeInv' /\ Alone(c)
  <2> USE <1>6
  <2>1. CallOK' /\ RecOK' /\ PoolOK' /\ ArrayOK' /\ FailuresOK'
    BY TypeParts, Untouched DEF CheckOwner, call, array, ips
  <2>0. {"done", "delete_fpg"} \subseteq Point
    BY DEF Point
  <2>2. Moves(c, {"done", "delete_fpg"})
    BY <2>0, TypeParts, ControlFacts DEF CheckOwner
  <2>3. CallInv(c)'
    BY <2>2, OwnCall, CallFacts, TypeParts
      DEF CheckOwner, Moves, CallOK, At, call,
          Creation, Removal, Early, Late, Undo, MyFpg
  <2>4. Alone(c)
    BY <2>2, TypeParts DEF CheckOwner, Alone, Moves, CallOK, call
  <2> QED
    BY <2>1, <2>2, <2>3, <2>4, StepOfCall DEF Moves
<1>7. ASSUME DeleteFpg(c) PROVE TypeInv' /\ Alone(c)
  <2> USE <1>7
  <2>1. CallOK' /\ RecOK' /\ PoolOK' /\ FailuresOK'
    BY TypeParts, Untouched DEF DeleteFpg, DeleteFromArray, call, ips
  <2>2. ArrayOK'
    BY TypeParts DEF DeleteFpg, DeleteFromArray, ArrayOK
  <2>0. {"forget_fpg"} \subseteq Point
    BY DEF Point
  <2>3. Moves(c, {"forget_fpg"})
    BY <2>0, TypeParts, ControlFacts DEF DeleteFpg, DeleteFromArray
  <2>4. CallInv(c)'
    BY <2>3, OwnCall, CallFacts, TypeParts
      DEF DeleteFpg, DeleteFromArray, Moves, CallOK, At, call,
          Creation, Removal, Early, Late, Undo, MyFpg
  <2>5. Alone(c)
    BY <2>3, TypeParts DEF DeleteFpg, DeleteFromArray, Alone, Moves, CallOK, call
  <2> QED
    BY <2>1, <2>2, <2>3, <2>4, <2>5, StepOfCall DEF Moves
<1>8. ASSUME DeleteFpgMetadata(c) PROVE TypeInv' /\ Alone(c)
  <2> USE <1>8
  <2>1. CallOK' /\ RecOK' /\ ArrayOK' /\ FailuresOK'
    BY TypeParts, Untouched DEF DeleteFpgMetadata, call, array
  <2>2. PoolOK'
    BY ShareAssumption, TypeParts DEF DeleteFpgMetadata, PoolOK, ips
  <2>0. {"done", "release"} \subseteq Point
    BY DEF Point
  <2>3. Moves(c, {"done", "release"})
    BY <2>0, TypeParts, ControlFacts DEF DeleteFpgMetadata
  <2>4. CallInv(c)'
    BY <2>3, OwnCall, CallFacts, TypeParts
      DEF DeleteFpgMetadata, Moves, CallOK, At, call,
          Creation, Removal, Early, Late, Undo, MyFpg
  <2>5. Alone(c)
    BY <2>3, TypeParts DEF DeleteFpgMetadata, Alone, Moves, CallOK, call
  <2> QED
    BY <2>1, <2>2, <2>3, <2>4, <2>5, StepOfCall DEF Moves
<1>9. ASSUME ReleaseIp(c) PROVE TypeInv' /\ Alone(c)
  <2> USE <1>9
  <2>1. CallOK' /\ RecOK' /\ ArrayOK' /\ FailuresOK'
    BY TypeParts, Untouched DEF ReleaseIp, call, array
  <2>2. PoolOK'
    <3>1. CASE UNCHANGED <<inUse, defaults>>
      BY <3>1, Untouched, TypeParts DEF ReleaseIp, ips
    <3>2. CASE ~UNCHANGED <<inUse, defaults>>
      <4>0. view[c].cpg \in Cpg
        BY TypeParts DEF ReleaseIp, At, CallInv, Removal
      <4>1. defaults[view[c].cpg] \ {MyFpg(c)} \in SUBSET Fpg
        BY <4>0, PoolFacts, TypeParts
      <4>2. defaults' = [defaults EXCEPT ![view[c].cpg] = defaults[view[c].cpg] \ {MyFpg(c)}]
            /\ inUse[view[c].ip] > 0
            /\ inUse' = [inUse EXCEPT ![view[c].ip] = inUse[view[c].ip] - 1]
        BY <3>2 DEF ReleaseIp
      <4>3. inUse' \in [Ip -> Nat]
        <5>1. CASE view[c].ip \in Ip
          BY <4>2, <5>1, TypeParts DEF PoolOK
        <5>2. CASE view[c].ip \notin Ip
          BY <4>2, <5>2, TypeParts DEF PoolOK
        <5> QED
          BY <5>1, <5>2
      <4>4. defaults' \in [Cpg -> SUBSET Fpg]
        BY <4>1, <4>2, TypeParts DEF PoolOK
      <4> QED
        BY <4>3, <4>4, TypeParts DEF PoolOK, ReleaseIp, ips
    <3> QED
      BY <3>1, <3>2
  <2>0. {"done"} \subseteq Point
    BY DEF Point
  <2>3. Moves(c, {"done"})
    BY <2>0, TypeParts, ControlFacts DEF ReleaseIp
  <2>4. CallInv(c)'
    BY <2>3, OwnCall, CallFacts, TypeParts
      DEF ReleaseIp, Moves, CallOK, At, call,
          Creation, Removal, Early, Late, Undo, MyFpg
  <2>5. Alone(c)
    BY <2>3, TypeParts DEF ReleaseIp, Alone, Moves, CallOK, call
  <2> QED
    BY <2>1, <2>2, <2>3, <2>4, <2>5, StepOfCall DEF Moves
<1>10. ASSUME RemovalRaises(c) PROVE TypeInv' /\ Alone(c)
  <2> USE <1>10
  <2>1. CallOK' /\ RecOK' /\ PoolOK' /\ ArrayOK' /\ FailuresOK'
    BY TypeParts, Untouched DEF RemovalRaises, call, array, ips
  <2>0. {"done"} \subseteq Point
    BY DEF Point
  <2>2. Moves(c, {"done"})
    BY <2>0, TypeParts, ControlFacts DEF RemovalRaises
  <2>3. CallInv(c)'
    BY <2>2, OwnCall, CallFacts, TypeParts
      DEF RemovalRaises, Moves, CallOK, At, call,
          Creation, Removal, Early, Late, Undo, MyFpg
  <2>4. Alone(c)
    BY <2>2, TypeParts DEF RemovalRaises, Alone, Moves, CallOK, call
  <2> QED
    BY <2>1, <2>2, <2>3, <2>4, StepOfCall DEF Moves
<1> QED
  BY <1>1, <1>2, <1>3, <1>4, <1>5, <1>6, <1>7, <1>8, <1>9, <1>10 DEF Removing

LEMMA EndingType ==
  ASSUME TypeInv, NEW c \in Call, LockTimeout(c) \/ Crash(c)
  PROVE  TypeInv' /\ Alone(c)
<1>1. ASSUME LockTimeout(c) PROVE TypeInv' /\ Alone(c)
  <2> USE <1>1
  <2>1. CallOK' /\ RecOK' /\ PoolOK' /\ ArrayOK' /\ FailuresOK'
    BY TypeParts, Untouched DEF LockTimeout, call, array, ips
  <2>0. {"done", "fail"} \subseteq Point
    BY DEF Point
  <2>2. Moves(c, {"done", "fail"})
    BY <2>0, TypeParts, ControlFacts DEF LockTimeout
  <2>3. CallInv(c)'
    <3>1. CASE pc'[c] = "done"
      BY <3>1 DEF CallInv, Creation, Removal, Early, Late, Undo
    <3>2. CASE pc'[c] = "fail"
      <4>1. pc[c] \in Creation
        BY <2>2, <3>2, TypeParts
           DEF LockTimeout, At, End, GoTo, ControlOK, Creation, Early, Late
      <4> QED
        BY <3>2, <4>1, OwnCall DEF LockTimeout, call, Creation, Late
    <3> QED
      BY <2>2, <3>1, <3>2 DEF Moves
  <2>4. Alone(c)
    BY <2>2, TypeParts DEF LockTimeout, Alone, Moves, CallOK, call
  <2> QED
    BY <2>1, <2>2, <2>3, <2>4, StepOfCall DEF Moves
<1>2. ASSUME Crash(c) PROVE TypeInv' /\ Alone(c)
  <2> USE <1>2
  <2>1. CallOK' /\ RecOK' /\ PoolOK' /\ ArrayOK' /\ FailuresOK'
    BY TypeParts, Untouched DEF Crash, call, array, ips
  <2>0. {"dead"} \subseteq Point
    BY DEF Point
  <2>2. Moves(c, {"dead"})
    BY <2>0, TypeParts, ControlFacts DEF Crash
  <2>3. CallInv(c)'
    BY <2>2 DEF Moves, CallInv, Creation, Removal, Early, Late, Undo
  <2>4. Alone(c)
    BY <2>2, TypeParts DEF Crash, Alone, Moves, CallOK, call
  <2> QED
    BY <2>1, <2>2, <2>3, <2>4, StepOfCall DEF Moves
<1> QED
  BY <1>1, <1>2

LEMMA ReceiveType ==
  ASSUME TypeInv, NEW c \in Call, NEW r \in Request, ReceiveCreate(c, r) \/ ReceiveRemove(c, r)
  PROVE  TypeInv' /\ Alone(c)
<1>0. /\ r \in RequestType /\ r.share \in Share /\ r.cpg \in Cpg \union {None}
      /\ r.fpg \in Fpg \union {None} /\ (r.op = "create" => r.cpg \in Cpg)
  BY ShareAssumption, RequestFacts
<1>1. ASSUME ReceiveCreate(c, r) PROVE TypeInv' /\ Alone(c)
  <2> USE <1>1
  <2>1. RecOK' /\ PoolOK' /\ ArrayOK' /\ FailuresOK'
    BY TypeParts, Untouched DEF ReceiveCreate, array, ips
  <2>2. /\ [NoRecord EXCEPT !.cpg = r.cpg, !.fpg = r.fpg] \in Record
        /\ [NoRecord EXCEPT !.cpg = r.cpg, !.fpg = r.fpg].cpg \in Cpg
    BY <1>0 DEF ReceiveCreate, NoRecord, Record
  <2>3. CallOK'
    BY <1>0, <2>2, TypeParts DEF ReceiveCreate, CallOK
  <2>4. {"enter", "done"} \subseteq Point
    BY DEF Point
  <2>5. Moves(c, {"enter", "done"})
    BY <2>4, TypeParts, ControlFacts DEF ReceiveCreate
  <2>6. CallInv(c)'
    BY <1>0, <2>2, <2>5, TypeParts
       DEF ReceiveCreate, Moves, CallInv, CallOK, Default, Late, Removal
  <2>7. Alone(c)
    BY <2>5, TypeParts DEF ReceiveCreate, Alone, Moves, CallOK
  <2> QED
    BY <2>1, <2>3, <2>5, <2>6, <2>7, StepOfCall DEF Moves
<1>2. ASSUME ReceiveRemove(c, r) PROVE TypeInv' /\ Alone(c)
  <2> USE <1>2
  <2>1. RecOK' /\ PoolOK' /\ ArrayOK' /\ FailuresOK'
    BY TypeParts, Untouched DEF ReceiveRemove, array, ips
  <2>2. rec[r.share] # None => rec[r.share] \in Record /\ rec[r.share].cpg \in Cpg
    BY <1>0, TypeParts DEF RecOK, RecInv
  <2>3. CallOK'
    BY <1>0, <2>2, TypeParts DEF ReceiveRemove, CallOK
  <2>4. {"forget", "delete_share", "done"} \subseteq Point
    BY DEF Point
  <2>5. Moves(c, {"forget", "delete_share", "done"})
    BY <2>4, TypeParts, ControlFacts DEF ReceiveRemove
  <2>6. pc'[c] \in {"forget", "delete_share"} => view'[c] = rec[r.share] /\ rec[r.share] # None
    BY TypeParts DEF ReceiveRemove, GoTo, ControlOK, CallOK
  <2>7. CallInv(c)'
    BY <2>2, <2>5, <2>6 DEF Moves, CallInv, Creation, Removal, Early, Late, Undo
  <2>8. Alone(c)
    BY <2>5, TypeParts DEF ReceiveRemove, Alone, Moves, CallOK
  <2> QED
    BY <2>1, <2>3, <2>5, <2>7, <2>8, StepOfCall DEF Moves
<1> QED
  BY <1>1, <1>2

LEMMA ExpiryType == ASSUME TypeInv, NEW k \in Key, OrphanExpires(k) PROVE TypeInv'
BY DEF OrphanExpires, TypeInv, TypeOK, RecInv, CallInv, Default, MyFpg, call, ips, array

\* The initial states.
LEMMA InitialTypes == Init => TypeInv
<1> SUFFICES ASSUME Init PROVE TypeInv
  OBVIOUS
<1> USE DEF Init
<1>1. CallOK
  <2>1. \A c \in Past : PastRequest[c] \in RequestType
    BY ShareAssumption
  <2>2. <<>> \in Seq({"fpg", "ip", "share"})
    OBVIOUS
  <2> QED
    BY <2>1, <2>2, RecordFacts DEF CallOK
<1>2. RecOK
  <2>1. ASSUME NEW s \in Share, NEW c \in Past
        PROVE  LET f == PastFpg[c]
                   r == [status |-> "AVAILABLE", cpg |-> Stock[f].cpg, fpg |-> f,
                         ip |-> Stock[f].ip, id |-> <<c, f>>]
               IN  r \in Record /\ r.cpg \in Cpg
    <3>1. c \in Call /\ PastFpg[c] \in DOMAIN Stock /\ PastFpg[c] \in Fpg
      BY ShareAssumption
    <3>2. Stock[PastFpg[c]] \in [cpg : Cpg, ip : Ip, owned : BOOLEAN]
      BY <3>1, ShareAssumption
    <3> QED
      BY <3>1, <3>2 DEF Record
  <2>2. ASSUME NEW s \in Share
        PROVE  rec[s] # None => rec[s] \in Record /\ rec[s].cpg \in Cpg
    <3>1. CASE \E c \in Past : PastRequest[c].share = s
      <4>1. (CHOOSE d \in Past : PastRequest[d].share = s) \in Past
        BY <3>1
      <4> QED
        BY <2>1, <3>1, <4>1
    <3>2. CASE ~ \E c \in Past : PastRequest[c].share = s
      BY <3>2
    <3> QED
      BY <3>1, <3>2
  <2>3. rec \in [Share -> Record \union {None}]
    <3>1. DOMAIN rec = Share /\ rec = [s \in DOMAIN rec |-> rec[s]]
      OBVIOUS
    <3> QED
      BY <2>2, <3>1
  <2> QED
    BY <2>2, <2>3 DEF RecOK, RecInv
<1>3. \A f \in DOMAIN Stock :
        f \in Fpg /\ Stock[f].cpg \in Cpg /\ Stock[f].ip \in Ip
  BY ShareAssumption
<1>4. PoolOK
  <2>1. meta \in [Cpg \X Fpg -> Ip \union {NoVfs, None}]
    BY <1>3 DEF Owned
  <2>2. inUse \in [Ip -> Nat]
    OBVIOUS
  <2>3. defaults \in [Cpg -> SUBSET Fpg] /\ drawn \subseteq DefaultName /\ locked \subseteq Pool
    BY <1>3 DEF Owned
  <2> QED
    BY <2>1, <2>2, <2>3 DEF PoolOK
<1>5. ArrayOK
  <2>1. \A c \in Past : /\ c \in Call
                      /\ PastFpg[c] \in DOMAIN Stock
                      /\ PastRequest[c].share \in Share
    BY ShareAssumption, RequestFacts
  <2>2. /\ fpgs \in [Fpg -> Cpg \union {None}] /\ vfs \in [Fpg -> Ip \union {None}]
        /\ \A f \in Fpg : vfs[f] # None => fpgs[f] # None
    BY <1>3, ShareAssumption
  <2>3. \A c \in Past : vfs[PastFpg[c]] # None /\ PastFpg[c] \in Fpg
    <3>1. \A f \in DOMAIN Stock : f \in Fpg /\ vfs[f] = Stock[f].ip
      BY <1>3
    <3>2. \A f \in DOMAIN Stock : Stock[f].ip # None
      BY <1>3, ShareAssumption
    <3> QED
      BY <2>1, <3>1, <3>2
  <2> QED
    BY <2>1, <2>2, <2>3 DEF ArrayOK
<1>6. ControlOK /\ FailuresOK
  BY ShareAssumption DEF ControlOK, FailuresOK, Point
<1>7. \A c \in Call : CallInv(c)
  BY DEF CallInv, Creation, Removal, Early, Late, Undo
<1> QED
  BY <1>1, <1>2, <1>4, <1>5, <1>6, <1>7, TypeParts

\* TypeInv is inductive.
LEMMA TypeStep == TypeInv /\ [Next]_vars => TypeInv'
<1> SUFFICES ASSUME TypeInv, [Next]_vars PROVE TypeInv'
  OBVIOUS
<1>1. ASSUME NEW c \in Call, NEW r \in Request, ReceiveCreate(c, r) \/ ReceiveRemove(c, r)
      PROVE  TypeInv'
  BY <1>1, ReceiveType
<1>2. ASSUME NEW c \in Call, Choosing(c) PROVE TypeInv'
  BY <1>2, ChoosingType
<1>3. ASSUME NEW c \in Call, MakingFpg(c) PROVE TypeInv'
  BY <1>3, MakingFpgType
<1>4. ASSUME NEW c \in Call, MakingShare(c) PROVE TypeInv'
  BY <1>4, MakingShareType
<1>5. ASSUME NEW c \in Call, Undoing(c) PROVE TypeInv'
  BY <1>5, UndoingType
<1>6. ASSUME NEW c \in Call, Removing(c) PROVE TypeInv'
  BY <1>6, RemovingType
<1>7. ASSUME NEW c \in Call, LockTimeout(c) \/ Crash(c) PROVE TypeInv'
  BY <1>7, EndingType
<1>8. ASSUME NEW k \in Key, OrphanExpires(k) PROVE TypeInv'
  BY <1>8, ExpiryType
<1>9. ASSUME UNCHANGED vars PROVE TypeInv'
  BY <1>9 DEF vars, TypeInv, TypeOK, RecInv, CallInv, Default, MyFpg, call, ips, array
<1> QED
  BY <1>1, <1>2, <1>3, <1>4, <1>5, <1>6, <1>7, <1>8, <1>9 DEF Next

LEMMA TypeInvariant == Spec => []TypeInv
<1> QED
  BY InitialTypes, TypeStep, PTL DEF Spec

\* TypeCorrect: whatever calls there are, and however they interleave, fail and die, every
\* piece of state keeps its type: addresses that are locked are of the pool, no address is
\* in ips_in_use a negative number of times, a VFS is on an FPG that is there, and what is
\* exported has a VFS.
THEOREM TypeCorrect == Spec => []TypeOK
<1>1. TypeInv => TypeOK
  BY DEF TypeInv
<1> QED
  BY <1>1, TypeInvariant, PTL
-----------------------------------------------------------------------------
(***************************************************************************)
(* What holds of every run, whatever calls there are and whatever raises   *)
(* or dies: an administrator's FPG is left alone, a locked address has a   *)
(* creation that works with it, and so has a share that is in CREATING.    *)
(* The three invariants rest on what is on the undo list of a creation     *)
(* (MadeInv), and all four on the types.                                   *)
(***************************************************************************)
(* What is on the undo list *)

LastMade(c, x) == made[c] # <<>> /\ made[c][Len(made[c])] = x

AddressAfterFpg(c) ==
  \A j \in DOMAIN made[c] :
    made[c][j] = "ip" => \E i \in DOMAIN made[c] : i < j /\ made[c][i] = "fpg"

\* An address is claimed for a new FPG, after it; what is undone is the last entry; and
\* a creation is given another FPG only as long as it has made none.
MadeInv(c) ==
  /\ AddressAfterFpg(c)
  /\ pc[c] \in {"claim", "undo_fpg", "undo_default", "undo_meta"} => LastMade(c, "fpg")
  /\ pc[c] \in {"vfs", "vfs_meta", "mark", "undo_ip"} => LastMade(c, "ip")
  /\ pc[c] \in {"idle", "enter", "init", "getter", "pick", "draw", "fpg"} => ~OnNewFpg(c)
  /\ pc[c] \in {"undo_ip", "undo_fpg", "undo_default", "undo_meta"} =>
       view[c].status = "FAILED"
  /\ /\ pc[c] \in {"create", "save_id", "undo_share", "undo_store"}
     /\ view[c].status # "FAILED" /\ LastMade(c, "share")
     => ~OnNewFpg(c)

LEMMA ListFacts ==
  ASSUME CallOK, CallOK', NEW c \in Call
  PROVE  /\ LastMade(c, "fpg") => OnNewFpg(c)
         /\ \A x : LastMade(c, x) => \E i \in DOMAIN made[c] : made[c][i] = x
         /\ made'[c] = made[c] =>
              /\ AddressAfterFpg(c) => AddressAfterFpg(c)'
              /\ OnNewFpg(c)' <=> OnNewFpg(c)
              /\ \A x : LastMade(c, x)' <=> LastMade(c, x)
         /\ \A x \in {"fpg", "ip", "share"} : made' = [made EXCEPT ![c] = Append(@, x)] =>
              /\ AddressAfterFpg(c) /\ (x = "ip" => OnNewFpg(c)) => AddressAfterFpg(c)'
              /\ OnNewFpg(c)' <=> OnNewFpg(c) \/ x = "fpg"
              /\ \A y : LastMade(c, y)' <=> y = x
         /\ Undone(c) =>
              /\ AddressAfterFpg(c) => AddressAfterFpg(c)'
              /\ OnNewFpg(c)' => OnNewFpg(c)
<1> DEFINE S == {"fpg", "ip", "share"}
<1>0. made[c] \in Seq(S) /\ made'[c] \in Seq(S) /\ c \in DOMAIN made
  BY DEF CallOK
<1>1. \A x : LastMade(c, x) => \E i \in DOMAIN made[c] : made[c][i] = x
  BY <1>0 DEF LastMade
<1>2. LastMade(c, "fpg") => OnNewFpg(c)
  BY <1>1 DEF OnNewFpg
<1>3. ASSUME made'[c] = made[c]
      PROVE  /\ AddressAfterFpg(c) => AddressAfterFpg(c)'
             /\ OnNewFpg(c)' <=> OnNewFpg(c)
             /\ \A x : LastMade(c, x)' <=> LastMade(c, x)
  BY <1>3 DEF AddressAfterFpg, OnNewFpg, LastMade
<1>4. ASSUME NEW x \in S, made' = [made EXCEPT ![c] = Append(@, x)]
      PROVE  /\ AddressAfterFpg(c) /\ (x = "ip" => OnNewFpg(c)) => AddressAfterFpg(c)'
             /\ OnNewFpg(c)' <=> OnNewFpg(c) \/ x = "fpg"
             /\ \A y : LastMade(c, y)' <=> y = x
  <2>1. made'[c] = Append(made[c], x)
    BY <1>0, <1>4
  <2>2. /\ Len(made'[c]) = Len(made[c]) + 1 /\ made'[c][Len(made[c]) + 1] = x
        /\ \A i \in 1 .. Len(made[c]) : made'[c][i] = made[c][i]
        /\ DOMAIN made[c] = 1 .. Len(made[c]) /\ DOMAIN made'[c] = 1 .. Len(made[c]) + 1
        /\ Len(made[c]) \in Nat
    BY <1>0, <2>1
  <2>3. \A y : LastMade(c, y)' <=> y = x
    BY <1>0, <2>2 DEF LastMade
  <2>4. OnNewFpg(c)' <=> OnNewFpg(c) \/ x = "fpg"
    <3>1. OnNewFpg(c) \/ x = "fpg" => OnNewFpg(c)'
      BY <2>2 DEF OnNewFpg
    <3>2. ASSUME OnNewFpg(c)', x # "fpg" PROVE OnNewFpg(c)
      <4>1. PICK i \in 1 .. Len(made[c]) + 1 : made'[c][i] = "fpg"
        BY <2>2, <3>2 DEF OnNewFpg
      <4>2. i \in 1 .. Len(made[c])
        BY <2>2, <3>2, <4>1
      <4> QED
        BY <2>2, <4>1, <4>2 DEF OnNewFpg
    <3> QED
      BY <3>1, <3>2
  <2>5. ASSUME AddressAfterFpg(c), x = "ip" => OnNewFpg(c) PROVE AddressAfterFpg(c)'
    <3>1. SUFFICES ASSUME NEW j \in DOMAIN made'[c], made'[c][j] = "ip"
                   PROVE  \E i \in DOMAIN made'[c] : i < j /\ made'[c][i] = "fpg"
      BY DEF AddressAfterFpg
    <3>2. CASE j = Len(made[c]) + 1
      <4>1. PICK i \in 1 .. Len(made[c]) : made[c][i] = "fpg"
        BY <2>2, <2>5, <3>1, <3>2 DEF OnNewFpg
      <4> QED
        BY <2>2, <3>2, <4>1
    <3>3. CASE j # Len(made[c]) + 1
      <4>1. j \in 1 .. Len(made[c]) /\ made[c][j] = "ip"
        BY <2>2, <3>1, <3>3
      <4>2. PICK i \in 1 .. Len(made[c]) : i < j /\ made[c][i] = "fpg"
        BY <2>2, <2>5, <4>1 DEF AddressAfterFpg
      <4> QED
        BY <2>2, <4>2
    <3> QED
      BY <3>2, <3>3
  <2> QED
    BY <2>3, <2>4, <2>5
<1>5. ASSUME Undone(c)
      PROVE  /\ AddressAfterFpg(c) => AddressAfterFpg(c)'
             /\ OnNewFpg(c)' => OnNewFpg(c)
  <2>1. made'[c] = SubSeq(made[c], 1, Len(made[c]) - 1)
    BY <1>0, <1>5 DEF Undone
  <2>2. /\ DOMAIN made[c] = 1 .. Len(made[c]) /\ DOMAIN made'[c] = 1 .. Len(made[c]) - 1
        /\ Len(made[c]) \in Nat
        /\ \A i \in 1 .. Len(made[c]) - 1 : made'[c][i] = made[c][i]
    <3>1. CASE made[c] = <<>>
      BY <1>0, <2>1, <3>1
    <3>2. CASE made[c] # <<>>
      <4>1. Len(made[c]) \in Nat /\ Len(made[c]) > 0
        BY <1>0, <3>2
      <4>2. \A i \in 1 .. Len(made[c]) - 1 : made[c][i] \in S
        BY <1>0, <4>1
      <4> QED
        BY <1>0, <2>1, <4>1, <4>2
    <3> QED
      BY <3>1, <3>2
  <2>3. OnNewFpg(c)' => OnNewFpg(c)
    BY <2>2 DEF OnNewFpg
  <2>4. ASSUME AddressAfterFpg(c) PROVE AddressAfterFpg(c)'
    <3>1. SUFFICES ASSUME NEW j \in DOMAIN made'[c], made'[c][j] = "ip"
                   PROVE  \E i \in DOMAIN made'[c] : i < j /\ made'[c][i] = "fpg"
      BY DEF AddressAfterFpg
    <3>2. j \in 1 .. Len(made[c]) - 1 /\ j \in 1 .. Len(made[c]) /\ made[c][j] = "ip"
      BY <2>2, <3>1
    <3>3. PICK i \in 1 .. Len(made[c]) : i < j /\ made[c][i] = "fpg"
      BY <2>2, <2>4, <3>2 DEF AddressAfterFpg
    <3>4. i \in 1 .. Len(made[c]) - 1
      BY <2>2, <3>2, <3>3
    <3> QED
      BY <2>2, <3>3, <3>4
  <2> QED
    BY <2>3, <2>4
<1> QED
  BY <1>1, <1>2, <1>3, <1>4, <1>5

LEMMA NextUndo ==
  ASSUME TypeInv, NEW c \in Call, NEW undo \in Seq({"fpg", "ip", "share"}), UndoNext(c, undo)
  PROVE  \/ pc'[c] = "failed" /\ undo = <<>>
         \/ /\ undo # <<>>
            /\ \E x \in {"fpg", "ip", "share"} :
                 /\ undo[Len(undo)] = x
                 /\ x = "fpg" => pc'[c] = "undo_fpg"
                 /\ x = "ip" => pc'[c] = "undo_ip"
                 /\ x = "share" => pc'[c] = "undo_share"
<1>1. CASE undo = <<>>
  BY <1>1, TypeParts DEF UndoNext, End, GoTo, ControlOK
<1>2. CASE undo # <<>>
  <2>1. undo[Len(undo)] \in {"fpg", "ip", "share"}
    BY <1>2
  <2> QED
    BY <1>2, <2>1, TypeParts DEF UndoNext, GoTo, ControlOK
<1> QED
  BY <1>1, <1>2

LEMMA ChoosingMade ==
  ASSUME TypeInv, NEW c \in Call, MadeInv(c), Choosing(c)
  PROVE  MadeInv(c)'
<1>0. CallOK /\ CallOK'
  BY ChoosingType, TypeParts DEF TypeInv, TypeOK, CallOK
<1>1. ASSUME \/ Enter(c) \/ InitializeShare(c) \/ GetExistingFpg(c)
             \/ GetDefaultFpgs(c)
      PROVE  MadeInv(c)'
  <2>1. CASE Enter(c) \/ InitializeShare(c)
    BY <2>1, <1>0, ListFacts, ViewFacts, TypeParts
       DEF Enter, InitializeShare, MadeInv, At, GoTo, End, Acquire, ControlOK, CallOK,
           call
  <2>2. CASE GetExistingFpg(c)
    BY <2>2, <1>0, ListFacts, ViewFacts, TypeParts
       DEF GetExistingFpg, Use, MadeInv, At, GoTo, Fail, ControlOK, CallOK, call
  <2>3. CASE GetDefaultFpgs(c)
    BY <2>3, <1>0, ListFacts, ViewFacts, TypeParts
       DEF GetDefaultFpgs, MadeInv, At, GoTo, Fail, Acquire, ControlOK, CallOK, call
  <2> QED
    BY <1>1, <2>1, <2>2, <2>3
<1>2. ASSUME PickDefaultFpg(c) PROVE MadeInv(c)'
  <2>1. pc[c] = "pick" /\ made' = made
    BY <1>2 DEF PickDefaultFpg, At
  <2>2. pc'[c] \in {"draw", "pick", "create", "fail"}
    BY <1>2, TypeParts DEF PickDefaultFpg, Use, GoTo, Fail, ControlOK
  <2> QED
    BY <1>0, <2>1, <2>2, ListFacts DEF MadeInv
<1> QED
  BY <1>1, <1>2 DEF Choosing

LEMMA MakingFpgMade ==
  ASSUME TypeInv, NEW c \in Call, MadeInv(c), MakingFpg(c)
  PROVE  MadeInv(c)'
<1>0. CallOK /\ CallOK'
  BY MakingFpgType, TypeParts DEF TypeInv, TypeOK, CallOK
<1>1. ASSUME \/ DrawName(c) \/ CreateFpg(c) \/ AddToDefaultFpg(c)
             \/ ClaimAvailableIp(c) \/ CreateVfs(c) \/ UpdateFpgMetadata(c)
      PROVE  MadeInv(c)'
  <2>1. CASE DrawName(c) \/ CreateFpg(c) \/ AddToDefaultFpg(c)
    BY <2>1, <1>0, ListFacts, ViewFacts, TypeParts
       DEF DrawName, CreateFpg, AddToDefaultFpg, MadeInv, At, GoTo, Fail, Acquire,
           ControlOK, CallOK, call
  <2>2. CASE ClaimAvailableIp(c)
    BY <2>2, <1>0, ListFacts, ViewFacts, TypeParts
       DEF ClaimAvailableIp, Claim, MadeInv, At, GoTo, Fail, ControlOK, CallOK
  <2>3. CASE CreateVfs(c) \/ UpdateFpgMetadata(c)
    BY <2>3, <1>0, ListFacts, ViewFacts, TypeParts
       DEF CreateVfs, UpdateFpgMetadata, MadeInv, At, GoTo, Fail, ControlOK, CallOK,
           call
  <2> QED
    BY <1>1, <2>1, <2>2, <2>3
<1>2. ASSUME SaveFpgMetadata(c) PROVE MadeInv(c)'
  <2>1. pc'[c] = "claim" /\ made' = [made EXCEPT ![c] = Append(@, "fpg")]
    BY <1>2, TypeParts DEF SaveFpgMetadata, GoTo, ControlOK
  <2> QED
    BY <1>0, <2>1, ListFacts DEF MadeInv
<1>3. ASSUME MarkIpInUse(c) PROVE MadeInv(c)'
  <2>1. pc[c] = "mark" /\ made' = made /\ pc'[c] \in {"create", "fail"}
    BY <1>3, TypeParts DEF MarkIpInUse, At, call, GoTo, Fail, ControlOK
  <2>2. LastMade(c, "ip") => ~LastMade(c, "share")
    BY DEF LastMade
  <2> QED
    BY <1>0, <2>1, <2>2, ListFacts DEF MadeInv
<1> QED
  BY <1>1, <1>2, <1>3 DEF MakingFpg

LEMMA MakingShareMade ==
  ASSUME TypeInv, NEW c \in Call, MadeInv(c), MakingShare(c)
  PROVE  MadeInv(c)'
<1>0. CallOK /\ CallOK'
  BY MakingShareType, TypeParts DEF TypeInv, TypeOK, CallOK
<1>1. ASSUME \/ SaveShareId(c) \/ SetQuota(c) \/ MakeAvailable(c)
             \/ CreationRaises(c)
      PROVE  MadeInv(c)'
  BY <1>1, <1>0, ListFacts, ViewFacts, TypeParts
     DEF SaveShareId, SetQuota, MakeAvailable, CreationRaises, QuotaFails, MadeInv,
         At, GoTo, End, Fail, Acquire, ControlOK, CallOK, call
<1>2. ASSUME CreateShare(c) PROVE MadeInv(c)'
  <2>1. pc[c] = "create" /\ made' = made /\ pc'[c] \in {"save_id", "fail"}
    BY <1>2, TypeParts DEF CreateShare, At, GoTo, Fail, ControlOK
  <2>2. pc'[c] = "save_id" => view'[c].status = view[c].status
    <3>1. <<c, MyFpg(c)>> \in Call \X Fpg
      BY <2>1, CallFacts DEF Late
    <3> QED
      BY <1>2, <3>1, ViewFacts, TypeParts DEF CreateShare, GoTo, Fail, ControlOK
  <2> QED
    BY <1>0, <2>1, <2>2, ListFacts DEF MadeInv
<1> QED
  BY <1>1, <1>2 DEF MakingShare

LEMMA UndoingMade ==
  ASSUME TypeInv, NEW c \in Call, MadeInv(c), Undoing(c)
  PROVE  MadeInv(c)'
<1>0. CallOK /\ CallOK'
  BY UndoingType, TypeParts DEF TypeInv, TypeOK, CallOK
<1>1. ASSUME UndoRaises(c) \/ UndoShare(c) \/ UndoFpg(c) \/ UndoDefault(c)
      PROVE  MadeInv(c)'
  BY <1>1, <1>0, ListFacts, TypeParts
     DEF UndoRaises, UndoShare, UndoFpg, UndoDefault, DeleteFromArray, MadeInv, At,
         GoTo, End, Fail, Acquire, ControlOK, CallOK, call
<1>2. ASSUME SaveFailed(c) PROVE MadeInv(c)'
  <2>1. made' = made /\ made[c] \in Seq({"fpg", "ip", "share"})
    BY <1>2, <1>0 DEF SaveFailed, CallOK
  <2>2. CASE End(c, "broken")
    <3>1. pc'[c] = "broken"
      BY <2>2, TypeParts DEF End, GoTo, ControlOK
    <3> QED
      BY <1>0, <2>1, <3>1, ListFacts DEF MadeInv
  <2>3. CASE view' = [view EXCEPT ![c].status = "FAILED"] /\ UndoNext(c, made[c])
    <3>1. view'[c].status = "FAILED"
      BY <2>3, ViewFacts, TypeParts
    <3> QED
      BY <1>0, <2>1, <2>3, <3>1, NextUndo, ListFacts DEF MadeInv, LastMade
  <2> QED
    BY <1>2, <2>2, <2>3 DEF SaveFailed
<1>3. ASSUME UndoStore(c) PROVE MadeInv(c)'
  <2>1. /\ view' = view /\ pc[c] = "undo_store" /\ made'[c] \in Seq({"fpg", "ip", "share"})
        /\ IF LastMade(c, "share") THEN Undone(c) ELSE made'[c] = made[c]
    BY <1>3, <1>0, MadeFacts DEF UndoStore, At, CallOK, LastMade
  <2>2. (AddressAfterFpg(c) => AddressAfterFpg(c)') /\ (OnNewFpg(c)' => OnNewFpg(c))
    BY <1>0, <2>1, ListFacts
  <2>3. CASE view[c].status = "FAILED"
    <3>1. UndoNext(c, made'[c])
      BY <1>3, <2>3 DEF UndoStore
    <3>2. \A x : made'[c] # <<>> /\ made'[c][Len(made'[c])] = x => LastMade(c, x)'
      BY DEF LastMade
    <3> QED
      BY <2>1, <2>2, <2>3, <3>1, <3>2, NextUndo DEF MadeInv
  <2>4. CASE view[c].status # "FAILED" /\ LastMade(c, "share") /\ Default(c)
    <3>1. pc'[c] = "pick"
      BY <1>3, <2>4, TypeParts DEF UndoStore, LastMade, GoTo, ControlOK
    <3> QED
      BY <2>1, <2>2, <2>4, <3>1 DEF MadeInv
  <2>5. CASE view[c].status # "FAILED" /\ ~(LastMade(c, "share") /\ Default(c))
    <3>1. pc'[c] = "fail"
      BY <1>3, <2>5, TypeParts DEF UndoStore, LastMade, Fail, GoTo, ControlOK
    <3> QED
      BY <2>1, <2>2, <3>1 DEF MadeInv
  <2> QED
    BY <2>3, <2>4, <2>5
<1>4. ASSUME UndoIp(c) PROVE MadeInv(c)'
  <2>1. /\ Undone(c) /\ UndoNext(c, made'[c]) /\ made'[c] \in Seq({"fpg", "ip", "share"})
        /\ view' = view /\ view[c].status = "FAILED"
    BY <1>4, <1>0, MadeFacts DEF UndoIp, At, MadeInv
  <2>2. \A x : made'[c] # <<>> /\ made'[c][Len(made'[c])] = x => LastMade(c, x)'
    BY DEF LastMade
  <2> QED
    BY <1>0, <2>1, <2>2, NextUndo, ListFacts DEF MadeInv
<1>5. ASSUME UndoMeta(c) PROVE MadeInv(c)'
  <2>1. /\ Undone(c) /\ UndoNext(c, made'[c]) /\ made'[c] \in Seq({"fpg", "ip", "share"})
        /\ view' = view /\ view[c].status = "FAILED"
    BY <1>5, <1>0, MadeFacts DEF UndoMeta, At, MadeInv
  <2>2. \A x : made'[c] # <<>> /\ made'[c][Len(made'[c])] = x => LastMade(c, x)'
    BY DEF LastMade
  <2> QED
    BY <1>0, <2>1, <2>2, NextUndo, ListFacts DEF MadeInv
<1> QED
  BY <1>1, <1>2, <1>3, <1>4, <1>5 DEF Undoing

LEMMA RemovingMade ==
  ASSUME TypeInv, NEW c \in Call, MadeInv(c), Removing(c)
  PROVE  MadeInv(c)'
<1>0. CallOK /\ CallOK'
  BY RemovingType, TypeParts DEF TypeInv, TypeOK, CallOK
<1>1. ASSUME DeleteShare(c) \/ DeleteShareRecord(c) \/ MarkShareFailed(c)
      PROVE  MadeInv(c)'
  BY <1>1, <1>0, ListFacts, TypeParts
     DEF DeleteShare, DeleteShareRecord, MarkShareFailed, MadeInv, At, GoTo, End,
         Fail, Acquire, ControlOK, CallOK, call
<1>2. ASSUME DeleteFileStore(c) PROVE MadeInv(c)'
  BY <1>2, <1>0, ListFacts, TypeParts
     DEF DeleteFileStore, MadeInv, At, GoTo, End, Fail, Acquire, ControlOK, CallOK,
         call
<1>3. ASSUME CountShares(c) PROVE MadeInv(c)'
  BY <1>3, <1>0, ListFacts, TypeParts
     DEF CountShares, MadeInv, At, GoTo, End, Fail, Acquire, ControlOK, CallOK, call
<1>4. ASSUME \/ CheckOwner(c) \/ DeleteFpg(c) \/ DeleteFpgMetadata(c)
             \/ ReleaseIp(c) \/ RemovalRaises(c)
      PROVE  MadeInv(c)'
  BY <1>4, <1>0, ListFacts, TypeParts
     DEF CheckOwner, DeleteFpg, DeleteFpgMetadata, ReleaseIp, RemovalRaises,
         DeleteFromArray, MadeInv, At, GoTo, End, Fail, Acquire, ControlOK, CallOK,
         call
<1> QED
  BY <1>1, <1>2, <1>3, <1>4 DEF Removing

LEMMA EndingMade ==
  ASSUME TypeInv, NEW c \in Call, MadeInv(c), LockTimeout(c) \/ Crash(c)
  PROVE  MadeInv(c)'
<1>0. CallOK /\ CallOK'
  BY EndingType, TypeParts DEF TypeInv, TypeOK, CallOK
<1>1. ASSUME LockTimeout(c) \/ Crash(c) PROVE MadeInv(c)'
  BY <1>1, <1>0, ListFacts, TypeParts
     DEF LockTimeout, Crash, MadeInv, At, GoTo, End, Fail, Acquire, ControlOK, CallOK,
         call
<1> QED
  BY <1>1

LEMMA ReceiveMade ==
  ASSUME TypeInv, NEW c \in Call, NEW r \in Request, MadeInv(c),
         ReceiveCreate(c, r) \/ ReceiveRemove(c, r)
  PROVE  MadeInv(c)'
<1>0. CallOK /\ CallOK'
  BY ReceiveType, TypeParts DEF TypeInv, TypeOK, CallOK
<1>1. made' = made /\ pc[c] = "idle" /\ pc'[c] \in {"enter", "done", "forget", "delete_share"}
  BY TypeParts DEF ReceiveCreate, ReceiveRemove, At, GoTo, ControlOK
<1> QED
  BY <1>0, <1>1, ListFacts DEF MadeInv

-----------------------------------------------------------------------------
(* The FPGs of administrators *)

Foreign == {f \in DOMAIN Stock : ~Stock[f].owned}

\* Nobody takes an administrator's FPG for one of the plugin.
ForeignCall(c) ==
  /\ \/ OnNewFpg(c)
     \/ pc[c] \in {"default", "fpg_meta", "claim", "vfs", "vfs_meta", "undo_fpg"}
     => target[c] \notin Foreign
  /\ pc[c] = "delete_fpg" => MyFpg(c) \notin Foreign

ForeignInv ==
  /\ ForeignKept
  /\ \A f \in Foreign, g \in Cpg : meta[<<g, f>>] = None
  /\ \A c \in Call : ForeignCall(c)

LEMMA MetaFacts ==
  ASSUME PoolOK, NEW p, NEW x, meta' = [meta EXCEPT ![p] = x], NEW g \in Cpg, NEW f \in Fpg
  PROVE  /\ meta'[<<g, f>>] \in {x, meta[<<g, f>>]}
         /\ p # <<g, f>> => meta'[<<g, f>>] = meta[<<g, f>>]
<1>1. <<g, f>> \in DOMAIN meta
  BY DEF PoolOK
<1> QED
  BY <1>1

LEMMA StepForeign ==
  ASSUME ForeignInv, NEW c \in Call, Alone(c), ForeignKept',
         \A f \in Foreign, g \in Cpg : meta'[<<g, f>>] = None, ForeignCall(c)'
  PROVE  ForeignInv'
<1>1. ASSUME NEW d \in Call \ {c} PROVE ForeignCall(d)'
  BY DEF ForeignInv, Alone, ForeignCall, OnNewFpg, MyFpg, Foreign
<1> QED
  BY <1>1 DEF ForeignInv, Foreign

LEMMA ChoosingForeign ==
  ASSUME TypeInv, ForeignInv, NEW c \in Call, MadeInv(c), Choosing(c)
  PROVE  ForeignInv'
<1>0. CallOK /\ CallOK' /\ Alone(c)
  BY ChoosingType, TypeParts DEF TypeInv, TypeOK, CallOK
<1>1. ASSUME Enter(c) \/ InitializeShare(c) PROVE ForeignInv'
  <2>1. ForeignKept' /\ \A f \in Foreign, g \in Cpg : meta'[<<g, f>>] = None
    BY <1>1 DEF Enter, InitializeShare, array, ForeignInv, ForeignKept, Foreign
  <2>2. ForeignCall(c)'
    BY <1>1, <1>0, ListFacts, TypeParts
       DEF Enter, InitializeShare, ForeignInv, ForeignCall, MadeInv, MyFpg, At, GoTo,
           End, Fail, Acquire, ControlOK, CallOK, call
  <2> QED
    BY <1>0, <2>1, <2>2, StepForeign
<1>2. ASSUME GetExistingFpg(c) \/ GetDefaultFpgs(c) PROVE ForeignInv'
  <2>1. ForeignKept' /\ \A f \in Foreign, g \in Cpg : meta'[<<g, f>>] = None
    BY <1>2 DEF GetExistingFpg, GetDefaultFpgs, Use, array, ForeignInv, ForeignKept,
        Foreign
  <2>2. ForeignCall(c)'
    BY <1>2, <1>0, ListFacts, ViewFacts, TypeParts
       DEF GetExistingFpg, GetDefaultFpgs, Use, ForeignInv, ForeignCall, MadeInv,
           MyFpg, At, GoTo, End, Fail, Acquire, ControlOK, CallOK, call
  <2> QED
    BY <1>0, <2>1, <2>2, StepForeign
<1>3. ASSUME PickDefaultFpg(c) PROVE ForeignInv'
  <2>1. ForeignKept' /\ \A f \in Foreign, g \in Cpg : meta'[<<g, f>>] = None
    BY <1>3 DEF PickDefaultFpg, array, ForeignInv, ForeignKept, Foreign
  <2>2. pc'[c] \in {"draw", "pick", "create", "fail"}
    BY <1>3, TypeParts DEF PickDefaultFpg, Use, GoTo, Fail, ControlOK
  <2>3. ForeignCall(c)'
    BY <1>3, <1>0, <2>2, ListFacts DEF PickDefaultFpg, ForeignInv, ForeignCall
  <2> QED
    BY <1>0, <2>1, <2>3, StepForeign
<1> QED
  BY <1>1, <1>2, <1>3 DEF Choosing

LEMMA MakingFpgForeign ==
  ASSUME TypeInv, ForeignInv, NEW c \in Call, MadeInv(c), MakingFpg(c)
  PROVE  ForeignInv'
<1>0. CallOK /\ CallOK' /\ Alone(c)
  BY MakingFpgType, TypeParts DEF TypeInv, TypeOK, CallOK
<1>1. ASSUME DrawName(c) \/ AddToDefaultFpg(c) \/ ClaimAvailableIp(c)
      PROVE  ForeignInv'
  <2>1. ForeignKept' /\ \A f \in Foreign, g \in Cpg : meta'[<<g, f>>] = None
    BY <1>1 DEF DrawName, AddToDefaultFpg, ClaimAvailableIp, Claim, array, ForeignInv,
        ForeignKept, Foreign
  <2>2. ForeignCall(c)'
    BY <1>1, <1>0, ListFacts, ViewFacts, TypeParts
       DEF DrawName, AddToDefaultFpg, ClaimAvailableIp, Claim, ForeignInv,
           ForeignCall, MadeInv, MyFpg, At, GoTo, End, Fail, Acquire, ControlOK,
           CallOK, call
  <2> QED
    BY <1>0, <2>1, <2>2, StepForeign
<1>2. ASSUME CreateVfs(c) PROVE ForeignInv'
  <2>1. ForeignKept' /\ \A f \in Foreign, g \in Cpg : meta'[<<g, f>>] = None
    BY <1>2, TypeParts, ShareAssumption
       DEF CreateVfs, At, MadeInv, ForeignInv, ForeignKept, ForeignCall, Foreign,
           ArrayOK, PoolOK
  <2>2. ForeignCall(c)'
    BY <1>2, <1>0, ListFacts, TypeParts
       DEF CreateVfs, ForeignInv, ForeignCall, MadeInv, MyFpg, At, GoTo, End, Fail,
           Acquire, ControlOK, CallOK, call
  <2> QED
    BY <1>0, <2>1, <2>2, StepForeign
<1>3. ASSUME MarkIpInUse(c) PROVE ForeignInv'
  <2>1. ForeignKept' /\ \A f \in Foreign, g \in Cpg : meta'[<<g, f>>] = None
    BY <1>3 DEF MarkIpInUse, array, ForeignInv, ForeignKept, Foreign
  <2>2. ForeignCall(c)'
    BY <1>3, <1>0, ListFacts, TypeParts
       DEF MarkIpInUse, ForeignInv, ForeignCall, MadeInv, MyFpg, At, GoTo, End, Fail,
           Acquire, ControlOK, CallOK, call
  <2> QED
    BY <1>0, <2>1, <2>2, StepForeign
<1>4. ASSUME CreateFpg(c) PROVE ForeignInv'
  <2>1. ForeignKept' /\ \A f \in Foreign, g \in Cpg : meta'[<<g, f>>] = None
    BY <1>4, TypeParts, ShareAssumption
       DEF CreateFpg, ForeignInv, ForeignKept, Foreign, ArrayOK
  <2>2. fpgs[target[c]] = None => target[c] \notin Foreign
    BY ShareAssumption DEF ForeignInv, ForeignKept, Foreign
  <2>3. pc'[c] \in {"default", "fpg_meta"} => fpgs[target[c]] = None
    BY <1>4, TypeParts DEF CreateFpg, Fail, GoTo, ControlOK
  <2>4. pc'[c] \in {"default", "fpg_meta", "draw", "fail"}
    BY <1>4, TypeParts DEF CreateFpg, Fail, GoTo, ControlOK
  <2>5. ForeignCall(c)'
    BY <1>4, <1>0, <2>2, <2>3, <2>4, ListFacts
       DEF CreateFpg, ForeignInv, ForeignCall, call
  <2> QED
    BY <1>0, <2>1, <2>5, StepForeign
<1>5. ASSUME SaveFpgMetadata(c) PROVE ForeignInv'
  <2>0. PoolOK /\ \A f \in Foreign : f \in Fpg
    BY TypeParts, ShareAssumption DEF Foreign
  <2>1. ForeignKept' /\ \A f \in Foreign, g \in Cpg : meta'[<<g, f>>] = None
    <3>1. ForeignKept'
      BY <1>5 DEF SaveFpgMetadata, array, ForeignInv, ForeignKept
    <3>2. target[c] \notin Foreign
      BY <1>5 DEF SaveFpgMetadata, At, ForeignInv, ForeignCall
    <3>3. \A f \in Foreign, g \in Cpg : meta'[<<g, f>>] = meta[<<g, f>>]
      <4>1. \A f \in Foreign, g \in Cpg : <<MyCpg(c), target[c]>> # <<g, f>>
        BY <3>2
      <4> QED
        BY <1>5, <2>0, <4>1, MetaFacts DEF SaveFpgMetadata
    <3> QED
      BY <3>1, <3>3 DEF ForeignInv
  <2>2. ForeignCall(c)'
    <3>1. pc[c] = "fpg_meta" /\ target' = target /\ pc'[c] \in {"claim", "fail"}
      BY <1>5, TypeParts DEF SaveFpgMetadata, At, GoTo, Fail, call, ControlOK
    <3> QED
      BY <3>1 DEF ForeignInv, ForeignCall
  <2> QED
    BY <1>0, <2>1, <2>2, StepForeign
<1>6. ASSUME UpdateFpgMetadata(c) PROVE ForeignInv'
  <2>0. PoolOK /\ \A f \in Foreign : f \in Fpg
    BY TypeParts, ShareAssumption DEF Foreign
  <2>1. ForeignKept' /\ \A f \in Foreign, g \in Cpg : meta'[<<g, f>>] = None
    <3>1. ForeignKept'
      BY <1>6 DEF UpdateFpgMetadata, array, ForeignInv, ForeignKept
    <3>2. target[c] \notin Foreign
      BY <1>6 DEF UpdateFpgMetadata, At, ForeignInv, ForeignCall
    <3>3. \A f \in Foreign, g \in Cpg : meta'[<<g, f>>] = meta[<<g, f>>]
      <4>1. \A f \in Foreign, g \in Cpg : <<MyCpg(c), target[c]>> # <<g, f>>
        BY <3>2
      <4> QED
        BY <1>6, <2>0, <4>1, MetaFacts DEF UpdateFpgMetadata
    <3> QED
      BY <3>1, <3>3 DEF ForeignInv
  <2>2. ForeignCall(c)'
    BY <1>6, <1>0, ListFacts, ViewFacts, TypeParts
       DEF UpdateFpgMetadata, ForeignInv, ForeignCall, MadeInv, MyFpg, At, GoTo, End, Fail,
           ControlOK, CallOK, call
  <2> QED
    BY <1>0, <2>1, <2>2, StepForeign
<1> QED
  BY <1>1, <1>2, <1>3, <1>4, <1>5, <1>6 DEF MakingFpg

LEMMA MakingShareForeign ==
  ASSUME TypeInv, ForeignInv, NEW c \in Call, MadeInv(c), MakingShare(c)
  PROVE  ForeignInv'
<1>0. CallOK /\ CallOK' /\ Alone(c)
  BY MakingShareType, TypeParts DEF TypeInv, TypeOK, CallOK
<1>1. ASSUME CreateShare(c) \/ SaveShareId(c) PROVE ForeignInv'
  <2>1. ForeignKept' /\ \A f \in Foreign, g \in Cpg : meta'[<<g, f>>] = None
    BY <1>1 DEF CreateShare, SaveShareId, array, ForeignInv, ForeignKept, Foreign
  <2>2. ForeignCall(c)'
    BY <1>1, <1>0, ListFacts, ViewFacts, TypeParts
       DEF CreateShare, SaveShareId, ForeignInv, ForeignCall, MadeInv, MyFpg, At,
           GoTo, End, Fail, Acquire, ControlOK, CallOK, call
  <2> QED
    BY <1>0, <2>1, <2>2, StepForeign
<1>2. ASSUME SetQuota(c) PROVE ForeignInv'
  <2>1. ForeignKept' /\ \A f \in Foreign, g \in Cpg : meta'[<<g, f>>] = None
    BY <1>2 DEF SetQuota, QuotaFails, array, ForeignInv, ForeignKept, Foreign
  <2>2. ForeignCall(c)'
    BY <1>2, <1>0, ListFacts, TypeParts
       DEF SetQuota, QuotaFails, ForeignInv, ForeignCall, MadeInv, MyFpg, At, GoTo,
           End, Fail, Acquire, ControlOK, CallOK, call
  <2> QED
    BY <1>0, <2>1, <2>2, StepForeign
<1>3. ASSUME MakeAvailable(c) \/ CreationRaises(c) PROVE ForeignInv'
  <2>1. ForeignKept' /\ \A f \in Foreign, g \in Cpg : meta'[<<g, f>>] = None
    BY <1>3 DEF MakeAvailable, CreationRaises, QuotaFails, array, ForeignInv,
        ForeignKept, Foreign
  <2>2. ForeignCall(c)'
    BY <1>3, <1>0, ListFacts, TypeParts
       DEF MakeAvailable, CreationRaises, QuotaFails, ForeignInv, ForeignCall,
           MadeInv, MyFpg, At, GoTo, End, Fail, Acquire, ControlOK, CallOK, call
  <2> QED
    BY <1>0, <2>1, <2>2, StepForeign
<1> QED
  BY <1>1, <1>2, <1>3 DEF MakingShare

LEMMA UndoingForeign ==
  ASSUME TypeInv, ForeignInv, NEW c \in Call, MadeInv(c), Undoing(c)
  PROVE  ForeignInv'
<1>0. CallOK /\ CallOK' /\ Alone(c)
  BY UndoingType, TypeParts DEF TypeInv, TypeOK, CallOK
<1>1. ASSUME UndoRaises(c) \/ UndoShare(c) \/ UndoDefault(c) PROVE ForeignInv'
  <2>1. ForeignKept' /\ \A f \in Foreign, g \in Cpg : meta'[<<g, f>>] = None
    BY <1>1 DEF UndoRaises, UndoShare, UndoDefault, array, ForeignInv, ForeignKept,
        Foreign
  <2>2. ForeignCall(c)'
    BY <1>1, <1>0, ListFacts, TypeParts
       DEF UndoRaises, UndoShare, UndoDefault, ForeignInv, ForeignCall, MadeInv,
           MyFpg, At, GoTo, End, Fail, Acquire, ControlOK, CallOK, call
  <2> QED
    BY <1>0, <2>1, <2>2, StepForeign
<1>2. ASSUME SaveFailed(c) PROVE ForeignInv'
  <2>1. ForeignKept' /\ \A f \in Foreign, g \in Cpg : meta'[<<g, f>>] = None
    BY <1>2 DEF SaveFailed, array, ForeignInv, ForeignKept, Foreign
  <2>2. UndoNext(c, made'[c]) => LastMade(c, "fpg")' \/ pc'[c] # "undo_fpg"
    BY <1>0, NextUndo DEF CallOK, LastMade
  <2>3. LastMade(c, "fpg")' => OnNewFpg(c)'
    BY <1>0 DEF CallOK, LastMade, OnNewFpg
  <2>4. OnNewFpg(c)' => OnNewFpg(c)
    BY <1>2, <1>0, ListFacts DEF SaveFailed, At
  <2>5. target' = target /\ pc'[c] # "delete_fpg"
        /\ pc'[c] \notin {"default", "fpg_meta", "claim", "vfs", "vfs_meta"}
    BY <1>2, <1>0, NextUndo, TypeParts DEF SaveFailed, CallOK, End, Fail, GoTo, ControlOK
  <2>6. pc'[c] = "undo_fpg" => UndoNext(c, made'[c])
    BY <1>2, TypeParts DEF SaveFailed, End, Fail, GoTo, ControlOK
  <2>7. ForeignCall(c)'
    BY <2>2, <2>3, <2>4, <2>5, <2>6 DEF ForeignInv, ForeignCall
  <2> QED
    BY <1>0, <2>1, <2>7, StepForeign
<1>3. ASSUME UndoStore(c) PROVE ForeignInv'
  <2>1. ForeignKept' /\ \A f \in Foreign, g \in Cpg : meta'[<<g, f>>] = None
    BY <1>3 DEF UndoStore, array, ForeignInv, ForeignKept, Foreign
  <2>2. UndoNext(c, made'[c]) => LastMade(c, "fpg")' \/ pc'[c] # "undo_fpg"
    BY <1>0, NextUndo DEF CallOK, LastMade
  <2>3. LastMade(c, "fpg")' => OnNewFpg(c)'
    BY <1>0 DEF CallOK, LastMade, OnNewFpg
  <2>4. OnNewFpg(c)' => OnNewFpg(c)
    BY <1>3, <1>0, ListFacts DEF UndoStore, At
  <2>5. target' = target /\ pc'[c] # "delete_fpg"
        /\ pc'[c] \notin {"default", "fpg_meta", "claim", "vfs", "vfs_meta"}
    BY <1>3, <1>0, NextUndo, TypeParts DEF UndoStore, CallOK, End, Fail, GoTo, ControlOK
  <2>6. pc'[c] = "undo_fpg" => UndoNext(c, made'[c])
    BY <1>3, TypeParts DEF UndoStore, End, Fail, GoTo, ControlOK
  <2>7. ForeignCall(c)'
    BY <2>2, <2>3, <2>4, <2>5, <2>6 DEF ForeignInv, ForeignCall
  <2> QED
    BY <1>0, <2>1, <2>7, StepForeign
<1>4. ASSUME UndoIp(c) PROVE ForeignInv'
  <2>1. ForeignKept' /\ \A f \in Foreign, g \in Cpg : meta'[<<g, f>>] = None
    BY <1>4 DEF UndoIp, array, ForeignInv, ForeignKept, Foreign
  <2>2. UndoNext(c, made'[c]) => LastMade(c, "fpg")' \/ pc'[c] # "undo_fpg"
    BY <1>0, NextUndo DEF CallOK, LastMade
  <2>3. LastMade(c, "fpg")' => OnNewFpg(c)'
    BY <1>0 DEF CallOK, LastMade, OnNewFpg
  <2>4. OnNewFpg(c)' => OnNewFpg(c)
    BY <1>4, <1>0, ListFacts DEF UndoIp, At
  <2>5. target' = target /\ pc'[c] # "delete_fpg"
        /\ pc'[c] \notin {"default", "fpg_meta", "claim", "vfs", "vfs_meta"}
    BY <1>4, <1>0, NextUndo, TypeParts DEF UndoIp, CallOK, End, Fail, GoTo, ControlOK
  <2>6. pc'[c] = "undo_fpg" => UndoNext(c, made'[c])
    BY <1>4, TypeParts DEF UndoIp, End, Fail, GoTo, ControlOK
  <2>7. ForeignCall(c)'
    BY <2>2, <2>3, <2>4, <2>5, <2>6 DEF ForeignInv, ForeignCall
  <2> QED
    BY <1>0, <2>1, <2>7, StepForeign
<1>5. ASSUME UndoFpg(c) PROVE ForeignInv'
  <2>1. ForeignKept' /\ \A f \in Foreign, g \in Cpg : meta'[<<g, f>>] = None
    <3>1. target[c] \notin Foreign
      BY <1>5 DEF UndoFpg, At, ForeignInv, ForeignCall
    <3>2. \A f \in Foreign : f \in Fpg /\ fpgs'[f] = fpgs[f] /\ vfs'[f] = vfs[f]
      BY <1>5, <3>1, ShareAssumption, TypeParts
         DEF UndoFpg, DeleteFromArray, array, ArrayOK, Foreign
    <3> QED
      BY <1>5, <3>2 DEF UndoFpg, ForeignInv, ForeignKept, Foreign
  <2>2. ForeignCall(c)'
    BY <1>5, <1>0, ListFacts, TypeParts
       DEF UndoFpg, ForeignInv, ForeignCall, At, GoTo, ControlOK, CallOK, call
  <2> QED
    BY <1>0, <2>1, <2>2, StepForeign
<1>6. ASSUME UndoMeta(c) PROVE ForeignInv'
  <2>0. PoolOK /\ \A f \in Foreign : f \in Fpg
    BY TypeParts, ShareAssumption DEF Foreign
  <2>1. ForeignKept' /\ \A f \in Foreign, g \in Cpg : meta'[<<g, f>>] = None
    <3>1. ForeignKept'
      BY <1>6 DEF UndoMeta, array, ForeignInv, ForeignKept
    <3>2. \A f \in Foreign, g \in Cpg : meta'[<<g, f>>] \in {None, meta[<<g, f>>]}
      BY <1>6, <2>0, MetaFacts DEF UndoMeta
    <3> QED
      BY <3>1, <3>2 DEF ForeignInv
  <2>2. UndoNext(c, made'[c]) => LastMade(c, "fpg")' \/ pc'[c] # "undo_fpg"
    BY <1>0, NextUndo DEF CallOK, LastMade
  <2>3. LastMade(c, "fpg")' => OnNewFpg(c)'
    BY <1>0 DEF CallOK, LastMade, OnNewFpg
  <2>4. OnNewFpg(c)' => OnNewFpg(c)
    BY <1>6, <1>0, ListFacts DEF UndoMeta, At
  <2>5. target' = target /\ pc'[c] # "delete_fpg"
        /\ pc'[c] \notin {"default", "fpg_meta", "claim", "vfs", "vfs_meta"}
    BY <1>6, <1>0, NextUndo, TypeParts DEF UndoMeta, CallOK, End, Fail, GoTo, ControlOK
  <2>6. pc'[c] = "undo_fpg" => UndoNext(c, made'[c])
    BY <1>6, TypeParts DEF UndoMeta, End, Fail, GoTo, ControlOK
  <2>7. ForeignCall(c)'
    BY <2>2, <2>3, <2>4, <2>5, <2>6 DEF ForeignInv, ForeignCall
  <2> QED
    BY <1>0, <2>1, <2>7, StepForeign
<1> QED
  BY <1>1, <1>2, <1>3, <1>4, <1>5, <1>6 DEF Undoing

LEMMA RemovingForeign ==
  ASSUME TypeInv, ForeignInv, NEW c \in Call, MadeInv(c), Removing(c)
  PROVE  ForeignInv'
<1>0. CallOK /\ CallOK' /\ Alone(c)
  BY RemovingType, TypeParts DEF TypeInv, TypeOK, CallOK
<1>1. ASSUME \/ DeleteShare(c) \/ DeleteShareRecord(c) \/ MarkShareFailed(c)
             \/ DeleteFileStore(c)
      PROVE  ForeignInv'
  <2>1. ForeignKept' /\ \A f \in Foreign, g \in Cpg : meta'[<<g, f>>] = None
    BY <1>1 DEF DeleteShare, DeleteShareRecord, MarkShareFailed, DeleteFileStore,
        array, ForeignInv, ForeignKept, Foreign
  <2>2. ForeignCall(c)'
    BY <1>1, <1>0, ListFacts, TypeParts
       DEF DeleteShare, DeleteShareRecord, MarkShareFailed, DeleteFileStore,
           ForeignInv, ForeignCall, MadeInv, MyFpg, At, GoTo, End, Fail, Acquire,
           ControlOK, CallOK, call
  <2> QED
    BY <1>0, <2>1, <2>2, StepForeign
<1>2. ASSUME CountShares(c) PROVE ForeignInv'
  <2>1. ForeignKept' /\ \A f \in Foreign, g \in Cpg : meta'[<<g, f>>] = None
    BY <1>2 DEF CountShares, array, ForeignInv, ForeignKept, Foreign
  <2>2. ForeignCall(c)'
    BY <1>2, <1>0, ListFacts, TypeParts
       DEF CountShares, ForeignInv, ForeignCall, MadeInv, MyFpg, At, GoTo, End, Fail,
           Acquire, ControlOK, CallOK, call
  <2> QED
    BY <1>0, <2>1, <2>2, StepForeign
<1>3. ASSUME DeleteFpg(c) PROVE ForeignInv'
  <2>1. ForeignKept' /\ \A f \in Foreign, g \in Cpg : meta'[<<g, f>>] = None
    BY <1>3, TypeParts, ShareAssumption
       DEF DeleteFpg, DeleteFromArray, At, MadeInv, ForeignInv, ForeignKept,
           ForeignCall, Foreign, ArrayOK, PoolOK
  <2>2. ForeignCall(c)'
    BY <1>3, <1>0, ListFacts, TypeParts
       DEF DeleteFpg, DeleteFromArray, ForeignInv, ForeignCall, MadeInv, MyFpg, At,
           GoTo, End, Fail, Acquire, ControlOK, CallOK, call
  <2> QED
    BY <1>0, <2>1, <2>2, StepForeign
<1>4. ASSUME ReleaseIp(c) \/ RemovalRaises(c) PROVE ForeignInv'
  <2>1. ForeignKept' /\ \A f \in Foreign, g \in Cpg : meta'[<<g, f>>] = None
    BY <1>4 DEF ReleaseIp, RemovalRaises, array, ForeignInv, ForeignKept, Foreign
  <2>2. ForeignCall(c)'
    BY <1>4, <1>0, ListFacts, TypeParts
       DEF ReleaseIp, RemovalRaises, ForeignInv, ForeignCall, MadeInv, MyFpg, At,
           GoTo, End, Fail, Acquire, ControlOK, CallOK, call
  <2> QED
    BY <1>0, <2>1, <2>2, StepForeign
<1>5. ASSUME CheckOwner(c) PROVE ForeignInv'
  <2>1. ForeignKept' /\ \A f \in Foreign, g \in Cpg : meta'[<<g, f>>] = None
    BY <1>5 DEF CheckOwner, array, ForeignInv, ForeignKept, Foreign
  <2>2. view[c].cpg \in Cpg
    BY <1>5 DEF CheckOwner, At, TypeInv, CallInv, Removal
  <2>3. pc'[c] = "delete_fpg" => MyFpg(c) \notin Foreign
    BY <1>5, <2>2, TypeParts DEF CheckOwner, ForeignInv, End, GoTo, ControlOK
  <2>4. ForeignCall(c)'
    BY <1>5, <1>0, <2>3, ListFacts, TypeParts
       DEF CheckOwner, ForeignInv, ForeignCall, MyFpg, End, GoTo, ControlOK, call
  <2> QED
    BY <1>0, <2>1, <2>4, StepForeign
<1>6. ASSUME DeleteFpgMetadata(c) PROVE ForeignInv'
  <2>0. PoolOK /\ \A f \in Foreign : f \in Fpg
    BY TypeParts, ShareAssumption DEF Foreign
  <2>1. ForeignKept' /\ \A f \in Foreign, g \in Cpg : meta'[<<g, f>>] = None
    <3>1. ForeignKept'
      BY <1>6 DEF DeleteFpgMetadata, array, ForeignInv, ForeignKept
    <3>2. \A f \in Foreign, g \in Cpg : meta'[<<g, f>>] \in {None, meta[<<g, f>>]}
      BY <1>6, <2>0, MetaFacts DEF DeleteFpgMetadata
    <3> QED
      BY <3>1, <3>2 DEF ForeignInv
  <2>2. ForeignCall(c)'
    BY <1>6, <1>0, ListFacts, ViewFacts, TypeParts
       DEF DeleteFpgMetadata, ForeignInv, ForeignCall, MadeInv, MyFpg, At, GoTo, End, Fail,
           ControlOK, CallOK, call
  <2> QED
    BY <1>0, <2>1, <2>2, StepForeign
<1> QED
  BY <1>1, <1>2, <1>3, <1>4, <1>5, <1>6 DEF Removing

LEMMA EndingForeign ==
  ASSUME TypeInv, ForeignInv, NEW c \in Call, MadeInv(c), LockTimeout(c) \/ Crash(c)
  PROVE  ForeignInv'
<1>0. CallOK /\ CallOK' /\ Alone(c)
  BY EndingType, TypeParts DEF TypeInv, TypeOK, CallOK
<1>1. ASSUME LockTimeout(c) \/ Crash(c) PROVE ForeignInv'
  <2>1. ForeignKept' /\ \A f \in Foreign, g \in Cpg : meta'[<<g, f>>] = None
    BY <1>1 DEF LockTimeout, Crash, array, ForeignInv, ForeignKept, Foreign
  <2>2. ForeignCall(c)'
    BY <1>1, <1>0, ListFacts, TypeParts
       DEF LockTimeout, Crash, ForeignInv, ForeignCall, MadeInv, MyFpg, At, GoTo, End,
           Fail, Acquire, ControlOK, CallOK, call
  <2> QED
    BY <1>0, <2>1, <2>2, StepForeign
<1> QED
  BY <1>1

-----------------------------------------------------------------------------
(* The addresses that are locked *)

HasAddress(c) == \E i \in DOMAIN made[c] : made[c][i] = "ip"

\* A creation holds an address from ClaimAvailableIp to MarkIpInUse, or until it is undone.
Holds(c, a) ==
  /\ view[c].ip = a
  /\ HasAddress(c)
  /\ pc[c] \in {"vfs", "vfs_meta", "mark", "fail", "broken", "dead"} \union Undo

LockedInv == \A a \in locked : \E c \in Call : Holds(c, a)

LEMMA AddressFacts ==
  ASSUME CallOK, CallOK', NEW c \in Call
  PROVE  /\ made'[c] = made[c] => (HasAddress(c)' <=> HasAddress(c))
         /\ \A x \in {"fpg", "ip", "share"} : made' = [made EXCEPT ![c] = Append(@, x)] =>
              (HasAddress(c)' <=> HasAddress(c) \/ x = "ip")
         /\ Undone(c) /\ HasAddress(c) => HasAddress(c)' \/ LastMade(c, "ip")
         /\ AddressAfterFpg(c) /\ HasAddress(c) => OnNewFpg(c)
         /\ HasAddress(c)' => made'[c] # <<>>
         /\ HasAddress(c) => made[c] # <<>>
<1> DEFINE S == {"fpg", "ip", "share"}
<1>0. made[c] \in Seq(S) /\ made'[c] \in Seq(S) /\ c \in DOMAIN made
  BY DEF CallOK
<1>1. made'[c] = made[c] => (HasAddress(c)' <=> HasAddress(c))
  BY DEF HasAddress
<1>2. ASSUME NEW x \in S, made' = [made EXCEPT ![c] = Append(@, x)]
      PROVE  HasAddress(c)' <=> HasAddress(c) \/ x = "ip"
  <2>1. made'[c] = Append(made[c], x)
    BY <1>0, <1>2
  <2>2. /\ made'[c][Len(made[c]) + 1] = x /\ Len(made[c]) \in Nat
        /\ \A i \in 1 .. Len(made[c]) : made'[c][i] = made[c][i]
        /\ DOMAIN made[c] = 1 .. Len(made[c]) /\ DOMAIN made'[c] = 1 .. Len(made[c]) + 1
    BY <1>0, <2>1
  <2>3. x = "ip" => HasAddress(c)'
    BY <2>2 DEF HasAddress
  <2>4. HasAddress(c) => HasAddress(c)'
    BY <2>2 DEF HasAddress
  <2>5. ASSUME HasAddress(c)', x # "ip" PROVE HasAddress(c)
    <3>1. PICK i \in 1 .. Len(made[c]) + 1 : made'[c][i] = "ip"
      BY <2>2, <2>5 DEF HasAddress
    <3>2. i \in 1 .. Len(made[c])
      BY <2>2, <2>5, <3>1
    <3> QED
      BY <2>2, <3>1, <3>2 DEF HasAddress
  <2> QED
    BY <2>3, <2>4, <2>5
<1>3. ASSUME Undone(c), HasAddress(c) PROVE HasAddress(c)' \/ LastMade(c, "ip")
  <2>1. made'[c] = SubSeq(made[c], 1, Len(made[c]) - 1)
    BY <1>0, <1>3 DEF Undone
  <2>2. made[c] # <<>> /\ Len(made[c]) \in Nat /\ Len(made[c]) > 0
    BY <1>0, <1>3 DEF HasAddress
  <2>3. \A i \in 1 .. Len(made[c]) - 1 : made[c][i] \in S
    BY <1>0, <2>2
  <2>4. /\ DOMAIN made[c] = 1 .. Len(made[c]) /\ DOMAIN made'[c] = 1 .. Len(made[c]) - 1
        /\ \A i \in 1 .. Len(made[c]) - 1 : made'[c][i] = made[c][i]
    BY <1>0, <2>1, <2>2, <2>3
  <2>5. PICK i \in 1 .. Len(made[c]) : made[c][i] = "ip"
    BY <1>3, <2>4 DEF HasAddress
  <2>6. CASE i = Len(made[c])
    BY <2>2, <2>5, <2>6 DEF LastMade
  <2>7. CASE i # Len(made[c])
    <3>1. i \in 1 .. Len(made[c]) - 1
      BY <2>2, <2>7
    <3> QED
      BY <2>4, <2>5, <3>1 DEF HasAddress
  <2> QED
    BY <2>6, <2>7
<1>4. AddressAfterFpg(c) /\ HasAddress(c) => OnNewFpg(c)
  BY DEF AddressAfterFpg, HasAddress, OnNewFpg
<1>5. (HasAddress(c)' => made'[c] # <<>>) /\ (HasAddress(c) => made[c] # <<>>)
  BY DEF HasAddress
<1> QED
  BY <1>1, <1>2, <1>3, <1>4, <1>5

LEMMA StepLocked ==
  ASSUME LockedInv, NEW c \in Call, Alone(c),
         \A a \in locked' : Holds(c, a)' \/ (a \in locked /\ ~Holds(c, a))
  PROVE  LockedInv'
BY DEF LockedInv, Alone, Holds, HasAddress

LEMMA ChoosingLocked ==
  ASSUME TypeInv, LockedInv, NEW c \in Call, MadeInv(c), Choosing(c)
  PROVE  LockedInv'
<1>0. CallOK /\ CallOK' /\ Alone(c)
  BY ChoosingType, TypeParts DEF TypeInv, TypeOK, CallOK
<1>1. ASSUME Enter(c) \/ InitializeShare(c) \/ GetExistingFpg(c) PROVE LockedInv'
  <2>1. \A a \in locked' : Holds(c, a)' \/ (a \in locked /\ ~Holds(c, a))
    BY <1>1, <1>0, AddressFacts, ViewFacts, TypeParts
       DEF Enter, InitializeShare, GetExistingFpg, Use, Holds, MadeInv, At, GoTo, End,
           Fail, Acquire, ControlOK, CallOK, call, ips, Undo
  <2> QED
    BY <1>0, <2>1, StepLocked
<1>2. ASSUME GetDefaultFpgs(c) \/ PickDefaultFpg(c) PROVE LockedInv'
  <2>1. \A a \in locked' : Holds(c, a)' \/ (a \in locked /\ ~Holds(c, a))
    BY <1>2, <1>0, AddressFacts, ViewFacts, TypeParts
       DEF GetDefaultFpgs, PickDefaultFpg, Use, Holds, MadeInv, At, GoTo, End, Fail,
           Acquire, ControlOK, CallOK, call, ips, Undo
  <2> QED
    BY <1>0, <2>1, StepLocked
<1> QED
  BY <1>1, <1>2 DEF Choosing

LEMMA MakingFpgLocked ==
  ASSUME TypeInv, LockedInv, NEW c \in Call, MadeInv(c), MakingFpg(c)
  PROVE  LockedInv'
<1>0. CallOK /\ CallOK' /\ Alone(c)
  BY MakingFpgType, TypeParts DEF TypeInv, TypeOK, CallOK
<1>1. ASSUME \/ DrawName(c) \/ CreateFpg(c) \/ AddToDefaultFpg(c)
             \/ SaveFpgMetadata(c)
      PROVE  LockedInv'
  <2>1. \A a \in locked' : Holds(c, a)' \/ (a \in locked /\ ~Holds(c, a))
    BY <1>1, <1>0, AddressFacts, ViewFacts, TypeParts
       DEF DrawName, CreateFpg, AddToDefaultFpg, SaveFpgMetadata, Holds, MadeInv, At,
           GoTo, End, Fail, Acquire, ControlOK, CallOK, call, ips, Undo
  <2> QED
    BY <1>0, <2>1, StepLocked
<1>2. ASSUME CreateVfs(c) \/ UpdateFpgMetadata(c) \/ MarkIpInUse(c) PROVE LockedInv'
  <2>1. \A a \in locked' : Holds(c, a)' \/ (a \in locked /\ ~Holds(c, a))
    BY <1>2, <1>0, AddressFacts, TypeParts
       DEF CreateVfs, UpdateFpgMetadata, MarkIpInUse, Holds, MadeInv, At, GoTo, End,
           Fail, Acquire, ControlOK, CallOK, call, ips, Undo
  <2> QED
    BY <1>0, <2>1, StepLocked
<1>3. ASSUME ClaimAvailableIp(c) PROVE LockedInv'
  <2>1. \A b : ~Holds(c, b)
    BY <1>3 DEF Holds, ClaimAvailableIp, Claim, At, Undo
  <2>2. ASSUME NEW a \in Pool, locked' = locked \union {a}, view' = [view EXCEPT ![c].ip = a],
               made' = [made EXCEPT ![c] = Append(@, "ip")], GoTo(c, "vfs")
        PROVE  \A b \in locked' : Holds(c, b)' \/ b \in locked
    <3>1. view'[c].ip = a
      <4>1. a \in Ip
        BY <2>2, ShareAssumption
      <4> QED
        BY <2>2, <4>1, ViewFacts, TypeParts
    <3>2. pc'[c] = "vfs" /\ HasAddress(c)'
      BY <1>0, <2>2, AddressFacts, TypeParts DEF GoTo, ControlOK
    <3>3. Holds(c, a)'
      BY <3>1, <3>2 DEF Holds
    <3> QED
      BY <2>2, <3>3
  <2>3. \/ locked' = locked
        \/ \E a \in Pool : /\ locked' = locked \union {a} /\ view' = [view EXCEPT ![c].ip = a]
                           /\ made' = [made EXCEPT ![c] = Append(@, "ip")]
                           /\ GoTo(c, "vfs")
    BY <1>3 DEF ClaimAvailableIp, Claim
  <2>4. \A a \in locked' : Holds(c, a)' \/ (a \in locked /\ ~Holds(c, a))
    BY <2>1, <2>2, <2>3
  <2> QED
    BY <1>0, <2>4, StepLocked
<1> QED
  BY <1>1, <1>2, <1>3 DEF MakingFpg

LEMMA MakingShareLocked ==
  ASSUME TypeInv, LockedInv, NEW c \in Call, MadeInv(c), MakingShare(c)
  PROVE  LockedInv'
<1>0. CallOK /\ CallOK' /\ Alone(c)
  BY MakingShareType, TypeParts DEF TypeInv, TypeOK, CallOK
<1>1. ASSUME \/ CreateShare(c) \/ SaveShareId(c) \/ SetQuota(c)
             \/ MakeAvailable(c) \/ CreationRaises(c)
      PROVE  LockedInv'
  <2>1. \A a \in locked' : Holds(c, a)' \/ (a \in locked /\ ~Holds(c, a))
    <3>1. CASE CreateShare(c)
      BY <3>1, <1>0, AddressFacts, ViewFacts, TypeParts
         DEF CreateShare, Holds, At, GoTo, Fail, ControlOK, CallOK, call, ips, Undo
    <3>2. CASE SaveShareId(c)
      BY <3>2, <1>0, AddressFacts, ViewFacts, TypeParts
         DEF SaveShareId, Holds, At, GoTo, Fail, ControlOK, CallOK, ips, Undo
    <3>3. CASE SetQuota(c)
      BY <3>3, <1>0, AddressFacts, ViewFacts, TypeParts
         DEF SetQuota, QuotaFails, Holds, At, GoTo, Fail, ControlOK, CallOK, call,
             ips, Undo
    <3>4. CASE MakeAvailable(c)
      BY <3>4, <1>0, AddressFacts, ViewFacts, TypeParts
         DEF MakeAvailable, QuotaFails, Holds, At, GoTo, End, Fail, ControlOK, CallOK,
             call, ips, Undo
    <3>5. CASE CreationRaises(c)
      BY <3>5, <1>0, AddressFacts, ViewFacts, TypeParts
         DEF CreationRaises, QuotaFails, Holds, At, GoTo, Fail, ControlOK, CallOK,
             call, ips, Undo
    <3> QED
      BY <1>1, <3>1, <3>2, <3>3, <3>4, <3>5
  <2> QED
    BY <1>0, <2>1, StepLocked
<1> QED
  BY <1>1 DEF MakingShare

LEMMA UndoingLocked ==
  ASSUME TypeInv, LockedInv, NEW c \in Call, MadeInv(c), Undoing(c)
  PROVE  LockedInv'
<1>0. CallOK /\ CallOK' /\ Alone(c)
  BY UndoingType, TypeParts DEF TypeInv, TypeOK, CallOK
<1>1. ASSUME \/ UndoRaises(c) \/ UndoShare(c) \/ UndoIp(c) \/ UndoFpg(c)
             \/ UndoDefault(c)
      PROVE  LockedInv'
  <2>1. \A a \in locked' : Holds(c, a)' \/ (a \in locked /\ ~Holds(c, a))
    BY <1>1, <1>0, AddressFacts, ViewFacts, TypeParts
       DEF UndoRaises, UndoShare, UndoIp, UndoFpg, UndoDefault, DeleteFromArray,
           Holds, MadeInv, At, GoTo, End, Fail, Acquire, ControlOK, CallOK, call, ips,
           Undo
  <2> QED
    BY <1>0, <2>1, StepLocked
<1>2. ASSUME SaveFailed(c) PROVE LockedInv'
  <2>1. /\ made' = made /\ locked' = locked /\ view'[c].ip = view[c].ip
        /\ UndoNext(c, made[c]) \/ End(c, "broken")
    BY <1>2, ViewFacts, TypeParts DEF SaveFailed, ips
  <2>2. made[c] # <<>> => pc'[c] \in Undo \union {"broken"}
    BY <1>0, <2>1, NextUndo, TypeParts DEF Undo, CallOK, End, GoTo, ControlOK
  <2>3. HasAddress(c) => HasAddress(c)' /\ made[c] # <<>>
    BY <1>0, <2>1, AddressFacts
  <2>4. \A a \in locked' : Holds(c, a)' \/ (a \in locked /\ ~Holds(c, a))
    BY <2>1, <2>2, <2>3 DEF Holds
  <2> QED
    BY <1>0, <2>4, StepLocked
<1>3. ASSUME UndoStore(c) PROVE LockedInv'
  <2>1. /\ view' = view /\ locked' = locked /\ made'[c] \in Seq({"fpg", "ip", "share"})
        /\ IF LastMade(c, "share") THEN Undone(c) ELSE made'[c] = made[c]
    BY <1>3, <1>0, MadeFacts DEF UndoStore, CallOK, LastMade, ips
  <2>2. LastMade(c, "share") => ~LastMade(c, "ip")
    BY DEF LastMade
  <2>3. HasAddress(c) => HasAddress(c)' /\ made'[c] # <<>>
    BY <1>0, <2>1, <2>2, AddressFacts
  <2>4. HasAddress(c) => ~(view[c].status # "FAILED" /\ LastMade(c, "share"))
    BY <1>3, <1>0, AddressFacts DEF UndoStore, At, MadeInv
  <2>5. HasAddress(c) => Fail(c) \/ UndoNext(c, made'[c])
    BY <1>3, <2>4 DEF UndoStore, LastMade
  <2>6. HasAddress(c) => pc'[c] \in Undo \union {"fail"}
    BY <2>1, <2>3, <2>5, NextUndo, TypeParts DEF Undo, Fail, GoTo, ControlOK
  <2>7. \A a \in locked' : Holds(c, a)' \/ (a \in locked /\ ~Holds(c, a))
    BY <2>1, <2>3, <2>6 DEF Holds
  <2> QED
    BY <1>0, <2>7, StepLocked
<1>4. ASSUME UndoMeta(c) PROVE LockedInv'
  <2>1. /\ Undone(c) /\ UndoNext(c, made'[c]) /\ LastMade(c, "fpg")
        /\ locked' = locked /\ view' = view
    BY <1>4 DEF UndoMeta, At, MadeInv, ips
  <2>2. HasAddress(c) => HasAddress(c)' /\ made'[c] # <<>>
    BY <1>0, <2>1, AddressFacts DEF LastMade
  <2>3. made'[c] # <<>> => pc'[c] \in Undo
    BY <1>0, <2>1, NextUndo DEF Undo, CallOK
  <2>4. \A a \in locked' : Holds(c, a)' \/ (a \in locked /\ ~Holds(c, a))
    BY <2>1, <2>2, <2>3 DEF Holds
  <2> QED
    BY <1>0, <2>4, StepLocked
<1> QED
  BY <1>1, <1>2, <1>3, <1>4 DEF Undoing

LEMMA RemovingLocked ==
  ASSUME TypeInv, LockedInv, NEW c \in Call, MadeInv(c), Removing(c)
  PROVE  LockedInv'
<1>0. CallOK /\ CallOK' /\ Alone(c)
  BY RemovingType, TypeParts DEF TypeInv, TypeOK, CallOK
<1>1. ASSUME \/ DeleteShare(c) \/ DeleteShareRecord(c) \/ MarkShareFailed(c)
             \/ DeleteFileStore(c) \/ CountShares(c) \/ CheckOwner(c)
             \/ DeleteFpg(c) \/ DeleteFpgMetadata(c) \/ ReleaseIp(c)
             \/ RemovalRaises(c)
      PROVE  LockedInv'
  <2>1. \A a \in locked' : Holds(c, a)' \/ (a \in locked /\ ~Holds(c, a))
    BY <1>1, <1>0, AddressFacts, TypeParts
       DEF DeleteShare, DeleteShareRecord, MarkShareFailed, DeleteFileStore,
           CountShares, CheckOwner, DeleteFpg, DeleteFpgMetadata, ReleaseIp,
           RemovalRaises, DeleteFromArray, Holds, MadeInv, At, GoTo, End, Fail,
           Acquire, ControlOK, CallOK, call, ips, Undo
  <2> QED
    BY <1>0, <2>1, StepLocked
<1> QED
  BY <1>1 DEF Removing

LEMMA EndingLocked ==
  ASSUME TypeInv, LockedInv, NEW c \in Call, MadeInv(c), LockTimeout(c) \/ Crash(c)
  PROVE  LockedInv'
<1>0. CallOK /\ CallOK' /\ Alone(c)
  BY EndingType, TypeParts DEF TypeInv, TypeOK, CallOK
<1>1. ASSUME LockTimeout(c) \/ Crash(c) PROVE LockedInv'
  <2>1. \A a \in locked' : Holds(c, a)' \/ (a \in locked /\ ~Holds(c, a))
    BY <1>1, <1>0, AddressFacts, TypeParts
       DEF LockTimeout, Crash, Holds, MadeInv, At, GoTo, End, Fail, Acquire,
           ControlOK, CallOK, call, ips, Undo
  <2> QED
    BY <1>0, <2>1, StepLocked
<1> QED
  BY <1>1

-----------------------------------------------------------------------------
(* The records in CREATING *)

\* From when it has written the record until it has written it again.
Working(c, s) ==
  /\ Creates(c) /\ MyShare(c) = s
  /\ \/ pc[c] \in (Early \ {"enter", "init"}) \union Late \union {"fail", "broken", "dead"}
     \/ pc[c] \in {"undo_share", "undo_store"} /\ view[c].status # "FAILED"

Creating(s) == rec[s] # None /\ rec[s].status = "CREATING"

Serving(c) ==
  /\ pc[c] \in Creation => Creates(c)
  /\ pc[c] \in Creation \ Undo => view[c].status # "FAILED"

SettledInv ==
  /\ \A c \in Call : Serving(c)
  /\ \A s \in Share : Creating(s) => \E c \in Call : Working(c, s)

LEMMA StatusFacts ==
  ASSUME CallOK, NEW c \in Call
  PROVE  /\ \A f, a : view' = [view EXCEPT ![c].fpg = f, ![c].ip = a] =>
              view'[c].status = view[c].status
         /\ \A f : view' = [view EXCEPT ![c].fpg = f] => view'[c].status = view[c].status
         /\ \A a : view' = [view EXCEPT ![c].ip = a] => view'[c].status = view[c].status
         /\ \A i : view' = [view EXCEPT ![c].id = i] => view'[c].status = view[c].status
<1>1. view[c] \in Record /\ c \in DOMAIN view
  BY DEF CallOK
<1> QED
  BY <1>1 DEF Record

LEMMA StepSettled ==
  ASSUME SettledInv, NEW c \in Call, Alone(c), Serving(c)',
         \A s \in Share : Creating(s)' => Working(c, s)' \/ (Creating(s) /\ ~Working(c, s))
  PROVE  SettledInv'
<1>1. \A d \in Call : Serving(d)'
  BY DEF SettledInv, Alone, Serving, Creates
<1>2. ASSUME NEW s \in Share, Creating(s)' PROVE \E d \in Call : Working(d, s)'
  <2>1. CASE Working(c, s)'
    BY <2>1
  <2>2. CASE Creating(s) /\ ~Working(c, s)
    <3>1. PICK d \in Call : Working(d, s)
      BY <2>2 DEF SettledInv
    <3>2. d # c
      BY <2>2, <3>1
    <3>3. Working(d, s)'
      BY <3>1, <3>2 DEF Alone, Working, Creates, MyShare
    <3> QED
      BY <3>3
  <2> QED
    BY <1>2, <2>1, <2>2
<1> QED
  BY <1>1, <1>2 DEF SettledInv

\* The two ways to keep it: the call works on its share, or it leaves no record of it
\* in CREATING.
LEMMA OwnShare ==
  ASSUME NEW c \in Call, req'[c] = req[c],
         \A s \in Share : s # MyShare(c) => rec'[s] = rec[s],
         \/ Creates(c) /\ Working(c, MyShare(c))'
         \/ MyShare(c) \in Share => ~Creating(MyShare(c))'
         \/ MyShare(c) \in Share =>
              rec'[MyShare(c)] = rec[MyShare(c)] /\ ~Working(c, MyShare(c))
  PROVE  \A s \in Share : Creating(s)' => Working(c, s)' \/ (Creating(s) /\ ~Working(c, s))
BY DEF Creating, Working, MyShare, Creates

LEMMA ChoosingSettled ==
  ASSUME TypeInv, SettledInv, NEW c \in Call, MadeInv(c), Choosing(c)
  PROVE  SettledInv'
<1>0. CallOK /\ CallOK' /\ Alone(c)
  BY ChoosingType, TypeParts DEF TypeInv, TypeOK, CallOK
<1>1. ASSUME Enter(c) \/ GetDefaultFpgs(c) PROVE SettledInv'
  <2>1. Serving(c)'
    BY <1>1, <1>0, TypeParts, ViewFacts
       DEF Enter, GetDefaultFpgs, SettledInv, Serving, Creates, At, GoTo, End, Fail,
           Acquire, ControlOK, CallOK, call, Creation, Early, Late, Undo
  <2>2. \A s \in Share : Creating(s)' => Working(c, s)' \/ (Creating(s) /\ ~Working(c, s))
    BY <1>1, <1>0, <2>1, TypeParts, ViewFacts
       DEF Enter, GetDefaultFpgs, SettledInv, Serving, Working, Creating, Creates,
           MyShare, At, GoTo, End, Fail, Acquire, ControlOK, CallOK, call, Early, Late
  <2> QED
    BY <1>0, <2>1, <2>2, StepSettled
<1>2. ASSUME InitializeShare(c) PROVE SettledInv'
  <2>3. pc[c] \in Creation \ Undo /\ view' = view /\ req' = req
    BY <1>2 DEF InitializeShare, At, call, Creation, Early, Late, Undo
  <2>4. pc'[c] \in {"getter"}
    BY <1>2, TypeParts DEF InitializeShare, Fail, End, GoTo, Acquire, ControlOK
  <2>1. Serving(c)'
    BY <2>3, <2>4 DEF SettledInv, Serving, Creates, Creation, Early, Late, Undo
  <2>5. Creates(c) /\ view[c].status # "FAILED"
    BY <2>3 DEF SettledInv, Serving
  <2>6. \A s \in Share : s # MyShare(c) => rec'[s] = rec[s]
    BY <1>2, TypeParts DEF InitializeShare, RecOK
  <2>7. Working(c, MyShare(c))'
    BY <2>3, <2>4, <2>5 DEF Working, Creates, MyShare, Early, Late
  <2>2. \A s \in Share : Creating(s)' => Working(c, s)' \/ (Creating(s) /\ ~Working(c, s))
    BY <2>3, <2>5, <2>6, <2>7, OwnShare
  <2> QED
    BY <1>0, <2>1, <2>2, StepSettled
<1>3. ASSUME GetExistingFpg(c) PROVE SettledInv'
  <2>3. view'[c].status = view[c].status
    BY <1>3, <1>0, StatusFacts DEF GetExistingFpg, Use
  <2>4. pc[c] \in (Early \ {"enter", "init"}) \union Late /\ req' = req /\ rec' = rec
    BY <1>3 DEF GetExistingFpg, Use, At, Early, Late, call
  <2>5. pc'[c] \in (Early \ {"enter", "init"}) \union Late \union {"fail"}
    BY <1>3, TypeParts DEF GetExistingFpg, Use, Fail, GoTo, ControlOK, Early, Late
  <2>1. Serving(c)'
    BY <2>3, <2>4, <2>5 DEF SettledInv, Serving, Creates, Creation, Early, Late, Undo
  <2>2. \A s \in Share : Creating(s)' => Working(c, s)' \/ (Creating(s) /\ ~Working(c, s))
    BY <2>4, <2>5 DEF Working, Creating, Creates, MyShare, Early, Late
  <2> QED
    BY <1>0, <2>1, <2>2, StepSettled
<1>4. ASSUME PickDefaultFpg(c) PROVE SettledInv'
  <2>3. view'[c].status = view[c].status
    BY <1>4, <1>0, StatusFacts DEF PickDefaultFpg, Use
  <2>4. pc[c] \in (Early \ {"enter", "init"}) \union Late /\ req' = req /\ rec' = rec
    BY <1>4 DEF PickDefaultFpg, Use, At, Early, Late, call
  <2>5. pc'[c] \in (Early \ {"enter", "init"}) \union Late \union {"fail"}
    BY <1>4, TypeParts DEF PickDefaultFpg, Use, Fail, GoTo, ControlOK, Early, Late
  <2>1. Serving(c)'
    BY <2>3, <2>4, <2>5 DEF SettledInv, Serving, Creates, Creation, Early, Late, Undo
  <2>2. \A s \in Share : Creating(s)' => Working(c, s)' \/ (Creating(s) /\ ~Working(c, s))
    BY <2>4, <2>5 DEF Working, Creating, Creates, MyShare, Early, Late
  <2> QED
    BY <1>0, <2>1, <2>2, StepSettled
<1> QED
  BY <1>1, <1>2, <1>3, <1>4 DEF Choosing

LEMMA MakingFpgSettled ==
  ASSUME TypeInv, SettledInv, NEW c \in Call, MadeInv(c), MakingFpg(c)
  PROVE  SettledInv'
<1>0. CallOK /\ CallOK' /\ Alone(c)
  BY MakingFpgType, TypeParts DEF TypeInv, TypeOK, CallOK
<1>1. ASSUME DrawName(c) PROVE SettledInv'
  <2>1. Serving(c)'
    BY <1>1, <1>0, TypeParts, ViewFacts
       DEF DrawName, SettledInv, Serving, Creates, At, GoTo, End, Fail, Acquire,
           ControlOK, CallOK, call, Creation, Early, Late, Undo
  <2>2. \A s \in Share : Creating(s)' => Working(c, s)' \/ (Creating(s) /\ ~Working(c, s))
    BY <1>1, <1>0, <2>1, TypeParts, ViewFacts
       DEF DrawName, SettledInv, Serving, Working, Creating, Creates, MyShare, At,
           GoTo, End, Fail, Acquire, ControlOK, CallOK, call, Early, Late
  <2> QED
    BY <1>0, <2>1, <2>2, StepSettled
<1>2. ASSUME CreateFpg(c) PROVE SettledInv'
  <2>1. Serving(c)'
    BY <1>2, <1>0, TypeParts
       DEF CreateFpg, SettledInv, Serving, Creates, At, GoTo, End, Fail, Acquire,
           ControlOK, CallOK, call, Creation, Early, Late, Undo
  <2>2. \A s \in Share : Creating(s)' => Working(c, s)' \/ (Creating(s) /\ ~Working(c, s))
    BY <1>2, <1>0, <2>1, TypeParts
       DEF CreateFpg, SettledInv, Serving, Working, Creating, Creates, MyShare, At,
           GoTo, End, Fail, Acquire, ControlOK, CallOK, call, Early, Late
  <2> QED
    BY <1>0, <2>1, <2>2, StepSettled
<1>3. ASSUME AddToDefaultFpg(c) PROVE SettledInv'
  <2>1. Serving(c)'
    BY <1>3, <1>0, TypeParts
       DEF AddToDefaultFpg, SettledInv, Serving, Creates, At, GoTo, End, Fail,
           Acquire, ControlOK, CallOK, call, Creation, Early, Late, Undo
  <2>2. \A s \in Share : Creating(s)' => Working(c, s)' \/ (Creating(s) /\ ~Working(c, s))
    BY <1>3, <1>0, <2>1, TypeParts
       DEF AddToDefaultFpg, SettledInv, Serving, Working, Creating, Creates, MyShare,
           At, GoTo, End, Fail, Acquire, ControlOK, CallOK, call, Early, Late
  <2> QED
    BY <1>0, <2>1, <2>2, StepSettled
<1>4. ASSUME CreateVfs(c) \/ UpdateFpgMetadata(c) \/ MarkIpInUse(c) PROVE SettledInv'
  <2>1. Serving(c)'
    BY <1>4, <1>0, TypeParts
       DEF CreateVfs, UpdateFpgMetadata, MarkIpInUse, SettledInv, Serving, Creates,
           At, GoTo, End, Fail, Acquire, ControlOK, CallOK, call, Creation, Early,
           Late, Undo
  <2>2. \A s \in Share : Creating(s)' => Working(c, s)' \/ (Creating(s) /\ ~Working(c, s))
    BY <1>4, <1>0, <2>1, TypeParts
       DEF CreateVfs, UpdateFpgMetadata, MarkIpInUse, SettledInv, Serving, Working,
           Creating, Creates, MyShare, At, GoTo, End, Fail, Acquire, ControlOK,
           CallOK, call, Early, Late
  <2> QED
    BY <1>0, <2>1, <2>2, StepSettled
<1>5. ASSUME SaveFpgMetadata(c) PROVE SettledInv'
  <2>3. view'[c].status = view[c].status
    BY <1>5, <1>0, StatusFacts DEF SaveFpgMetadata
  <2>4. pc[c] \in (Early \ {"enter", "init"}) \union Late /\ req' = req /\ rec' = rec
    BY <1>5 DEF SaveFpgMetadata, At, Early, Late, call
  <2>5. pc'[c] \in (Early \ {"enter", "init"}) \union Late \union {"fail"}
    BY <1>5, TypeParts DEF SaveFpgMetadata, Fail, GoTo, ControlOK, Early, Late
  <2>1. Serving(c)'
    BY <2>3, <2>4, <2>5 DEF SettledInv, Serving, Creates, Creation, Early, Late, Undo
  <2>2. \A s \in Share : Creating(s)' => Working(c, s)' \/ (Creating(s) /\ ~Working(c, s))
    BY <2>4, <2>5 DEF Working, Creating, Creates, MyShare, Early, Late
  <2> QED
    BY <1>0, <2>1, <2>2, StepSettled
<1>6. ASSUME ClaimAvailableIp(c) PROVE SettledInv'
  <2>3. view'[c].status = view[c].status
    BY <1>6, <1>0, StatusFacts DEF ClaimAvailableIp, Claim
  <2>4. pc[c] \in (Early \ {"enter", "init"}) \union Late /\ req' = req /\ rec' = rec
    BY <1>6 DEF ClaimAvailableIp, Claim, At, Early, Late, call
  <2>5. pc'[c] \in (Early \ {"enter", "init"}) \union Late \union {"fail"}
    BY <1>6, TypeParts DEF ClaimAvailableIp, Claim, Fail, GoTo, ControlOK, Early, Late
  <2>1. Serving(c)'
    BY <2>3, <2>4, <2>5 DEF SettledInv, Serving, Creates, Creation, Early, Late, Undo
  <2>2. \A s \in Share : Creating(s)' => Working(c, s)' \/ (Creating(s) /\ ~Working(c, s))
    BY <2>4, <2>5 DEF Working, Creating, Creates, MyShare, Early, Late
  <2> QED
    BY <1>0, <2>1, <2>2, StepSettled
<1> QED
  BY <1>1, <1>2, <1>3, <1>4, <1>5, <1>6 DEF MakingFpg

LEMMA MakingShareSettled ==
  ASSUME TypeInv, SettledInv, NEW c \in Call, MadeInv(c), MakingShare(c)
  PROVE  SettledInv'
<1>0. CallOK /\ CallOK' /\ Alone(c)
  BY MakingShareType, TypeParts DEF TypeInv, TypeOK, CallOK
<1>1. ASSUME CreationRaises(c) PROVE SettledInv'
  <2>1. Serving(c)'
    BY <1>1, <1>0, TypeParts
       DEF CreationRaises, SettledInv, Serving, Creates, At, GoTo, End, Fail, Acquire,
           ControlOK, CallOK, call, Creation, Early, Late, Undo
  <2>2. \A s \in Share : Creating(s)' => Working(c, s)' \/ (Creating(s) /\ ~Working(c, s))
    BY <1>1, <1>0, <2>1, TypeParts
       DEF CreationRaises, SettledInv, Serving, Working, Creating, Creates, MyShare,
           At, GoTo, End, Fail, Acquire, ControlOK, CallOK, call, Early, Late
  <2> QED
    BY <1>0, <2>1, <2>2, StepSettled
<1>2. ASSUME CreateShare(c) PROVE SettledInv'
  <2>3. view'[c].status = view[c].status
    BY <1>2, <1>0, StatusFacts DEF CreateShare
  <2>4. pc[c] \in (Early \ {"enter", "init"}) \union Late /\ req' = req /\ rec' = rec
    BY <1>2 DEF CreateShare, At, Early, Late, call
  <2>5. pc'[c] \in (Early \ {"enter", "init"}) \union Late \union {"fail"}
    BY <1>2, TypeParts DEF CreateShare, Fail, GoTo, ControlOK, Early, Late
  <2>1. Serving(c)'
    BY <2>3, <2>4, <2>5 DEF SettledInv, Serving, Creates, Creation, Early, Late, Undo
  <2>2. \A s \in Share : Creating(s)' => Working(c, s)' \/ (Creating(s) /\ ~Working(c, s))
    BY <2>4, <2>5 DEF Working, Creating, Creates, MyShare, Early, Late
  <2> QED
    BY <1>0, <2>1, <2>2, StepSettled
<1>3. ASSUME SaveShareId(c) PROVE SettledInv'
  <2>3. pc[c] \in Creation \ Undo /\ view' = view /\ req' = req
    BY <1>3 DEF SaveShareId, At, call, Creation, Early, Late, Undo
  <2>4. pc'[c] \in {"quota", "undo_share"}
    BY <1>3, TypeParts DEF SaveShareId, Fail, End, GoTo, Acquire, ControlOK
  <2>1. Serving(c)'
    BY <2>3, <2>4 DEF SettledInv, Serving, Creates, Creation, Early, Late, Undo
  <2>5. Creates(c) /\ view[c].status # "FAILED"
    BY <2>3 DEF SettledInv, Serving
  <2>6. \A s \in Share : s # MyShare(c) => rec'[s] = rec[s]
    BY <1>3, TypeParts DEF SaveShareId, RecOK
  <2>7. Working(c, MyShare(c))'
    BY <2>3, <2>4, <2>5 DEF Working, Creates, MyShare, Early, Late
  <2>2. \A s \in Share : Creating(s)' => Working(c, s)' \/ (Creating(s) /\ ~Working(c, s))
    BY <2>3, <2>5, <2>6, <2>7, OwnShare
  <2> QED
    BY <1>0, <2>1, <2>2, StepSettled
<1>4. ASSUME SetQuota(c) PROVE SettledInv'
  <2>3. pc[c] \in Creation \ Undo /\ view' = view /\ req' = req
    BY <1>4 DEF SetQuota, At, call, Creation, Early, Late, Undo
  <2>4. pc'[c] \in {"finish", "fail", "undo_share"}
    BY <1>4, TypeParts DEF SetQuota, QuotaFails, Fail, End, GoTo, Acquire, ControlOK
  <2>1. Serving(c)'
    BY <2>3, <2>4 DEF SettledInv, Serving, Creates, Creation, Early, Late, Undo
  <2>5. Creates(c) /\ view[c].status # "FAILED"
    BY <2>3 DEF SettledInv, Serving
  <2>6. \A s \in Share : s # MyShare(c) => rec'[s] = rec[s]
    BY <1>4, TypeParts DEF SetQuota, RecOK
  <2>7. Working(c, MyShare(c))'
    BY <2>3, <2>4, <2>5 DEF Working, Creates, MyShare, Early, Late
  <2>2. \A s \in Share : Creating(s)' => Working(c, s)' \/ (Creating(s) /\ ~Working(c, s))
    BY <2>3, <2>5, <2>6, <2>7, OwnShare
  <2> QED
    BY <1>0, <2>1, <2>2, StepSettled
<1>5. ASSUME MakeAvailable(c) PROVE SettledInv'
  <2>3. pc[c] \in Creation \ Undo /\ view' = view /\ req' = req
    BY <1>5 DEF MakeAvailable, At, call, Creation, Early, Late, Undo
  <2>4. pc'[c] \in {"made", "fail", "draw", "fpg", "undo_share"}
    BY <1>5, TypeParts DEF MakeAvailable, QuotaFails, Fail, End, GoTo, Acquire, ControlOK
  <2>1. Serving(c)'
    BY <2>3, <2>4 DEF SettledInv, Serving, Creates, Creation, Early, Late, Undo
  <2>5. Creates(c) /\ view[c].status # "FAILED"
    BY <2>3 DEF SettledInv, Serving
  <2>6. \A s \in Share : s # MyShare(c) => rec'[s] = rec[s]
    BY <1>5, TypeParts DEF MakeAvailable, RecOK
  <2>7. \/ Working(c, MyShare(c))'
        \/ MyShare(c) \in Share => ~Creating(MyShare(c))'
    <3>1. CASE pc'[c] # "made"
      BY <2>3, <2>4, <2>5, <3>1 DEF Working, Creates, MyShare, Early, Late
    <3>2. CASE pc'[c] = "made"
      <4>1. /\ rec[MyShare(c)] # None
            /\ rec' = [rec EXCEPT ![MyShare(c)].status = "AVAILABLE"]
        BY <1>5, <3>2, TypeParts DEF MakeAvailable, QuotaFails, Fail, GoTo, ControlOK
      <4>2. ASSUME MyShare(c) \in Share PROVE rec'[MyShare(c)].status = "AVAILABLE"
        <5>1. rec[MyShare(c)] \in Record /\ MyShare(c) \in DOMAIN rec
          BY <4>1, <4>2, TypeParts DEF RecOK
        <5> QED
          BY <4>1, <5>1 DEF Record
      <4> QED
        BY <2>3, <4>2 DEF Creating, MyShare
    <3> QED
      BY <3>1, <3>2
  <2>2. \A s \in Share : Creating(s)' => Working(c, s)' \/ (Creating(s) /\ ~Working(c, s))
    BY <2>3, <2>5, <2>6, <2>7, OwnShare
  <2> QED
    BY <1>0, <2>1, <2>2, StepSettled
<1> QED
  BY <1>1, <1>2, <1>3, <1>4, <1>5 DEF MakingShare

\* A step of the undo keeps it: before the record is marked the creation still works on
\* it; afterwards it counts no more.
LEMMA UndoStepSettled ==
  ASSUME SettledInv, NEW c \in Call, Alone(c), pc[c] \in Undo,
         req' = req, rec' = rec, view' = view,
         \/ view[c].status = "FAILED" /\ pc'[c] \in Undo \union {"failed", "broken"}
         \/ view[c].status # "FAILED" /\ pc'[c] \in {"fail", "pick", "undo_store"}
  PROVE  SettledInv'
<1>1. Creates(c) /\ Creates(c)'
  BY DEF SettledInv, Serving, Creation, Creates
<1>2. Serving(c)'
  BY <1>1 DEF Serving, Creation, Early, Late, Undo
<1>3. CASE view[c].status = "FAILED"
  <2>1. \A s \in Share : ~Working(c, s)
    BY <1>3 DEF Working, Undo, Early, Late
  <2>2. \A s \in Share : Creating(s)' => Creating(s)
    BY DEF Creating
  <2> QED
    BY <1>2, <2>1, <2>2, StepSettled
<1>4. CASE view[c].status # "FAILED"
  <2>1. \A s \in Share : MyShare(c) = s => Working(c, s)'
    BY <1>1, <1>4 DEF Working, MyShare, Early, Late
  <2>2. \A s \in Share : MyShare(c) # s => ~Working(c, s)
    BY DEF Working
  <2>3. \A s \in Share : Creating(s)' => Creating(s)
    BY DEF Creating
  <2> QED
    BY <1>2, <2>1, <2>2, <2>3, StepSettled
<1> QED
  BY <1>3, <1>4

LEMMA UndoingSettled ==
  ASSUME TypeInv, SettledInv, NEW c \in Call, MadeInv(c), Undoing(c)
  PROVE  SettledInv'
<1>0. CallOK /\ CallOK' /\ Alone(c)
  BY UndoingType, TypeParts DEF TypeInv, TypeOK, CallOK
<1>1. ASSUME UndoRaises(c) PROVE SettledInv'
  <2>1. pc[c] \in Undo /\ req' = req /\ rec' = rec /\ view' = view
    BY <1>1 DEF UndoRaises, call, Undo
  <2>2. pc'[c] = IF view[c].status = "FAILED" THEN "broken" ELSE "fail"
    BY <1>1, TypeParts DEF UndoRaises, End, Fail, GoTo, ControlOK
  <2> QED
    BY <1>0, <2>1, <2>2, UndoStepSettled DEF Undo
<1>2. ASSUME UndoShare(c) PROVE SettledInv'
  <2>1. pc[c] \in Undo /\ req' = req /\ rec' = rec /\ view' = view
    BY <1>2 DEF UndoShare, At, call, Undo
  <2>2. pc'[c] = "undo_store"
    BY <1>2, TypeParts DEF UndoShare, GoTo, ControlOK
  <2> QED
    BY <1>0, <2>1, <2>2, UndoStepSettled DEF Undo
<1>3. ASSUME UndoStore(c) PROVE SettledInv'
  <2>1. pc[c] \in Undo /\ req' = req /\ rec' = rec /\ view' = view
    BY <1>3 DEF UndoStore, At, Undo
  <2>2. CASE view[c].status = "FAILED"
    <3>1. UndoNext(c, made'[c])
      BY <1>3, <2>2 DEF UndoStore
    <3>2. pc'[c] \in Undo \union {"failed", "broken"}
      BY <1>0, <3>1, NextUndo DEF CallOK, Undo
    <3> QED
      BY <1>0, <2>1, <2>2, <3>2, UndoStepSettled
  <2>3. CASE view[c].status # "FAILED"
    <3>1. GoTo(c, "pick") \/ Fail(c)
      BY <1>3, <2>3 DEF UndoStore
    <3>2. pc'[c] \in {"fail", "pick", "undo_store"}
      BY <3>1, TypeParts DEF GoTo, Fail, ControlOK
    <3> QED
      BY <1>0, <2>1, <2>3, <3>2, UndoStepSettled
  <2> QED
    BY <2>2, <2>3
<1>4. ASSUME UndoIp(c) \/ UndoMeta(c) PROVE SettledInv'
  <2>1. pc[c] \in Undo /\ req' = req /\ rec' = rec /\ view' = view
    BY <1>4 DEF UndoIp, UndoMeta, At, Undo
  <2>2. view[c].status = "FAILED"
    BY <1>4 DEF UndoIp, UndoMeta, At, MadeInv
  <2>3. UndoNext(c, made'[c])
    BY <1>4 DEF UndoIp, UndoMeta
  <2>4. pc'[c] \in Undo \union {"failed", "broken"}
    BY <1>0, <2>3, NextUndo DEF CallOK, Undo
  <2> QED
    BY <1>0, <2>1, <2>2, <2>4, UndoStepSettled
<1>5. ASSUME UndoFpg(c) \/ UndoDefault(c) PROVE SettledInv'
  <2>1. pc[c] \in Undo /\ req' = req /\ rec' = rec /\ view' = view
    BY <1>5 DEF UndoFpg, UndoDefault, At, call, Undo
  <2>2. view[c].status = "FAILED"
    BY <1>5 DEF UndoFpg, UndoDefault, At, MadeInv
  <2>3. pc'[c] \in Undo
    BY <1>5, TypeParts DEF UndoFpg, UndoDefault, GoTo, ControlOK, Undo
  <2> QED
    BY <1>0, <2>1, <2>2, <2>3, UndoStepSettled
<1>6. ASSUME SaveFailed(c) PROVE SettledInv'
  <2>3. req' = req /\ pc[c] = "fail"
    BY <1>6 DEF SaveFailed, At
  <2>4. CASE End(c, "broken") /\ UNCHANGED <<view, rec>>
    <3>1. pc'[c] = "broken"
      BY <2>4, TypeParts DEF End, GoTo, ControlOK
    <3>2. Serving(c)'
      BY <3>1 DEF Serving, Creation, Early, Late, Undo
    <3>3. \A s \in Share : Creating(s)' => Working(c, s)' \/ (Creating(s) /\ ~Working(c, s))
      BY <2>3, <2>4, <3>1 DEF Working, Creating, Creates, MyShare
    <3> QED
      BY <1>0, <2>3, <3>2, <3>3, StepSettled
  <2>5. CASE /\ view' = [view EXCEPT ![c].status = "FAILED"]
             /\ rec' = [rec EXCEPT ![MyShare(c)] = view'[c]]
             /\ UndoNext(c, made[c])
    <3>1. view'[c].status = "FAILED"
      BY <2>5, ViewFacts, TypeParts
    <3>2. pc'[c] \in Undo \union {"failed"}
      BY <1>0, <2>5, NextUndo DEF CallOK, Undo
    <3>3. Serving(c)'
      BY <2>3, <3>2 DEF SettledInv, Serving, Creates, Creation, Early, Late, Undo
    <3>4. \A s \in Share : s # MyShare(c) => rec'[s] = rec[s]
      BY <2>5, TypeParts DEF RecOK
    <3>5. MyShare(c) \in Share => ~Creating(MyShare(c))'
      BY <2>3, <2>5, <3>1, TypeParts DEF Creating, MyShare, RecOK
    <3> QED
      BY <1>0, <2>3, <3>3, <3>4, <3>5, OwnShare, StepSettled
  <2> QED
    BY <1>6, <2>4, <2>5 DEF SaveFailed
<1> QED
  BY <1>1, <1>2, <1>3, <1>4, <1>5, <1>6 DEF Undoing

LEMMA RemovingSettled ==
  ASSUME TypeInv, SettledInv, NEW c \in Call, MadeInv(c), Removing(c)
  PROVE  SettledInv'
<1>0. CallOK /\ CallOK' /\ Alone(c)
  BY RemovingType, TypeParts DEF TypeInv, TypeOK, CallOK
<1>1. ASSUME DeleteShare(c) \/ DeleteFileStore(c) PROVE SettledInv'
  <2>1. Serving(c)'
    BY <1>1, <1>0, TypeParts
       DEF DeleteShare, DeleteFileStore, SettledInv, Serving, Creates, At, GoTo, End,
           Fail, Acquire, ControlOK, CallOK, call, Creation, Early, Late, Undo
  <2>2. \A s \in Share : Creating(s)' => Working(c, s)' \/ (Creating(s) /\ ~Working(c, s))
    BY <1>1, <1>0, <2>1, TypeParts
       DEF DeleteShare, DeleteFileStore, SettledInv, Serving, Working, Creating,
           Creates, MyShare, At, GoTo, End, Fail, Acquire, ControlOK, CallOK, call,
           Early, Late
  <2> QED
    BY <1>0, <2>1, <2>2, StepSettled
<1>2. ASSUME CountShares(c) PROVE SettledInv'
  <2>1. Serving(c)'
    BY <1>2, <1>0, TypeParts
       DEF CountShares, SettledInv, Serving, Creates, At, GoTo, End, Fail, Acquire,
           ControlOK, CallOK, call, Creation, Early, Late, Undo
  <2>2. \A s \in Share : Creating(s)' => Working(c, s)' \/ (Creating(s) /\ ~Working(c, s))
    BY <1>2, <1>0, <2>1, TypeParts
       DEF CountShares, SettledInv, Serving, Working, Creating, Creates, MyShare, At,
           GoTo, End, Fail, Acquire, ControlOK, CallOK, call, Early, Late
  <2> QED
    BY <1>0, <2>1, <2>2, StepSettled
<1>3. ASSUME CheckOwner(c) PROVE SettledInv'
  <2>1. Serving(c)'
    BY <1>3, <1>0, TypeParts
       DEF CheckOwner, SettledInv, Serving, Creates, At, GoTo, End, Fail, Acquire,
           ControlOK, CallOK, call, Creation, Early, Late, Undo
  <2>2. \A s \in Share : Creating(s)' => Working(c, s)' \/ (Creating(s) /\ ~Working(c, s))
    BY <1>3, <1>0, <2>1, TypeParts
       DEF CheckOwner, SettledInv, Serving, Working, Creating, Creates, MyShare, At,
           GoTo, End, Fail, Acquire, ControlOK, CallOK, call, Early, Late
  <2> QED
    BY <1>0, <2>1, <2>2, StepSettled
<1>4. ASSUME \/ DeleteFpg(c) \/ DeleteFpgMetadata(c) \/ ReleaseIp(c)
             \/ RemovalRaises(c)
      PROVE  SettledInv'
  <2>1. Serving(c)'
    BY <1>4, <1>0, TypeParts
       DEF DeleteFpg, DeleteFpgMetadata, ReleaseIp, RemovalRaises, DeleteFromArray,
           SettledInv, Serving, Creates, At, GoTo, End, Fail, Acquire, ControlOK,
           CallOK, call, Creation, Early, Late, Undo
  <2>2. \A s \in Share : Creating(s)' => Working(c, s)' \/ (Creating(s) /\ ~Working(c, s))
    BY <1>4, <1>0, <2>1, TypeParts
       DEF DeleteFpg, DeleteFpgMetadata, ReleaseIp, RemovalRaises, DeleteFromArray,
           SettledInv, Serving, Working, Creating, Creates, MyShare, At, GoTo, End,
           Fail, Acquire, ControlOK, CallOK, call, Early, Late
  <2> QED
    BY <1>0, <2>1, <2>2, StepSettled
<1>5. ASSUME DeleteShareRecord(c) PROVE SettledInv'
  <2>1. pc[c] \in Removal /\ req' = req /\ pc'[c] \in Removal \union {"done"}
    BY <1>5, TypeParts DEF DeleteShareRecord, At, call, End, GoTo, ControlOK, Removal
  <2>2. Serving(c)'
    BY <2>1 DEF Serving, Creation, Removal, Early, Late, Undo
  <2>3. \A s \in Share : s # MyShare(c) => rec'[s] = rec[s]
    BY <1>5, TypeParts DEF DeleteShareRecord, RecOK
  <2>4. ~Working(c, MyShare(c))
    BY <2>1 DEF Working, Removal, Early, Late
  <2>5. MyShare(c) \in Share => \/ rec'[MyShare(c)] = rec[MyShare(c)]
                                \/ ~Creating(MyShare(c))'
    BY <1>5, <2>1, TypeParts DEF DeleteShareRecord, Creating, MyShare, RecOK
  <2> QED
    BY <1>0, <2>1, <2>2, <2>3, <2>4, <2>5, OwnShare, StepSettled
<1>6. ASSUME MarkShareFailed(c) PROVE SettledInv'
  <2>1. pc[c] \in Removal /\ req' = req /\ pc'[c] \in Removal \union {"done"}
    BY <1>6, TypeParts DEF MarkShareFailed, At, call, End, GoTo, ControlOK, Removal
  <2>2. Serving(c)'
    BY <2>1 DEF Serving, Creation, Removal, Early, Late, Undo
  <2>3. \A s \in Share : s # MyShare(c) => rec'[s] = rec[s]
    BY <1>6, TypeParts DEF MarkShareFailed, RecOK
  <2>4. ~Working(c, MyShare(c))
    BY <2>1 DEF Working, Removal, Early, Late
  <2>5. MyShare(c) \in Share => \/ rec'[MyShare(c)] = rec[MyShare(c)]
                                \/ ~Creating(MyShare(c))'
    <3>1. CASE rec' = rec
      BY <3>1
    <3>2. CASE rec' = [rec EXCEPT ![MyShare(c)] = [view[c] EXCEPT !.status = "FAILED"]]
      <4>1. [view[c] EXCEPT !.status = "FAILED"].status = "FAILED"
        BY <1>0 DEF CallOK, Record
      <4> QED
        BY <2>1, <3>2, <4>1, TypeParts DEF Creating, MyShare, RecOK
    <3> QED
      BY <1>6, <3>1, <3>2 DEF MarkShareFailed
  <2> QED
    BY <1>0, <2>1, <2>2, <2>3, <2>4, <2>5, OwnShare, StepSettled
<1> QED
  BY <1>1, <1>2, <1>3, <1>4, <1>5, <1>6 DEF Removing

LEMMA EndingSettled ==
  ASSUME TypeInv, SettledInv, NEW c \in Call, MadeInv(c), LockTimeout(c) \/ Crash(c)
  PROVE  SettledInv'
<1>0. CallOK /\ CallOK' /\ Alone(c)
  BY EndingType, TypeParts DEF TypeInv, TypeOK, CallOK
<1>1. ASSUME LockTimeout(c) \/ Crash(c) PROVE SettledInv'
  <2>1. Serving(c)'
    BY <1>1, <1>0, TypeParts
       DEF LockTimeout, Crash, SettledInv, Serving, Creates, At, GoTo, End, Fail,
           Acquire, ControlOK, CallOK, call, Creation, Early, Late, Undo
  <2>2. \A s \in Share : Creating(s)' => Working(c, s)' \/ (Creating(s) /\ ~Working(c, s))
    BY <1>1, <1>0, <2>1, TypeParts
       DEF LockTimeout, Crash, SettledInv, Serving, Working, Creating, Creates,
           MyShare, At, GoTo, End, Fail, Acquire, ControlOK, CallOK, call, Early, Late
  <2> QED
    BY <1>0, <2>1, <2>2, StepSettled
<1> QED
  BY <1>1

-----------------------------------------------------------------------------
(* ShareInv and what follows from it *)

ShareInv ==
  /\ TypeInv
  /\ \A c \in Call : MadeInv(c)
  /\ ForeignInv
  /\ LockedInv
  /\ SettledInv

\* A step of one call that keeps its own part keeps everybody's.
LEMMA StepMade ==
  ASSUME \A d \in Call : MadeInv(d), NEW c \in Call, Alone(c), MadeInv(c)'
  PROVE  \A d \in Call : MadeInv(d)'
BY DEF Alone, MadeInv, AddressAfterFpg, LastMade, OnNewFpg

LEMMA ReceiveKeeps ==
  ASSUME ShareInv, NEW c \in Call, NEW r \in Request,
         ReceiveCreate(c, r) \/ ReceiveRemove(c, r)
  PROVE  ShareInv'
<1> USE DEF ShareInv
<1>0. TypeInv' /\ Alone(c) /\ CallOK /\ CallOK'
  BY ReceiveType, TypeParts DEF TypeInv, TypeOK, CallOK
<1>1. /\ made' = made /\ rec' = rec /\ locked' = locked /\ meta' = meta
      /\ fpgs' = fpgs /\ vfs' = vfs /\ pc[c] = "idle"
      /\ pc'[c] \in {"enter", "done", "forget", "delete_share"}
  BY <1>0, TypeParts
     DEF ReceiveCreate, ReceiveRemove, At, GoTo, ControlOK, ips, array
<1>2. \A d \in Call : MadeInv(d)'
  BY <1>0, ReceiveMade, StepMade
<1>3. ForeignInv'
  <2>1. ForeignKept' /\ \A f \in Foreign, g \in Cpg : meta'[<<g, f>>] = None
    BY <1>1 DEF ForeignInv, ForeignKept
  <2>2. ForeignCall(c)'
    BY <1>0, <1>1, ListFacts DEF MadeInv, ForeignCall
  <2> QED
    BY <1>0, <2>1, <2>2, StepForeign
<1>4. LockedInv'
  BY <1>0, <1>1, StepLocked DEF Holds, Undo
<1>5. SettledInv'
  <2>1. ASSUME pc'[c] \in Creation PROVE Creates(c)' /\ view'[c].status # "FAILED"
    <3>1. ReceiveCreate(c, r)
      BY <1>1, <2>1, TypeParts
         DEF ReceiveRemove, GoTo, ControlOK, Creation, Early, Late, Undo
    <3>2. r # None /\ r.op = "create" /\ req'[c] = r
      BY <3>1, ShareAssumption, TypeParts DEF ReceiveCreate, CallOK
    <3>3. view'[c] = [NoRecord EXCEPT !.cpg = r.cpg, !.fpg = r.fpg]
      BY <3>1, TypeParts DEF ReceiveCreate, CallOK
    <3> QED
      BY <3>2, <3>3 DEF Creates, NoRecord
  <2>2. \A s \in Share : Creating(s)' => Creating(s) /\ ~Working(c, s)
    BY <1>1 DEF Creating, Working, Early, Late
  <2> QED
    BY <1>0, <2>1, <2>2, StepSettled DEF Serving
<1> QED
  BY <1>0, <1>2, <1>3, <1>4, <1>5

\* Every step of a call that has its request, by the lemmas on each kind of action.
LEMMA CallKeeps ==
  ASSUME ShareInv, NEW c \in Call,
         \/ Choosing(c) \/ MakingFpg(c) \/ MakingShare(c) \/ Undoing(c) \/ Removing(c)
         \/ LockTimeout(c) \/ Crash(c)
  PROVE  ShareInv'
<1> USE DEF ShareInv
<1>1. TypeInv' /\ Alone(c)
  BY ChoosingType, MakingFpgType, MakingShareType, UndoingType, RemovingType, EndingType
<1>2. MadeInv(c)'
  BY ChoosingMade, MakingFpgMade, MakingShareMade, UndoingMade, RemovingMade, EndingMade
<1>3. ForeignInv'
  BY ChoosingForeign, MakingFpgForeign, MakingShareForeign, UndoingForeign,
     RemovingForeign, EndingForeign
<1>4. LockedInv'
  BY ChoosingLocked, MakingFpgLocked, MakingShareLocked, UndoingLocked,
     RemovingLocked, EndingLocked
<1>5. SettledInv'
  BY ChoosingSettled, MakingFpgSettled, MakingShareSettled, UndoingSettled,
     RemovingSettled, EndingSettled
<1> QED
  BY <1>1, <1>2, <1>3, <1>4, <1>5, StepMade

\* What does not move a call or change what the invariant speaks of.
LEMMA NothingMoves ==
  ASSUME ShareInv, TypeInv', UNCHANGED <<call, pc, rec, meta, ips, array>>
  PROVE  ShareInv'
<1> USE DEF ShareInv, call, ips, array
<1>1. \A c \in Call : MadeInv(c)'
  BY DEF MadeInv, AddressAfterFpg, LastMade, OnNewFpg
<1>2. ForeignInv'
  BY DEF ForeignInv, ForeignKept, ForeignCall, OnNewFpg, MyFpg
<1>3. LockedInv'
  BY DEF LockedInv, Holds, HasAddress
<1>4. SettledInv'
  BY DEF SettledInv, Serving, Working, Creating, Creates, MyShare
<1> QED
  BY <1>1, <1>2, <1>3, <1>4

LEMMA InitialShares == Init => ShareInv
<1> SUFFICES ASSUME Init PROVE ShareInv
  OBVIOUS
<1>1. TypeInv
  BY InitialTypes
<1>2. \A c \in Call : pc[c] \in {"made", "idle"} /\ made[c] = <<>>
  BY DEF Init
<1>3. \A c \in Call : ~OnNewFpg(c) /\ AddressAfterFpg(c)
  <2>1. DOMAIN <<>> = {}
    OBVIOUS
  <2> QED
    BY <1>2, <2>1 DEF OnNewFpg, AddressAfterFpg
<1>4. \A c \in Call : MadeInv(c)
  BY <1>2, <1>3 DEF MadeInv
<1>5. ForeignInv
  <2>1. ForeignKept
    BY ShareAssumption DEF Init, ForeignKept
  <2>2. \A f \in Foreign, g \in Cpg : meta[<<g, f>>] = None
    BY ShareAssumption DEF Init, Foreign, Owned
  <2>3. \A c \in Call : ForeignCall(c)
    BY <1>2, <1>3 DEF ForeignCall
  <2> QED
    BY <2>1, <2>2, <2>3 DEF ForeignInv
<1>6. LockedInv
  BY DEF Init, LockedInv
<1>7. SettledInv
  <2>1. \A c \in Call : Serving(c)
    BY <1>2 DEF Serving, Creation, Early, Late, Undo
  <2>2. \A s \in Share : ~Creating(s)
    BY DEF Init, Creating
  <2> QED
    BY <2>1, <2>2 DEF SettledInv
<1> QED
  BY <1>1, <1>4, <1>5, <1>6, <1>7 DEF ShareInv

LEMMA ShareStep == ShareInv /\ [Next]_vars => ShareInv'
<1> SUFFICES ASSUME ShareInv, [Next]_vars PROVE ShareInv'
  OBVIOUS
<1>1. ASSUME NEW c \in Call, NEW r \in Request, ReceiveCreate(c, r) \/ ReceiveRemove(c, r)
      PROVE  ShareInv'
  BY <1>1, ReceiveKeeps
<1>2. ASSUME NEW c \in Call,
             \/ Choosing(c) \/ MakingFpg(c) \/ MakingShare(c) \/ Undoing(c) \/ Removing(c)
             \/ LockTimeout(c) \/ Crash(c)
      PROVE  ShareInv'
  BY <1>2, CallKeeps
<1>3. ASSUME NEW k \in Key, OrphanExpires(k) PROVE ShareInv'
  BY <1>3, ExpiryType, NothingMoves DEF OrphanExpires, ShareInv
<1>4. ASSUME UNCHANGED vars PROVE ShareInv'
  <2>1. TypeInv'
    BY <1>4, TypeStep DEF ShareInv
  <2> QED
    BY <1>4, <2>1, NothingMoves DEF vars
<1> QED
  BY <1>1, <1>2, <1>3, <1>4 DEF Next

LEMMA ShareInvariant == Spec => []ShareInv
<1> QED
  BY InitialShares, ShareStep, PTL DEF Spec

\* ForeignKept: whatever shares are made and removed, with whatever failures, nothing that
\* the plugin does changes or deletes an FPG that an administrator made, or its VFS; neither
\* the undo of a creation (CreateFpgCmd.unexecute) nor the removal of the last share
\* (_fpg_owned_by_docker) takes it for one of its own.
THEOREM ForeignFpgsKept == Spec => []ForeignKept
<1>1. ShareInv => ForeignKept
  BY DEF ShareInv, ForeignInv
<1> QED
  BY <1>1, ShareInvariant, PTL

\* LockedIpsAccounted: an address in ips_locked_for_use has a creation that claimed it and
\* is still making or undoing its VFS, or died there: one that ends, made or failed, has
\* moved the address to ips_in_use or taken it out (mark_ip_in_use, ClaimAvailableIPCmd).
THEOREM LockedIpsHaveHolder == Spec => []LockedIpsAccounted
<1>1. ShareInv => LockedIpsAccounted
  BY DEF ShareInv, LockedInv, Holds, HasAddress, LockedIpsAccounted, Undo
<1> QED
  BY <1>1, ShareInvariant, PTL

\* Settled: a record in CREATING, which cannot be removed, has a creation that is at work
\* on it or died; each end of _create_share writes another status first.
THEOREM CreatingIsWorkedOn == Spec => []Settled
<1>1. ShareInv => Settled
  BY DEF ShareInv, SettledInv, Creating, Working, Settled, Early, Late
<1> QED
  BY <1>1, ShareInvariant, PTL

-----------------------------------------------------------------------------
(* The steps of each kind, by what they change of what the last two invariants speak of *)

LEMMA ChoosingSteps ==
  ASSUME TypeInv, NEW c \in Call, Choosing(c)
  PROVE  /\ UNCHANGED <<req, target, made, locked, fpgs, vfs, exports, failures>>
         /\ \/ pc[c] = "enter" /\ pc'[c] \in {"init", "done"} /\ rec' = rec
            \/ /\ pc[c] = "init" /\ pc'[c] = "getter"
               /\ rec' = [rec EXCEPT ![MyShare(c)] = view[c]]
            \/ /\ pc[c] \in {"getter", "pick"} /\ rec' = rec
               /\ pc'[c] \in {"fpg", "fail", "create", "pick", "draw"}
<1>1. CASE Enter(c) \/ InitializeShare(c) \/ GetDefaultFpgs(c)
  BY <1>1, TypeParts
     DEF Enter, InitializeShare, GetDefaultFpgs, At, GoTo, ControlOK, call, ips, array
<1>2. CASE GetExistingFpg(c)
  BY <1>2, TypeParts DEF GetExistingFpg, Use, Fail, At, GoTo, ControlOK, ips, array
<1>3. CASE PickDefaultFpg(c)
  BY <1>3, TypeParts DEF PickDefaultFpg, Use, Fail, At, GoTo, ControlOK, ips, array
<1> QED
  BY <1>1, <1>2, <1>3 DEF Choosing

\* What a creation makes of its FPG, and of the address.
FpgUnchanged == UNCHANGED <<fpgs, vfs, locked>>

LEMMA MakingFpgSteps ==
  ASSUME TypeInv, NEW c \in Call, MakingFpg(c)
  PROVE  /\ UNCHANGED <<req, rec, exports, failures>>
         /\ \/ pc[c] = "draw" /\ pc'[c] = "fpg" /\ FpgUnchanged /\ UNCHANGED <<made, view>>
            \/ /\ pc[c] = "fpg" /\ pc'[c] \in {"default", "fpg_meta"}
               /\ fpgs[target[c]] = None /\ fpgs' = [fpgs EXCEPT ![target[c]] = MyCpg(c)]
               /\ UNCHANGED <<made, view, target, vfs, locked>>
            \/ /\ pc[c] = "fpg_meta" /\ pc'[c] = "claim"
               /\ made' = [made EXCEPT ![c] = Append(@, "fpg")]
               /\ FpgUnchanged /\ UNCHANGED target
            \/ /\ pc[c] = "claim" /\ pc'[c] = "vfs"
               /\ made' = [made EXCEPT ![c] = Append(@, "ip")]
               /\ \E a \in Pool \ (InUseOnArray \union locked) :
                    locked' = locked \union {a} /\ view'[c].ip = a
               /\ UNCHANGED <<fpgs, vfs, target>>
            \/ /\ pc[c] = "vfs" /\ pc'[c] = "vfs_meta"
               /\ vfs' = [vfs EXCEPT ![target[c]] = view[c].ip]
               /\ UNCHANGED <<made, view, target, fpgs, locked>>
            \/ /\ pc[c] = "mark" /\ pc'[c] = "create"
               /\ locked' = locked \ {view[c].ip}
               /\ UNCHANGED <<made, view, target, fpgs, vfs>>
            \/ /\ \/ pc[c] = "fpg" /\ pc'[c] \in {"draw", "fail"}
                  \/ pc[c] = "default" /\ pc'[c] = "fpg_meta"
                  \/ pc[c] = "vfs_meta" /\ pc'[c] = "mark"
                  \/ pc[c] \in {"claim", "vfs", "vfs_meta", "mark"} /\ pc'[c] = "fail"
               /\ FpgUnchanged /\ UNCHANGED <<made, view, target>>
<1> USE TypeParts DEF FpgUnchanged, At, GoTo, Fail, ControlOK, call, ips, array
<1>1. CASE DrawName(c) \/ AddToDefaultFpg(c)
  BY <1>1 DEF DrawName, AddToDefaultFpg
<1>2. CASE CreateFpg(c)
  BY <1>2 DEF CreateFpg
<1>3. CASE SaveFpgMetadata(c)
  BY <1>3 DEF SaveFpgMetadata
<1>4. CASE ClaimAvailableIp(c)
  <2>1. CASE Fail(c)
    BY <1>4, <2>1 DEF ClaimAvailableIp, Claim
  <2>2. CASE ~Fail(c)
    <3>1. PICK a \in Pool \ (InUseOnArray \union locked) :
            /\ locked' = locked \union {a} /\ view' = [view EXCEPT ![c].ip = a]
            /\ made' = [made EXCEPT ![c] = Append(@, "ip")] /\ pc' = [pc EXCEPT ![c] = "vfs"]
      BY <1>4, <2>2 DEF ClaimAvailableIp, Claim
    <3>2. view'[c].ip = a
      BY <3>1 DEF CallOK, Record
    <3> QED
      BY <1>4, <3>1, <3>2 DEF ClaimAvailableIp, Claim
  <2> QED
    BY <2>1, <2>2
<1>5. CASE CreateVfs(c)
  BY <1>5 DEF CreateVfs
<1>6. CASE UpdateFpgMetadata(c)
  BY <1>6 DEF UpdateFpgMetadata
<1>7. CASE MarkIpInUse(c)
  BY <1>7 DEF MarkIpInUse
<1> QED
  BY <1>1, <1>2, <1>3, <1>4, <1>5, <1>6, <1>7 DEF MakingFpg

LEMMA MakingShareSteps ==
  ASSUME TypeInv, NEW c \in Call, MakingShare(c)
  PROVE  /\ FpgUnchanged /\ UNCHANGED <<req, target>> /\ view'[c].ip = view[c].ip
         /\ failures' \in {failures, failures + 1}
         /\ \A s \in Share : rec[s] # None => rec'[s] # None
         /\ \/ /\ pc[c] = "create" /\ pc'[c] = "save_id" /\ made' = made
               /\ exports' = exports \union {<<c, MyFpg(c)>>} /\ view'[c].id = <<c, MyFpg(c)>>
            \/ /\ pc[c] = "save_id" /\ pc'[c] = "quota" /\ UNCHANGED <<view, exports>>
               /\ made' = [made EXCEPT ![c] = Append(@, "share")]
            \/ /\ pc[c] = "save_id" /\ pc'[c] = "undo_share" /\ failures' = failures + 1
               /\ UNCHANGED <<view, exports, made>>
            \/ /\ pc[c] = "quota" /\ pc'[c] \in {"finish", "fail", "undo_share"}
               /\ UNCHANGED <<view, exports, made>>
            \/ /\ pc[c] = "finish" /\ UNCHANGED <<view, exports, made>>
               /\ \/ pc'[c] \in {"made", "fail", "undo_share"}
                  \/ rec[MyShare(c)] = None /\ ~OnNewFpg(c) /\ pc'[c] \in {"draw", "fpg"}
            \/ /\ pc[c] \in {"init", "getter", "pick", "draw", "fpg", "default", "fpg_meta",
                             "claim", "vfs", "vfs_meta", "mark", "create"}
               /\ pc'[c] = "fail" /\ UNCHANGED <<view, exports, made>>
<1> USE TypeParts DEF FpgUnchanged, At, GoTo, Fail, ControlOK, call, ips, array
<1>0. /\ view \in [Call -> Record] /\ rec \in [Share -> Record \union {None}]
      /\ \A r \in Record : r # None
  BY RecordAssumption DEF CallOK, RecOK
<1>1. CASE CreateShare(c)
  <2>1. CASE Fail(c)
    BY <1>1, <2>1 DEF CreateShare
  <2>2. CASE ~Fail(c)
    <3>1. /\ view' = [view EXCEPT ![c].id = <<c, MyFpg(c)>>]
      BY <1>1, <2>2 DEF CreateShare
    <3>2. view'[c].id = <<c, MyFpg(c)>> /\ view'[c].ip = view[c].ip
      BY <1>0, <3>1 DEF Record
    <3> QED
      BY <1>1, <2>2, <3>2 DEF CreateShare
  <2> QED
    BY <2>1, <2>2
<1>2. CASE SaveShareId(c)
  <2>1. \A s \in Share : rec[s] # None => rec'[s] # None
    BY <1>0, <1>2 DEF SaveShareId
  <2> QED
    BY <1>2, <2>1 DEF SaveShareId, Fault
<1>3. CASE SetQuota(c)
  BY <1>3 DEF SetQuota, QuotaFails, Fault
<1>4. CASE MakeAvailable(c)
  <2>1. \A s \in Share : rec[s] # None => rec'[s] # None
    <3>1. CASE rec' = rec
      BY <3>1
    <3>2. CASE rec' # rec
      <4>1. /\ rec[MyShare(c)] # None /\ rec' = [rec EXCEPT ![MyShare(c)].status = "AVAILABLE"]
        BY <1>4, <3>2 DEF MakeAvailable
      <4>2. \A r \in Record : [r EXCEPT !.status = "AVAILABLE"] \in Record
        BY RecordFacts
      <4>3. \A s \in Share : rec[s] # None => rec'[s] \in Record
        BY <1>0, <4>1, <4>2
      <4> QED
        BY <1>0, <4>3
    <3> QED
      BY <3>1, <3>2
  <2>2. failures' \in {failures, failures + 1}
    BY <1>4 DEF MakeAvailable, Fault
  <2> QED
    BY <1>4, <2>1, <2>2 DEF MakeAvailable, QuotaFails, End
<1>5. CASE CreationRaises(c)
  BY <1>5 DEF CreationRaises, Fault
<1> QED
  BY <1>1, <1>2, <1>3, <1>4, <1>5 DEF MakingShare

LEMMA UndoingSteps ==
  ASSUME TypeInv, NEW c \in Call, Undoing(c)
  PROVE  /\ UNCHANGED <<req, target>> /\ view'[c].ip = view[c].ip /\ view'[c].id = view[c].id
         /\ failures' \in {failures, failures + 1}
         /\ \A s \in Share : rec[s] # None => rec'[s] # None
         /\ \/ /\ pc[c] = "fail" /\ UndoNext(c, made[c])
               /\ rec' = [rec EXCEPT ![MyShare(c)] = view'[c]]
               /\ FpgUnchanged /\ UNCHANGED <<made, exports>>
            \/ /\ pc[c] \in {"fail", "undo_share", "undo_store", "undo_ip"} /\ pc'[c] = "broken"
               /\ FpgUnchanged /\ UNCHANGED <<made, exports>>
            \/ /\ pc[c] \in {"undo_share", "undo_store", "undo_ip"} /\ pc'[c] = "fail"
               /\ failures' = failures + 1
               /\ FpgUnchanged /\ UNCHANGED <<made, exports>>
            \/ /\ pc[c] = "undo_share" /\ pc'[c] = "undo_store"
               /\ exports' = exports \ {view[c].id}
               /\ FpgUnchanged /\ UNCHANGED made
            \/ /\ pc[c] = "undo_store" /\ FpgUnchanged /\ UNCHANGED exports
               /\ Undone(c) \/ made' = made
               /\ pc'[c] \in {"pick", "fail"} \/ UndoNext(c, made'[c])
            \/ /\ pc[c] = "undo_ip" /\ Undone(c) /\ UndoNext(c, made'[c])
               /\ locked' = locked \ {view[c].ip} /\ UNCHANGED <<fpgs, vfs, exports>>
            \/ /\ pc[c] = "undo_fpg" /\ pc'[c] \in {"undo_default", "undo_meta"}
               /\ UNCHANGED <<fpgs, vfs, exports>> \/ DeleteFromArray(target[c])
               /\ UNCHANGED <<made, locked>>
            \/ /\ pc[c] = "undo_default" /\ pc'[c] = "undo_meta"
               /\ FpgUnchanged /\ UNCHANGED <<made, exports>>
            \/ /\ pc[c] = "undo_meta" /\ Undone(c) /\ UndoNext(c, made'[c])
               /\ FpgUnchanged /\ UNCHANGED exports
<1> USE TypeParts DEF FpgUnchanged, At, GoTo, ControlOK, call, ips, array
<1>0. /\ view \in [Call -> Record] /\ rec \in [Share -> Record \union {None}]
      /\ \A r \in Record : r # None
  BY RecordAssumption DEF CallOK, RecOK
<1>1. CASE SaveFailed(c)
  <2>1. CASE rec' = rec /\ view' = view /\ Fault /\ End(c, "broken")
    BY <1>1, <2>1 DEF SaveFailed, End, Fault
  <2>2. CASE ~(rec' = rec /\ view' = view /\ Fault /\ End(c, "broken"))
    <3>1. /\ view' = [view EXCEPT ![c].status = "FAILED"]
          /\ rec' = [rec EXCEPT ![MyShare(c)] = view'[c]]
          /\ UndoNext(c, made[c]) /\ failures' = failures
      BY <1>1, <2>2 DEF SaveFailed
    <3>2. /\ view'[c] \in Record /\ view'[c].ip = view[c].ip /\ view'[c].id = view[c].id
      BY <1>0, <3>1 DEF Record
    <3>3. \A s \in Share : rec[s] # None => rec'[s] # None
      BY <1>0, <3>1, <3>2
    <3> QED
      BY <1>1, <3>1, <3>2, <3>3 DEF SaveFailed
  <2> QED
    BY <2>1, <2>2
<1>2. CASE UndoRaises(c)
  BY <1>2 DEF UndoRaises, End, Fail, Fault
<1>3. CASE UndoShare(c)
  BY <1>3 DEF UndoShare
<1>4. CASE UndoStore(c)
  <2>1. pc[c] = "undo_store" /\ UNCHANGED <<req, view, target, rec, failures, fpgs, vfs, locked, exports>>
    BY <1>4 DEF UndoStore
  <2>2. Undone(c) \/ made' = made
    BY <1>4 DEF UndoStore
  <2>3. pc'[c] \in {"pick", "fail"} \/ UndoNext(c, made'[c])
    <3>1. CASE view[c].status = "FAILED"
      BY <1>4, <3>1 DEF UndoStore
    <3>2. CASE view[c].status # "FAILED"
      <4>1. (GoTo(c, "pick") /\ UNCHANGED lock) \/ Fail(c)
        BY <1>4, <3>2 DEF UndoStore
      <4> QED
        BY <4>1 DEF Fail
    <3> QED
      BY <3>1, <3>2
  <2> QED
    BY <2>1, <2>2, <2>3
<1>5. CASE UndoIp(c)
  BY <1>5 DEF UndoIp
<1>6. CASE UndoFpg(c)
  BY <1>6 DEF UndoFpg, Fault
<1>7. CASE UndoDefault(c)
  BY <1>7 DEF UndoDefault, Fault
<1>8. CASE UndoMeta(c)
  BY <1>8 DEF UndoMeta, Fault
<1> QED
  BY <1>1, <1>2, <1>3, <1>4, <1>5, <1>6, <1>7, <1>8 DEF Undoing

LEMMA RemovingSteps ==
  ASSUME TypeInv, NEW c \in Call, Removing(c)
  PROVE  /\ UNCHANGED <<req, made>> /\ exports' \subseteq exports
         /\ failures' \in {failures, failures + 1}
         /\ pc[c] \in Removal /\ pc'[c] \in Removal \union {"done"}
         /\ \A s \in Share : s # MyShare(c) => rec'[s] = rec[s]
<1> USE TypeParts DEF At, GoTo, End, ControlOK, call, array, Removal, RecOK, Fault
<1>1. CASE DeleteShare(c) \/ DeleteFileStore(c)
  BY <1>1 DEF DeleteShare, DeleteFileStore
<1>2. CASE DeleteShareRecord(c) \/ MarkShareFailed(c)
  BY <1>2 DEF DeleteShareRecord, MarkShareFailed
<1>3. CASE CountShares(c) \/ CheckOwner(c)
  BY <1>3 DEF CountShares, CheckOwner
<1>4. CASE DeleteFpg(c)
  BY <1>4 DEF DeleteFpg, DeleteFromArray
<1>5. CASE DeleteFpgMetadata(c) \/ ReleaseIp(c) \/ RemovalRaises(c)
  BY <1>5 DEF DeleteFpgMetadata, ReleaseIp, RemovalRaises
<1> QED
  BY <1>1, <1>2, <1>3, <1>4, <1>5 DEF Removing

LEMMA EndingSteps ==
  ASSUME TypeInv, NEW c \in Call, LockTimeout(c) \/ Crash(c)
  PROVE  /\ FpgUnchanged /\ UNCHANGED <<req, view, target, made, rec, exports>>
         /\ failures' \in {failures, failures + 1}
         /\ \/ pc[c] \in {"enter", "count"} /\ pc'[c] = "done"
            \/ pc[c] \in {"init", "fpg", "vfs_meta"} /\ pc'[c] = "fail"
            \/ pc[c] # "idle" /\ pc'[c] = "dead"
BY TypeParts DEF FpgUnchanged, At, GoTo, End, Fail, ControlOK, call, ips, array, Fault,
                 LockTimeout, Crash

-----------------------------------------------------------------------------
(* The addresses of the virtual file servers *)

Once(c, x) == \A i, j \in DOMAIN made[c] : made[c][i] = x /\ made[c][j] = x => i = j

\* One FPG at a time, one address at a time, and a removal is in the hands of one.
OnceInv(c) ==
  /\ Once(c, "fpg") /\ Once(c, "ip")
  /\ pc[c] \in {"default", "fpg_meta"} => ~OnNewFpg(c)
  /\ pc[c] = "claim" => ~HasAddress(c)
  /\ pc[c] \in Removal => Removes(c)
  /\ pc[c] = "idle" => req[c] = None

\* From when its FPG is on the undo list until it undoes the address.
Owning == {"claim", "vfs", "vfs_meta", "mark", "create", "save_id", "quota", "finish",
           "fail", "undo_share", "undo_store", "undo_ip"}

HasFpg(c) ==
  \/ pc[c] \in {"default", "fpg_meta"}
  \/ OnNewFpg(c) /\ pc[c] \in Owning \union {"undo_fpg"}

HasIp(c) == HasAddress(c) /\ pc[c] \in Owning

NoRemovals == \A c \in Call : ~Removes(c)

\* Creations that have made an FPG have one each, and an address each, that is locked or
\* that of their VFS.
ApartInv ==
  /\ \A f, g \in Fpg : f # g /\ vfs[f] # None => vfs[f] # vfs[g]
  /\ \A c \in Call :
       /\ HasFpg(c) => target[c] \in Fpg /\ fpgs[target[c]] # None
       /\ HasIp(c) => view[c].ip \in locked \/ vfs[target[c]] = view[c].ip
       /\ pc[c] = "vfs" => \A f \in Fpg : vfs[f] # view[c].ip
       /\ pc[c] \in {"vfs_meta", "mark"} => vfs[target[c]] = view[c].ip
       /\ \A d \in Call \ {c} :
            /\ HasFpg(c) /\ HasFpg(d) => target[c] # target[d]
            /\ HasIp(c) /\ HasIp(d) => view[c].ip # view[d].ip

ApartFromRemovals == NoRemovals => ApartInv

LEMMA OnceFacts ==
  ASSUME CallOK, CallOK', NEW c \in Call
  PROVE  /\ made'[c] = made[c] => \A y : Once(c, y)' <=> Once(c, y)
         /\ \A x \in {"fpg", "ip", "share"} : made' = [made EXCEPT ![c] = Append(@, x)] =>
              /\ \A y : y # x /\ Once(c, y) => Once(c, y)'
              /\ (\A i \in DOMAIN made[c] : made[c][i] # x) => Once(c, x)'
         /\ Undone(c) =>
              /\ \A y : Once(c, y) => Once(c, y)'
              /\ \A y : Once(c, y) /\ LastMade(c, y) => \A i \in DOMAIN made'[c] : made'[c][i] # y
              /\ HasAddress(c)' => HasAddress(c)
<1> DEFINE S == {"fpg", "ip", "share"}
<1>0. made[c] \in Seq(S) /\ made'[c] \in Seq(S) /\ c \in DOMAIN made
  BY DEF CallOK
<1>1. made'[c] = made[c] => \A y : Once(c, y)' <=> Once(c, y)
  BY DEF Once
<1>2. ASSUME NEW x \in S, made' = [made EXCEPT ![c] = Append(@, x)]
      PROVE  /\ \A y : y # x /\ Once(c, y) => Once(c, y)'
             /\ (\A i \in DOMAIN made[c] : made[c][i] # x) => Once(c, x)'
  <2>1. made'[c] = Append(made[c], x)
    BY <1>0, <1>2
  <2>2. /\ Len(made[c]) \in Nat /\ made'[c][Len(made[c]) + 1] = x
        /\ \A i \in 1 .. Len(made[c]) : made'[c][i] = made[c][i]
        /\ DOMAIN made[c] = 1 .. Len(made[c]) /\ DOMAIN made'[c] = 1 .. Len(made[c]) + 1
    BY <1>0, <2>1
  <2>3. \A i \in DOMAIN made'[c] : i \in DOMAIN made[c] \/ i = Len(made[c]) + 1
    BY <2>2
  <2>4. ASSUME NEW y, y # x, Once(c, y) PROVE Once(c, y)'
    BY <2>2, <2>3, <2>4 DEF Once
  <2>5. ASSUME \A i \in DOMAIN made[c] : made[c][i] # x PROVE Once(c, x)'
    BY <2>2, <2>3, <2>5 DEF Once
  <2> QED
    BY <2>4, <2>5
<1>3. ASSUME Undone(c)
      PROVE  /\ \A y : Once(c, y) => Once(c, y)'
             /\ \A y : Once(c, y) /\ LastMade(c, y) => \A i \in DOMAIN made'[c] : made'[c][i] # y
             /\ HasAddress(c)' => HasAddress(c)
  <2>1. made'[c] = SubSeq(made[c], 1, Len(made[c]) - 1)
    BY <1>0, <1>3 DEF Undone
  <2>2. /\ DOMAIN made[c] = 1 .. Len(made[c]) /\ DOMAIN made'[c] = 1 .. Len(made[c]) - 1
        /\ Len(made[c]) \in Nat
        /\ \A i \in 1 .. Len(made[c]) - 1 : made'[c][i] = made[c][i]
    <3>1. CASE made[c] = <<>>
      BY <1>0, <2>1, <3>1
    <3>2. CASE made[c] # <<>>
      <4>1. Len(made[c]) \in Nat /\ Len(made[c]) > 0
        BY <1>0, <3>2
      <4>2. \A i \in 1 .. Len(made[c]) - 1 : made[c][i] \in S
        BY <1>0, <4>1
      <4> QED
        BY <1>0, <2>1, <4>1, <4>2
    <3> QED
      BY <3>1, <3>2
  <2>3. \A i \in DOMAIN made'[c] : i \in DOMAIN made[c] /\ i # Len(made[c]) /\ made'[c][i] = made[c][i]
    BY <2>2
  <2>4. \A y : Once(c, y) => Once(c, y)'
    BY <2>3 DEF Once
  <2>5. ASSUME NEW y, Once(c, y), LastMade(c, y), NEW i \in DOMAIN made'[c] PROVE made'[c][i] # y
    <3>1. Len(made[c]) \in DOMAIN made[c]
      BY <1>0, <2>2, <2>5 DEF LastMade
    <3> QED
      BY <2>3, <2>5, <3>1 DEF Once, LastMade
  <2>6. HasAddress(c)' => HasAddress(c)
    BY <2>3 DEF HasAddress
  <2> QED
    BY <2>4, <2>5, <2>6
<1> QED
  BY <1>1, <1>2, <1>3

\* Where a creation goes that looks for what is next on the undo list.
LEMMA UndoGoes ==
  ASSUME TypeInv, TypeInv', NEW c \in Call, UndoNext(c, made'[c])
  PROVE  /\ pc'[c] \in {"failed", "undo_share", "undo_ip", "undo_fpg"}
         /\ pc'[c] = "failed" => made'[c] = <<>>
         /\ pc'[c] = "undo_share" => LastMade(c, "share")'
         /\ pc'[c] = "undo_ip" => LastMade(c, "ip")'
         /\ pc'[c] = "undo_fpg" => LastMade(c, "fpg")'
<1>1. made'[c] \in Seq({"fpg", "ip", "share"})
  BY DEF TypeInv, TypeOK
<1> QED
  BY <1>1, NextUndo DEF LastMade

LEMMA ReceiveSteps ==
  ASSUME TypeInv, NEW c \in Call, NEW r \in Request, ReceiveCreate(c, r) \/ ReceiveRemove(c, r)
  PROVE  /\ FpgUnchanged /\ UNCHANGED <<made, rec, exports, failures>>
         /\ pc[c] = "idle" /\ pc'[c] \in {"enter", "done", "forget", "delete_share"}
         /\ req' = [req EXCEPT ![c] = r] /\ req'[c] = r
         /\ pc'[c] \in {"forget", "delete_share"} => Removes(c)'
<1>1. /\ req' = [req EXCEPT ![c] = r] /\ req'[c] = r /\ r \in RequestType /\ r # None
  BY ShareAssumption, TypeParts DEF ReceiveCreate, ReceiveRemove, CallOK
<1>2. CASE ReceiveCreate(c, r)
  BY <1>1, <1>2, TypeParts DEF ReceiveCreate, FpgUnchanged, At, GoTo, ControlOK, ips, array
<1>3. CASE ReceiveRemove(c, r)
  BY <1>1, <1>3, TypeParts DEF ReceiveRemove, FpgUnchanged, At, GoTo, ControlOK, ips, array, Removes
<1> QED
  BY <1>2, <1>3

CallStep(c) ==
  \/ Choosing(c) \/ MakingFpg(c) \/ MakingShare(c) \/ Undoing(c) \/ Removing(c)
  \/ LockTimeout(c) \/ Crash(c)

LEMMA StepsOnce ==
  ASSUME ShareInv, ShareInv', NEW c \in Call, OnceInv(c), CallStep(c)
  PROVE  OnceInv(c)'
<1>0. /\ TypeInv /\ TypeInv' /\ CallOK /\ CallOK' /\ MadeInv(c) /\ MadeInv(c)'
      /\ HasAddress(c) => OnNewFpg(c)
  <2>1. TypeInv /\ TypeInv' /\ MadeInv(c) /\ MadeInv(c)'
    BY DEF ShareInv
  <2>2. CallOK /\ CallOK'
    BY <2>1 DEF TypeInv, TypeOK, CallOK
  <2> QED
    BY <2>1, <2>2, AddressFacts DEF MadeInv
<1>1. CASE Choosing(c)
  BY <1>0, <1>1, ChoosingSteps, OnceFacts DEF OnceInv, Removes, Removal
<1>2. CASE MakingFpg(c)
  <2>1. CASE pc'[c] = "claim"
    <3>1. pc[c] = "fpg_meta" /\ made' = [made EXCEPT ![c] = Append(@, "fpg")]
      BY <1>2, <2>1, <1>0, MakingFpgSteps
    <3>2. ~OnNewFpg(c) /\ ~HasAddress(c)
      BY <1>0, <3>1 DEF OnceInv
    <3>3. Once(c, "fpg")' /\ Once(c, "ip")' /\ ~HasAddress(c)'
      BY <1>0, <3>1, <3>2, OnceFacts, AddressFacts DEF OnceInv, OnNewFpg
    <3> QED
      BY <2>1, <3>3 DEF OnceInv, Removal
  <2>2. CASE pc'[c] = "vfs"
    <3>1. pc[c] = "claim" /\ made' = [made EXCEPT ![c] = Append(@, "ip")]
      BY <1>2, <2>2, <1>0, MakingFpgSteps
    <3>2. ~HasAddress(c)
      BY <3>1 DEF OnceInv
    <3>3. Once(c, "fpg")' /\ Once(c, "ip")'
      BY <1>0, <3>1, <3>2, OnceFacts DEF OnceInv, HasAddress
    <3> QED
      BY <2>2, <3>3 DEF OnceInv, Removal
  <2>3. CASE pc'[c] \notin {"claim", "vfs"}
    <3>1. /\ made' = made /\ pc'[c] \notin Removal \union {"idle"}
          /\ pc'[c] \in {"default", "fpg_meta"} => pc[c] \in {"fpg", "default"}
      BY <1>2, <2>3, <1>0, MakingFpgSteps DEF Removal
    <3> QED
      BY <1>0, <2>3, <3>1, OnceFacts, ListFacts DEF OnceInv, MadeInv
  <2> QED
    BY <2>1, <2>2, <2>3
<1>3. CASE MakingShare(c)
  <2>1. /\ made' = made \/ made' = [made EXCEPT ![c] = Append(@, "share")]
        /\ pc'[c] \notin Removal \union {"idle", "default", "fpg_meta", "claim"}
    BY <1>0, <1>3, MakingShareSteps DEF Removal
  <2> QED
    BY <1>0, <2>1, OnceFacts DEF OnceInv
<1>4. CASE Undoing(c)
  <2>1. /\ made' = made \/ Undone(c)
        /\ pc'[c] \notin Removal \union {"idle", "default", "fpg_meta", "claim"}
    BY <1>0, <1>4, UndoingSteps, UndoGoes DEF Removal
  <2> QED
    BY <1>0, <2>1, OnceFacts DEF OnceInv
<1>5. CASE Removing(c)
  BY <1>0, <1>5, RemovingSteps, OnceFacts DEF OnceInv, Removes, Removal
<1>6. CASE LockTimeout(c) \/ Crash(c)
  BY <1>0, <1>6, EndingSteps, OnceFacts DEF OnceInv, Removal
<1> QED
  BY <1>1, <1>2, <1>3, <1>4, <1>5, <1>6 DEF CallStep

LEMMA StepsApart ==
  ASSUME ShareInv, ShareInv', NEW c \in Call, Alone(c), OnceInv(c), CallStep(c),
         ApartFromRemovals
  PROVE  ApartFromRemovals'
<1> SUFFICES ASSUME NoRemovals' PROVE ApartInv'
  BY DEF ApartFromRemovals
<1>0. /\ TypeInv /\ TypeInv' /\ CallOK /\ CallOK' /\ MadeInv(c) /\ MadeInv(c)' /\ CallInv(c)
      /\ HasAddress(c) => OnNewFpg(c)
      /\ HasAddress(c)' => OnNewFpg(c)'
  <2>1. TypeInv /\ TypeInv' /\ MadeInv(c) /\ MadeInv(c)' /\ CallInv(c)
    BY DEF ShareInv, TypeInv
  <2>2. CallOK /\ CallOK'
    BY <2>1 DEF TypeInv, TypeOK, CallOK
  <2> QED
    BY <2>1, <2>2, AddressFacts DEF MadeInv, AddressAfterFpg, HasAddress, OnNewFpg
<1>1. /\ req' = req /\ ~Removing(c)
  <2>1. Removing(c) => Removes(c)'
    BY <1>0, RemovingSteps DEF OnceInv, Removes
  <2>2. ~Removing(c)
    BY <2>1 DEF NoRemovals
  <2> QED
    BY <1>0, <2>2, ChoosingSteps, MakingFpgSteps, MakingShareSteps, UndoingSteps, EndingSteps
       DEF CallStep
<1>2. ApartInv
  BY <1>1 DEF ApartFromRemovals, NoRemovals, Removes
<1>3. \A d \in Call \ {c} :
        /\ pc'[d] = pc[d] /\ target'[d] = target[d] /\ view'[d].ip = view[d].ip
        /\ HasFpg(d)' <=> HasFpg(d)
        /\ HasIp(d)' <=> HasIp(d)
        /\ HasIp(d) => HasFpg(d)
  <2>1. ASSUME NEW d \in Call \ {c} PROVE HasIp(d) => HasFpg(d)
    BY <1>0, AddressFacts DEF ShareInv, MadeInv, HasIp, HasFpg
  <2> QED
    BY <2>1 DEF Alone, HasFpg, HasIp, HasAddress, OnNewFpg
<1>4. /\ pc[c] \in {"vfs", "vfs_meta", "mark", "undo_ip"} => HasIp(c) /\ HasFpg(c)
      /\ pc[c] = "undo_fpg" => HasFpg(c)
      /\ HasIp(c) => HasFpg(c)
  <2>1. LastMade(c, "ip") => HasAddress(c)
    BY <1>0, ListFacts DEF HasAddress
  <2>2. LastMade(c, "fpg") => OnNewFpg(c)
    BY <1>0, ListFacts
  <2> QED
    BY <1>0, <2>1, <2>2 DEF MadeInv, HasIp, HasFpg, Owning
<1>5. ASSUME UNCHANGED <<fpgs, vfs>>, locked \subseteq locked', pc'[c] # "vfs",
             pc'[c] \in {"vfs_meta", "mark"} =>
               pc[c] \in {"vfs_meta", "mark"} /\ target'[c] = target[c],
             HasFpg(c)' => HasFpg(c) /\ target'[c] = target[c],
             HasIp(c)' => HasIp(c) /\ view'[c].ip = view[c].ip
      PROVE  ApartInv'
  <2>1. HasIp(c)' => HasFpg(c)'
    BY <1>0 DEF HasIp, HasFpg
  <2>2. pc'[c] \in {"vfs_meta", "mark"} => HasIp(c)'
    BY <1>0, ListFacts DEF MadeInv, LastMade, HasIp, HasAddress, Owning
  <2> QED
    BY <1>2, <1>3, <1>5, <2>1, <2>2 DEF ApartInv
<1>6. CASE Choosing(c)
  <2>1. /\ UNCHANGED <<target, made, locked, fpgs, vfs>>
        /\ pc[c] \in {"enter", "init", "getter", "pick"}
        /\ pc'[c] \notin {"vfs", "vfs_meta", "mark", "default", "fpg_meta"}
    BY <1>0, <1>6, ChoosingSteps
  <2>2. ~OnNewFpg(c)' /\ ~HasAddress(c)'
    BY <1>0, <2>1, ListFacts DEF MadeInv
  <2> QED
    BY <1>5, <2>1, <2>2 DEF HasFpg, HasIp
<1>7. CASE MakingFpg(c)
  <2>1. CASE pc[c] = "fpg" /\ pc'[c] \in {"default", "fpg_meta"}
    <3>1. /\ fpgs[target[c]] = None /\ fpgs' = [fpgs EXCEPT ![target[c]] = MyCpg(c)]
          /\ UNCHANGED <<made, view, target, vfs, locked>>
      BY <1>0, <1>7, <2>1, MakingFpgSteps
    <3>2. target[c] \in Fpg /\ MyCpg(c) # None
      BY <1>0, <2>1, ShareAssumption DEF CallInv, MyCpg, Creation, Early
    <3>3. fpgs \in [Fpg -> Cpg \union {None}]
      BY <1>0 DEF TypeInv, TypeOK
    <3>4. ~HasIp(c)'
      BY <2>1 DEF HasIp, Owning
    <3>5. \A f \in Fpg : fpgs[f] # None => fpgs'[f] # None /\ f # target[c]
      BY <3>1, <3>2, <3>3
    <3>6. fpgs'[target[c]] # None
      BY <3>1, <3>2, <3>3
    <3> QED
      BY <1>2, <1>3, <2>1, <3>1, <3>2, <3>4, <3>5, <3>6 DEF ApartInv
  <2>2. CASE pc[c] = "fpg_meta"
    <3>1. /\ pc'[c] = "claim" /\ UNCHANGED <<target, locked, fpgs, vfs>>
          /\ made' = [made EXCEPT ![c] = Append(@, "fpg")]
      BY <1>0, <1>7, <2>2, MakingFpgSteps DEF FpgUnchanged
    <3>2. ~HasAddress(c)'
      BY <1>0, <2>2, <3>1, AddressFacts DEF OnceInv
    <3> QED
      BY <1>5, <2>2, <3>1, <3>2 DEF HasFpg, HasIp
  <2>3. CASE pc'[c] = "vfs"
    <3>1. /\ pc[c] = "claim" /\ UNCHANGED <<fpgs, vfs, target>>
          /\ made' = [made EXCEPT ![c] = Append(@, "ip")]
      BY <1>0, <1>7, <2>3, MakingFpgSteps
    <3>2. PICK a \in Pool \ (InUseOnArray \union locked) :
            locked' = locked \union {a} /\ view'[c].ip = a
      BY <1>0, <1>7, <2>3, MakingFpgSteps
    <3>3. \A f \in Fpg : vfs[f] # a
      BY <3>2, ShareAssumption DEF InUseOnArray
    <3>4. \A d \in Call \ {c} : HasIp(d) => view[d].ip # a
      BY <1>2, <1>3, <3>2, <3>3 DEF ApartInv
    <3>5. HasFpg(c) /\ target'[c] = target[c]
      BY <1>0, <3>1, ListFacts DEF MadeInv, HasFpg, Owning
    <3>6. HasIp(c)' => view'[c].ip = a
      BY <3>2
    <3> QED
      BY <1>2, <1>3, <2>3, <3>1, <3>2, <3>3, <3>4, <3>5, <3>6 DEF ApartInv
  <2>4. CASE pc'[c] = "vfs_meta"
    <3>1. /\ pc[c] = "vfs" /\ vfs' = [vfs EXCEPT ![target[c]] = view[c].ip]
          /\ UNCHANGED <<made, view, target, fpgs, locked>>
      BY <1>0, <1>7, <2>4, MakingFpgSteps
    <3>2. HasIp(c) /\ HasFpg(c) /\ target[c] \in Fpg
      BY <1>2, <1>4, <3>1 DEF ApartInv
    <3>3. vfs \in [Fpg -> Ip \union {None}]
      BY <1>0 DEF TypeInv, TypeOK
    <3>4. /\ vfs'[target[c]] = view[c].ip
          /\ \A f \in Fpg \ {target[c]} : vfs'[f] = vfs[f] /\ vfs[f] # view[c].ip
      BY <1>2, <3>1, <3>2, <3>3 DEF ApartInv
    <3>5. \A f, g \in Fpg : f # g /\ vfs'[f] # None => vfs'[f] # vfs'[g]
      BY <1>2, <3>4 DEF ApartInv
    <3>6. \A d \in Call \ {c} :
            /\ HasFpg(d) => target[d] \in Fpg \ {target[c]}
            /\ HasIp(d) => view[d].ip # view[c].ip
      BY <1>2, <3>2 DEF ApartInv
    <3>7. \A d \in Call \ {c} :
            pc[d] \in {"vfs", "vfs_meta", "mark"} => HasIp(d) /\ HasFpg(d)
      <4>1. \A d \in Call \ {c} : LastMade(d, "ip") => HasAddress(d)
        BY <1>0, ListFacts DEF HasAddress
      <4> QED
        BY <1>3, <4>1 DEF ShareInv, MadeInv, HasIp, Owning
    <3>8. \A d \in Call : HasFpg(d)' => HasFpg(d)
      <4>1. HasFpg(c)
        BY <3>2
      <4> QED
        BY <1>3, <4>1
    <3>9. \A d \in Call : HasIp(d)' => HasIp(d)
      BY <1>3, <3>2
    <3>10. \A d \in Call : view'[d].ip = view[d].ip /\ target'[d] = target[d]
      BY <3>1
    <3>11. \A d \in Call :
             /\ HasIp(d)' => view'[d].ip \in locked' \/ vfs'[target'[d]] = view'[d].ip
             /\ pc'[d] = "vfs" => \A f \in Fpg : vfs'[f] # view'[d].ip
             /\ pc'[d] \in {"vfs_meta", "mark"} => vfs'[target'[d]] = view'[d].ip
      <4>1. ASSUME NEW d \in Call \ {c}
            PROVE /\ HasIp(d)' => view'[d].ip \in locked' \/ vfs'[target'[d]] = view'[d].ip
                  /\ pc'[d] = "vfs" => \A f \in Fpg : vfs'[f] # view'[d].ip
                  /\ pc'[d] \in {"vfs_meta", "mark"} => vfs'[target'[d]] = view'[d].ip
        BY <1>2, <1>3, <3>1, <3>4, <3>6, <3>7 DEF ApartInv
      <4> QED
        BY <2>4, <3>1, <3>4, <4>1
    <3> QED
      BY <1>2, <3>1, <3>5, <3>8, <3>9, <3>10, <3>11 DEF ApartInv
  <2>5. CASE pc[c] = "mark" /\ pc'[c] = "create"
    <3>1. locked' = locked \ {view[c].ip} /\ UNCHANGED <<made, view, target, fpgs, vfs>>
      BY <1>0, <1>7, <2>5, MakingFpgSteps
    <3>2. HasIp(c) /\ HasFpg(c) /\ vfs[target[c]] = view[c].ip
      BY <1>2, <1>4, <2>5 DEF ApartInv
    <3> QED
      BY <1>2, <1>3, <2>5, <3>1, <3>2 DEF ApartInv
  <2>6. CASE /\ \/ pc[c] = "draw" /\ pc'[c] = "fpg"
                \/ pc[c] = "fpg" /\ pc'[c] \in {"draw", "fail"}
             /\ UNCHANGED <<made, fpgs, vfs, locked>>
    <3>1. ~OnNewFpg(c)' /\ ~HasAddress(c)'
      BY <1>0, <2>6, ListFacts DEF MadeInv
    <3> QED
      BY <1>5, <2>6, <3>1 DEF HasFpg, HasIp
  <2>7. CASE /\ \/ pc[c] = "default" /\ pc'[c] = "fpg_meta"
                \/ pc[c] = "vfs_meta" /\ pc'[c] = "mark"
                \/ pc[c] \in {"claim", "vfs", "vfs_meta", "mark"} /\ pc'[c] = "fail"
             /\ UNCHANGED <<made, view, target, fpgs, vfs, locked>>
    <3>1. (OnNewFpg(c)' <=> OnNewFpg(c)) /\ (HasAddress(c)' <=> HasAddress(c))
      BY <1>0, <2>7, ListFacts, AddressFacts
    <3> QED
      BY <1>5, <2>7, <3>1 DEF HasFpg, HasIp, Owning
  <2> QED
    BY <1>0, <1>7, <2>1, <2>2, <2>3, <2>4, <2>5, <2>6, <2>7, MakingFpgSteps DEF FpgUnchanged
<1>8. CASE MakingShare(c)
  <2>1. /\ UNCHANGED <<target, fpgs, vfs, locked>> /\ view'[c].ip = view[c].ip
        /\ made' = made \/ made' = [made EXCEPT ![c] = Append(@, "share")]
        /\ pc'[c] \notin {"vfs", "vfs_meta", "mark", "default", "fpg_meta", "undo_fpg"}
        /\ pc'[c] \in Owning => pc[c] \in Owning \union
             {"init", "getter", "pick", "draw", "fpg", "default", "fpg_meta"}
    BY <1>0, <1>8, MakingShareSteps DEF FpgUnchanged, Owning
  <2>2. (OnNewFpg(c)' <=> OnNewFpg(c)) /\ (HasAddress(c)' <=> HasAddress(c))
    BY <1>0, <2>1, ListFacts, AddressFacts
  <2>3. OnNewFpg(c) => pc[c] \notin {"init", "getter", "pick", "draw", "fpg", "default", "fpg_meta"}
    BY <1>0 DEF MadeInv, OnceInv
  <2> QED
    BY <1>0, <1>5, <2>1, <2>2, <2>3 DEF HasFpg, HasIp
<1>9. CASE Undoing(c)
  <2>1. UNCHANGED target /\ view'[c].ip = view[c].ip
    BY <1>0, <1>9, UndoingSteps
  <2>2. CASE pc[c] = "undo_ip" /\ Undone(c) /\ UndoNext(c, made'[c]) /\ locked' = locked \ {view[c].ip}
             /\ UNCHANGED <<fpgs, vfs>>
    <3>1. HasIp(c) /\ HasFpg(c) /\ LastMade(c, "ip")
      BY <1>0, <1>4, <2>2 DEF MadeInv
    <3>2. ~HasAddress(c)'
      BY <1>0, <2>2, <3>1, OnceFacts DEF OnceInv, HasAddress
    <3>3. pc'[c] \notin {"vfs", "vfs_meta", "mark"}
      BY <1>0, <2>2, UndoGoes
    <3>4. ~HasIp(c)'
      BY <3>2 DEF HasIp
    <3>5. \A d \in Call : HasFpg(d)' => HasFpg(d)
      BY <1>3, <3>1
    <3> QED
      BY <1>2, <1>3, <2>1, <2>2, <3>1, <3>3, <3>4, <3>5 DEF ApartInv
  <2>3. CASE pc[c] = "undo_fpg" /\ DeleteFromArray(target[c]) /\ UNCHANGED <<made, locked>>
             /\ pc'[c] \in {"undo_default", "undo_meta"}
    <3>1. HasFpg(c) /\ ~HasFpg(c)' /\ ~HasIp(c)'
      BY <1>4, <2>3 DEF HasFpg, HasIp, Owning
    <3>2. target[c] \in Fpg
      BY <1>2, <3>1 DEF ApartInv
    <3>3. vfs \in [Fpg -> Ip \union {None}] /\ fpgs \in [Fpg -> Cpg \union {None}]
      BY <1>0 DEF TypeInv, TypeOK
    <3>4. /\ vfs'[target[c]] = None
          /\ \A f \in Fpg \ {target[c]} : vfs'[f] = vfs[f] /\ fpgs'[f] = fpgs[f]
      BY <2>3, <3>2, <3>3 DEF DeleteFromArray
    <3>5. \A d \in Call \ {c} : HasFpg(d) => target[d] \in Fpg \ {target[c]}
      BY <1>2, <3>1 DEF ApartInv
    <3>6. \A f, g \in Fpg : f # g /\ vfs'[f] # None => vfs'[f] # vfs'[g]
      BY <1>2, <3>4 DEF ApartInv
    <3>7. \A d \in Call \ {c} :
            /\ pc[d] \in {"vfs", "vfs_meta", "mark"} => HasIp(d) /\ HasFpg(d)
            /\ pc[d] = "vfs" => view[d].ip # None
      <4>1. \A d \in Call \ {c} : LastMade(d, "ip") => HasAddress(d)
        BY <1>0, ListFacts DEF HasAddress
      <4>2. \A d \in Call \ {c} :
              pc[d] \in {"vfs", "vfs_meta", "mark"} => HasIp(d) /\ HasFpg(d)
        BY <1>3, <4>1 DEF ShareInv, MadeInv, HasIp, Owning
      <4>3. \A d \in Call \ {c} : pc[d] = "vfs" => view[d].ip # None
        BY <1>0, ShareAssumption DEF TypeInv, CallInv
      <4> QED
        BY <4>2, <4>3
    <3> QED
      BY <1>2, <1>3, <2>1, <2>3, <3>1, <3>4, <3>5, <3>6, <3>7 DEF ApartInv
  <2>4. CASE UNCHANGED <<fpgs, vfs, locked>>
    <3>1. /\ made' = made \/ Undone(c)
          /\ pc'[c] \notin {"vfs", "vfs_meta", "mark", "default", "fpg_meta"}
      BY <1>0, <1>9, UndoingSteps, UndoGoes
    <3>2. /\ OnNewFpg(c)' => OnNewFpg(c)
          /\ HasAddress(c)' => HasAddress(c)
      BY <1>0, <3>1, ListFacts, AddressFacts, OnceFacts
    <3>3. pc[c] = "undo_meta" => ~OnNewFpg(c)'
      <4>1. ASSUME pc[c] = "undo_meta" PROVE Undone(c) /\ LastMade(c, "fpg")
        BY <1>0, <1>9, <4>1, UndoingSteps DEF MadeInv
      <4> QED
        BY <1>0, <4>1, OnceFacts DEF OnceInv, OnNewFpg
    <3>4. /\ pc'[c] \in Owning \union {"undo_fpg"} => pc[c] \in Owning \union {"undo_meta"}
      BY <1>0, <1>9, <2>4, UndoingSteps, UndoGoes DEF Owning
    <3> QED
      BY <1>0, <1>5, <2>1, <2>4, <3>1, <3>2, <3>3, <3>4 DEF HasFpg, HasIp
  <2> QED
    BY <1>0, <1>9, <2>2, <2>3, <2>4, UndoingSteps DEF FpgUnchanged
<1>10. CASE LockTimeout(c) \/ Crash(c)
  <2>1. /\ UNCHANGED <<view, target, made, fpgs, vfs, locked>>
        /\ \/ pc'[c] \in {"done", "dead"}
           \/ pc[c] \in {"init", "fpg", "vfs_meta"} /\ pc'[c] = "fail"
    BY <1>0, <1>10, EndingSteps DEF FpgUnchanged
  <2>2. (OnNewFpg(c)' <=> OnNewFpg(c)) /\ (HasAddress(c)' <=> HasAddress(c))
    BY <1>0, <2>1, ListFacts, AddressFacts
  <2>3. pc[c] \in {"init", "fpg"} => ~OnNewFpg(c)
    BY <1>0 DEF MadeInv
  <2> QED
    BY <1>0, <1>5, <2>1, <2>2, <2>3 DEF HasFpg, HasIp, Owning
<1> QED
  BY <1>1, <1>6, <1>7, <1>8, <1>9, <1>10 DEF CallStep

-----------------------------------------------------------------------------
(* What a failed creation leaves exported *)

RemovalOf(s) == \E d \in Call : Removes(d) /\ MyShare(d) = s

\* A creation that has a share on the array, and will undo it if it fails.
Kept(c) ==
  \/ pc[c] = "save_id"
  \/ pc[c] = "undo_share" /\ (LastMade(c, "share") \/ failures = 1)
  \/ pc[c] \in {"quota", "finish", "fail"} /\ LastMade(c, "share")

Tidy(e) ==
  \/ pc[e[1]] \in {"made", "broken", "dead"}
  \/ Kept(e[1]) /\ e = view[e[1]].id

Recorded(c) ==
  pc[c] \in Creation \ {"enter", "init", "fail"} /\ ~RemovalOf(MyShare(c)) =>
    rec[MyShare(c)] # None

CleanInv ==
  /\ \A e \in exports : pc[e[1]] # "idle"
  /\ \A c \in Call : Recorded(c)
  /\ failures <= 1 => \A e \in exports : ~RemovalOf(MyShare(e[1])) => Tidy(e)

\* What one call does, if its own part is kept.
LEMMA StepClean ==
  ASSUME CleanInv, TypeInv, TypeInv', NEW c \in Call, Alone(c), req' = req,
         failures' \in {failures, failures + 1}, pc'[c] # "idle", Recorded(c)',
         \A s \in Share : rec[s] # None => rec'[s] # None \/ RemovalOf(s),
         \A e \in exports' : e[1] # c => e \in exports,
         failures' <= 1 /\ ~RemovalOf(MyShare(c)) =>
           \A e \in exports' : e[1] = c => Tidy(e)'
  PROVE  CleanInv'
<1>0. /\ exports \subseteq Call \X Fpg /\ exports' \subseteq Call \X Fpg
      /\ failures \in Nat /\ failures' \in Nat
  BY ShareAssumption DEF TypeInv, TypeOK
<1>1. \A s : RemovalOf(s)' <=> RemovalOf(s)
  BY DEF RemovalOf, Removes, MyShare
<1>2. \A d \in Call : MyShare(d)' = MyShare(d)
  BY DEF MyShare
<1>3. \A e \in exports' : pc'[e[1]] # "idle"
  BY <1>0 DEF CleanInv, Alone
<1>4. ASSUME NEW d \in Call PROVE Recorded(d)'
  <2>1. CASE d = c
    BY <2>1
  <2>2. CASE d # c
    <3>1. SUFFICES ASSUME pc[d] \in Creation \ {"enter", "init", "fail"},
                          ~RemovalOf(MyShare(d))
                   PROVE  rec'[MyShare(d)] # None
      BY <1>1, <1>2, <2>2 DEF Recorded, Alone
    <3>2. rec[MyShare(d)] # None
      BY <3>1 DEF CleanInv, Recorded
    <3>3. MyShare(d) \in Share
      BY <3>1, RequestFacts DEF TypeInv, CallInv, MyShare
    <3> QED
      BY <3>1, <3>2, <3>3
  <2> QED
    BY <2>1, <2>2
<1>5. ASSUME failures' <= 1, NEW e \in exports', ~RemovalOf(MyShare(e[1]))'
      PROVE  Tidy(e)'
  <2>0. e[1] \in Call /\ ~RemovalOf(MyShare(e[1]))
    BY <1>0, <1>1, <1>2, <1>5
  <2>1. CASE e[1] = c
    BY <1>5, <2>0, <2>1
  <2>2. CASE e[1] # c
    <3>1. e \in exports /\ failures <= 1
      BY <1>0, <1>5, <2>2
    <3>2. Tidy(e)
      BY <2>0, <3>1 DEF CleanInv
    <3>3. failures = 1 => failures' = 1
      BY <1>0, <1>5
    <3>4. DEFINE d == e[1]
    <3>5. /\ pc'[d] = pc[d] /\ view'[d] = view[d] /\ made'[d] = made[d]
      BY <2>0, <2>2 DEF Alone
    <3>6. Kept(d) => Kept(d)'
      BY <3>3, <3>5 DEF Kept, LastMade
    <3> QED
      BY <3>2, <3>5, <3>6 DEF Tidy
  <2> QED
    BY <2>1, <2>2
<1> QED
  BY <1>3, <1>4, <1>5 DEF CleanInv

\* A creation that keeps no share has none exported.
LEMMA NoneExported ==
  ASSUME CleanInv, TypeInv, NEW c \in Call, failures <= 1, ~RemovalOf(MyShare(c)),
         pc[c] \notin {"made", "broken", "dead"}, ~Kept(c)
  PROVE  \A e \in exports : e[1] # c
BY DEF CleanInv, Tidy

LEMMA StepsClean ==
  ASSUME ShareInv, ShareInv', NEW c \in Call, Alone(c), OnceInv(c), CallStep(c), CleanInv
  PROVE  CleanInv'
<1>0. /\ TypeInv /\ TypeInv' /\ CallOK /\ CallOK' /\ MadeInv(c) /\ MadeInv(c)' /\ Recorded(c)
      /\ exports \subseteq Call \X Fpg /\ exports' \subseteq Call \X Fpg
      /\ failures \in Nat /\ failures' \in Nat
      /\ rec \in [Share -> Record \union {None}] /\ \A r \in Record : r # None
      /\ view \in [Call -> Record] /\ view' \in [Call -> Record]
  <2>1. TypeInv /\ TypeInv' /\ MadeInv(c) /\ MadeInv(c)' /\ Recorded(c)
    BY DEF ShareInv, CleanInv
  <2>2. CallOK /\ CallOK'
    BY <2>1 DEF TypeInv, TypeOK, CallOK
  <2>3. failures \in Nat /\ failures' \in Nat
    BY <2>1, ShareAssumption DEF TypeInv, TypeOK
  <2>4. exports \subseteq Call \X Fpg /\ exports' \subseteq Call \X Fpg
    BY <2>1 DEF TypeInv, TypeOK
  <2>5. rec \in [Share -> Record \union {None}] /\ \A r \in Record : r # None
    BY <2>1, RecordAssumption DEF TypeInv, TypeOK
  <2> QED
    BY <2>1, <2>2, <2>3, <2>4, <2>5 DEF CallOK
<1>1. /\ req' = req /\ failures' \in {failures, failures + 1} /\ pc'[c] # "idle"
  <2>1. /\ req' = req
    BY <1>0, ChoosingSteps, MakingFpgSteps, MakingShareSteps, UndoingSteps, RemovingSteps,
       EndingSteps DEF CallStep
  <2>2. failures' \in {failures, failures + 1}
    BY <1>0, ChoosingSteps, MakingFpgSteps, MakingShareSteps, UndoingSteps, RemovingSteps,
       EndingSteps DEF CallStep
  <2>3. CASE Undoing(c)
    BY <1>0, <2>3, UndoingSteps, UndoGoes
  <2>4. CASE ~Undoing(c)
    BY <1>0, <2>4, ChoosingSteps, MakingFpgSteps, MakingShareSteps, RemovingSteps,
       EndingSteps DEF CallStep, Removal
  <2> QED
    BY <2>1, <2>2, <2>3, <2>4
<1>2. /\ MyShare(c)' = MyShare(c)
      /\ RemovalOf(MyShare(c))' <=> RemovalOf(MyShare(c))
      /\ pc[c] \in Creation => MyShare(c) \in Share
  BY <1>0, <1>1, RequestFacts DEF MyShare, RemovalOf, Removes, TypeInv, CallInv
<1>3. ASSUME failures' <= 1 PROVE failures <= 1
  BY <1>0, <1>1, <1>3
<1>4. ASSUME failures' <= 1, ~RemovalOf(MyShare(c)),
             pc[c] \notin {"made", "broken", "dead"}, ~Kept(c)
      PROVE  \A e \in exports : e[1] # c
  BY <1>0, <1>3, <1>4, NoneExported
<1>5. CASE Choosing(c)
  <2>1. \A s \in Share : rec[s] # None => rec'[s] # None
    BY <1>0, <1>5, ChoosingSteps
  <2>2. Recorded(c)'
    <3>1. CASE pc[c] = "init"
      <4>1. rec' = [rec EXCEPT ![MyShare(c)] = view[c]]
        BY <1>0, <1>5, <3>1, ChoosingSteps
      <4>2. MyShare(c) \in Share
        BY <1>2, <3>1 DEF Creation, Early
      <4> QED
        BY <1>0, <1>2, <4>1, <4>2 DEF Recorded
    <3>2. CASE pc[c] = "enter"
      <4>1. pc'[c] \in {"init", "done"}
        BY <1>0, <1>5, <3>2, ChoosingSteps
      <4> QED
        BY <4>1 DEF Recorded, Creation, Early, Late, Undo
    <3>3. CASE pc[c] \in {"getter", "pick"}
      <4>1. rec' = rec
        BY <1>0, <1>5, <3>3, ChoosingSteps
      <4> QED
        BY <1>0, <1>2, <3>3, <4>1 DEF Recorded, Creation, Early
    <3> QED
      BY <1>0, <1>5, <3>1, <3>2, <3>3, ChoosingSteps
  <2>3. /\ pc[c] \in {"enter", "init", "getter", "pick"} /\ exports' = exports
    BY <1>0, <1>5, ChoosingSteps
  <2> QED
    BY <1>0, <1>1, <1>4, <2>1, <2>2, <2>3, StepClean DEF Kept
<1>6. CASE MakingFpg(c)
  <2>1. /\ rec' = rec /\ exports' = exports
        /\ pc[c] \in {"draw", "fpg", "default", "fpg_meta", "claim", "vfs", "vfs_meta", "mark"}
    BY <1>0, <1>6, MakingFpgSteps
  <2>2. Recorded(c)'
    BY <1>0, <1>2, <2>1 DEF Recorded, Creation, Early, Late
  <2> QED
    BY <1>0, <1>1, <1>4, <2>1, <2>2, StepClean DEF Kept
<1>7. CASE MakingShare(c)
  <2>1. \A s \in Share : rec[s] # None => rec'[s] # None
    BY <1>0, <1>7, MakingShareSteps
  <2>2. Recorded(c)'
    <3>1. pc[c] \in Creation /\ (pc[c] \in {"init", "fail", "enter"} => pc'[c] = "fail")
      BY <1>0, <1>7, MakingShareSteps DEF Creation, Early, Late
    <3> QED
      BY <1>0, <1>2, <2>1, <3>1 DEF Recorded
  <2>3. \A e \in exports' : e[1] # c => e \in exports
    BY <1>0, <1>7, MakingShareSteps
  <2>4. ASSUME failures' <= 1, ~RemovalOf(MyShare(c)), NEW e \in exports', e[1] = c
        PROVE  Tidy(e)'
    <3>1. CASE pc[c] = "create" /\ pc'[c] = "save_id"
      <4>1. exports' = exports \union {<<c, MyFpg(c)>>} /\ view'[c].id = <<c, MyFpg(c)>>
        BY <1>0, <1>7, <3>1, MakingShareSteps
      <4>2. e \notin exports
        BY <1>4, <2>4, <3>1 DEF Kept
      <4> QED
        BY <2>4, <3>1, <4>1, <4>2 DEF Tidy, Kept
    <3>2. CASE pc[c] \in {"save_id", "quota", "finish"}
      <4>1. /\ e \in exports /\ view'[c] = view[c]
        BY <1>0, <1>7, <2>4, <3>2, MakingShareSteps
      <4>2. e = view[c].id /\ Kept(c)
        BY <1>3, <2>4, <3>2, <4>1 DEF CleanInv, Tidy
      <4>3. pc[c] \in {"quota", "finish"} => LastMade(c, "share") /\ LastMade(c, "share")'
        BY <1>0, <1>7, <3>2, <4>2, MakingShareSteps, ListFacts DEF Kept
      <4>4. ~(rec[MyShare(c)] = None)
        BY <1>0, <2>4, <3>2 DEF Recorded, Creation, Late
      <4>5. pc[c] = "save_id" => \/ pc'[c] = "quota" /\ LastMade(c, "share")'
                                 \/ pc'[c] = "undo_share" /\ failures' = 1
        <5>1. pc[c] = "save_id" =>
                \/ pc'[c] = "quota" /\ made' = [made EXCEPT ![c] = Append(@, "share")]
                \/ pc'[c] = "undo_share" /\ failures' = failures + 1
          BY <1>0, <1>7, MakingShareSteps
        <5>2. failures' = failures + 1 => failures' = 1
          BY <1>0, <2>4
        <5> QED
          BY <1>0, <5>1, <5>2, ListFacts
      <4>6. pc[c] \in {"quota", "finish"} =>
              pc'[c] \in {"finish", "fail", "undo_share", "made"}
        BY <1>0, <1>7, <4>4, MakingShareSteps
      <4>7. pc'[c] = "made" \/ Kept(c)'
        BY <3>2, <4>3, <4>5, <4>6 DEF Kept
      <4> QED
        BY <2>4, <4>1, <4>2, <4>7 DEF Tidy
    <3>3. CASE pc[c] \notin {"save_id", "quota", "finish"} /\ ~(pc'[c] = "save_id")
      <4>1. exports' = exports /\ pc[c] \notin {"made", "broken", "dead", "undo_share", "fail"}
        BY <1>0, <1>7, <3>3, MakingShareSteps
      <4> QED
        BY <1>4, <2>4, <3>3, <4>1 DEF Kept
    <3> QED
      BY <1>0, <1>7, <3>1, <3>2, <3>3, MakingShareSteps
  <2> QED
    BY <1>0, <1>1, <2>1, <2>2, <2>3, <2>4, StepClean
<1>8. CASE Undoing(c)
  <2>0. view'[c].id = view[c].id
    BY <1>0, <1>8, UndoingSteps
  <2>1. \A s \in Share : rec[s] # None => rec'[s] # None
    BY <1>0, <1>8, UndoingSteps
  <2>2. Recorded(c)'
    <3>1. CASE pc[c] = "fail" /\ rec' = [rec EXCEPT ![MyShare(c)] = view'[c]]
      BY <1>0, <1>2, <3>1 DEF Recorded, Creation
    <3>2. CASE pc[c] = "fail" /\ pc'[c] = "broken"
      BY <3>2 DEF Recorded, Creation, Early, Late, Undo
    <3>3. CASE pc[c] # "fail"
      <4>1. pc[c] \in Undo
        BY <1>0, <1>8, <3>3, UndoingSteps DEF Undo
      <4> QED
        BY <1>0, <1>2, <2>1, <4>1 DEF Recorded, Creation, Undo
    <3> QED
      BY <1>0, <1>8, <3>1, <3>2, <3>3, UndoingSteps
  <2>3. exports' \subseteq exports
    BY <1>0, <1>8, UndoingSteps DEF DeleteFromArray
  <2>4. ASSUME failures' <= 1, ~RemovalOf(MyShare(c)), NEW e \in exports', e[1] = c
        PROVE  Tidy(e)'
    <3>1. e \in exports /\ pc[c] \in Undo \union {"fail"}
      BY <1>0, <1>8, <2>3, <2>4, UndoingSteps DEF Undo
    <3>2. e = view[c].id /\ Kept(c)
      BY <1>3, <2>4, <3>1 DEF CleanInv, Tidy, Undo
    <3>3. CASE pc'[c] = "broken"
      BY <2>4, <3>3 DEF Tidy
    <3>4. CASE pc[c] = "fail" /\ pc'[c] # "broken"
      <4>1. LastMade(c, "share") /\ UndoNext(c, made[c]) /\ made' = made
        BY <1>0, <1>8, <3>2, <3>4, UndoingSteps DEF Kept
      <4>2. pc'[c] = "undo_share" /\ LastMade(c, "share")'
        BY <1>0, <4>1, NextUndo, MadeFacts DEF LastMade
      <4> QED
        BY <2>0, <2>4, <3>2, <4>2 DEF Tidy, Kept
    <3>5. CASE pc[c] = "undo_share" /\ pc'[c] # "broken"
      <4>1. CASE pc'[c] = "fail"
        <5>1. failures' = failures + 1 /\ made' = made
          BY <1>0, <1>8, <3>5, <4>1, UndoingSteps
        <5>2. failures # 1
          BY <1>0, <2>4, <5>1
        <5>3. LastMade(c, "share")'
          BY <3>2, <3>5, <5>1, <5>2 DEF Kept, LastMade
        <5> QED
          BY <2>0, <2>4, <3>2, <4>1, <5>3 DEF Tidy, Kept
      <4>2. CASE pc'[c] # "fail"
        BY <1>0, <1>8, <2>4, <3>2, <3>5, <4>2, UndoingSteps
      <4> QED
        BY <4>1, <4>2
    <3> QED
      BY <3>1, <3>2, <3>3, <3>4, <3>5 DEF Kept, Undo
  <2> QED
    BY <1>0, <1>1, <2>1, <2>2, <2>3, <2>4, StepClean
<1>9. CASE Removing(c)
  <2>1. /\ exports' \subseteq exports /\ pc[c] \in Removal /\ pc'[c] \in Removal \union {"done"}
        /\ \A s \in Share : s # MyShare(c) => rec'[s] = rec[s]
    BY <1>0, <1>9, RemovingSteps
  <2>2. RemovalOf(MyShare(c))
    BY <2>1 DEF OnceInv, RemovalOf
  <2>3. Recorded(c)'
    BY <1>2, <2>2 DEF Recorded
  <2> QED
    BY <1>0, <1>1, <2>1, <2>2, <2>3, StepClean
<1>10. CASE LockTimeout(c) \/ Crash(c)
  <2>1. rec' = rec /\ exports' = exports
    BY <1>0, <1>10, EndingSteps
  <2>2. Recorded(c)'
    <3>1. pc'[c] \notin Creation \ {"enter", "init", "fail"}
      BY <1>0, <1>10, EndingSteps DEF Creation, Early, Late, Undo
    <3> QED
      BY <3>1 DEF Recorded
  <2>3. ASSUME failures' <= 1, ~RemovalOf(MyShare(c)), NEW e \in exports', e[1] = c
        PROVE  Tidy(e)'
    <3>1. pc[c] # "count"
      BY <2>3 DEF OnceInv, RemovalOf, Removal
    <3>2. CASE pc'[c] = "dead"
      BY <2>3, <3>2 DEF Tidy
    <3>3. CASE pc'[c] # "dead"
      <4>1. pc[c] \in {"enter", "init", "fpg", "vfs_meta"}
        BY <1>0, <1>10, <3>1, <3>3, EndingSteps
      <4> QED
        BY <1>4, <2>1, <2>3, <4>1 DEF Kept
    <3> QED
      BY <3>2, <3>3
  <2> QED
    BY <1>0, <1>1, <2>1, <2>2, <2>3, StepClean
<1> QED
  BY <1>5, <1>6, <1>7, <1>8, <1>9, <1>10 DEF CallStep

-----------------------------------------------------------------------------
(* CreationInv and what follows from it *)

\* On top of ShareInv, what the creations keep apart and what they clean up.
CreationInv ==
  /\ ShareInv
  /\ \A c \in Call : OnceInv(c)
  /\ ApartFromRemovals
  /\ CleanInv

LEMMA ReceiveCreations ==
  ASSUME CreationInv, ShareInv', NEW c \in Call, NEW r \in Request,
         ReceiveCreate(c, r) \/ ReceiveRemove(c, r)
  PROVE  CreationInv'
<1>0. /\ TypeInv /\ CallOK /\ CallOK' /\ Alone(c) /\ MadeInv(c) /\ OnceInv(c)
  BY ReceiveType, TypeParts DEF CreationInv, ShareInv, TypeInv, TypeOK, CallOK
<1>1. /\ FpgUnchanged /\ UNCHANGED <<made, rec, exports, failures>>
      /\ pc[c] = "idle" /\ pc'[c] \in {"enter", "done", "forget", "delete_share"}
      /\ pc'[c] \in {"forget", "delete_share"} => Removes(c)'
  BY <1>0, ReceiveSteps
<1>2. \A d \in Call : made'[d] = made[d]
  BY <1>1
<1>3. \A d \in Call : OnceInv(d)'
  <2>1. OnceInv(c)'
    BY <1>0, <1>1, OnceFacts DEF OnceInv, Removal
  <2>2. ASSUME NEW d \in Call \ {c} PROVE OnceInv(d)'
    BY <1>0 DEF CreationInv, Alone, OnceInv, Once, OnNewFpg, HasAddress, Removes
  <2> QED
    BY <2>1, <2>2
<1>4. \A d \in Call : Removes(d) => Removes(d)' /\ MyShare(d)' = MyShare(d)
  BY <1>0, <1>1 DEF Alone, OnceInv, Removes, MyShare
<1>5. ApartFromRemovals'
  <2> SUFFICES ASSUME NoRemovals' PROVE ApartInv'
    BY DEF ApartFromRemovals
  <2>1. ApartInv
    BY <1>4 DEF CreationInv, ApartFromRemovals, NoRemovals
  <2>2. ~HasFpg(c)' /\ ~HasIp(c)' /\ pc'[c] \notin {"vfs", "vfs_meta", "mark"}
    BY <1>1 DEF HasFpg, HasIp, Owning
  <2>3. \A d \in Call \ {c} : /\ HasFpg(d)' <=> HasFpg(d)
                              /\ HasIp(d)' <=> HasIp(d)
                              /\ pc'[d] = pc[d] /\ view'[d] = view[d] /\ target'[d] = target[d]
    BY <1>0 DEF Alone, HasFpg, HasIp, OnNewFpg, HasAddress
  <2> QED
    BY <1>1, <2>1, <2>2, <2>3 DEF ApartInv, FpgUnchanged
<1>6. CleanInv'
  <2>1. \A e \in exports : e[1] \in Call /\ e[1] # c
    BY <1>0, <1>1 DEF CreationInv, CleanInv, TypeInv, TypeOK
  <2>2. \A d \in Call \ {c} : /\ pc'[d] = pc[d] /\ MyShare(d)' = MyShare(d)
                              /\ RemovalOf(MyShare(d)) => RemovalOf(MyShare(d)')
    BY <1>0, <1>4 DEF Alone, MyShare, RemovalOf
  <2>3. \A d \in Call : Recorded(d)'
    <3>1. Recorded(c)'
      BY <1>1 DEF Recorded, Creation, Early, Late, Undo
    <3>2. ASSUME NEW d \in Call \ {c} PROVE Recorded(d)'
      <4>1. RemovalOf(MyShare(d)) => RemovalOf(MyShare(d))'
        BY <1>4, <2>2 DEF RemovalOf
      <4> QED
        BY <1>1, <2>2, <4>1 DEF CreationInv, CleanInv, Recorded
    <3> QED
      BY <3>1, <3>2
  <2>4. \A e \in exports : Tidy(e) => Tidy(e)'
    BY <1>0, <1>1, <2>1 DEF Tidy, Kept, LastMade, Alone
  <2>5. \A e \in exports : RemovalOf(MyShare(e[1])) => RemovalOf(MyShare(e[1]))'
    BY <1>4, <2>1, <2>2 DEF RemovalOf
  <2>6. \A e \in exports : pc'[e[1]] # "idle"
    BY <2>1, <2>2 DEF CreationInv, CleanInv
  <2> QED
    BY <1>1, <2>3, <2>4, <2>5, <2>6 DEF CreationInv, CleanInv
<1> QED
  BY <1>3, <1>5, <1>6 DEF CreationInv

LEMMA InitialCreations == Init => CreationInv
<1> SUFFICES ASSUME Init PROVE CreationInv
  OBVIOUS
<1>1. ShareInv
  BY InitialShares
<1>2. \A c \in Call : /\ pc[c] \in {"made", "idle"} /\ made[c] = <<>>
                      /\ pc[c] = "idle" => req[c] = None
  BY DEF Init
<1>3. \A c \in Call : ~OnNewFpg(c) /\ ~HasAddress(c) /\ Once(c, "fpg") /\ Once(c, "ip")
  <2>1. DOMAIN <<>> = {}
    OBVIOUS
  <2> QED
    BY <1>2, <2>1 DEF OnNewFpg, HasAddress, Once
<1>4. \A c \in Call : OnceInv(c)
  BY <1>2, <1>3 DEF OnceInv, Removal
<1>5. ApartFromRemovals
  <2>1. \A f, g \in Fpg : f # g /\ vfs[f] # None => vfs[f] # vfs[g]
    BY ShareAssumption DEF Init
  <2>2. \A c \in Call : ~HasFpg(c) /\ ~HasIp(c) /\ pc[c] \notin {"vfs", "vfs_meta", "mark"}
    BY <1>2, <1>3 DEF HasFpg, HasIp
  <2> QED
    BY <2>1, <2>2 DEF ApartFromRemovals, ApartInv
<1>6. CleanInv
  <2>1. \A e \in exports : pc[e[1]] = "made"
    BY ShareAssumption DEF Init
  <2>2. \A c \in Call : Recorded(c)
    BY <1>2 DEF Recorded, Creation, Early, Late, Undo
  <2> QED
    BY <2>1, <2>2 DEF CleanInv, Tidy
<1> QED
  BY <1>1, <1>4, <1>5, <1>6 DEF CreationInv

LEMMA CreationStep == CreationInv /\ ShareInv' /\ [Next]_vars => CreationInv'
<1> SUFFICES ASSUME CreationInv, ShareInv', [Next]_vars PROVE CreationInv'
  OBVIOUS
<1>1. ASSUME NEW c \in Call, NEW r \in Request, ReceiveCreate(c, r) \/ ReceiveRemove(c, r)
      PROVE  CreationInv'
  BY <1>1, ReceiveCreations
<1>2. ASSUME NEW c \in Call, CallStep(c) PROVE CreationInv'
  <2>1. Alone(c)
    BY <1>2, ChoosingType, MakingFpgType, MakingShareType, UndoingType, RemovingType,
       EndingType DEF CallStep, CreationInv, ShareInv
  <2>2. OnceInv(c)'
    BY <1>2, StepsOnce DEF CreationInv
  <2>3. ASSUME NEW d \in Call \ {c} PROVE OnceInv(d)'
    <3>1. /\ pc'[d] = pc[d] /\ made'[d] = made[d] /\ req'[d] = req[d]
      BY <2>1 DEF Alone
    <3> QED
      BY <3>1 DEF CreationInv, OnceInv, Once, OnNewFpg, HasAddress, Removes
  <2>4. ApartFromRemovals' /\ CleanInv'
    BY <1>2, <2>1, StepsApart, StepsClean DEF CreationInv
  <2> QED
    BY <2>2, <2>3, <2>4 DEF CreationInv
<1>3. ASSUME UNCHANGED <<call, pc, rec, locked, fpgs, vfs, exports, failures>> PROVE CreationInv'
  <2>1. \A c \in Call : OnceInv(c)'
    BY <1>3 DEF CreationInv, OnceInv, Once, OnNewFpg, HasAddress, Removes, call
  <2>2. ApartFromRemovals'
    <3>1. \A c \in Call : (HasFpg(c)' <=> HasFpg(c)) /\ (HasIp(c)' <=> HasIp(c))
      BY <1>3 DEF HasFpg, HasIp, OnNewFpg, HasAddress, call
    <3>2. NoRemovals' <=> NoRemovals
      BY <1>3 DEF NoRemovals, Removes, call
    <3> QED
      BY <1>3, <3>1, <3>2 DEF CreationInv, ApartFromRemovals, ApartInv, call
  <2>3. CleanInv'
    <3>1. \A s : RemovalOf(s)' <=> RemovalOf(s)
      BY <1>3 DEF RemovalOf, Removes, MyShare, call
    <3>2. \A c : MyShare(c)' = MyShare(c)
      BY <1>3 DEF MyShare, call
    <3>3. \A e : Tidy(e)' <=> Tidy(e)
      BY <1>3 DEF Tidy, Kept, LastMade, call
    <3>4. \A c \in Call : Recorded(c)'
      BY <1>3, <3>1, <3>2 DEF CreationInv, CleanInv, Recorded
    <3> QED
      BY <1>3, <3>1, <3>2, <3>3, <3>4 DEF CreationInv, CleanInv
  <2> QED
    BY <2>1, <2>2, <2>3 DEF CreationInv
<1>4. ASSUME NEW k \in Key, OrphanExpires(k) PROVE CreationInv'
  BY <1>3, <1>4 DEF OrphanExpires, ips, array
<1>5. ASSUME UNCHANGED vars PROVE CreationInv'
  BY <1>3, <1>5 DEF vars, ips, array
<1> QED
  BY <1>1, <1>2, <1>4, <1>5 DEF Next, CallStep

LEMMA CreationInvariant == Spec => []CreationInv
<1> QED
  BY InitialCreations, CreationStep, ShareInvariant, PTL DEF Spec

\* UniqueIps: as long as no share is removed, no two virtual file servers have one address,
\* whatever creations run, on any nodes, and whatever raises or dies: ClaimAvailableIPCmd
\* passes over the addresses that others have locked, each stays locked until the array
\* reports the VFS, and the undo of a creation sets only its own address free, when its FPG
\* is still there.
THEOREM AddressesAreUnique == Spec => []UniqueIps
<1>1. CreationInv => UniqueIps
  BY DEF CreationInv, ApartFromRemovals, ApartInv, NoRemovals, UniqueIps
<1> QED
  BY <1>1, CreationInvariant, PTL

\* FailedIsClean: after one failure at most, a creation that ended as failed has nothing
\* exported, unless its name was removed meanwhile: what CreateShareCmd made is on the undo
\* list, or is taken back by the command itself, until the record says AVAILABLE.
THEOREM FailuresAreClean == Spec => []FailedIsClean
<1>1. CreationInv => FailedIsClean
  <2> SUFFICES ASSUME CreationInv, failures <= 1, NEW e \in exports, pc[e[1]] = "failed"
               PROVE  \E c \in Call : Removes(c) /\ MyShare(c) = MyShare(e[1])
    BY DEF FailedIsClean
  <2>1. ~Tidy(e)
    BY DEF Tidy, Kept
  <2> QED
    BY <2>1 DEF CreationInv, CleanInv, RemovalOf
<1> QED
  BY <1>1, CreationInvariant, PTL
=============================================================================
