------------------------- MODULE VolumeCreate_proof -------------------------
(* Proofs about making volumes and taking them back, as modelled in VolumeCreate. *)
EXTENDS VolumeCreate, SequenceTheorems, TLAPS

-----------------------------------------------------------------------------
(* The inductive invariant: what holds of each volume, of the group, and of the names that
   were imported. *)

Before == {"idle", "qos", "create"}

Underway == Making \ {"qos", "create"}

Leaving == {"role", "halt", "leave"}

Left == {"recount", "drop", "restart"}

StepsIn(q) == {q[i] : i \in 1..Len(q)}

\* The first undo step is the one of the volume, and no other.
Bottom(q) == \A i \in 1..Len(q) : q[i] = "volume" <=> i = 1

\* What the point where a request is at says of the rest of it.
PointInv(v) ==
  /\ pc[v] \in Before \union Importing \union Removing \union {"made", "failed", "kept", "removed"}
       => undo[v] = <<>>
  /\ pc[v] \in Underway => undo[v] # <<>>
  /\ v \in asked => pc[v] \in Removing \union {"kept", "removed"}
  /\ pc[v] \in {"kept", "removed", "unrecord"} => v \in asked
  /\ v \in saved /\ v \notin asked => pc[v] = "made"
  /\ pc[v] \in Importing => req[v].kind = "import" /\ req[v].ref \in Ref
  /\ pc[v] \in Making => req[v].kind # "import"

\* What is known about replication, and the place in the group that it is about.
InfoInv(v) ==
  /\ info[v] # "none" => pc[v] \notin (Making \ {"save"}) \union Importing \union {"idle", "delete"}
  /\ pc[v] \in Leaving \union Left \union {"erase"} => info[v] = "group"
  /\ pc[v] = "start" => v \in group.vols
  /\ info[v] # "none" /\ \/ pc[v] \in {"save", "made"}
                         \/ pc[v] = "undo" /\ (undo[v] # <<>> \/ info[v] = "response")
                         \/ pc[v] \in Leaving /\ v \notin asked
       => v \in group.vols

\* What a creation has made and not saved is what it still has to take back, or in the group.
LeftInv(v) ==
  /\ pc[v] = "idle" => v \notin disk \union vvs \union member
  /\ used["undo_failure"] = 0 /\ v \notin asked /\ pc[v] \notin {"idle", "made"} /\ req[v].kind # "import" =>
       /\ v \in vvs => "vvs" \in StepsIn(undo[v])
       /\ v \in member => "member" \in StepsIn(undo[v])
       /\ pc[v] \in Before \union Left => v \notin disk
       /\ pc[v] \in {"undo", "failed"} /\ v \in disk => undo[v] # <<>> \/ v \in group.vols

\* A volume that has been imported is there under its new name.
ImportInv(v) ==
  pc[v] \in {"renamed", "import_save"} \/ (pc[v] = "made" /\ req[v].kind = "import")
    => v \in disk /\ from[v] \in Ref

\* Without failures, only a removal touches a volume that is in the group.
CalmInv(v) ==
  NothingFailed /\ info[v] # "none" /\ v \notin asked => pc[v] \in {"save", "made"}

VolumeInv(v) ==
  /\ Bottom(undo[v]) /\ PointInv(v) /\ InfoInv(v) /\ LeftInv(v) /\ ImportInv(v) /\ CalmInv(v)

\* Who starts the group again, or has given up in a removal that can be asked for again.
Starter(v) ==
  \/ pc[v] \in {"add", "start", "erase"} \union Leaving \union Left
  \/ pc[v] = "kept" /\ info[v] = "group"

Halted == group.vols # {} /\ ~group.started

GroupInv ==
  /\ group.vols # {} => group.exists
  /\ NothingFailed /\ Halted => \E v \in Volume : Starter(v)

\* What has been imported has lost its name, to one volume.
FromInv ==
  /\ \A v \in Volume : from[v] # None => from[v] \in Ref \ disk
  /\ \A v, w \in Volume : from[v] = from[w] /\ v # w => from[v] = None

IInv == TypeOK /\ (\A v \in Volume : VolumeInv(v)) /\ GroupInv /\ FromInv

-----------------------------------------------------------------------------
(* Stacks, groups and counters *)

\* A step that is pushed.
LEMMA PushFacts ==
  ASSUME NEW q \in Seq(Step), NEW s \in Step, Bottom(q), s = "volume" <=> q = <<>>
  PROVE  /\ Append(q, s) \in Seq(Step) /\ Append(q, s) # <<>> /\ Bottom(Append(q, s))
         /\ StepsIn(Append(q, s)) = StepsIn(q) \union {s}
<1> DEFINE u == Append(q, s)
<1>1. /\ u \in Seq(Step) /\ Len(u) = Len(q) + 1 /\ Len(q) \in Nat
      /\ \A i \in 1..Len(q) : u[i] = q[i]
      /\ u[Len(q) + 1] = s
  BY AppendProperties, LenProperties
<1>2. q = <<>> <=> Len(q) = 0
  BY EmptySeq
<1> HIDE DEF u
<1>3. u # <<>>
  BY <1>1, EmptySeq
<1>4. Bottom(u)
  <2>1. \A i \in 1..Len(u) : i \in 1..Len(q) \/ i = Len(q) + 1
    BY <1>1
  <2> QED
    BY <1>1, <1>2, <2>1 DEF Bottom
<1>5. StepsIn(u) = StepsIn(q) \union {s}
  <2>1. 1..Len(u) = (1..Len(q)) \union {Len(q) + 1}
    BY <1>1
  <2> QED
    BY <1>1, <2>1 DEF StepsIn
<1> QED
  BY <1>1, <1>3, <1>4, <1>5 DEF u

\* A step that is popped; the last is that of the volume.
LEMMA PopFacts ==
  ASSUME NEW q \in Seq(Step), q # <<>>, Bottom(q)
  PROVE  LET u == SubSeq(q, 1, Len(q) - 1) IN
         /\ u \in Seq(Step) /\ Bottom(u) /\ q[Len(q)] \in Step
         /\ StepsIn(q) = StepsIn(u) \union {q[Len(q)]}
         /\ q[Len(q)] = "volume" <=> u = <<>>
<1> DEFINE n == Len(q) - 1
           u == SubSeq(q, 1, n)
<1>1. Len(q) \in Nat /\ Len(q) # 0 /\ n \in Nat /\ Len(q) = n + 1 /\ q[Len(q)] \in Step
  BY EmptySeq, LenProperties, ElementOfSeq
<1>2. u \in Seq(Step) /\ Len(u) = n /\ \A i \in 1..n : u[i] = q[i]
  <2>1. 1 \in 1..Len(q) + 1 /\ n \in 1 - 1..Len(q)
    BY <1>1
  <2>2. \A i \in 1..n : i \in 1..(n - 1 + 1) /\ 1 + i - 1 = i
    BY <1>1
  <2> QED
    BY <1>1, <2>1, <2>2, SubSeqProperties
<1> HIDE DEF u, n
<1>3. u = <<>> <=> n = 0
  BY <1>2, EmptySeq
<1>4. 1..Len(q) = (1..n) \union {n + 1}
  BY <1>1
<1>5. Bottom(u)
  BY <1>2, <1>4 DEF Bottom
<1>6. StepsIn(q) = StepsIn(u) \union {q[Len(q)]}
  BY <1>1, <1>2, <1>4 DEF StepsIn
<1>7. q[Len(q)] = "volume" <=> n = 0
  BY <1>1, <1>4 DEF Bottom
<1> QED
  BY <1>1, <1>2, <1>3, <1>5, <1>6, <1>7 DEF u, n

\* There is nothing in an empty stack.
LEMMA EmptyFacts == StepsIn(<<>>) = {} /\ Bottom(<<>>) /\ <<>> \in Seq(Step)
<1>1. Len(<<>>) = 0 /\ <<>> \in Seq(Step)
  BY EmptySeq
<1> QED
  BY <1>1 DEF StepsIn, Bottom

GroupType == [exists : BOOLEAN, started : BOOLEAN, vols : SUBSET Volume]

\* What becomes of the group.
LEMMA GroupFacts ==
  ASSUME TypeOK
  PROVE  /\ group \in GroupType /\ group.vols \subseteq Volume
         /\ group.exists \in BOOLEAN /\ group.started \in BOOLEAN
         /\ NoGroup \in GroupType /\ NoGroup.vols = {}
         /\ [NoGroup EXCEPT !.exists = TRUE] \in GroupType
         /\ [NoGroup EXCEPT !.exists = TRUE].vols = {}
         /\ Stop => /\ group' \in GroupType /\ group'.exists = group.exists
                    /\ group'.vols = group.vols /\ ~group'.started
         /\ Start => /\ group' \in GroupType /\ group'.exists = group.exists
                     /\ group'.vols = group.vols /\ group'.started
         /\ \A s \in SUBSET Volume :
              /\ [group EXCEPT !.vols = s] \in GroupType
              /\ [group EXCEPT !.vols = s].vols = s
              /\ [group EXCEPT !.vols = s].exists = group.exists
              /\ [group EXCEPT !.vols = s].started = group.started
BY DEF TypeOK, GroupType, NoGroup, Stop, Start

LEMMA SpendFacts ==
  ASSUME TypeOK, NEW e \in Event, Spend(e)
  PROVE  /\ used' \in [Event -> Nat] /\ \A f \in Event : used'[f] <= Limit[f]
         /\ used'[e] # 0 /\ \A f \in Event : f # e => used'[f] = used[f]
<1>1. used \in [Event -> Nat] /\ Limit \in [Event -> Nat] /\ \A f \in Event : used[f] <= Limit[f]
  BY CreateAssumption DEF TypeOK
<1>2. used[e] < Limit[e] /\ used' = [used EXCEPT ![e] = used[e] + 1]
  BY DEF Spend
<1> QED
  BY <1>1, <1>2

-----------------------------------------------------------------------------
(* How steps keep it *)

\* What a step of v leaves alone: all that the invariant says of another volume.
Frame(v) ==
  /\ \A w \in Volume \ {v} :
       /\ pc'[w] = pc[w] /\ req'[w] = req[w] /\ undo'[w] = undo[w]
       /\ info'[w] = info[w] /\ from'[w] = from[w]
       /\ w \in asked' <=> w \in asked
       /\ w \in saved' <=> w \in saved
       /\ w \in disk' <=> w \in disk
       /\ w \in vvs' <=> w \in vvs
       /\ w \in member' <=> w \in member
       /\ w \in group'.vols <=> w \in group.vols
  /\ \A e \in Event : used'[e] = 0 => used[e] = 0

\* A group that is stopped is started again by v, or by whoever was to start it before.
OwnStart(v) == NothingFailed' /\ Halted' => Starter(v)' \/ (Halted /\ ~Starter(v))

LEMMA VolumeStep ==
  ASSUME IInv, TypeOK', NEW v \in Volume, Frame(v), VolumeInv(v)', OwnStart(v),
         group'.vols # {} => group'.exists, FromInv'
  PROVE  IInv'
<1>1. ASSUME NEW w \in Volume, w # v PROVE VolumeInv(w)'
  <2>1. /\ pc'[w] = pc[w] /\ req'[w] = req[w] /\ undo'[w] = undo[w]
        /\ info'[w] = info[w] /\ from'[w] = from[w]
        /\ w \in asked' <=> w \in asked
        /\ w \in saved' <=> w \in saved
        /\ w \in disk' <=> w \in disk
        /\ w \in vvs' <=> w \in vvs
        /\ w \in member' <=> w \in member
        /\ w \in group'.vols <=> w \in group.vols
        /\ used'["undo_failure"] = 0 => used["undo_failure"] = 0
        /\ NothingFailed' => NothingFailed
    BY <1>1 DEF Frame, Event, NothingFailed
  <2>2. VolumeInv(w)
    BY DEF IInv
  <2>3. Bottom(undo[w])' /\ PointInv(w)' /\ InfoInv(w)'
    BY <2>1, <2>2 DEF VolumeInv, PointInv, InfoInv
  <2>4. LeftInv(w)'
    BY <2>1, <2>2 DEF VolumeInv, LeftInv
  <2>5. ImportInv(w)' /\ CalmInv(w)'
    BY <2>1, <2>2 DEF VolumeInv, ImportInv, CalmInv
  <2> QED
    BY <2>3, <2>4, <2>5 DEF VolumeInv
<1>2. GroupInv'
  <2> SUFFICES ASSUME NothingFailed', Halted' PROVE \E w \in Volume : Starter(w)'
    BY DEF GroupInv
  <2>1. CASE Starter(v)'
    BY <2>1
  <2>2. CASE Halted /\ ~Starter(v)
    <3>1. NothingFailed
      BY DEF Frame, Event, NothingFailed
    <3>2. PICK w \in Volume : Starter(w)
      BY <2>2, <3>1 DEF IInv, GroupInv
    <3>3. w # v /\ pc'[w] = pc[w] /\ info'[w] = info[w]
      BY <2>2, <3>2 DEF Frame
    <3> QED
      BY <3>2, <3>3 DEF Starter
  <2> QED
    BY <2>1, <2>2 DEF OwnStart
<1> QED
  BY <1>1, <1>2 DEF IInv

\* The types of what belongs to a volume.
LEMMA TypeFacts ==
  ASSUME TypeOK, NEW v \in Volume
  PROVE  /\ pc[v] \in Point /\ undo[v] \in Seq(Step) /\ found[v] \in Info /\ info[v] \in Info
         /\ req[v] \in Request \union {None} /\ from[v] \in Ref \union {None} /\ v \notin Ref
BY CreateAssumption DEF TypeOK

\* A step that goes on to another point and changes the group at most.
LEMMA MoveFrame ==
  ASSUME IInv, NEW v \in Volume, NEW p \in Point, pc' = [pc EXCEPT ![v] = p],
         UNCHANGED <<req, asked, undo, info, saved, disk, from, vvs, member>>,
         found' \in [Volume -> Info], group' \in GroupType, lock' \in Volume \union {Free},
         used' \in [Event -> Nat], \A e \in Event : used'[e] <= Limit[e],
         \A e \in Event : used'[e] = 0 => used[e] = 0,
         \A w \in Volume \ {v} : w \in group'.vols <=> w \in group.vols
  PROVE  TypeOK' /\ Frame(v) /\ pc'[v] = p /\ FromInv'
<1>1. pc \in [Volume -> Point]
  BY DEF IInv, TypeOK
<1>2. pc' \in [Volume -> Point] /\ pc'[v] = p /\ \A w \in Volume \ {v} : pc'[w] = pc[w]
  BY <1>1
<1>3. TypeOK'
  BY <1>2 DEF IInv, TypeOK, GroupType
<1>4. Frame(v)
  BY <1>2 DEF Frame
<1>5. FromInv'
  BY DEF IInv, FromInv
<1> QED
  BY <1>2, <1>3, <1>4, <1>5

\* The ways from one point to the next.
Allowed(v, p) ==
  \/ pc[v] = "qos" /\ p = "create"
  \/ /\ pc[v] \in {"policy", "find", "lock", "new_group", "tune", "state", "stop"}
     /\ p \in {"join", "lock", "new_group", "tune", "fetch", "state", "stop", "add"}
  \/ pc[v] = "add" /\ p = "start" /\ v \in group'.vols
  \/ pc[v] = "role" /\ p = "halt"
  \/ pc[v] = "halt" /\ p = "leave"
  \/ pc[v] = "leave" /\ p = "erase"
  \/ pc[v] \in Left /\ p \in Left \union {AfterDelete(v)}
  \/ pc[v] = "role" /\ p = AfterDelete(v) /\ v \in asked
  \/ pc[v] = "detail" /\ p = "rename"
  \/ pc[v] = "renamed" /\ p = "import_save"
  \/ pc[v] = "undo" /\ p = "failed" /\ undo[v] = <<>>

LEMMA MoveStep ==
  ASSUME IInv, NEW v \in Volume, NEW p \in Point, pc' = [pc EXCEPT ![v] = p],
         UNCHANGED <<req, asked, undo, info, saved, disk, from, vvs, member>>,
         found' \in [Volume -> Info], group' \in GroupType, lock' \in Volume \union {Free},
         used' \in [Event -> Nat], \A e \in Event : used'[e] <= Limit[e],
         \A e \in Event : used'[e] = 0 => used[e] = 0,
         \A w \in Volume \ {v} : w \in group'.vols <=> w \in group.vols,
         Allowed(v, p), pc[v] \notin {"add", "leave"} => group'.vols = group.vols,
         OwnStart(v), group'.vols # {} => group'.exists
  PROVE  IInv'
<1>1. TypeOK' /\ Frame(v) /\ pc'[v] = p /\ FromInv'
  BY MoveFrame
<1>2. VolumeInv(v) /\ TypeOK
  BY DEF IInv
<1>3. /\ undo'[v] = undo[v] /\ info'[v] = info[v] /\ req'[v] = req[v] /\ from'[v] = from[v]
      /\ used'["undo_failure"] = 0 => used["undo_failure"] = 0
      /\ NothingFailed' => NothingFailed
  BY DEF NothingFailed, Event
<1>4. Bottom(undo[v])' /\ StepsIn(undo[v])' = StepsIn(undo[v])
  BY <1>2, <1>3 DEF VolumeInv
<1>a. /\ v \in asked => AfterDelete(v) = "unrecord"
      /\ v \notin asked => AfterDelete(v) = "undo"
  BY DEF AfterDelete
<1>5. PointInv(v)'
  BY <1>1, <1>2, <1>3, <1>a
     DEF VolumeInv, PointInv, Allowed, Before, Making, Importing, Removing, Underway, Left
<1>6. InfoInv(v)'
  BY <1>1, <1>2, <1>3, <1>a
     DEF VolumeInv, PointInv, InfoInv, Allowed, Before, Making, Importing, Removing, Leaving, Left
<1>7. LeftInv(v)'
  BY <1>1, <1>2, <1>3, <1>4, <1>a
     DEF VolumeInv, PointInv, LeftInv, Allowed, Before, Making, Importing, Removing, Left
<1>8. ImportInv(v)'
  BY <1>1, <1>2, <1>3, <1>a DEF VolumeInv, ImportInv, Allowed, Left
<1>9. CalmInv(v)'
  BY <1>1, <1>2, <1>3, <1>a DEF VolumeInv, CalmInv, Allowed, Left
<1> QED
  BY <1>1, <1>4, <1>5, <1>6, <1>7, <1>8, <1>9, VolumeStep DEF VolumeInv

\* Why a call raises: it has failed, or the array has refused it.
Reason(v) ==
  \/ ~NothingFailed' /\ (pc[v] \in Removing /\ v \notin asked => used'["undo_failure"] # 0)
  \/ /\ pc[v] \notin {"save", "import_save", "role", "recount"}
     /\ pc[v] \in {"add", "start"} => ~Halted
     /\ pc[v] = "delete" => v \in group.vols
     /\ pc[v] = "erase" => v \notin disk

\* A call that raises, and goes to the handler.
LEMMA RaiseStep ==
  ASSUME IInv, NEW v \in Volume, Raise(v), Reason(v),
         pc[v] \notin {"idle", "undo", "made", "failed", "kept", "removed"},
         used' \in [Event -> Nat], \A e \in Event : used'[e] <= Limit[e],
         \A e \in Event : used'[e] = 0 => used[e] = 0
  PROVE  IInv'
<1> DEFINE p == Handler(v)
<1>1. /\ pc' = [pc EXCEPT ![v] = p] /\ UNCHANGED <<req, asked, undo, found, info, saved, array>>
      /\ lock' \in Volume \union {Free}
  BY DEF Raise, GoTo, IInv, TypeOK
<1>2. VolumeInv(v) /\ TypeOK /\ pc[v] \in Point
  BY TypeFacts DEF IInv
<1>3. \/ p = "failed" /\ pc[v] \in {"qos", "detail", "rename", "renamed"}
      \/ p = "kept" /\ pc[v] \in Removing /\ v \in asked
      \/ p = "undo" /\ pc[v] \in Removing /\ v \notin asked
      \/ p = "undo" /\ pc[v] \in (Making \ {"qos"}) \union {"import_save"}
  BY <1>2 DEF Handler, Point, Making, Importing, Removing
<1>4. p \in Point
  BY <1>3 DEF Point
<1> HIDE DEF p
<1>5. TypeOK' /\ Frame(v) /\ pc'[v] = p /\ FromInv'
  BY <1>1, <1>2, <1>4, MoveFrame, GroupFacts DEF IInv, TypeOK, array
<1>6. /\ undo'[v] = undo[v] /\ info'[v] = info[v] /\ req'[v] = req[v] /\ from'[v] = from[v]
      /\ used'["undo_failure"] = 0 => used["undo_failure"] = 0
      /\ NothingFailed' => NothingFailed
      /\ UNCHANGED <<asked, saved, disk, vvs, member, group>>
  BY <1>1 DEF NothingFailed, Event, array
<1>7. Bottom(undo[v])' /\ StepsIn(undo[v])' = StepsIn(undo[v])
  BY <1>2, <1>6 DEF VolumeInv
<1>8. PointInv(v)'
  BY <1>2, <1>3, <1>5, <1>6
     DEF VolumeInv, PointInv, Before, Making, Importing, Removing, Underway
<1>9. InfoInv(v)'
  BY <1>2, <1>3, <1>5, <1>6
     DEF VolumeInv, PointInv, InfoInv, Before, Making, Importing, Removing, Leaving, Left
<1>10. LeftInv(v)'
  <2>1. CASE pc[v] \in Removing /\ v \notin asked
    BY <1>2, <1>3, <1>5, <1>6, <1>7, <2>1
       DEF VolumeInv, PointInv, InfoInv, LeftInv, Reason, Before, Making, Importing, Removing, Leaving, Left
  <2>2. CASE ~(pc[v] \in Removing /\ v \notin asked)
    BY <1>2, <1>3, <1>5, <1>6, <1>7, <2>2
       DEF VolumeInv, PointInv, LeftInv, Before, Making, Importing, Removing, Underway, Left
  <2> QED
    BY <2>1, <2>2
<1>11. ImportInv(v)'
  BY <1>2, <1>3, <1>5, <1>6 DEF VolumeInv, ImportInv
<1>12. CalmInv(v)'
  BY <1>2, <1>3, <1>5, <1>6 DEF VolumeInv, CalmInv, Reason
<1>13. OwnStart(v)
  <2> SUFFICES ASSUME NothingFailed', Halted', Starter(v), ~Starter(v)' PROVE FALSE
    BY <1>6 DEF OwnStart, Halted
  <2>1. pc[v] \in {"add", "start", "erase"} \union Leaving \union Left
    BY DEF Starter
  <2>2. pc[v] \notin {"add", "start"}
    BY <1>6 DEF Reason, Halted
  <2>3. info[v] = "group" /\ pc[v] \in Removing
    BY <1>2, <2>1, <2>2 DEF VolumeInv, InfoInv, Leaving, Left, Removing
  <2>4. v \in asked
    BY <1>2, <1>6, <2>3 DEF VolumeInv, CalmInv, Removing
  <2> QED
    BY <1>3, <1>5, <1>6, <2>3, <2>4 DEF Starter, Making, Removing
<1> QED
  BY <1>5, <1>6, <1>7, <1>8, <1>9, <1>10, <1>11, <1>12, <1>13, VolumeStep
     DEF VolumeInv, IInv, GroupInv

-----------------------------------------------------------------------------
(* Steps that only go on *)

\* A call that works and changes neither the array nor what is known of the volume.
LEMMA StillStep ==
  ASSUME IInv, NEW v \in Volume, NEW p \in Point, Works(v, p), UNCHANGED <<undo, info, array>>,
         found' \in [Volume -> Info], lock' \in Volume \union {Free},
         Allowed(v, p), pc[v] # "add",
         Halted /\ Starter(v) => p \in {"add", "start", "erase"} \union Leaving \union Left
  PROVE  IInv'
<1>1. /\ pc' = [pc EXCEPT ![v] = p]
      /\ UNCHANGED <<req, asked, undo, info, saved, disk, from, vvs, member, group, used>>
  BY DEF Works, GoTo, array
<1>2. /\ used' \in [Event -> Nat] /\ \A e \in Event : used'[e] <= Limit[e]
      /\ \A e \in Event : used'[e] = 0 => used[e] = 0
      /\ group' \in GroupType /\ group'.vols = group.vols
      /\ group'.vols # {} => group'.exists
      /\ pc'[v] = p
  BY <1>1 DEF IInv, TypeOK, GroupType, GroupInv
<1>3. OwnStart(v)
  BY <1>1, <1>2 DEF OwnStart, Halted, Starter
<1> QED
  BY <1>1, <1>2, <1>3, MoveStep

\* A call that works and changes the group.
LEMMA GroupStep ==
  ASSUME IInv, NEW v \in Volume, NEW p \in Point, Works(v, p),
         UNCHANGED <<undo, found, info, disk, from, vvs, member, lock>>,
         group' \in GroupType, \A w \in Volume \ {v} : w \in group'.vols <=> w \in group.vols,
         Allowed(v, p), pc[v] \notin {"add", "leave"} => group'.vols = group.vols,
         OwnStart(v), group'.vols # {} => group'.exists
  PROVE  IInv'
<1>1. /\ pc' = [pc EXCEPT ![v] = p]
      /\ UNCHANGED <<req, asked, undo, info, saved, disk, from, vvs, member, used>>
  BY DEF Works, GoTo
<1>2. /\ used' \in [Event -> Nat] /\ \A e \in Event : used'[e] <= Limit[e]
      /\ \A e \in Event : used'[e] = 0 => used[e] = 0
      /\ found' \in [Volume -> Info] /\ lock' \in Volume \union {Free}
  BY <1>1 DEF IInv, TypeOK
<1> QED
  BY <1>1, <1>2, MoveStep

\* A call that the array refuses.
LEMMA RefusedStep ==
  ASSUME IInv, NEW v \in Volume, Refused(v),
         pc[v] \notin {"idle", "undo", "made", "failed", "kept", "removed",
                       "save", "import_save", "role", "recount"},
         pc[v] \in {"add", "start"} => ~Halted,
         pc[v] = "delete" => v \in group.vols,
         pc[v] = "erase" => v \notin disk
  PROVE  IInv'
<1>1. /\ used' \in [Event -> Nat] /\ \A e \in Event : used'[e] <= Limit[e]
      /\ \A e \in Event : used'[e] = 0 => used[e] = 0
  BY DEF IInv, TypeOK, Refused
<1> QED
  BY <1>1, RaiseStep DEF Refused, Reason

\* A call that fails.
LEMMA FailedStep ==
  ASSUME IInv, NEW v \in Volume, CallRaises(v)
  PROVE  IInv'
<1>1. FailureOf(v) \in Event
  BY DEF FailureOf, Event
<1>2. /\ used' \in [Event -> Nat] /\ \A e \in Event : used'[e] <= Limit[e]
      /\ used'[FailureOf(v)] # 0 /\ \A e \in Event : e # FailureOf(v) => used'[e] = used[e]
  BY <1>1, SpendFacts DEF CallRaises, IInv
<1>3. \A e \in Event : used'[e] = 0 => used[e] = 0
  BY <1>2
<1>4. /\ pc[v] \in Removing /\ v \notin asked => FailureOf(v) = "undo_failure"
      /\ FailureOf(v) \in {"failure", "undo_failure"}
  BY DEF FailureOf
<1>5. Reason(v)
  BY <1>2, <1>4 DEF Reason, NothingFailed
<1> QED
  BY <1>2, <1>3, <1>5, RaiseStep DEF CallRaises

\* A group without volumes is not halted, and one that is not there has none.
LEMMA HaltedFacts ==
  ASSUME IInv
  PROVE  /\ Halted => group.exists /\ ~group.started /\ group.vols # {}
         /\ ~group.exists => group.vols = {}
BY DEF IInv, GroupInv, Halted

LEMMA AfterFacts ==
  ASSUME NEW v \in Volume
  PROVE  /\ AfterDelete(v) \in Point
         /\ v \in asked => AfterDelete(v) = "unrecord"
         /\ v \notin asked => AfterDelete(v) = "undo"
BY DEF AfterDelete, Point, Removing

\* What is known in a thread that takes a volume out of the group.
LEMMA DestroyFacts ==
  ASSUME IInv, NEW v \in Volume
  PROVE  pc[v] \in Leaving /\ v \notin asked => v \in group.vols
<1>1. VolumeInv(v)
  BY DEF IInv
<1> QED
  BY <1>1 DEF VolumeInv, InfoInv, Leaving, Left

-----------------------------------------------------------------------------
LEMMA CreateMoves ==
  ASSUME IInv, NEW v \in Volume,
         CheckQos(v) \/ SetPolicy(v) \/ ReadDetail(v) \/ ReadRenamed(v)
  PROVE  IInv'
<1>1. {"create", "join", "rename", "import_save"} \subseteq Point
  BY DEF Point, Making, Importing
<1>2. found \in [Volume -> Info] /\ lock \in Volume \union {Free}
  BY DEF IInv, TypeOK
<1>3. CASE CheckQos(v)
  BY <1>1, <1>2, <1>3, StillStep DEF CheckQos, Allowed, Starter, Leaving, Left
<1>4. CASE SetPolicy(v)
  BY <1>1, <1>2, <1>4, StillStep DEF SetPolicy, Allowed, Starter, Leaving, Left
<1>5. CASE ReadDetail(v)
  <2>1. CASE Refused(v)
    BY <1>5, <2>1, RefusedStep DEF ReadDetail
  <2>2. CASE ~Refused(v)
    BY <1>1, <1>2, <1>5, <2>2, StillStep DEF ReadDetail, Allowed, Starter, Leaving, Left
  <2> QED
    BY <2>1, <2>2
<1>6. CASE ReadRenamed(v)
  BY <1>1, <1>2, <1>6, StillStep DEF ReadRenamed, Allowed, Starter, Leaving, Left
<1> QED
  BY <1>3, <1>4, <1>5, <1>6

LEMMA ReplicateMoves ==
  ASSUME IInv, NEW v \in Volume,
         \/ FindGroup(v) \/ LockGroup(v) \/ LockTimeout(v) \/ NewGroup(v) \/ TuneGroup(v)
         \/ ReadState(v) \/ StopGroup(v) \/ AddToGroup(v)
  PROVE  IInv'
<1>1. {"lock", "new_group", "tune", "fetch", "state", "stop", "add", "start"} \subseteq Point
  BY DEF Point, Making
<1>2. /\ TypeOK /\ found \in [Volume -> Info] /\ lock \in Volume \union {Free}
      /\ {"group", "response"} \subseteq Info
  BY DEF IInv, TypeOK, Info
<1>3. CASE FindGroup(v)
  <2> DEFINE p == IF group.exists THEN "state" ELSE "lock"
  <2>1. found' \in [Volume -> Info]
    BY <1>2, <1>3 DEF FindGroup
  <2>2. p \in {"state", "lock"} /\ Works(v, p) /\ pc[v] = "find" /\ UNCHANGED <<undo, info, array, lock>>
    BY <1>3 DEF FindGroup
  <2> HIDE DEF p
  <2>3. Allowed(v, p) /\ p \in Point
    BY <1>1, <2>2 DEF Allowed
  <2> QED
    BY <1>2, <2>1, <2>2, <2>3, StillStep DEF Starter, Leaving, Left
<1>4. CASE LockGroup(v)
  BY <1>1, <1>2, <1>4, StillStep DEF LockGroup, Allowed, Starter, Leaving, Left
<1>5. CASE LockTimeout(v)
  <2>1. /\ found' \in [Volume -> Info] /\ pc[v] = "lock" /\ pc' = [pc EXCEPT ![v] = "state"]
        /\ Spend("timeout") /\ UNCHANGED <<req, asked, undo, info, saved, array, lock>>
    BY <1>2, <1>5 DEF LockTimeout, GoTo
  <2>2. /\ used' \in [Event -> Nat] /\ \A e \in Event : used'[e] <= Limit[e]
        /\ \A e \in Event : used'[e] = 0 => used[e] = 0
    <3>1. "timeout" \in Event
      BY DEF Event
    <3> QED
      BY <1>2, <2>1, <3>1, SpendFacts
  <2>3. UNCHANGED <<disk, from, vvs, member, group>> /\ group \in GroupType
    BY <1>2, <2>1, GroupFacts DEF array
  <2>4. OwnStart(v)
    BY <2>1, <2>3 DEF OwnStart, Halted, Starter, Leaving, Left
  <2>5. Allowed(v, "state") /\ (group'.vols # {} => group'.exists)
    BY <2>1, <2>3 DEF Allowed, IInv, GroupInv
  <2> QED
    BY <1>1, <1>2, <2>1, <2>2, <2>3, <2>4, <2>5, HaltedFacts, MoveStep
<1>6. CASE NewGroup(v)
  <2>1. CASE Refused(v)
    BY <1>6, <2>1, RefusedStep DEF NewGroup
  <2>2. CASE ~Refused(v)
    <3>1. /\ pc[v] = "new_group" /\ ~group.exists /\ group' = [NoGroup EXCEPT !.exists = TRUE]
          /\ Works(v, "tune") /\ UNCHANGED <<undo, found, info, disk, from, vvs, member, lock>>
      BY <1>6, <2>2 DEF NewGroup
    <3>2. group' \in GroupType /\ group'.vols = {} /\ group.vols = {}
      BY <1>2, <3>1, GroupFacts, HaltedFacts
    <3>3. OwnStart(v) /\ Allowed(v, "tune")
      BY <3>1, <3>2 DEF OwnStart, Halted, Allowed
    <3> QED
      BY <1>1, <3>1, <3>2, <3>3, GroupStep
  <2> QED
    BY <2>1, <2>2
<1>7. CASE TuneGroup(v)
  BY <1>1, <1>2, <1>7, StillStep DEF TuneGroup, Allowed, Starter, Leaving, Left
<1>8. CASE ReadState(v)
  <2>1. CASE Refused(v)
    BY <1>8, <2>1, RefusedStep DEF ReadState
  <2>2. CASE ~Refused(v)
    <3> DEFINE p == IF group.started THEN "stop" ELSE "add"
    <3>1. p \in {"stop", "add"} /\ Works(v, p) /\ pc[v] = "state" /\ UNCHANGED <<undo, found, info, array, lock>>
      BY <1>8, <2>2 DEF ReadState
    <3> HIDE DEF p
    <3>2. Allowed(v, p) /\ p \in Point
      BY <1>1, <3>1 DEF Allowed
    <3> QED
      BY <1>2, <3>1, <3>2, StillStep DEF Starter, Leaving, Left
  <2> QED
    BY <2>1, <2>2
<1>9. CASE StopGroup(v)
  <2>1. CASE Refused(v)
    BY <1>9, <2>1, RefusedStep DEF StopGroup
  <2>2. CASE ~Refused(v)
    <3>1. /\ pc[v] = "stop" /\ CanStop /\ Stop /\ Works(v, "add")
          /\ UNCHANGED <<undo, found, info, disk, from, vvs, member, lock>>
      BY <1>9, <2>2 DEF StopGroup
    <3>2. /\ group' \in GroupType /\ group'.vols = group.vols
          /\ group'.exists = group.exists /\ group.exists
      BY <1>2, <3>1, GroupFacts DEF CanStop
    <3>3. pc'[v] = "add"
      BY <1>2, <3>1 DEF Works, GoTo, TypeOK
    <3>4. OwnStart(v) /\ Allowed(v, "add")
      BY <3>1, <3>3 DEF OwnStart, Starter, Allowed
    <3> QED
      BY <1>1, <3>1, <3>2, <3>4, GroupStep
  <2> QED
    BY <2>1, <2>2
<1>10. CASE AddToGroup(v)
  <2>1. CASE Refused(v) /\ ~CanAdd
    <3>1. ~Halted
      BY <2>1, HaltedFacts DEF CanAdd
    <3> QED
      BY <1>10, <2>1, <3>1, RefusedStep DEF AddToGroup
  <2>2. CASE ~(Refused(v) /\ ~CanAdd)
    <3>1. /\ pc[v] = "add" /\ CanAdd /\ group' = [group EXCEPT !.vols = group.vols \union {v}]
          /\ Works(v, "start") /\ UNCHANGED <<undo, found, info, disk, from, vvs, member, lock>>
      BY <1>10, <2>2 DEF AddToGroup
    <3>2. /\ group' \in GroupType /\ group'.vols = group.vols \union {v}
          /\ group'.exists = group.exists /\ group.exists
      BY <1>2, <3>1, GroupFacts DEF CanAdd
    <3>3. pc'[v] = "start"
      BY <1>2, <3>1 DEF Works, GoTo, TypeOK
    <3>4. OwnStart(v) /\ Allowed(v, "start")
      BY <3>1, <3>2, <3>3 DEF OwnStart, Starter, Allowed
    <3> QED
      BY <1>1, <3>1, <3>2, <3>4, GroupStep
  <2> QED
    BY <2>1, <2>2
<1> QED
  BY <1>3, <1>4, <1>5, <1>6, <1>7, <1>8, <1>9, <1>10

LEMMA DestroyMoves ==
  ASSUME IInv, NEW v \in Volume,
         ReadRole(v) \/ HaltGroup(v) \/ LeaveGroup(v) \/ CountGroup(v) \/ DropGroup(v) \/ RestartGroup(v)
  PROVE  IInv'
<1>1. {"halt", "leave", "erase", "drop", "restart", "undo", "unrecord"} \subseteq Point
  BY DEF Point, Removing
<1>2. TypeOK /\ found \in [Volume -> Info] /\ lock \in Volume \union {Free}
  BY DEF IInv, TypeOK
<1>3. CASE ReadRole(v)
  <2> DEFINE p == IF group.exists THEN "halt" ELSE AfterDelete(v)
  <2>1. Works(v, p) /\ pc[v] = "role" /\ UNCHANGED <<undo, found, info, array, lock>>
    BY <1>3 DEF ReadRole
  <2>2. CASE group.exists
    <3>1. p = "halt"
      BY <2>2
    <3> HIDE DEF p
    <3> QED
      BY <1>1, <1>2, <2>1, <3>1, StillStep DEF Allowed, Leaving
  <2>3. CASE ~group.exists
    <3>1. p = AfterDelete(v) /\ v \in asked /\ ~Halted
      BY <2>1, <2>3, DestroyFacts, HaltedFacts DEF Leaving
    <3> HIDE DEF p
    <3>2. Allowed(v, p) /\ p \in Point
      BY <2>1, <3>1, AfterFacts DEF Allowed
    <3> QED
      BY <1>2, <2>1, <3>1, <3>2, StillStep
  <2> QED
    BY <2>2, <2>3
<1>4. CASE HaltGroup(v)
  <2>1. /\ pc[v] = "halt" /\ pc' = [pc EXCEPT ![v] = "leave"]
        /\ UNCHANGED <<req, asked, undo, found, info, saved, disk, from, vvs, member, lock>>
    BY <1>4 DEF HaltGroup, GoTo
  <2>2. /\ group' \in GroupType /\ group'.vols = group.vols /\ group'.exists = group.exists
    <3>1. CASE Stop
      BY <1>2, <3>1, GroupFacts
    <3>2. CASE group' = group
      BY <1>2, <3>2, GroupFacts
    <3> QED
      BY <1>4, <3>1, <3>2 DEF HaltGroup
  <2>3. /\ used' \in [Event -> Nat] /\ \A e \in Event : used'[e] <= Limit[e]
        /\ \A e \in Event : used'[e] = 0 => used[e] = 0
    <3>1. CASE used' = used
      BY <1>2, <3>1 DEF TypeOK
    <3>2. CASE Spend(FailureOf(v))
      <4>1. FailureOf(v) \in Event
        BY DEF FailureOf, Event
      <4> QED
        BY <1>2, <3>2, <4>1, SpendFacts
    <3> QED
      BY <1>4, <3>1, <3>2 DEF HaltGroup
  <2>4. OwnStart(v) /\ Allowed(v, "leave")
    <3>1. pc'[v] = "leave"
      BY <1>2, <2>1 DEF TypeOK
    <3> QED
      BY <2>1, <3>1 DEF OwnStart, Starter, Leaving, Allowed
  <2> QED
    BY <1>1, <1>2, <2>1, <2>2, <2>3, <2>4, HaltedFacts, MoveStep
<1>5. CASE LeaveGroup(v)
  <2>1. CASE Refused(v)
    BY <1>5, <2>1, RefusedStep DEF LeaveGroup
  <2>2. CASE ~Refused(v)
    <3>1. /\ pc[v] = "leave" /\ CanLeave(v) /\ group' = [group EXCEPT !.vols = group.vols \ {v}]
          /\ Works(v, "erase") /\ UNCHANGED <<undo, found, info, disk, from, vvs, member, lock>>
      BY <1>5, <2>2 DEF LeaveGroup
    <3>2. /\ group' \in GroupType /\ group'.vols = group.vols \ {v}
          /\ group'.exists = group.exists /\ group.exists
      BY <1>2, <3>1, GroupFacts, HaltedFacts DEF CanLeave
    <3>3. pc'[v] = "erase"
      BY <1>2, <3>1 DEF Works, GoTo, TypeOK
    <3>4. OwnStart(v) /\ Allowed(v, "erase")
      BY <3>1, <3>2, <3>3 DEF OwnStart, Starter, Allowed
    <3> QED
      BY <1>1, <3>1, <3>2, <3>4, GroupStep
  <2> QED
    BY <2>1, <2>2
<1>6. CASE CountGroup(v)
  <2> DEFINE p == CASE ~group.exists -> AfterDelete(v)
                    [] group.exists /\ group.vols = {} -> "drop"
                    [] OTHER -> "restart"
  <2>1. Works(v, p) /\ pc[v] = "recount" /\ UNCHANGED <<undo, found, info, array, lock>>
    BY <1>6 DEF CountGroup
  <2>2. p \in {"drop", "restart"} \/ (p = AfterDelete(v) /\ ~Halted)
    <3>1. CASE ~group.exists
      BY <3>1, HaltedFacts
    <3>2. CASE group.exists
      BY <3>2
    <3> QED
      BY <3>1, <3>2
  <2> HIDE DEF p
  <2>3. Allowed(v, p) /\ p \in Point
    BY <1>1, <2>1, <2>2, AfterFacts DEF Allowed, Left
  <2> QED
    BY <1>2, <2>1, <2>2, <2>3, StillStep DEF Left
<1>7. CASE DropGroup(v)
  <2>1. CASE Refused(v)
    BY <1>7, <2>1, RefusedStep DEF DropGroup
  <2>2. CASE ~Refused(v) /\ group.exists
    <3>1. /\ pc[v] = "drop" /\ CanDropGroup /\ group' = NoGroup
          /\ Works(v, AfterDelete(v)) /\ UNCHANGED <<undo, found, info, disk, from, vvs, member, lock>>
      BY <1>7, <2>2 DEF DropGroup
    <3>2. /\ group' \in GroupType /\ group'.vols = {} /\ group.vols = {}
      BY <1>2, <3>1, GroupFacts DEF CanDropGroup
    <3>3. OwnStart(v) /\ Allowed(v, AfterDelete(v))
      BY <3>1, <3>2 DEF OwnStart, Halted, Allowed, Left
    <3> QED
      BY <3>1, <3>2, <3>3, AfterFacts, GroupStep
  <2>3. CASE ~Refused(v) /\ ~group.exists
    <3>1. pc[v] = "drop" /\ Works(v, AfterDelete(v)) /\ UNCHANGED <<undo, found, info, array, lock>>
      BY <1>7, <2>3 DEF DropGroup, CanDropGroup
    <3>2. ~Halted /\ Allowed(v, AfterDelete(v))
      BY <2>3, <3>1, HaltedFacts DEF Allowed, Left
    <3> QED
      BY <1>2, <3>1, <3>2, AfterFacts, StillStep
  <2> QED
    BY <2>1, <2>2, <2>3
<1>8. CASE RestartGroup(v)
  <2>1. CASE Refused(v)
    BY <1>8, <2>1, RefusedStep DEF RestartGroup
  <2>2. CASE ~Refused(v) /\ group.exists
    <3>1. /\ pc[v] = "restart" /\ CanStart /\ Start
          /\ Works(v, AfterDelete(v)) /\ UNCHANGED <<undo, found, info, disk, from, vvs, member, lock>>
      BY <1>8, <2>2 DEF RestartGroup
    <3>2. /\ group' \in GroupType /\ group'.vols = group.vols
          /\ group'.exists = group.exists /\ group'.started
      BY <1>2, <3>1, GroupFacts
    <3>3. OwnStart(v) /\ Allowed(v, AfterDelete(v))
      BY <3>1, <3>2 DEF OwnStart, Halted, Allowed, Left
    <3> QED
      BY <3>1, <3>2, <3>3, AfterFacts, HaltedFacts, GroupStep
  <2>3. CASE ~Refused(v) /\ ~group.exists
    <3>1. pc[v] = "restart" /\ Works(v, AfterDelete(v)) /\ UNCHANGED <<undo, found, info, array, lock>>
      BY <1>8, <2>3 DEF RestartGroup, CanStart
    <3>2. ~Halted /\ Allowed(v, AfterDelete(v))
      BY <2>3, <3>1, HaltedFacts DEF Allowed, Left
    <3> QED
      BY <1>2, <3>1, <3>2, AfterFacts, StillStep
  <2> QED
    BY <2>1, <2>2, <2>3
<1> QED
  BY <1>3, <1>4, <1>5, <1>6, <1>7, <1>8

-----------------------------------------------------------------------------
(* Steps that push and pop *)

\* A step of the creation that works, and goes on the undo list.
LEMMA PushStep ==
  ASSUME IInv, NEW v \in Volume, NEW p \in Underway \ {"start"}, NEW s \in Step, Done(v, p, s),
         pc[v] \in Making \ {"qos", "save"}, s = "volume" <=> pc[v] = "create",
         UNCHANGED from,
         found' \in [Volume -> Info], info' \in [Volume -> Info], group' \in GroupType,
         lock' \in Volume \union {Free},
         disk' = disk \/ (s = "volume" /\ disk' = disk \union {v}),
         vvs' = vvs \/ (s = "vvs" /\ vvs' = vvs \union {v}),
         member' = member \/ (s = "member" /\ member' = member \union {v}),
         \A w \in Volume \ {v} : info'[w] = info[w],
         info'[v] = "none" \/ (p = "save" /\ v \in group.vols),
         group'.vols = group.vols, group'.exists = group.exists, OwnStart(v)
  PROVE  IInv'
<1>1. TypeOK /\ VolumeInv(v) /\ FromInv
  BY DEF IInv
<1>2. /\ req[v] \in Request \union {None} /\ undo[v] \in Seq(Step) /\ v \notin Ref
      /\ Bottom(undo[v]) /\ Underway \subseteq Point
  BY <1>1, TypeFacts DEF VolumeInv, Underway, Point
<1>3. /\ pc' = [pc EXCEPT ![v] = p] /\ undo' = [undo EXCEPT ![v] = Append(undo[v], s)]
      /\ UNCHANGED <<req, asked, saved, used>>
  BY DEF Done, Works, GoTo
<1>4. s = "volume" <=> undo[v] = <<>>
  BY <1>1 DEF VolumeInv, PointInv, Making, Underway, Before
<1>5. /\ Append(undo[v], s) \in Seq(Step) /\ Append(undo[v], s) # <<>> /\ Bottom(Append(undo[v], s))
      /\ StepsIn(Append(undo[v], s)) = StepsIn(undo[v]) \union {s}
  BY <1>2, <1>4, PushFacts
<1>6. /\ pc' \in [Volume -> Point] /\ pc'[v] = p /\ \A w \in Volume \ {v} : pc'[w] = pc[w]
      /\ undo' \in [Volume -> Seq(Step)] /\ undo'[v] = Append(undo[v], s)
      /\ \A w \in Volume \ {v} : undo'[w] = undo[w]
  BY <1>1, <1>2, <1>3, <1>5 DEF TypeOK
<1>7. TypeOK'
  BY <1>1, <1>3, <1>6 DEF TypeOK, GroupType
<1>8. Frame(v)
  BY <1>3, <1>6 DEF Frame
<1>9. FromInv'
  BY <1>1, <1>2 DEF FromInv
<1>10. Bottom(undo[v])' /\ StepsIn(undo[v])' = StepsIn(undo[v]) \union {s}
  BY <1>5, <1>6
<1>11. v \notin asked /\ v \notin saved /\ req[v].kind # "import"
  BY <1>1 DEF VolumeInv, PointInv, Making, Removing
<1>12. PointInv(v)'
  BY <1>3, <1>5, <1>6, <1>11 DEF PointInv, Before, Underway, Making, Importing, Removing
<1>13. InfoInv(v)'
  BY <1>3, <1>6 DEF InfoInv, Underway, Making, Importing, Leaving, Left
<1>14. LeftInv(v)'
  <2>1. pc'[v] \notin {"idle", "undo", "failed"} \union Before \union Left
    BY <1>6 DEF Underway, Making, Before, Left
  <2> QED
    BY <1>1, <1>3, <1>10, <1>11, <2>1
       DEF VolumeInv, LeftInv, Making
<1>15. ImportInv(v)'
  BY <1>6 DEF ImportInv, Underway, Making
<1>16. CalmInv(v)'
  BY <1>6 DEF CalmInv
<1>17. (group'.vols # {} => group'.exists)
  BY HaltedFacts
<1> QED
  BY <1>7, <1>8, <1>9, <1>10, <1>12, <1>13, <1>14, <1>15, <1>16, <1>17, VolumeStep DEF VolumeInv

\* A step of the rollback, which has taken something back or has failed.
LEMMA PopStep ==
  ASSUME IInv, NEW v \in Volume, NEW p \in Point, RollingBack(v), Pop(v),
         pc' = [pc EXCEPT ![v] = p],
         UNCHANGED <<req, asked, found, info, saved, disk, from, lock>>,
         group' \in GroupType, group'.vols = group.vols, group'.vols # {} => group' = group,
         vvs' = vvs \/ vvs' = vvs \ {v}, member' = member \/ member' = member \ {v},
         used' \in [Event -> Nat], \A e \in Event : used'[e] <= Limit[e],
         \A e \in Event : used'[e] = 0 => used[e] = 0,
         \/ p = "undo"
         \/ p = "delete" /\ Top(v) = "volume" /\ info[v] = "none"
         \/ p = "role" /\ Top(v) = "volume" /\ info[v] = "group",
         used'["undo_failure"] = 0 =>
           /\ Top(v) = "vvs" => v \notin vvs'
           /\ Top(v) = "member" => v \notin member'
           /\ Top(v) = "volume" /\ p = "undo" => info[v] = "response"
  PROVE  IInv'
<1> DEFINE s == Top(v)
           u == SubSeq(undo[v], 1, Len(undo[v]) - 1)
<1>1. TypeOK /\ VolumeInv(v) /\ FromInv /\ pc[v] = "undo" /\ undo[v] # <<>>
  BY DEF IInv, RollingBack
<1>2. undo[v] \in Seq(Step) /\ Bottom(undo[v])
  BY <1>1, TypeFacts DEF VolumeInv
<1>3. /\ u \in Seq(Step) /\ Bottom(u) /\ StepsIn(undo[v]) = StepsIn(u) \union {s}
      /\ s = "volume" <=> u = <<>>
  BY <1>1, <1>2, PopFacts DEF Top
<1>4. undo' = [undo EXCEPT ![v] = u]
  BY DEF Pop
<1> HIDE DEF u
<1>5. /\ pc' \in [Volume -> Point] /\ pc'[v] = p /\ \A w \in Volume \ {v} : pc'[w] = pc[w]
      /\ undo' \in [Volume -> Seq(Step)] /\ undo'[v] = u
      /\ \A w \in Volume \ {v} : undo'[w] = undo[w]
  BY <1>1, <1>3, <1>4 DEF TypeOK
<1>6. TypeOK'
  BY <1>1, <1>5 DEF TypeOK, GroupType
<1>7. Frame(v)
  BY <1>5 DEF Frame
<1>8. FromInv'
  BY <1>1 DEF FromInv
<1>9. Bottom(undo[v])' /\ undo'[v] = u
  BY <1>3, <1>5
<1>10. v \notin asked /\ v \notin saved
  BY <1>1 DEF VolumeInv, PointInv, Removing
<1>11. NothingFailed' => NothingFailed
  BY DEF NothingFailed, Event
<1>12. info[v] # "none" => v \in group.vols
  BY <1>1 DEF VolumeInv, InfoInv
<1>13. PointInv(v)'
  <2>1. p \in {"delete", "role"} => u = <<>>
    BY <1>3
  <2> QED
    BY <1>5, <1>10, <2>1 DEF PointInv, Before, Underway, Making, Importing, Removing
<1>14. InfoInv(v)'
  BY <1>5, <1>12 DEF InfoInv, Making, Importing, Leaving, Left
<1>15. LeftInv(v)'
  <2>1. used'["undo_failure"] = 0 => used["undo_failure"] = 0
    BY DEF Event
  <2>2. ASSUME used'["undo_failure"] = 0, req[v].kind # "import"
        PROVE  /\ v \in vvs' => "vvs" \in StepsIn(u)
               /\ v \in member' => "member" \in StepsIn(u)
    BY <1>1, <1>3, <1>10, <2>1, <2>2 DEF VolumeInv, LeftInv
  <2>3. ASSUME used'["undo_failure"] = 0, p = "undo", v \in disk
        PROVE  u # <<>> \/ v \in group.vols
    BY <1>3, <1>12, <2>3
  <2>4. p \in {"undo", "delete", "role"}
    OBVIOUS
  <2> QED
    BY <1>5, <2>2, <2>3, <2>4 DEF LeftInv, Before, Left
<1>16. ImportInv(v)'
  BY <1>5 DEF ImportInv
<1>17. CalmInv(v)'
  BY <1>1, <1>10, <1>11 DEF VolumeInv, CalmInv
<1>18. OwnStart(v)
  BY <1>1 DEF OwnStart, Halted, Starter, Leaving, Left
<1>19. (group'.vols # {} => group'.exists)
  BY HaltedFacts
<1> QED
  BY <1>6, <1>7, <1>8, <1>9, <1>13, <1>14, <1>15, <1>16, <1>17, <1>18, <1>19, VolumeStep DEF VolumeInv

LEMMA CreatePushes ==
  ASSUME IInv, NEW v \in Volume,
         CreateVolume(v) \/ CreateVvs(v) \/ JoinVvs(v) \/ FetchGroup(v) \/ StartGroup(v)
  PROVE  IInv'
<1>1. /\ {"vvs", "policy", "find", "save", "state"} \subseteq Underway \ {"start"}
      /\ {"create", "vvs", "join", "fetch", "start"} \subseteq Making \ {"qos", "save"}
      /\ {"volume", "vvs", "member", "rcg", "group"} \subseteq Step
      /\ "group" \in Info
  BY DEF Underway, Making, Step, Info
<1>2. /\ TypeOK /\ VolumeInv(v) /\ found \in [Volume -> Info] /\ info \in [Volume -> Info]
      /\ group \in GroupType /\ lock \in Volume \union {Free}
  BY DEF IInv, TypeOK, GroupType
<1>3. pc[v] \in Making \ {"save"} => info[v] = "none"
  BY <1>2 DEF VolumeInv, InfoInv
<1>4. ASSUME group' = group, pc[v] \in {"create", "vvs", "join", "fetch"}
      PROVE  OwnStart(v)
  BY <1>4 DEF OwnStart, Halted, Starter, Leaving, Left
<1>5. CASE CreateVolume(v)
  <2> DEFINE p == CASE req[v].kind = "flash" -> "vvs"
                    [] req[v].kind = "qos" -> "policy"
                    [] req[v].kind = "replicated" -> "find"
                    [] OTHER -> "save"
  <2>1. /\ pc[v] = "create" /\ Done(v, p, "volume") /\ disk' = disk \union {v}
        /\ UNCHANGED <<found, info, from, vvs, member, group, lock>>
    BY <1>5 DEF CreateVolume
  <2>2. p \in {"vvs", "policy", "find", "save"}
    OBVIOUS
  <2> HIDE DEF p
  <2>3. p \in Underway \ {"start"} /\ info[v] = "none"
    BY <1>1, <1>3, <2>1, <2>2
  <2> QED
    BY <1>1, <1>2, <1>4, <2>1, <2>3, PushStep
<1>6. CASE CreateVvs(v)
  <2>1. /\ pc[v] = "vvs" /\ Done(v, "policy", "vvs") /\ vvs' = vvs \union {v}
        /\ UNCHANGED <<found, info, disk, from, member, group, lock>>
    BY <1>6 DEF CreateVvs
  <2> QED
    BY <1>1, <1>2, <1>3, <1>4, <2>1, PushStep
<1>7. CASE JoinVvs(v)
  <2>1. /\ pc[v] = "join" /\ Done(v, "save", "member") /\ member' = member \union {v}
        /\ UNCHANGED <<found, info, disk, from, vvs, group, lock>>
    BY <1>7 DEF JoinVvs
  <2> QED
    BY <1>1, <1>2, <1>3, <1>4, <2>1, PushStep
<1>8. CASE FetchGroup(v)
  <2>1. CASE Refused(v)
    BY <1>8, <2>1, RefusedStep DEF FetchGroup
  <2>2. CASE ~Refused(v)
    <3>1. /\ pc[v] = "fetch" /\ Done(v, "state", "rcg") /\ found' = [found EXCEPT ![v] = "group"]
          /\ lock' = Free /\ UNCHANGED <<info, array>>
      BY <1>8, <2>2 DEF FetchGroup
    <3>2. found' \in [Volume -> Info] /\ UNCHANGED <<disk, from, vvs, member, group>>
      BY <1>1, <1>2, <3>1 DEF array
    <3> QED
      BY <1>1, <1>2, <1>3, <1>4, <3>1, <3>2, PushStep
  <2> QED
    BY <2>1, <2>2
<1>9. CASE StartGroup(v)
  <2>1. CASE Refused(v) /\ ~(CanStart /\ ~group.started)
    <3>1. ~Halted
      BY <2>1, HaltedFacts DEF CanStart
    <3> QED
      BY <1>9, <2>1, <3>1, RefusedStep DEF StartGroup
  <2>2. CASE ~(Refused(v) /\ ~(CanStart /\ ~group.started))
    <3>1. /\ pc[v] = "start" /\ Start /\ Done(v, "save", "group")
          /\ info' = [info EXCEPT ![v] = found[v]]
          /\ UNCHANGED <<found, disk, from, vvs, member, lock>>
      BY <1>9, <2>2 DEF StartGroup
    <3>2. /\ info' \in [Volume -> Info] /\ \A w \in Volume \ {v} : info'[w] = info[w]
      BY <1>2, <3>1
    <3>3. /\ group' \in GroupType /\ group'.vols = group.vols
          /\ group'.exists = group.exists /\ group'.started
      BY <1>2, <3>1, GroupFacts
    <3>4. v \in group.vols
      BY <1>2, <3>1 DEF VolumeInv, InfoInv
    <3>5. OwnStart(v)
      BY <3>3 DEF OwnStart, Halted
    <3> QED
      BY <1>1, <1>2, <3>1, <3>2, <3>3, <3>4, <3>5, PushStep
  <2> QED
    BY <2>1, <2>2
<1> QED
  BY <1>5, <1>6, <1>7, <1>8, <1>9

LEMMA RollbackPops ==
  ASSUME IInv, NEW v \in Volume,
         \/ UndoRaises(v) \/ UndoGroup(v) \/ UndoRcg(v) \/ UndoMember(v) \/ UndoVvs(v)
         \/ UndoVolume(v)
  PROVE  IInv'
<1>1. /\ TypeOK /\ group \in GroupType /\ RollingBack(v) /\ pc[v] = "undo"
      /\ "undo" \in Point /\ "delete" \in Point /\ "role" \in Point
  BY DEF IInv, TypeOK, GroupType, RollingBack, Point, Removing, UndoRaises, UndoGroup, UndoRcg,
         UndoMember, UndoVvs, UndoVolume
<1>2. /\ used' = used => /\ used' \in [Event -> Nat] /\ \A e \in Event : used'[e] <= Limit[e]
                         /\ \A e \in Event : used'[e] = 0 => used[e] = 0
      /\ pc' = pc => pc' = [pc EXCEPT ![v] = "undo"]
  BY <1>1 DEF TypeOK
<1>3. CASE UndoRaises(v)
  <2>1. Pop(v) /\ UNCHANGED <<req, pc, asked, found, info, saved, array, lock>> /\ Spend("undo_failure")
    BY <1>3 DEF UndoRaises, Ignored
  <2>2. "undo_failure" \in Event
    BY DEF Event
  <2>3. /\ used' \in [Event -> Nat] /\ \A e \in Event : used'[e] <= Limit[e]
        /\ used'["undo_failure"] # 0 /\ \A e \in Event : used'[e] = 0 => used[e] = 0
    BY <1>1, <2>1, <2>2, SpendFacts
  <2> QED
    BY <1>1, <1>2, <2>1, <2>3, PopStep DEF array
<1>4. CASE UndoGroup(v)
  BY <1>1, <1>2, <1>4, PopStep DEF UndoGroup, Ignored, array
<1>5. CASE UndoRcg(v)
  <2>1. CASE Ignored(v) /\ UNCHANGED used
    BY <1>1, <1>2, <1>5, <2>1, PopStep DEF UndoRcg, Ignored, array
  <2>2. CASE ~(Ignored(v) /\ UNCHANGED used)
    <3>1. /\ CanDropGroup /\ group' = NoGroup /\ Pop(v) /\ Top(v) = "rcg"
          /\ UNCHANGED <<req, pc, asked, found, info, saved, disk, from, vvs, member, lock, used>>
      BY <1>5, <2>2 DEF UndoRcg
    <3>2. group' \in GroupType /\ group'.vols = {} /\ group.vols = {}
      BY <1>1, <3>1, GroupFacts DEF CanDropGroup
    <3> QED
      BY <1>1, <1>2, <3>1, <3>2, PopStep
  <2> QED
    BY <2>1, <2>2
<1>6. CASE UndoMember(v)
  BY <1>1, <1>2, <1>6, PopStep DEF UndoMember
<1>7. CASE UndoVvs(v)
  BY <1>1, <1>2, <1>7, PopStep DEF UndoVvs
<1>8. CASE UndoVolume(v)
  <2> DEFINE p == IF info[v] = "response" THEN "undo" ELSE DeleteFrom(v)
  <2>1. /\ Top(v) = "volume" /\ Pop(v) /\ pc' = [pc EXCEPT ![v] = p]
        /\ UNCHANGED <<req, asked, found, info, saved, array, lock, used>>
    BY <1>8 DEF UndoVolume, GoTo
  <2>2. info[v] \in Info
    BY <1>1, TypeFacts
  <2>3. \/ p = "undo" /\ info[v] = "response"
        \/ p = "delete" /\ info[v] = "none"
        \/ p = "role" /\ info[v] = "group"
    BY <2>2 DEF DeleteFrom, Info
  <2> HIDE DEF p
  <2> QED
    BY <1>1, <1>2, <2>1, <2>3, PopStep DEF array
<1> QED
  BY <1>3, <1>4, <1>5, <1>6, <1>7, <1>8

-----------------------------------------------------------------------------
(* The other steps *)

LEMMA ReceiveStep ==
  ASSUME IInv, NEW v \in Volume, NEW r \in Request, Receive(v, r)
  PROVE  IInv'
<1> DEFINE p == CASE r.kind = "qos" -> "qos" [] r.kind = "import" -> "detail" [] OTHER -> "create"
<1>1. /\ pc[v] = "idle" /\ req' = [req EXCEPT ![v] = r] /\ pc' = [pc EXCEPT ![v] = p]
      /\ UNCHANGED <<asked, undo, found, info, saved, disk, from, vvs, member, group, lock, used>>
  BY DEF Receive, GoTo, array
<1>2. /\ \/ p \in {"qos", "create"} /\ r.kind # "import"
         \/ p = "detail" /\ r.kind = "import"
      /\ r.kind = "import" => r.ref \in Ref
  BY DEF Request, Kind
<1> HIDE DEF p
<1>3. TypeOK /\ VolumeInv(v) /\ FromInv /\ p \in Point
  BY <1>2 DEF IInv, Point, Making, Importing
<1>4. /\ pc' \in [Volume -> Point] /\ pc'[v] = p /\ \A w \in Volume \ {v} : pc'[w] = pc[w]
      /\ req' \in [Volume -> Request \union {None}] /\ req'[v] = r
      /\ \A w \in Volume \ {v} : req'[w] = req[w]
  BY <1>1, <1>3 DEF TypeOK
<1>5. TypeOK' /\ Frame(v) /\ FromInv'
  <2>1. TypeOK'
    BY <1>1, <1>3, <1>4 DEF TypeOK
  <2>2. Frame(v)
    BY <1>1, <1>4 DEF Frame
  <2>3. FromInv'
    BY <1>1, <1>3 DEF FromInv
  <2> QED
    BY <2>1, <2>2, <2>3
<1>6. Bottom(undo[v])' /\ undo[v] = <<>> /\ info[v] = "none" /\ v \notin asked /\ v \notin saved
  BY <1>1, <1>3 DEF VolumeInv, PointInv, InfoInv, Before, Removing, Making, Importing
<1>7. PointInv(v)'
  BY <1>1, <1>2, <1>4, <1>6
     DEF PointInv, Before, Underway, Making, Importing, Removing
<1>8. InfoInv(v)'
  BY <1>1, <1>2, <1>4, <1>6 DEF InfoInv, Leaving, Left
<1>9. LeftInv(v)'
  BY <1>1, <1>2, <1>3, <1>4 DEF VolumeInv, LeftInv
<1>10. ImportInv(v)' /\ CalmInv(v)'
  BY <1>1, <1>2, <1>4, <1>6 DEF ImportInv, CalmInv
<1>11. OwnStart(v)
  BY <1>1 DEF OwnStart, Halted, Starter, Leaving, Left
<1>12. (group'.vols # {} => group'.exists)
  BY <1>1, HaltedFacts
<1> QED
  BY <1>5, <1>6, <1>7, <1>8, <1>9, <1>10, <1>11, <1>12, VolumeStep DEF VolumeInv

LEMMA SaveStep ==
  ASSUME IInv, NEW v \in Volume, SaveVolume(v)
  PROVE  IInv'
<1>1. /\ pc[v] \in {"save", "import_save"} /\ saved' = saved \union {v}
      /\ pc' = [pc EXCEPT ![v] = "made"] /\ undo' = [undo EXCEPT ![v] = <<>>]
      /\ UNCHANGED <<req, asked, found, info, disk, from, vvs, member, group, lock, used>>
  BY DEF SaveVolume, GoTo, array
<1>2. TypeOK /\ VolumeInv(v) /\ FromInv /\ "made" \in Point
  BY DEF IInv, Point
<1>3. /\ pc' \in [Volume -> Point] /\ pc'[v] = "made" /\ \A w \in Volume \ {v} : pc'[w] = pc[w]
      /\ undo' \in [Volume -> Seq(Step)] /\ undo'[v] = <<>>
      /\ \A w \in Volume \ {v} : undo'[w] = undo[w]
  BY <1>1, <1>2, EmptyFacts DEF TypeOK
<1>4. TypeOK' /\ Frame(v) /\ FromInv'
  <2>1. TypeOK'
    BY <1>1, <1>2, <1>3 DEF TypeOK
  <2>2. Frame(v)
    BY <1>1, <1>3 DEF Frame
  <2>3. FromInv'
    BY <1>1, <1>2 DEF FromInv
  <2> QED
    BY <2>1, <2>2, <2>3
<1>5. Bottom(undo[v])'
  BY <1>3, EmptyFacts
<1>6. PointInv(v)'
  BY <1>1, <1>2, <1>3
     DEF VolumeInv, PointInv, Before, Underway, Making, Importing, Removing
<1>7. InfoInv(v)'
  BY <1>1, <1>2, <1>3 DEF VolumeInv, InfoInv, Leaving, Left, Making, Importing
<1>8. LeftInv(v)'
  BY <1>3 DEF LeftInv
<1>9. ImportInv(v)'
  BY <1>1, <1>2, <1>3 DEF VolumeInv, PointInv, ImportInv, Making
<1>10. CalmInv(v)'
  BY <1>3 DEF CalmInv
<1>11. OwnStart(v)
  BY <1>1 DEF OwnStart, Halted, Starter, Leaving, Left
<1>12. (group'.vols # {} => group'.exists)
  BY <1>1, HaltedFacts
<1> QED
  BY <1>4, <1>5, <1>6, <1>7, <1>8, <1>9, <1>10, <1>11, <1>12, VolumeStep DEF VolumeInv

LEMMA RemoveStep ==
  ASSUME IInv, NEW v \in Volume, Remove(v)
  PROVE  IInv'
<1> DEFINE p == DeleteFrom(v)
<1>1. /\ pc[v] \in {"made", "kept"} /\ pc' = [pc EXCEPT ![v] = p]
      /\ asked' = asked \union {v} /\ Spend("removal")
      /\ UNCHANGED <<req, undo, found, info, saved, disk, from, vvs, member, group, lock>>
  BY DEF Remove, GoTo, array
<1>2. TypeOK /\ VolumeInv(v) /\ FromInv /\ info[v] \in Info
  BY TypeFacts DEF IInv
<1>3. \/ p = "delete" /\ info[v] = "none"
      \/ p = "role" /\ info[v] = "group"
      \/ p = "kept" /\ info[v] = "response"
  BY <1>2 DEF DeleteFrom, Info
<1> HIDE DEF p
<1>4. p \in Point
  BY <1>3 DEF Point, Removing
<1>5. pc' \in [Volume -> Point] /\ pc'[v] = p /\ \A w \in Volume \ {v} : pc'[w] = pc[w]
  BY <1>1, <1>2, <1>4 DEF TypeOK
<1>6. /\ used' \in [Event -> Nat] /\ \A e \in Event : used'[e] <= Limit[e]
      /\ \A e \in Event : used'[e] = 0 => used[e] = 0
  <2>1. "removal" \in Event
    BY DEF Event
  <2> QED
    BY <1>1, <1>2, <2>1, SpendFacts
<1>7. TypeOK' /\ Frame(v) /\ FromInv'
  <2>1. TypeOK'
    BY <1>1, <1>2, <1>5, <1>6 DEF TypeOK
  <2>2. Frame(v)
    BY <1>1, <1>5, <1>6 DEF Frame
  <2>3. FromInv'
    BY <1>1, <1>2 DEF FromInv
  <2> QED
    BY <2>1, <2>2, <2>3
<1>8. Bottom(undo[v])' /\ undo[v] = <<>> /\ v \in asked'
  BY <1>1, <1>2 DEF VolumeInv, PointInv
<1>9. PointInv(v)'
  BY <1>1, <1>3, <1>5, <1>8 DEF PointInv, Before, Underway, Making, Importing, Removing
<1>10. InfoInv(v)'
  BY <1>1, <1>3, <1>5, <1>8 DEF InfoInv, Making, Importing, Leaving, Left
<1>11. LeftInv(v)' /\ ImportInv(v)' /\ CalmInv(v)'
  BY <1>3, <1>5, <1>8 DEF LeftInv, ImportInv, CalmInv
<1>12. OwnStart(v)
  BY <1>1, <1>3, <1>5 DEF OwnStart, Halted, Starter, Leaving, Left
<1>13. (group'.vols # {} => group'.exists)
  BY <1>1, HaltedFacts
<1> QED
  BY <1>7, <1>8, <1>9, <1>10, <1>11, <1>12, <1>13, VolumeStep DEF VolumeInv

\* The volume goes from the array, or its record does.
LEMMA DropStep ==
  ASSUME IInv, NEW v \in Volume, NEW p \in Point, pc' = [pc EXCEPT ![v] = p],
         UNCHANGED <<req, asked, undo, found, info, from, vvs, group, lock, used>>,
         saved' = saved \/ (v \in asked /\ saved' = saved \ {v}),
         disk' = disk \/ disk' = disk \ {v},
         member' = member \/ member' = member \ {v},
         \/ pc[v] = "delete" /\ p = AfterDelete(v) /\ v \notin disk'
         \/ pc[v] = "erase" /\ p = "recount" /\ v \notin disk'
         \/ pc[v] = "unrecord" /\ p = "removed"
  PROVE  IInv'
<1>1. TypeOK /\ VolumeInv(v) /\ FromInv
  BY DEF IInv
<1>2. \/ pc[v] = "delete" /\ p = "undo" /\ v \notin asked /\ v \notin disk'
      \/ pc[v] = "delete" /\ p = "unrecord" /\ v \in asked /\ v \notin disk'
      \/ pc[v] = "erase" /\ p = "recount" /\ v \notin disk'
      \/ pc[v] = "unrecord" /\ p = "removed"
  BY AfterFacts
<1>3. pc' \in [Volume -> Point] /\ pc'[v] = p /\ \A w \in Volume \ {v} : pc'[w] = pc[w]
  BY <1>1 DEF TypeOK
<1>4. TypeOK' /\ Frame(v) /\ FromInv'
  <2>1. TypeOK'
    BY <1>1, <1>3 DEF TypeOK
  <2>2. Frame(v)
    BY <1>3 DEF Frame
  <2>3. FromInv'
    BY <1>1 DEF FromInv
  <2> QED
    BY <2>1, <2>2, <2>3
<1>5. Bottom(undo[v])' /\ StepsIn(undo[v])' = StepsIn(undo[v])
  BY <1>1 DEF VolumeInv
<1>6. PointInv(v)'
  BY <1>1, <1>2, <1>3
     DEF VolumeInv, PointInv, Before, Underway, Making, Importing, Removing
<1>7. InfoInv(v)'
  BY <1>1, <1>2, <1>3 DEF VolumeInv, InfoInv, Leaving, Left, Making, Importing
<1>8. LeftInv(v)'
  BY <1>1, <1>2, <1>3, <1>5 DEF VolumeInv, PointInv, LeftInv, Before, Left
<1>9. ImportInv(v)'
  BY <1>2, <1>3 DEF ImportInv
<1>10. CalmInv(v)'
  BY <1>1, <1>2, <1>3 DEF VolumeInv, CalmInv, NothingFailed
<1>11. OwnStart(v)
  BY <1>2, <1>3 DEF OwnStart, Halted, Starter, Leaving, Left
<1>12. (group'.vols # {} => group'.exists)
  BY HaltedFacts
<1> QED
  BY <1>4, <1>5, <1>6, <1>7, <1>8, <1>9, <1>10, <1>11, <1>12, VolumeStep DEF VolumeInv

LEMMA DestroyDrops ==
  ASSUME IInv, NEW v \in Volume, DeleteVolume(v) \/ EraseVolume(v) \/ DeleteRecord(v)
  PROVE  IInv'
<1>1. "recount" \in Point /\ "removed" \in Point
  BY DEF Point, Removing
<1>2. CASE DeleteVolume(v)
  <2>1. CASE Refused(v) /\ v \in group.vols
    BY <1>2, <2>1, RefusedStep DEF DeleteVolume
  <2>2. CASE ~(Refused(v) /\ v \in group.vols)
    <3>1. /\ pc[v] = "delete" /\ pc' = [pc EXCEPT ![v] = AfterDelete(v)]
          /\ disk' = disk \ {v} /\ member' = member \ {v}
          /\ UNCHANGED <<req, asked, saved, used, undo, found, info, from, vvs, group, lock>>
      BY <1>2, <2>2 DEF DeleteVolume, Works, GoTo
    <3> QED
      BY <3>1, AfterFacts, DropStep
  <2> QED
    BY <2>1, <2>2
<1>3. CASE EraseVolume(v)
  <2>1. CASE Refused(v) /\ v \notin disk
    BY <1>3, <2>1, RefusedStep DEF EraseVolume
  <2>2. CASE ~(Refused(v) /\ v \notin disk)
    <3>1. /\ pc[v] = "erase" /\ pc' = [pc EXCEPT ![v] = "recount"] /\ disk' = disk \ {v}
          /\ UNCHANGED <<req, asked, saved, used, undo, found, info, from, vvs, member, group, lock>>
      BY <1>3, <2>2 DEF EraseVolume, Works, GoTo
    <3> QED
      BY <1>1, <3>1, DropStep
  <2> QED
    BY <2>1, <2>2
<1>4. CASE DeleteRecord(v)
  <2>1. /\ pc[v] = "unrecord" /\ pc' = [pc EXCEPT ![v] = "removed"] /\ saved' = saved \ {v}
        /\ UNCHANGED <<req, asked, undo, found, info, disk, from, vvs, member, group, lock, used>>
    BY <1>4 DEF DeleteRecord, GoTo, array
  <2>2. v \in asked
    BY <2>1 DEF IInv, VolumeInv, PointInv
  <2> QED
    BY <1>1, <2>1, <2>2, DropStep
<1> QED
  BY <1>2, <1>3, <1>4

LEMMA RenameStep ==
  ASSUME IInv, NEW v \in Volume, Rename(v)
  PROVE  IInv'
<1>1. CASE Refused(v)
  BY <1>1, RefusedStep DEF Rename
<1>2. CASE ~Refused(v)
  <2> DEFINE ref == req[v].ref
  <2>1. /\ pc[v] = "rename" /\ ref \in disk /\ disk' = (disk \ {ref}) \union {v}
        /\ from' = [from EXCEPT ![v] = ref] /\ pc' = [pc EXCEPT ![v] = "renamed"]
        /\ UNCHANGED <<req, asked, undo, found, info, saved, vvs, member, group, lock, used>>
    BY <1>2 DEF Rename, Works, GoTo
  <2>2. TypeOK /\ VolumeInv(v) /\ FromInv /\ "renamed" \in Point
    BY DEF IInv, Point, Importing
  <2>3. ref \in Ref /\ req[v].kind = "import"
    BY <2>1, <2>2 DEF VolumeInv, PointInv, Importing
  <2> HIDE DEF ref
  <2>4. /\ pc' \in [Volume -> Point] /\ pc'[v] = "renamed"
        /\ \A w \in Volume \ {v} : pc'[w] = pc[w]
        /\ from' \in [Volume -> Ref \union {None}] /\ from'[v] = ref
        /\ \A w \in Volume \ {v} : from'[w] = from[w]
    BY <2>1, <2>2, <2>3 DEF TypeOK
  <2>5. TypeOK'
    BY <2>1, <2>2, <2>4 DEF TypeOK
  <2>6. Frame(v)
    <3>1. \A w \in Volume : w # ref
      BY <2>3, CreateAssumption
    <3> QED
      BY <2>1, <2>4, <3>1 DEF Frame
  <2>7. FromInv'
    <3>1. v \notin Ref
      BY CreateAssumption
    <3>2. \A w \in Volume \ {v} : from[w] # ref
      BY <2>1, <2>2, <2>3, CreateAssumption DEF FromInv
    <3> QED
      BY <2>1, <2>2, <2>3, <2>4, <3>1, <3>2 DEF FromInv
  <2>8. Bottom(undo[v])' /\ StepsIn(undo[v])' = StepsIn(undo[v])
    BY <2>1, <2>2 DEF VolumeInv
  <2>9. PointInv(v)'
    BY <2>1, <2>2, <2>4
       DEF VolumeInv, PointInv, Before, Underway, Making, Importing, Removing
  <2>10. InfoInv(v)'
    BY <2>1, <2>2, <2>4 DEF VolumeInv, InfoInv, Leaving, Left, Making, Importing
  <2>11. LeftInv(v)'
    BY <2>1, <2>3, <2>4 DEF LeftInv
  <2>12. ImportInv(v)'
    BY <2>1, <2>3, <2>4 DEF ImportInv
  <2>13. CalmInv(v)'
    BY <2>1, <2>2 DEF VolumeInv, CalmInv, NothingFailed
  <2>14. OwnStart(v)
    BY <2>1 DEF OwnStart, Halted, Starter, Leaving, Left
  <2>15. (group'.vols # {} => group'.exists)
    BY <2>1, HaltedFacts
  <2> QED
    BY <2>5, <2>6, <2>7, <2>8, <2>9, <2>10, <2>11, <2>12, <2>13, <2>14, <2>15, VolumeStep DEF VolumeInv
<1> QED
  BY <1>1, <1>2

LEMMA RollbackEndsStep ==
  ASSUME IInv, NEW v \in Volume, RollbackEnds(v)
  PROVE  IInv'
<1>1. /\ pc[v] = "undo" /\ undo[v] = <<>> /\ pc' = [pc EXCEPT ![v] = "failed"]
      /\ UNCHANGED <<req, asked, undo, found, info, saved, disk, from, vvs, member, group, lock, used>>
  BY DEF RollbackEnds, GoTo, array
<1>2. /\ TypeOK /\ found \in [Volume -> Info] /\ lock \in Volume \union {Free} /\ group \in GroupType
      /\ used \in [Event -> Nat] /\ \A e \in Event : used[e] <= Limit[e]
  BY DEF IInv, TypeOK, GroupType
<1>3. "failed" \in Point /\ Allowed(v, "failed")
  BY <1>1 DEF Point, Allowed
<1>4. OwnStart(v)
  BY <1>1 DEF OwnStart, Halted, Starter, Leaving, Left
<1>5. (group'.vols # {} => group'.exists)
  BY <1>1, HaltedFacts
<1> QED
  BY <1>1, <1>2, <1>3, <1>4, <1>5, MoveStep

-----------------------------------------------------------------------------
(* The invariant and what follows from it *)

LEMMA InitInv == Init => IInv
<1> SUFFICES ASSUME Init PROVE IInv
  OBVIOUS
<1>1. TypeOK
  BY CreateAssumption, EmptyFacts DEF Init, TypeOK, Point, Info, NoGroup
<1>2. ASSUME NEW v \in Volume PROVE VolumeInv(v)
  <2>1. /\ pc[v] = "idle" /\ undo[v] = <<>> /\ info[v] = "none" /\ v \notin Ref
        /\ asked = {} /\ saved = {} /\ disk = Ref /\ vvs = {} /\ member = {}
    BY CreateAssumption DEF Init
  <2>2. Bottom(undo[v])
    BY <2>1, EmptyFacts
  <2>3. PointInv(v)
    BY <2>1 DEF PointInv, Underway, Making, Importing, Removing
  <2>4. InfoInv(v) /\ LeftInv(v)
    BY <2>1 DEF InfoInv, LeftInv, Leaving, Left
  <2>5. ImportInv(v) /\ CalmInv(v)
    BY <2>1 DEF ImportInv, CalmInv
  <2> QED
    BY <2>2, <2>3, <2>4, <2>5 DEF VolumeInv
<1>3. GroupInv /\ FromInv
  BY DEF Init, GroupInv, FromInv, Halted, NoGroup
<1> QED
  BY <1>1, <1>2, <1>3 DEF IInv

LEMMA Stutter == IInv /\ UNCHANGED vars => IInv'
<1> SUFFICES ASSUME IInv, UNCHANGED vars PROVE IInv'
  OBVIOUS
<1>1. /\ UNCHANGED <<req, pc, asked, undo, found, info, saved, disk, from, vvs, member, group, lock, used>>
  BY DEF vars, thread, array
<1>2. TypeOK' /\ FromInv' /\ GroupInv'
  BY <1>1 DEF IInv, TypeOK, FromInv, GroupInv, Halted, NothingFailed, Starter
<1>3. ASSUME NEW v \in Volume PROVE VolumeInv(v)'
  <2>1. VolumeInv(v)
    BY DEF IInv
  <2> QED
    BY <1>1, <2>1 DEF VolumeInv, PointInv, InfoInv, LeftInv, ImportInv, CalmInv, NothingFailed
<1> QED
  BY <1>2, <1>3 DEF IInv

LEMMA NextInv == IInv /\ [Next]_vars => IInv'
<1> SUFFICES ASSUME IInv, [Next]_vars PROVE IInv'
  OBVIOUS
<1>1. CASE UNCHANGED vars
  BY <1>1, Stutter
<1>2. CASE Next
  <2>1. PICK v \in Volume :
          CallRaises(v) \/ Create(v) \/ Replicate(v) \/ Rollback(v) \/ Destroy(v) \/ Import(v)
    BY <1>2 DEF Next
  <2>2. CASE CallRaises(v)
    BY <2>2, FailedStep
  <2>3. CASE Create(v)
    <3>1. ASSUME NEW r \in Request, Receive(v, r) PROVE IInv'
      BY <3>1, ReceiveStep
    <3> QED
      BY <2>3, <3>1, CreateMoves, CreatePushes, SaveStep DEF Create
  <2>4. CASE Replicate(v)
    BY <2>4, ReplicateMoves, CreatePushes DEF Replicate
  <2>5. CASE Rollback(v)
    BY <2>5, RollbackPops, RollbackEndsStep DEF Rollback
  <2>6. CASE Destroy(v)
    BY <2>6, RemoveStep, DestroyDrops, DestroyMoves DEF Destroy
  <2>7. CASE Import(v)
    BY <2>7, CreateMoves, RenameStep DEF Import
  <2> QED
    BY <2>1, <2>2, <2>3, <2>4, <2>5, <2>6, <2>7
<1> QED
  BY <1>1, <1>2

LEMMA Invariant == Spec => []IInv
BY InitInv, NextInv, PTL DEF Spec

\* Every variable keeps its type (create_volume, remove_volume, manage_existing).
THEOREM TypeCorrect == Spec => []TypeOK
<1>1. IInv => TypeOK
  BY DEF IInv
<1> QED
  BY <1>1, Invariant, PTL

\* However many volumes there are and however many calls fail: as long as no undo step
\* does, a creation that failed has left nothing outside of the group (create_volume,
\* _rollback).
THEOREM NothingLeftBehind == Spec => []FailedLeavesNothing
<1>1. IInv => FailedLeavesNothing
  <2> SUFFICES ASSUME IInv, NEW v \in Volume,
                      pc[v] = "failed", req[v].kind # "import", used["undo_failure"] = 0
               PROVE  v \notin vvs \union member /\ (v \in disk => v \in group.vols)
    BY DEF FailedLeavesNothing
  <2>1. VolumeInv(v)
    BY DEF IInv
  <2>2. undo[v] = <<>> /\ v \notin asked
    BY <2>1 DEF VolumeInv, PointInv, Removing
  <2>3. StepsIn(undo[v]) = {}
    BY <2>2, EmptyFacts
  <2> QED
    BY <2>1, <2>2, <2>3 DEF VolumeInv, LeftInv
<1> QED
  BY <1>1, Invariant, PTL

\* A volume on record as replicated is in the group, whatever others do to the group,
\* until its removal is asked for (add_volume_to_rcg, _do_volume_replication_destroy).
THEOREM ReplicatedStays == Spec => []ReplicatedIsInGroup
<1>1. IInv => ReplicatedIsInGroup
  <2> SUFFICES ASSUME IInv, NEW v \in saved \ asked, v \in Volume, info[v] # "none"
               PROVE  group.exists /\ v \in group.vols
    BY DEF ReplicatedIsInGroup, IInv, TypeOK
  <2>1. VolumeInv(v)
    BY DEF IInv
  <2>2. pc[v] = "made"
    BY <2>1 DEF VolumeInv, PointInv
  <2>3. v \in group.vols
    BY <2>1, <2>2 DEF VolumeInv, InfoInv
  <2> QED
    BY <2>3, HaltedFacts
<1> QED
  BY <1>1, Invariant, PTL

\* Without failures and removals that were given up, the group is started whenever
\* nothing is under way (add_volume_to_rcg, _do_volume_replication_destroy).
THEOREM GroupIsStarted == Spec => []GroupReplicates
<1>1. IInv => GroupReplicates
  <2> SUFFICES ASSUME IInv, Quiet, NothingFailed, \A v \in Volume : pc[v] # "kept", group.vols # {}
               PROVE  group.started
    BY DEF GroupReplicates
  <2> SUFFICES ASSUME ~group.started PROVE FALSE
    OBVIOUS
  <2>1. PICK v \in Volume : Starter(v)
    BY DEF IInv, GroupInv, Halted
  <2> QED
    BY <2>1 DEF Quiet, Starter, Leaving, Left
<1> QED
  BY <1>1, Invariant, PTL

\* No two records stand for one volume of the administrator, and the volume of each is
\* there (manage_existing).
THEOREM RecordsAreOne == Spec => []OneRecordPerRef
<1>1. IInv => OneRecordPerRef
  <2> SUFFICES ASSUME IInv, NEW v \in saved \ asked, v \in Volume, saved \subseteq Volume,
                      req[v].kind = "import"
               PROVE  v \in disk /\ \A w \in saved : w # v => from[w] # from[v]
    BY DEF OneRecordPerRef, IInv, TypeOK
  <2>1. VolumeInv(v) /\ FromInv
    BY DEF IInv
  <2>2. pc[v] = "made"
    BY <2>1 DEF VolumeInv, PointInv
  <2>3. v \in disk /\ from[v] \in Ref
    BY <2>1, <2>2 DEF VolumeInv, ImportInv
  <2>4. from[v] # None
    BY <2>3, CreateAssumption
  <2> QED
    BY <2>1, <2>3, <2>4 DEF FromInv
<1> QED
  BY <1>1, Invariant, PTL

=============================================================================
