------------------------- MODULE VolumeLifecycle_proof -------------------------
(* Proofs about volumes and snapshots that come and go, as modelled in VolumeLifecycle. *)
EXTENDS VolumeLifecycle, FiniteSetTheorems, TLAPS

-----------------------------------------------------------------------------
(* The inductive invariant *)

Typed ==
  /\ req \in [Call -> Request \union {None}]
  /\ pc \in [Call -> Point]
  /\ view \in [Call -> View]
  /\ lock \in [Name -> Call \union {Free}]
  /\ saved \subseteq Call
  /\ children \in [Call -> SUBSET Call]
  /\ parent \in [Call -> Call \union {None}]
  /\ array \subseteq Call
  /\ used \in [Event -> Nat]
  /\ \A e \in Event : used[e] <= Limit[e]

\* Where the call of a volume is once its record has been saved.
Written == {"save_parent", "made", "undone", "dead"}

\* What has had a record: what it is does not change any more.
Known(v) ==
  /\ v \in Call /\ req[v] # None /\ pc[v] \in Written
  /\ req[v].op \in Makes
  /\ IsSnap(v) <=> parent[v] # None

Before == {"idle", "outer", "read", "inner", "source", "make"}

\* The methods that a call is in, by the operation that it serves.
ReqInv(c) ==
  /\ pc[c] = "idle" <=> req[c] = None
  /\ pc[c] = "outer" => req[c].op # "inspect"
  /\ pc[c] = "inner" => req[c].op \in {"clone", "snapshot", "remove"}
  /\ pc[c] \in {"source", "save_parent"} => req[c].op = "snapshot"
  /\ pc[c] \in {"make", "save", "made", "undone"} => req[c].op \in Makes
  /\ pc[c] \in {"destroy", "parent", "update_parent", "delete"} => req[c].op = "remove"
  /\ pc[c] \in {"compare", "drop", "update_list"} => req[c].op = "inspect"
  /\ pc[c] \in Before => parent[c] = None
  /\ parent[c] # None => IsSnap(c)
  /\ pc[c] \in {"save", "save_parent"} /\ IsSnap(c) => parent[c] = view[c].of

DataInv ==
  /\ \A v \in saved : Known(v)
  /\ \A v \in array :
       /\ req[v] # None /\ req[v].op \in Makes /\ pc[v] \notin Before
       /\ IsSnap(v) <=> parent[v] # None
  /\ \A p \in Call : \A s \in children[p] : Known(s) /\ IsSnap(s) /\ parent[s] = p

\* A call that makes a snapshot and has read its source, and one that removes a volume
\* and has read its record.
Copying(c) ==
  pc[c] \in {"make", "save", "save_parent"} /\ req[c].op = "snapshot"

Dropping(c) ==
  /\ pc[c] \in {"destroy", "inner", "parent", "update_parent", "delete"}
  /\ req[c].op = "remove"

\* The copies a call has are of volumes that have had a record.
SeenInv(c) ==
  /\ \A s \in view[c].snaps : Known(s) /\ IsSnap(s) /\ parent[s] = view[c].of
  /\ \A s \in view[c].drop : Known(s) /\ IsSnap(s) /\ s \notin array
  /\ view[c].vol # None => Known(view[c].vol)

ViewInv(c) ==
  /\ Copying(c) =>
       Known(view[c].of) /\ ~IsSnap(view[c].of) /\ req[view[c].of].name = req[c].src
  /\ Dropping(c) => Known(view[c].vol) /\ req[view[c].vol].name = req[c].name
  /\ Dropping(c) /\ pc[c] # "destroy" => view[c].vol \notin array
  /\ Dropping(c) /\ pc[c] \notin {"destroy", "delete"} => IsSnap(view[c].vol)
  /\ pc[c] = "update_parent" => Known(view[c].of) /\ req[view[c].of].name = Inner(c)

\* The locks that the decorators hold.
HoldsOuter(c) ==
  \/ pc[c] = "read" /\ req[c].op # "inspect"
  \/ pc[c] \in {"inner", "source", "make", "save", "save_parent", "destroy", "parent",
                "update_parent", "delete"}

HoldsInner(c) ==
  \/ pc[c] \in {"source", "parent", "update_parent"}
  \/ pc[c] \in {"make", "save", "save_parent"} /\ req[c].op \in Copies

LockInv(c) ==
  /\ HoldsOuter(c) => lock[Outer(c)] = c
  /\ HoldsInner(c) => lock[Inner(c)] = c /\ Inner(c) # Outer(c)

\* Of the records with the name of v, but v itself, all are clones, or v is.
Unique(v) == \A u \in saved : SameName(u, v) => "clone" \in {req[u].op, req[v].op}

UniqueInv(c) ==
  /\ pc[c] \in {"inner", "source", "make", "save"} /\ req[c].op \in {"create", "snapshot"} =>
       Unique(c)
  /\ Copying(c) => Unique(view[c].of)
  /\ Dropping(c) => Unique(view[c].vol)

\* What the call is going to take off the list of a source is not live, or an inspection
\* has put it there meanwhile.
ListInv(c) ==
  /\ Copying(c) =>
       \A s \in children[view[c].of] :
         s \in view[c].snaps \/ s \notin array \/ PutBack(s, view[c].of)
  /\ pc[c] = "update_parent" =>
       \A s \in children[view[c].of] :
         \/ s \in view[c].snaps
         \/ req[s].name = req[view[c].vol].name
         \/ PutBack(s, view[c].of)

LossInv ==
  /\ \A v \in array \ saved : pc[v] \in {"save_parent", "made"} => MistakenForSnapshot(v)
  /\ \A v \in array : pc[v] = "undone" => used["failure"] > 1

CallInv(c) ==
  ReqInv(c) /\ SeenInv(c) /\ ViewInv(c) /\ LockInv(c) /\ UniqueInv(c) /\ ListInv(c)

IInv == DataInv /\ (\A c \in Call : CallInv(c)) /\ UniqueUnlessCloned /\ LossInv

-----------------------------------------------------------------------------
(* What a step of one call means for the others *)

\* The record that a call saves: nobody else makes one with its name but clones.
NewRecord(c, x) ==
  /\ x \in Call /\ req[x] # None /\ Known(x)' /\ Unique(x)
  /\ req[x].op = "clone" \/ lock[req[x].name] = c

Frame(c) ==
  /\ \A d \in Call : d # c =>
       pc'[d] = pc[d] /\ req'[d] = req[d] /\ view'[d] = view[d] /\ parent'[d] = parent[d]
  /\ \A n \in Name, d \in Call : d # c /\ lock[n] = d => lock'[n] = d
  /\ req[c] # None \/ pc[c] # "idle" => req'[c] = req[c]
  /\ pc[c] \in Written => pc'[c] \in Written /\ parent'[c] = parent[c]
  /\ pc[c] \in Final => pc'[c] = pc[c] /\ view'[c] = view[c]

DataStep(c) ==
  /\ \A v \in array' : v \in array \/ (v = c /\ pc[c] = "make")
  /\ saved' \subseteq saved \/ \E x \in Call : saved' = saved \union {x} /\ NewRecord(c, x)
  /\ \A p \in Call :
       \/ children'[p] = children[p]
       \/ /\ \A s \in children'[p] : Known(s)' /\ IsSnap(s)' /\ parent'[s] = p
          /\ \/ Known(p) /\ lock[req[p].name] = c
             \/ \A s \in children'[p] : PutBack(s, p)'
  /\ used' \in [Event -> Nat] /\ used["failure"] <= used'["failure"]

\* What the step means for the volume that the call makes.
OwnStep(c) ==
  /\ c \in array' =>
       /\ req'[c] # None /\ req'[c].op \in Makes /\ pc'[c] \notin Before
       /\ IsSnap(c)' <=> parent'[c] # None
  /\ pc'[c] \in {"save_parent", "made"} => pc[c] \in {"save_parent", "made"} \/ c \in saved'
  /\ pc'[c] = "undone" /\ c \in array' => pc[c] = "undone" \/ used'["failure"] > 1

\* A record goes with the volume, with the failure of its call, or by mistake.
LossStep(c) ==
  \A v \in saved \ saved' :
    v \notin array' \/ (v = c /\ pc'[c] = "undone") \/ MistakenForSnapshot(v)

Good(c) == Frame(c) /\ DataStep(c) /\ OwnStep(c) /\ LossStep(c) /\ CallInv(c)'

LEMMA KnownKept ==
  ASSUME Typed, NEW c \in Call, Frame(c), NEW v, Known(v)
  PROVE  /\ Known(v)' /\ req'[v] = req[v] /\ parent'[v] = parent[v]
         /\ IsSnap(v)' = IsSnap(v)
BY DEF Frame, Known, IsSnap

LEMMA PutBackKept ==
  ASSUME Typed, NEW c \in Call, Frame(c), NEW s, NEW p, PutBack(s, p)
  PROVE  PutBack(s, p)'
<1>1. PICK d \in Call :
        pc[d] = "done" /\ req[d].op = "inspect" /\ view[d].of = p /\ s \in view[d].snaps
  BY DEF PutBack
<1>2. pc'[d] = "done" /\ view'[d] = view[d]
  BY <1>1 DEF Frame, Final
<1>3. req'[d] = req[d]
  BY <1>1 DEF Frame
<1> QED  BY <1>1, <1>2, <1>3 DEF PutBack

LEMMA MistakenKept ==
  ASSUME Typed, NEW c \in Call, Frame(c), NEW v \in Call, req[v] # None,
         MistakenForSnapshot(v)
  PROVE  MistakenForSnapshot(v)'
<1>1. \A d \in Call : req[d] # None => req'[d] = req[d]
  BY DEF Frame
<1>2. PICK d \in Call, s \in Call :
        /\ req[d] # None /\ req[d].op = "inspect"
        /\ req[s] # None /\ req[s].op = "snapshot" /\ SameName(s, v)
  BY DEF MistakenForSnapshot
<1>3. /\ req'[d] # None /\ req'[d].op = "inspect"
      /\ req'[s] # None /\ req'[s].op = "snapshot" /\ SameName(s, v)'
  BY <1>1, <1>2 DEF SameName
<1> QED  BY <1>3 DEF MistakenForSnapshot

LEMMA DataKept ==
  ASSUME Typed, DataInv, NEW c \in Call, Frame(c), DataStep(c), OwnStep(c)
  PROVE  DataInv'
<1>1. \A v \in saved' : Known(v)'
  BY KnownKept DEF DataInv, DataStep, NewRecord
<1>2. ASSUME NEW v \in array'
      PROVE  /\ req'[v] # None /\ req'[v].op \in Makes /\ pc'[v] \notin Before
             /\ IsSnap(v)' <=> parent'[v] # None
  <2>1. CASE v = c
    BY <2>1 DEF OwnStep
  <2>2. CASE v # c
    <3>1. v \in array /\ v \in Call
      BY <2>2 DEF DataStep, Typed
    <3> QED  BY <2>2, <3>1 DEF DataInv, Frame, IsSnap
  <2> QED  BY <2>1, <2>2
<1>3. ASSUME NEW p \in Call, NEW s \in children'[p]
      PROVE  Known(s)' /\ IsSnap(s)' /\ parent'[s] = p
  <2>1. CASE children'[p] = children[p]
    BY <2>1, KnownKept DEF DataInv
  <2> QED  BY <2>1 DEF DataStep
<1> QED  BY <1>1, <1>2, <1>3 DEF DataInv

LEMMA UniqueKept ==
  ASSUME Typed, DataInv, NEW c \in Call, Frame(c), DataStep(c), UniqueUnlessCloned
  PROVE  UniqueUnlessCloned'
<1>1. \A v \in saved : req'[v] = req[v]
  BY KnownKept DEF DataInv
<1>2. CASE saved' \subseteq saved
  BY <1>1, <1>2 DEF UniqueUnlessCloned, SameName
<1>3. ASSUME NEW x \in Call, saved' = saved \union {x}, NewRecord(c, x)
      PROVE  UniqueUnlessCloned'
  <2>1. req'[x] = req[x]
    BY <1>3 DEF NewRecord, Frame
  <2>2. \A u \in saved : SameName(u, x) => "clone" \in {req[u].op, req[x].op}
    BY <1>3 DEF NewRecord, Unique
  <2> QED  BY <1>1, <1>3, <2>1, <2>2 DEF UniqueUnlessCloned, SameName
<1> QED  BY <1>2, <1>3 DEF DataStep

LEMMA LossKept ==
  ASSUME Typed, DataInv, NEW c \in Call, Frame(c), DataStep(c), OwnStep(c), LossStep(c), LossInv
  PROVE  LossInv'
<1>1. ASSUME NEW v \in array' \ saved', pc'[v] \in {"save_parent", "made"}
      PROVE  MistakenForSnapshot(v)'
  <2>1. v \in array /\ v \in Call /\ pc[v] \in {"save_parent", "made"}
    BY <1>1 DEF DataStep, OwnStep, Frame, Typed
  <2>2. req[v] # None
    BY <2>1 DEF DataInv
  <2>3. MistakenForSnapshot(v)
    BY <1>1, <2>1 DEF LossStep, LossInv
  <2> QED  BY <2>1, <2>2, <2>3, MistakenKept
<1>2. ASSUME NEW v \in array', pc'[v] = "undone"
      PROVE  used'["failure"] > 1
  <2>1. CASE v = c /\ pc[c] # "undone"
    BY <1>2, <2>1 DEF OwnStep
  <2>2. CASE v # c \/ pc[c] = "undone"
    <3>1. v \in array /\ v \in Call /\ pc[v] = "undone"
      BY <1>2, <2>2 DEF DataStep, Frame, Typed
    <3>2. used["failure"] > 1 /\ used["failure"] <= used'["failure"]
      BY <3>1 DEF LossInv, DataStep
    <3>3. used["failure"] \in Nat /\ used'["failure"] \in Nat
      BY DEF Typed, DataStep, Event
    <3> QED  BY <3>2, <3>3
  <2> QED  BY <2>1, <2>2
<1> QED  BY <1>1, <1>2 DEF LossInv

\* The names that the locks of a call are about do not change.
LEMMA OthersKeep ==
  ASSUME Typed, DataInv, NEW c \in Call, NEW d \in Call, d # c,
         Frame(c), DataStep(c), CallInv(d)
  PROVE  CallInv(d)'
<1> USE DEF CallInv
<1>0. \A v : Known(v) => /\ Known(v)' /\ req'[v] = req[v] /\ parent'[v] = parent[v]
                         /\ IsSnap(v)' = IsSnap(v)
  BY KnownKept
<1>1. pc'[d] = pc[d] /\ req'[d] = req[d] /\ view'[d] = view[d] /\ parent'[d] = parent[d]
  BY DEF Frame
<1>2. ReqInv(d)'
  BY <1>1 DEF ReqInv, IsSnap
<1>3. \A v : Known(v) /\ v \notin array => v \notin array'
  BY DEF DataStep, Known, Written
<1>4. SeenInv(d)'
  BY <1>1, <1>3, KnownKept DEF SeenInv
<1>5. Dropping(d)' = Dropping(d) /\ Copying(d)' = Copying(d)
  BY <1>1 DEF Dropping, Copying
<1>6. HoldsInner(d) => Inner(d)' = Inner(d)
  <2>1. CASE req[d].op \in {"clone", "snapshot"}
    BY <1>1, <2>1 DEF Inner
  <2>2. CASE req[d].op \notin {"clone", "snapshot"} /\ HoldsInner(d)
    <3>1. Dropping(d)
      BY <2>2 DEF HoldsInner, Dropping, ReqInv, Copies
    <3>2. req'[view[d].vol] = req[view[d].vol]
      BY <1>0, <3>1 DEF ViewInv
    <3> QED  BY <1>1, <2>2, <3>2 DEF Inner
  <2> QED  BY <2>1, <2>2
<1>7. Outer(d)' = Outer(d)
  BY <1>1 DEF Outer
<1>8. ViewInv(d)'
  <2>1. Copying(d) =>
          Known(view[d].of)' /\ ~IsSnap(view[d].of)' /\ req'[view[d].of].name = req[d].src
    BY <1>0, <1>1 DEF ViewInv, Known, IsSnap
  <2>2. Dropping(d) => Known(view[d].vol)' /\ req'[view[d].vol].name = req[d].name
    BY <1>0, <1>1 DEF ViewInv, Known, IsSnap
  <2>3. Dropping(d) /\ pc[d] # "destroy" => view[d].vol \notin array'
    BY <1>3 DEF ViewInv
  <2>4. Dropping(d) /\ pc[d] \notin {"destroy", "delete"} => IsSnap(view[d].vol)'
    BY <1>0, <1>1 DEF ViewInv, IsSnap
  <2>5. pc[d] = "update_parent" => Known(view[d].of)' /\ req'[view[d].of].name = Inner(d)
    BY <1>0, <1>1 DEF ViewInv, Known, IsSnap
  <2>6. pc[d] = "update_parent" => HoldsInner(d)
    BY DEF HoldsInner
  <2> QED  BY <1>1, <1>5, <1>6, <2>1, <2>2, <2>3, <2>4, <2>5, <2>6 DEF ViewInv, IsSnap
<1>9. HoldsOuter(d)' = HoldsOuter(d) /\ HoldsInner(d)' = HoldsInner(d)
  BY <1>1 DEF HoldsOuter, HoldsInner
<1>10. \A n \in Name : lock[n] = d => lock'[n] = d
  BY DEF Frame
<1>11. HoldsOuter(d) => Outer(d) \in Name
  <2> SUFFICES ASSUME HoldsOuter(d) PROVE Outer(d) \in Name
    OBVIOUS
  <2>1. req[d] \in Request
    BY DEF HoldsOuter, ReqInv, Typed
  <2> QED  BY <2>1, LifecycleAssumption DEF Outer, Op, Copies
<1>12. HoldsInner(d) => Inner(d) \in Name
  <2> SUFFICES ASSUME HoldsInner(d) PROVE Inner(d) \in Name
    OBVIOUS
  <2>1. req[d] \in Request /\ HoldsOuter(d)
    BY DEF HoldsInner, HoldsOuter, ReqInv, Typed
  <2>2. CASE req[d].op \in {"clone", "snapshot"}
    BY <2>1, <2>2, LifecycleAssumption DEF Inner, Op, Copies
  <2>3. CASE req[d].op \notin {"clone", "snapshot"}
    <3>1. Dropping(d) /\ pc[d] \in {"parent", "update_parent"}
      BY <2>3 DEF HoldsInner, Dropping, ReqInv, Copies
    <3>2. Known(view[d].vol) /\ IsSnap(view[d].vol)
      BY <3>1 DEF ViewInv
    <3>3. req[view[d].vol] \in Request
      BY <3>2 DEF Known, Typed
    <3> QED  BY <2>3, <3>2, <3>3, LifecycleAssumption DEF Inner, IsSnap, Op, Copies
  <2> QED  BY <2>2, <2>3
<1>13. LockInv(d)'
  BY <1>6, <1>7, <1>9, <1>10, <1>11, <1>12 DEF LockInv
\* A name whose lock d holds gets no other new record than a clone's.
<1>14. ASSUME NEW v \in Call, req[v] # None, lock[req[v].name] = d, Unique(v), req'[v] = req[v]
       PROVE  Unique(v)'
  <2> SUFFICES ASSUME NEW u \in saved', SameName(u, v)'
               PROVE  "clone" \in {req'[u].op, req'[v].op}
    BY DEF Unique
  <2>1. CASE u \in saved
    <3>1. req'[u] = req[u]
      BY <1>0, <2>1 DEF DataInv
    <3> QED  BY <1>14, <2>1, <3>1 DEF Unique, SameName
  <2>2. CASE u \notin saved
    <3>1. NewRecord(c, u)
      BY <2>2 DEF DataStep
    <3>2. req'[u] = req[u]
      BY <3>1 DEF NewRecord, Frame
    <3> QED  BY <1>14, <3>1, <3>2 DEF NewRecord, SameName
  <2> QED  BY <2>1, <2>2
<1>15. UniqueInv(d)'
  <2>1. ASSUME pc[d] \in {"inner", "source", "make", "save"}, req[d].op \in {"create", "snapshot"}
        PROVE  Unique(d)'
    <3>1. HoldsOuter(d) /\ Outer(d) = req[d].name /\ req[d] # None
      BY <2>1 DEF HoldsOuter, Outer, ReqInv
    <3> QED  BY <1>1, <1>14, <2>1, <3>1 DEF UniqueInv, LockInv
  <2>2. ASSUME Copying(d) PROVE Unique(view[d].of)'
    <3>1. /\ HoldsInner(d) /\ Inner(d) = req[d].src /\ Known(view[d].of)
          /\ req[view[d].of].name = req[d].src
      BY <2>2 DEF HoldsInner, Inner, Copying, Copies, ViewInv
    <3>2. /\ view[d].of \in Call /\ req[view[d].of] # None
          /\ req'[view[d].of] = req[view[d].of] /\ lock[req[view[d].of].name] = d
      BY <1>0, <3>1 DEF LockInv, Known
    <3>3. Unique(view[d].of)
      BY <2>2 DEF UniqueInv
    <3> QED  BY <1>1, <1>14, <3>2, <3>3 DEF Unique, SameName
  <2>3. ASSUME Dropping(d) PROVE Unique(view[d].vol)'
    <3>1. /\ HoldsOuter(d) /\ Outer(d) = req[d].name /\ Known(view[d].vol)
          /\ req[view[d].vol].name = req[d].name
      BY <2>3 DEF HoldsOuter, Outer, Dropping, ViewInv
    <3>2. /\ view[d].vol \in Call /\ req[view[d].vol] # None
          /\ req'[view[d].vol] = req[view[d].vol] /\ lock[req[view[d].vol].name] = d
      BY <1>0, <3>1 DEF LockInv, Known
    <3>3. Unique(view[d].vol)
      BY <2>3 DEF UniqueInv
    <3> QED  BY <1>1, <1>14, <3>2, <3>3 DEF Unique, SameName
  <2> QED  BY <1>1, <1>5, <2>1, <2>2, <2>3 DEF UniqueInv
\* The list of a source whose lock d holds does not change, but for an inspection.
<1>16. ASSUME NEW p \in Call, Known(p), lock[req[p].name] = d, NEW s \in children'[p]
       PROVE  s \in children[p] \/ PutBack(s, p)'
  BY <1>16 DEF DataStep
<1>17. ASSUME NEW s, NEW p, PutBack(s, p) PROVE PutBack(s, p)'
  BY <1>17, PutBackKept
<1>18. \A p \in Call : \A s \in children[p] : Known(s)
  BY DEF DataInv
<1>19. ListInv(d)'
  <2>1. ASSUME Copying(d), NEW s \in children'[view[d].of]
        PROVE  s \in view[d].snaps \/ s \notin array' \/ PutBack(s, view[d].of)'
    <3>1. /\ HoldsInner(d) /\ Inner(d) = req[d].src /\ Known(view[d].of)
          /\ req[view[d].of].name = req[d].src
      BY <2>1 DEF HoldsInner, Inner, Copying, Copies, ViewInv
    <3>2. view[d].of \in Call /\ lock[req[view[d].of].name] = d
      BY <3>1 DEF LockInv, Known
    <3>3. PICK p \in Call : p = view[d].of
      BY <3>2
    <3>4. s \in children[p] \/ PutBack(s, p)'
      BY <1>16, <2>1, <3>1, <3>2, <3>3
    <3>5. s \in children[p] => s \in view[d].snaps \/ s \notin array' \/ PutBack(s, p)'
      BY <1>3, <1>17, <1>18, <2>1, <3>3 DEF ListInv
    <3> QED  BY <1>1, <3>3, <3>4, <3>5 DEF PutBack
  <2>2. ASSUME pc[d] = "update_parent", NEW s \in children'[view[d].of]
        PROVE  \/ s \in view[d].snaps
               \/ req'[s].name = req'[view[d].vol].name
               \/ PutBack(s, view[d].of)'
    <3>1. /\ HoldsInner(d) /\ Known(view[d].of) /\ req[view[d].of].name = Inner(d)
          /\ Known(view[d].vol)
      BY <2>2 DEF HoldsInner, Dropping, ReqInv, ViewInv
    <3>2. view[d].of \in Call /\ lock[req[view[d].of].name] = d
      BY <3>1 DEF LockInv, Known
    <3>3. PICK p \in Call : p = view[d].of
      BY <3>2
    <3>4. s \in children[p] \/ PutBack(s, p)'
      BY <1>16, <2>2, <3>1, <3>2, <3>3
    <3>5. s \in children[p] =>
            s \in view[d].snaps \/ req[s].name = req[view[d].vol].name \/ PutBack(s, p)'
      BY <1>17, <2>2, <3>3 DEF ListInv
    <3>6. s \in children[p] => req'[s] = req[s]
      BY <1>0, <1>18
    <3>7. req'[view[d].vol] = req[view[d].vol]
      BY <1>0, <3>1
    <3> QED  BY <1>1, <3>3, <3>4, <3>5, <3>6, <3>7 DEF PutBack
  <2> QED  BY <1>1, <1>5, <2>1, <2>2 DEF ListInv
<1> QED  BY <1>2, <1>4, <1>8, <1>13, <1>15, <1>19

LEMMA GoodStep ==
  ASSUME Typed, IInv, NEW c \in Call, Good(c)
  PROVE  IInv'
BY DataKept, UniqueKept, LossKept, OthersKeep DEF IInv, Good

-----------------------------------------------------------------------------
(* The steps of the calls *)

LEMMA GoToFacts ==
  ASSUME Typed, NEW c \in Call, NEW p \in Point, GoTo(c, p)
  PROVE  pc' \in [Call -> Point] /\ pc'[c] = p /\ \A d \in Call : d # c => pc'[d] = pc[d]
BY DEF Typed, GoTo

LEMMA EndFacts ==
  ASSUME Typed, NEW c \in Call, NEW p \in Point, End(c, p)
  PROVE  /\ pc' \in [Call -> Point] /\ pc'[c] = p /\ \A d \in Call : d # c => pc'[d] = pc[d]
         /\ lock' \in [Name -> Call \union {Free}]
         /\ \A n \in Name, d \in Call : d # c /\ lock[n] = d => lock'[n] = d
BY GoToFacts DEF Typed, End

LEMMA SeeFacts ==
  ASSUME Typed, NEW c \in Call, NEW v \in View, See(c, v)
  PROVE  view' \in [Call -> View] /\ view'[c] = v /\ \A d \in Call : d # c => view'[d] = view[d]
BY DEF Typed, See

LEMMA SpendFacts ==
  ASSUME Typed, NEW e \in Event, NEW k \in Nat, Spend(e, k)
  PROVE  /\ used' \in [Event -> Nat] /\ \A d \in Event : used'[d] <= Limit[d]
         /\ used["failure"] <= used'["failure"]
         /\ e = "failure" => k <= used'["failure"]
<1>1. used \in [Event -> Nat] /\ (\A d \in Event : used[d] <= Limit[d]) /\ "failure" \in Event
  BY DEF Typed, Event
<1>2. used[e] + k <= Limit[e] /\ used' = [used EXCEPT ![e] = used[e] + k]
  BY DEF Spend
<1>3. used[e] \in Nat /\ used["failure"] \in Nat
  BY <1>1
<1>4. used'[e] = used[e] + k /\ \A d \in Event : d # e => used'[d] = used[d]
  BY <1>1, <1>2
<1>5. used' \in [Event -> Nat]
  BY <1>1, <1>2, <1>3
<1>6. \A d \in Event : used'[d] <= Limit[d]
  BY <1>1, <1>2, <1>4
<1>7. used["failure"] <= used'["failure"]
  BY <1>1, <1>3, <1>4
<1> QED  BY <1>3, <1>4, <1>5, <1>6, <1>7

LEMMA RequestFacts ==
  ASSUME Typed, IInv, NEW c \in Call, pc[c] # "idle"
  PROVE  /\ req[c] \in Request /\ req[c].op \in Op /\ req[c].name \in Name
         /\ req[c].src \in Name \union {None}
         /\ req[c].op \in Copies <=> req[c].src # None
<1>1. req[c] \in Request
  BY DEF IInv, CallInv, ReqInv, Typed
<1> QED  BY <1>1, LifecycleAssumption

LEMMA NoViewFacts == NoView \in View /\ NoView.vol = None /\ NoView.of = None
                     /\ NoView.snaps = {} /\ NoView.drop = {}
BY DEF NoView, View

\* A step that leaves etcd's records and the array alone.
LEMMA QuietData ==
  ASSUME Typed, NEW c \in Call, UNCHANGED <<saved, children, array>>,
         used' = used \/ \E k \in Nat : Spend("failure", k)
  PROVE  DataStep(c) /\ LossStep(c)
<1>1. used' \in [Event -> Nat] /\ used["failure"] <= used'["failure"]
  <2>1. "failure" \in Event
    BY DEF Event
  <2>2. CASE used' = used
    BY <2>1, <2>2 DEF Typed
  <2>3. CASE \E k \in Nat : Spend("failure", k)
    BY <2>1, <2>3, SpendFacts
  <2> QED  BY <2>2, <2>3
<1> QED  BY <1>1 DEF DataStep, LossStep

LEMMA StillSeen ==
  ASSUME Typed, IInv, NEW c \in Call, Frame(c), DataStep(c), view'[c] = view[c]
  PROVE  SeenInv(c)'
<1>1. SeenInv(c)
  BY DEF IInv, CallInv
<1>2. \A v : Known(v) => /\ Known(v)' /\ req'[v] = req[v] /\ parent'[v] = parent[v]
                         /\ IsSnap(v)' = IsSnap(v)
  BY KnownKept
<1>3. \A v : Known(v) /\ v \notin array => v \notin array'
  BY DEF DataStep, Known, Written
<1> QED  BY <1>1, <1>2, <1>3 DEF SeenInv

\* The volume of a call that is not made or undone by the step.
LEMMA OwnQuiet ==
  ASSUME Typed, IInv, NEW c \in Call, array' \subseteq array, req'[c] = req[c],
         parent'[c] = parent[c], pc[c] # "idle", pc[c] \in Before \/ pc'[c] \notin Before,
         pc'[c] \notin {"save_parent", "made", "undone"}
  PROVE  OwnStep(c)
BY DEF OwnStep, IInv, DataInv, IsSnap

\* Once it has ended, a call is only a volume that it has made and a copy that it has read.
LEMMA Ended ==
  ASSUME Typed, IInv, NEW c \in Call, Frame(c), DataStep(c), pc[c] # "idle",
         pc'[c] \in Final, view'[c] = view[c],
         pc'[c] \in {"made", "undone"} => req[c].op \in Makes,
         parent'[c] = parent[c] \/ IsSnap(c)
  PROVE  CallInv(c)'
<1>1. req'[c] = req[c] /\ req[c] # None
  BY DEF Frame, IInv, CallInv, ReqInv
<1>2. ReqInv(c)'
  BY <1>1 DEF IInv, CallInv, ReqInv, Final, Before, IsSnap
<1>3. SeenInv(c)'
  BY StillSeen
<1>4. ~Copying(c)' /\ ~Dropping(c)' /\ ~HoldsOuter(c)' /\ ~HoldsInner(c)'
  BY DEF Copying, Dropping, HoldsOuter, HoldsInner, Final
<1>5. ViewInv(c)' /\ LockInv(c)' /\ UniqueInv(c)' /\ ListInv(c)'
  BY <1>4 DEF ViewInv, LockInv, UniqueInv, ListInv, Final
<1> QED  BY <1>2, <1>3, <1>5 DEF CallInv

\* A call gives up, or its plugin dies.
LEMMA GiveUpGood ==
  ASSUME Typed, IInv, NEW c \in Call, NEW p \in {"done", "dead"},
         End(c, p) \/ (GoTo(c, p) /\ UNCHANGED lock),
         UNCHANGED <<req, view, saved, children, parent, array>>,
         used' = used \/ Spend("failure", 1),
         pc[c] \notin Final \union {"idle"}, pc[c] = "save_parent" => p = "dead"
  PROVE  Typed' /\ Good(c)
<1>1. p \in Point /\ p \in Final /\ "failure" \in Event /\ 1 \in Nat
  BY DEF Point, Final, Event
<1>2. /\ pc' \in [Call -> Point] /\ pc'[c] = p /\ \A d \in Call : d # c => pc'[d] = pc[d]
      /\ lock' \in [Name -> Call \union {Free}]
      /\ \A n \in Name, d \in Call : d # c /\ lock[n] = d => lock'[n] = d
  <2>1. CASE End(c, p)
    BY <1>1, <2>1, EndFacts
  <2>2. CASE GoTo(c, p) /\ UNCHANGED lock
    BY <1>1, <2>2, GoToFacts DEF Typed
  <2> QED  BY <2>1, <2>2
<1>3. used' \in [Event -> Nat] /\ \A e \in Event : used'[e] <= Limit[e]
  <2>1. CASE used' = used
    BY <2>1 DEF Typed
  <2>2. CASE Spend("failure", 1)
    BY <1>1, <2>2, SpendFacts
  <2> QED  BY <2>1, <2>2
<1>4. Typed'
  BY <1>2, <1>3 DEF Typed
<1>5. Frame(c)
  BY <1>2 DEF Frame, Written, Final
<1>6. DataStep(c) /\ LossStep(c)
  BY <1>1, QuietData
<1>7. OwnStep(c)
  BY <1>2, OwnQuiet DEF Before
<1>8. CallInv(c)'
  BY <1>1, <1>2, <1>5, <1>6, Ended DEF Final
<1> QED  BY <1>4, <1>5, <1>6, <1>7, <1>8 DEF Good

LEMMA RefuseGood ==
  ASSUME Typed, IInv, NEW c \in Call, Refuse(c), pc[c] \notin Final \union {"idle", "save_parent"}
  PROVE  Typed' /\ Good(c)
BY GiveUpGood DEF Refuse, etcd

LEMMA CrashGood ==
  ASSUME Typed, IInv, NEW c \in Call, Crash(c)
  PROVE  Typed' /\ Good(c)
BY GiveUpGood DEF Crash, etcd

\* The array removes a snapshot.
LEMMA ExpireGood ==
  ASSUME Typed, IInv, NEW c \in Call, Expire(c)
  PROVE  Typed' /\ Good(c)
<1>1. /\ Spend("expiry", 1) /\ array' = array \ {c}
      /\ UNCHANGED <<req, pc, view, lock, saved, children, parent>>
      /\ "expiry" \in Event /\ 1 \in Nat
  BY DEF Expire, etcd, Event
<1>2. Typed'
  BY <1>1, SpendFacts DEF Typed
<1>3. Frame(c)
  BY <1>1 DEF Frame
<1>4. DataStep(c) /\ LossStep(c)
  BY <1>1, SpendFacts DEF DataStep, LossStep
<1>5. OwnStep(c)
  BY <1>1 DEF OwnStep
<1>6. SeenInv(c)'
  BY <1>1, <1>3, <1>4, StillSeen
<1>7. CallInv(c)'
  BY <1>1, <1>6
  DEF IInv, CallInv, ReqInv, ViewInv, LockInv, UniqueInv, ListInv, IsSnap, Copying, Dropping,
      HoldsOuter, HoldsInner, Outer, Inner, Known, Unique, SameName, PutBack
<1> QED  BY <1>2, <1>3, <1>4, <1>5, <1>7 DEF Good

LEMMA ReceiveGood ==
  ASSUME Typed, IInv, NEW c \in Call, NEW r \in Request, Receive(c, r)
  PROVE  Typed' /\ Good(c)
<1> DEFINE p == CASE r.op = "inspect" -> "read"
                  [] r.op \in Makes /\ Named(r.name) # {} -> "done"
                  [] OTHER -> "outer"
<1>1. /\ pc[c] = "idle" /\ req' = [req EXCEPT ![c] = r] /\ GoTo(c, p)
      /\ UNCHANGED <<view, lock, saved, children, parent, array, used>>
  BY DEF Receive, etcd
<1>2. /\ p \in {"read", "done", "outer"}
      /\ p = "outer" => r.op # "inspect"
      /\ p = "read" => r.op = "inspect"
  BY DEF Makes
<1> HIDE DEF p
<1>3. p \in Point /\ r # None
  BY <1>2, LifecycleAssumption DEF Point
<1>4. pc'[c] = p /\ req'[c] = r /\ req[c] = None
  BY <1>1, <1>3, GoToFacts DEF Typed, IInv, CallInv, ReqInv
<1>5. Typed'
  BY <1>1, <1>3, GoToFacts DEF Typed
<1>6. Frame(c)
  BY <1>1, <1>3, <1>4, GoToFacts DEF Frame, Written, Final, Typed
<1>7. DataStep(c) /\ LossStep(c)
  BY <1>1, QuietData
<1>8. OwnStep(c)
  BY <1>1, <1>2, <1>4 DEF OwnStep, IInv, DataInv
<1>9. SeenInv(c)'
  BY <1>1, <1>6, <1>7, StillSeen
<1>10. parent'[c] = None
  BY <1>1 DEF IInv, CallInv, ReqInv, Before
<1>11. ReqInv(c)'
  BY <1>2, <1>3, <1>4, <1>10 DEF ReqInv
<1>12. CallInv(c)'
  BY <1>2, <1>4, <1>9, <1>11
  DEF CallInv, ViewInv, LockInv, UniqueInv, ListInv, Copying, Dropping, HoldsOuter, HoldsInner
<1> QED  BY <1>5, <1>6, <1>7, <1>8, <1>12 DEF Good

\* The names that the decorators lock are names.
LEMMA OuterFacts ==
  ASSUME Typed, IInv, NEW c \in Call, pc[c] # "idle", req[c].op # "inspect"
  PROVE  Outer(c) \in Name
BY RequestFacts DEF Outer, Op, Copies

LEMMA InnerFacts ==
  ASSUME Typed, IInv, NEW c \in Call, pc[c] \in {"inner", "source", "parent", "update_parent"}
  PROVE  Inner(c) \in Name
<1>1. CASE req[c].op \in Copies
  BY <1>1, RequestFacts DEF Inner, Copies
<1>2. CASE req[c].op \notin Copies
  <2>1. Dropping(c) /\ pc[c] \notin {"destroy", "delete"}
    BY <1>2 DEF Dropping, IInv, CallInv, ReqInv, Copies
  <2>2. Known(view[c].vol) /\ IsSnap(view[c].vol)
    BY <2>1 DEF IInv, CallInv, ViewInv
  <2>3. req[view[c].vol] \in Request
    BY <2>2 DEF Known, Typed
  <2> QED  BY <1>2, <2>2, <2>3, LifecycleAssumption DEF Inner, IsSnap, Copies
<1> QED  BY <1>1, <1>2

LEMMA LockOuterGood ==
  ASSUME Typed, IInv, NEW c \in Call, LockOuter(c)
  PROVE  Typed' /\ Good(c)
<1>1. /\ pc[c] = "outer" /\ lock[Outer(c)] = Free
      /\ lock' = [lock EXCEPT ![Outer(c)] = c] /\ GoTo(c, "read")
      /\ UNCHANGED <<req, view, saved, children, parent, array, used>>
      /\ "read" \in Point
  BY DEF LockOuter, etcd, Point
<1>2. req[c].op # "inspect" /\ Outer(c) \in Name
  BY <1>1, OuterFacts DEF IInv, CallInv, ReqInv
<1>3. pc'[c] = "read" /\ lock'[Outer(c)] = c /\ \A n \in Name : n # Outer(c) => lock'[n] = lock[n]
  BY <1>1, <1>2, GoToFacts DEF Typed
<1>4. Typed'
  BY <1>1, GoToFacts DEF Typed
<1>5. Frame(c)
  BY <1>1, <1>3, GoToFacts, LifecycleAssumption DEF Frame, Written, Final
<1>6. DataStep(c) /\ LossStep(c)
  BY <1>1, QuietData
<1>7. OwnStep(c)
  BY <1>1, <1>3, OwnQuiet DEF Before
<1>8. SeenInv(c)'
  BY <1>1, <1>5, <1>6, StillSeen
<1>9. ReqInv(c)'
  BY <1>1, <1>3 DEF IInv, CallInv, ReqInv, Before, IsSnap
<1>10. LockInv(c)'
  BY <1>1, <1>3 DEF LockInv, HoldsInner, Outer
<1>11. CallInv(c)'
  BY <1>3, <1>8, <1>9, <1>10 DEF CallInv, ViewInv, UniqueInv, ListInv, Copying, Dropping
<1> QED  BY <1>4, <1>5, <1>6, <1>7, <1>11 DEF Good

LEMMA LockInnerGood ==
  ASSUME Typed, IInv, NEW c \in Call, LockInner(c)
  PROVE  Typed' /\ Good(c)
<1> DEFINE p == AfterInner(c)
<1>1. /\ pc[c] = "inner" /\ lock[Inner(c)] = Free
      /\ lock' = [lock EXCEPT ![Inner(c)] = c] /\ GoTo(c, p)
      /\ UNCHANGED <<req, view, saved, children, parent, array, used>>
  BY DEF LockInner, etcd
<1>2. \/ req[c].op = "clone" /\ p = "make"
      \/ req[c].op = "snapshot" /\ p = "source"
      \/ req[c].op = "remove" /\ p = "parent"
  BY <1>1 DEF AfterInner, IInv, CallInv, ReqInv
<1> HIDE DEF p
<1>3. p \in Point
  BY <1>2 DEF Point
<1>4. Inner(c) \in Name /\ lock[Outer(c)] = c
  BY <1>1, InnerFacts DEF IInv, CallInv, LockInv, HoldsOuter
<1>5. /\ pc'[c] = p /\ lock'[Inner(c)] = c /\ Inner(c) # Outer(c) /\ lock'[Outer(c)] = lock[Outer(c)]
      /\ \A n \in Name : n # Inner(c) => lock'[n] = lock[n]
  BY <1>1, <1>3, <1>4, GoToFacts, LifecycleAssumption DEF Typed
<1>6. Typed'
  BY <1>1, <1>3, GoToFacts DEF Typed
<1>7. Frame(c)
  BY <1>1, <1>3, <1>5, GoToFacts, LifecycleAssumption DEF Frame, Written, Final
<1>8. DataStep(c) /\ LossStep(c)
  BY <1>1, QuietData
<1>9. OwnStep(c)
  BY <1>1, <1>2, <1>5, OwnQuiet DEF Before
<1>10. SeenInv(c)'
  BY <1>1, <1>7, <1>8, StillSeen
<1>11. ReqInv(c)'
  BY <1>1, <1>2, <1>5 DEF IInv, CallInv, ReqInv, Before, IsSnap, Makes
<1>12. LockInv(c)'
  BY <1>1, <1>4, <1>5 DEF LockInv, Outer, Inner
<1>13. ~Copying(c)' /\ (Dropping(c)' => Dropping(c)) /\ pc'[c] # "update_parent"
  BY <1>1, <1>2, <1>5 DEF Copying, Dropping
<1>14. ViewInv(c)'
  BY <1>1, <1>2, <1>5, <1>7, <1>13, KnownKept DEF IInv, CallInv, ViewInv, IsSnap, Known, Dropping
<1>15. UniqueInv(c)'
  BY <1>1, <1>2, <1>5, <1>13 DEF IInv, CallInv, UniqueInv, Unique, SameName
<1>16. ListInv(c)'
  BY <1>13 DEF ListInv
<1> QED  BY <1>6, <1>7, <1>8, <1>9, <1>10, <1>11, <1>12, <1>14, <1>15, <1>16 DEF Good, CallInv

\* A call goes on with what it knows, having changed nothing.
LEMMA GoOnGood ==
  ASSUME Typed, IInv, NEW c \in Call, NEW p \in Point, GoTo(c, p),
         UNCHANGED <<req, view, lock, saved, children, parent, array, used>>,
         \/ pc[c] = "read" /\ req[c].op = "create" /\ p = "make" /\ Unique(c)
         \/ pc[c] = "read" /\ req[c].op = "snapshot" /\ p = "inner" /\ Unique(c)
         \/ pc[c] = "inner" /\ req[c].op = "remove" /\ p = "delete"
  PROVE  Typed' /\ Good(c)
<1>1. pc'[c] = p
  BY GoToFacts
<1>2. Typed'
  BY GoToFacts DEF Typed
<1>3. Frame(c)
  BY GoToFacts DEF Frame, Written, Final
<1>4. DataStep(c) /\ LossStep(c)
  BY QuietData
<1>5. OwnStep(c)
  BY <1>1, OwnQuiet DEF Before
<1>6. SeenInv(c)'
  BY <1>3, <1>4, StillSeen
<1>7. ReqInv(c)'
  BY <1>1 DEF IInv, CallInv, ReqInv, Before, IsSnap, Makes
<1>8. LockInv(c)'
  BY <1>1 DEF IInv, CallInv, LockInv, HoldsOuter, HoldsInner, Outer, Copies
<1>9. ~Copying(c)' /\ (Dropping(c)' => Dropping(c) /\ p = "delete") /\ pc'[c] # "update_parent"
  BY <1>1 DEF Copying, Dropping
<1>10. ViewInv(c)'
  BY <1>1, <1>3, <1>9, KnownKept DEF IInv, CallInv, ViewInv, Known, IsSnap, Dropping
<1>11. UniqueInv(c)'
  BY <1>1, <1>9 DEF IInv, CallInv, UniqueInv, Unique, SameName
<1>12. ListInv(c)'
  BY <1>9 DEF ListInv
<1> QED  BY <1>2, <1>3, <1>4, <1>5, <1>6, <1>7, <1>8, <1>10, <1>11, <1>12 DEF Good, CallInv

LEMMA LockTimeoutGood ==
  ASSUME Typed, IInv, NEW c \in Call, LockTimeout(c)
  PROVE  Typed' /\ Good(c)
<1>1. CASE pc[c] \in {"outer", "inner"} /\ Refuse(c)
  BY <1>1, RefuseGood DEF Final
<1>2. CASE /\ pc[c] = "inner" /\ req[c].op = "remove"
           /\ GoTo(c, "delete") /\ UNCHANGED <<req, view, lock, etcd, array, used>>
  <2>1. "delete" \in Point
    BY DEF Point
  <2> QED  BY <1>2, <2>1, GoOnGood DEF etcd
<1> QED  BY <1>1, <1>2 DEF LockTimeout

LEMMA NoneNamed ==
  ASSUME Typed, NEW c \in Call, Named(req[c].name) = {}
  PROVE  Unique(c)
BY DEF Named, Unique, SameName

LEMMA CreateGood ==
  ASSUME Typed, IInv, NEW c \in Call, Create(c)
  PROVE  Typed' /\ Good(c)
<1>1. pc[c] = "read" /\ req[c].op = "create" /\ "make" \in Point
  BY DEF Create, Point
<1>2. CASE Refuse(c)
  BY <1>1, <1>2, RefuseGood DEF Final
<1>3. CASE /\ Named(req[c].name) = {}
           /\ GoTo(c, "make") /\ UNCHANGED <<req, view, lock, etcd, array, used>>
  BY <1>1, <1>3, NoneNamed, GoOnGood DEF etcd
<1> QED  BY <1>2, <1>3 DEF Create

LEMMA SnapshotGood ==
  ASSUME Typed, IInv, NEW c \in Call, Snapshot(c)
  PROVE  Typed' /\ Good(c)
<1>1. pc[c] = "read" /\ req[c].op = "snapshot" /\ "inner" \in Point
  BY DEF Snapshot, Point
<1>2. CASE Refuse(c)
  BY <1>1, <1>2, RefuseGood DEF Final
<1>3. CASE /\ Named(req[c].name) = {}
           /\ GoTo(c, "inner") /\ UNCHANGED <<req, view, lock, etcd, array, used>>
  BY <1>1, <1>3, NoneNamed, GoOnGood DEF etcd
<1> QED  BY <1>2, <1>3 DEF Snapshot

\* A step that only reads.
Sees(c, p, w) ==
  /\ GoTo(c, p) /\ See(c, w)
  /\ UNCHANGED <<req, lock, saved, children, parent, array, used>>

LEMMA SeesGood ==
  ASSUME Typed, IInv, NEW c \in Call, NEW p \in Point, NEW w \in View, Sees(c, p, w),
         pc[c] \notin Final \union {"idle", "save_parent"},
         pc[c] \in Before \/ p \notin Before, p \notin {"save_parent", "made", "undone"},
         \A s \in w.snaps : Known(s) /\ IsSnap(s) /\ parent[s] = w.of,
         \A s \in w.drop : Known(s) /\ IsSnap(s) /\ s \notin array,
         w.vol # None => Known(w.vol)
  PROVE  /\ Typed' /\ Frame(c) /\ DataStep(c) /\ LossStep(c) /\ OwnStep(c) /\ SeenInv(c)'
         /\ pc'[c] = p /\ view'[c] = w /\ req'[c] = req[c] /\ parent'[c] = parent[c]
         /\ lock' = lock
         /\ \A v : Known(v) => /\ Known(v)' /\ req'[v] = req[v] /\ parent'[v] = parent[v]
                               /\ IsSnap(v)' = IsSnap(v)
<1> USE DEF Sees
<1>1. Typed'
  BY GoToFacts, SeeFacts DEF Typed
<1>2. Frame(c)
  BY GoToFacts, SeeFacts DEF Frame, Written, Final
<1>3. DataStep(c) /\ LossStep(c)
  BY QuietData
<1>4. pc'[c] = p /\ view'[c] = w
  BY GoToFacts, SeeFacts
<1>5. OwnStep(c)
  BY <1>4, OwnQuiet DEF Before
<1>6. \A v : Known(v) => /\ Known(v)' /\ req'[v] = req[v] /\ parent'[v] = parent[v]
                         /\ IsSnap(v)' = IsSnap(v)
  BY <1>2, KnownKept
<1>7. SeenInv(c)'
  BY <1>4, <1>6 DEF SeenInv
<1> QED  BY <1>1, <1>2, <1>3, <1>4, <1>5, <1>6, <1>7

LEMMA CloneGood ==
  ASSUME Typed, IInv, NEW c \in Call, Clone(c)
  PROVE  Typed' /\ Good(c)
<1>1. pc[c] = "read" /\ req[c].op = "clone" /\ "inner" \in Point
  BY DEF Clone, Point
<1>2. CASE Refuse(c)
  BY <1>1, <1>2, RefuseGood DEF Final
<1>3. ASSUME NEW v \in Named(req[c].src), Sees(c, "inner", [NoView EXCEPT !.of = v])
      PROVE  Typed' /\ Good(c)
  <2> DEFINE w == [NoView EXCEPT !.of = v]
  <2>1. w \in View /\ w.snaps = {} /\ w.drop = {} /\ w.vol = None
    BY <1>3 DEF Named, Typed, NoView, View
  <2> HIDE DEF w
  <2>2. /\ Typed' /\ Frame(c) /\ DataStep(c) /\ LossStep(c) /\ OwnStep(c) /\ SeenInv(c)'
        /\ pc'[c] = "inner" /\ req'[c] = req[c] /\ parent'[c] = parent[c] /\ lock' = lock
    BY <1>1, <1>3, <2>1, SeesGood DEF Before, Final, w
  <2>3. ReqInv(c)'
    BY <1>1, <2>2 DEF IInv, CallInv, ReqInv, Before, IsSnap
  <2>4. LockInv(c)'
    BY <1>1, <2>2 DEF IInv, CallInv, LockInv, HoldsOuter, HoldsInner, Outer
  <2>5. ViewInv(c)' /\ UniqueInv(c)' /\ ListInv(c)'
    BY <1>1, <2>2 DEF ViewInv, UniqueInv, ListInv, Copying, Dropping
  <2> QED  BY <2>2, <2>3, <2>4, <2>5 DEF Good, CallInv
<1> QED  BY <1>2, <1>3 DEF Clone, Sees, etcd

LEMMA ReadSourceGood ==
  ASSUME Typed, IInv, NEW c \in Call, ReadSource(c)
  PROVE  Typed' /\ Good(c)
<1>1. pc[c] = "source" /\ req[c].op = "snapshot" /\ "make" \in Point
  BY DEF ReadSource, IInv, CallInv, ReqInv, Point
<1>2. CASE Refuse(c)
  BY <1>1, <1>2, RefuseGood DEF Final
<1>3. ASSUME NEW v \in Named(req[c].src), ~IsSnap(v),
             Sees(c, "make", [NoView EXCEPT !.of = v, !.snaps = children[v]])
      PROVE  Typed' /\ Good(c)
  <2> DEFINE w == [NoView EXCEPT !.of = v, !.snaps = children[v]]
  <2>1. v \in Call /\ v \in saved /\ req[v].name = req[c].src /\ Known(v)
    BY <1>3 DEF Named, Typed, IInv, DataInv
  <2>2. w \in View /\ w.of = v /\ w.snaps = children[v] /\ w.drop = {} /\ w.vol = None
    BY <2>1 DEF Typed, NoView, View
  <2> HIDE DEF w
  <2>3. \A s \in w.snaps : Known(s) /\ IsSnap(s) /\ parent[s] = w.of
    BY <2>1, <2>2 DEF IInv, DataInv
  <2>12. Sees(c, "make", w)
    BY <1>3 DEF w
  <2>4. /\ Typed' /\ Frame(c) /\ DataStep(c) /\ LossStep(c) /\ OwnStep(c) /\ SeenInv(c)'
        /\ pc'[c] = "make" /\ view'[c] = w /\ req'[c] = req[c] /\ parent'[c] = parent[c]
        /\ lock' = lock
        /\ Known(v)' /\ req'[v] = req[v] /\ IsSnap(v)' = IsSnap(v)
    BY <1>1, <2>1, <2>2, <2>3, <2>12, SeesGood DEF Before, Final
  <2>5. saved' = saved /\ children' = children /\ array' = array /\ req' = req
    BY <1>3 DEF Sees
  <2>6. ReqInv(c)'
    BY <1>1, <2>4 DEF IInv, CallInv, ReqInv, Before, IsSnap, Makes
  <2>7. LockInv(c)'
    BY <1>1, <2>4 DEF IInv, CallInv, LockInv, HoldsOuter, HoldsInner, Outer, Inner
  <2>8. ViewInv(c)'
    <3>1. view'[c].of = v /\ ~Dropping(c)' /\ pc'[c] # "update_parent"
      BY <2>2, <2>4 DEF Dropping
    <3>2. Known(view[c].of)' /\ ~IsSnap(view[c].of)' /\ req'[view'[c].of].name = req'[c].src
      BY <1>3, <2>1, <2>4, <2>5, <3>1 DEF Known, IsSnap
    <3> QED  BY <3>1, <3>2 DEF ViewInv
  <2>9. Unique(c) /\ Unique(v)
    BY <1>1, <2>1 DEF IInv, CallInv, UniqueInv, Unique, UniqueUnlessCloned
  <2>10. UniqueInv(c)'
    BY <1>1, <2>2, <2>4, <2>5, <2>9 DEF UniqueInv, Dropping, Unique, SameName
  <2>11. ListInv(c)'
    BY <2>2, <2>4, <2>5 DEF ListInv
  <2> QED  BY <2>4, <2>6, <2>7, <2>8, <2>10, <2>11 DEF Good, CallInv
<1> QED  BY <1>2, <1>3 DEF ReadSource, Sees, etcd

\* The driver makes the volume.
LEMMA MakeGood ==
  ASSUME Typed, IInv, NEW c \in Call, Make(c)
  PROVE  Typed' /\ Good(c)
<1>1. /\ pc[c] = "make" /\ req[c].op \in Makes /\ req[c] # None
      /\ parent' = IF IsSnap(c) THEN [parent EXCEPT ![c] = view[c].of] ELSE parent
      /\ UNCHANGED <<req, view, saved, children>>
      /\ array' \subseteq array \union {c} /\ array \subseteq array'
  BY DEF Make, IInv, CallInv, ReqInv
<1>2. view[c].of \in Call \union {None} /\ parent[c] = None
  BY <1>1 DEF Typed, View, IInv, CallInv, ReqInv, Before
<1>3. /\ parent' \in [Call -> Call \union {None}]
      /\ \A d \in Call : d # c => parent'[d] = parent[d]
      /\ IsSnap(c) => parent'[c] = view[c].of
      /\ ~IsSnap(c) => parent'[c] = parent[c]
  BY <1>1, <1>2 DEF Typed
<1>4. IsSnap(c) => view[c].of # None
  BY <1>1, LifecycleAssumption DEF IInv, CallInv, ViewInv, Copying, IsSnap, Known
<1>5. IsSnap(c)' <=> parent'[c] # None
  BY <1>1, <1>2, <1>3, <1>4 DEF IsSnap
<1>6. \/ /\ GoTo(c, "save") /\ UNCHANGED <<lock, used>>
      \/ /\ End(c, "done") /\ UNCHANGED used
      \/ /\ End(c, "done") /\ Spend("failure", 1)
  BY DEF Make
<1>7. /\ "save" \in Point /\ "done" \in Point /\ "failure" \in Event /\ 1 \in Nat
      /\ pc'[c] \in {"save", "done"} /\ pc' \in [Call -> Point]
      /\ \A d \in Call : d # c => pc'[d] = pc[d]
      /\ lock' \in [Name -> Call \union {Free}]
      /\ \A n \in Name, d \in Call : d # c /\ lock[n] = d => lock'[n] = d
      /\ pc'[c] = "save" => lock' = lock
  <2>1. "save" \in Point /\ "done" \in Point /\ "failure" \in Event /\ 1 \in Nat
    BY DEF Point, Event
  <2>2. CASE GoTo(c, "save") /\ UNCHANGED <<lock, used>>
    BY <2>1, <2>2, GoToFacts DEF Typed
  <2>3. CASE End(c, "done")
    BY <2>1, <2>3, EndFacts
  <2> QED  BY <1>6, <2>1, <2>2, <2>3
<1>8. /\ used' \in [Event -> Nat] /\ \A e \in Event : used'[e] <= Limit[e]
      /\ used["failure"] <= used'["failure"]
  <2>1. CASE used' = used
    BY <1>7, <2>1 DEF Typed
  <2>2. CASE Spend("failure", 1)
    BY <1>7, <2>2, SpendFacts
  <2> QED  BY <1>6, <2>1, <2>2
<1>9. Typed'
  BY <1>1, <1>3, <1>7, <1>8 DEF Typed
<1>10. Frame(c)
  BY <1>1, <1>3, <1>7 DEF Frame, Written, Final
<1>11. DataStep(c) /\ LossStep(c)
  BY <1>1, <1>8 DEF DataStep, LossStep
<1>12. OwnStep(c)
  BY <1>1, <1>5, <1>7 DEF OwnStep, Before
<1>13. SeenInv(c)'
  BY <1>1, <1>10, <1>11, StillSeen
<1>14. ReqInv(c)'
  BY <1>1, <1>3, <1>5, <1>7 DEF IInv, CallInv, ReqInv, Before, IsSnap
<1>15. LockInv(c)'
  BY <1>1, <1>7 DEF IInv, CallInv, LockInv, HoldsOuter, HoldsInner, Outer, Inner, Copies, Makes
<1>16. Copying(c)' => Copying(c) /\ pc'[c] = "save"
  BY <1>1, <1>7 DEF Copying
<1>17. ~Dropping(c)'
  BY <1>7 DEF Dropping
<1>18. \A v : Known(v) => Known(v)' /\ IsSnap(v)' = IsSnap(v)
  BY <1>10, KnownKept
<1>19. ViewInv(c)'
  BY <1>1, <1>7, <1>16, <1>17, <1>18 DEF IInv, CallInv, ViewInv, Known, IsSnap
<1>20. UniqueInv(c)'
  BY <1>1, <1>7, <1>16, <1>17 DEF IInv, CallInv, UniqueInv, Unique, SameName
<1>21. ListInv(c)'
  <2> SUFFICES ASSUME Copying(c)', NEW s \in children[view[c].of]
               PROVE  s \in view[c].snaps \/ s \notin array' \/ PutBack(s, view[c].of)'
    BY <1>1, <1>7 DEF ListInv
  <2>1. s \in view[c].snaps \/ s \notin array \/ PutBack(s, view[c].of)
    BY <1>16 DEF IInv, CallInv, ListInv
  <2>2. s # c
    <3>1. view[c].of \in Call
      BY <1>16 DEF IInv, CallInv, ViewInv, Known
    <3>2. Known(s)
      BY <3>1 DEF IInv, DataInv
    <3> QED  BY <1>1, <3>2 DEF Known, Written
  <2>3. \A p : PutBack(s, p) => PutBack(s, p)'
    BY <1>10, PutBackKept
  <2> QED  BY <1>1, <2>1, <2>2, <2>3 DEF PutBack
<1> QED  BY <1>9, <1>10, <1>11, <1>12, <1>13, <1>14, <1>15, <1>19, <1>20, <1>21 DEF Good, CallInv

\* The rollback of a volume whose record was not saved, or whose parent's was not.
LEMMA UndoGood ==
  ASSUME Typed, IInv, NEW c \in Call, NEW undo \in {{"array"}, {"array", "record"}},
         pc[c] \in {"save", "save_parent"}, Undo(c, undo),
         UNCHANGED <<req, view, children, parent>>
  PROVE  Typed' /\ Good(c)
<1>1. PICK failed \in SUBSET undo :
        /\ Spend("failure", 1 + Cardinality(failed))
        /\ saved' = IF "record" \in undo \ failed THEN saved \ {c} ELSE saved
        /\ array' = IF "array" \in failed THEN array ELSE array \ {c}
        /\ End(c, "undone")
  BY DEF Undo
<1>2. IsFiniteSet(failed)
  <2>1. IsFiniteSet(undo)
    <3>1. IsFiniteSet({"array"})
      BY FS_Singleton
    <3>2. IsFiniteSet({"array"} \union {"record"})
      BY <3>1, FS_AddElement
    <3>3. {"array"} \union {"record"} = {"array", "record"}
      OBVIOUS
    <3> QED  BY <3>1, <3>2, <3>3
  <2> QED  BY <1>1, <2>1, FS_Subset
<1>3. Cardinality(failed) \in Nat
  BY <1>2, FS_CardinalityType
<1>4. "array" \in failed => Cardinality(failed) # 0
  BY <1>2, FS_EmptySet
<1>5. /\ "failure" \in Event /\ "undone" \in Point /\ "undone" \in Final
      /\ 1 + Cardinality(failed) \in Nat
  BY <1>3 DEF Event, Point, Final
<1>6. /\ used' \in [Event -> Nat] /\ \A e \in Event : used'[e] <= Limit[e]
      /\ used["failure"] <= used'["failure"] /\ 1 + Cardinality(failed) <= used'["failure"]
  BY <1>1, <1>5, SpendFacts
<1>7. "array" \in failed => used'["failure"] > 1
  <2>1. used'["failure"] \in Nat
    BY <1>5, <1>6
  <2> QED  BY <1>3, <1>4, <1>6, <2>1
<1>8. pc'[c] = "undone"
  BY <1>1, <1>5, EndFacts
<1>9. saved' \subseteq saved /\ (saved \ saved' \subseteq {c}) /\ array' \subseteq array
  BY <1>1
<1>10. c \in array' => "array" \in failed
  BY <1>1
<1>11. Typed'
  BY <1>1, <1>5, <1>6, <1>9, EndFacts DEF Typed
<1>12. Frame(c)
  BY <1>1, <1>5, EndFacts DEF Frame, Written, Final
<1>13. DataStep(c) /\ LossStep(c)
  BY <1>6, <1>8, <1>9 DEF DataStep, LossStep
<1>14. OwnStep(c)
  BY <1>7, <1>8, <1>9, <1>10 DEF OwnStep, IInv, DataInv, IsSnap, Before
<1>15. CallInv(c)'
  <2>1. req[c].op \in Makes
    BY DEF IInv, CallInv, ReqInv, Makes
  <2> QED  BY <1>5, <1>8, <1>12, <1>13, <2>1, Ended DEF Makes
<1> QED  BY <1>11, <1>12, <1>13, <1>14, <1>15 DEF Good

\* A snapshot call whose record is about to be saved has the volume it copies.
LEMMA MakerKnown ==
  ASSUME Typed, IInv, NEW c \in Call, pc[c] \in {"save", "save_parent"}
  PROVE  /\ req[c] # None /\ req[c].op \in Makes
         /\ IsSnap(c) <=> parent[c] # None
         /\ IsSnap(c) => Known(view[c].of) /\ parent[c] = view[c].of
<1>1. /\ req[c] # None /\ req[c].op \in Makes
      /\ parent[c] # None => IsSnap(c)
      /\ IsSnap(c) => parent[c] = view[c].of
  BY DEF IInv, CallInv, ReqInv, Makes
<1>2. IsSnap(c) => Known(view[c].of)
  BY DEF IInv, CallInv, ViewInv, Copying, IsSnap
<1> QED  BY <1>1, <1>2, LifecycleAssumption DEF Known

LEMMA SaveRecordGood ==
  ASSUME Typed, IInv, NEW c \in Call, SaveRecord(c)
  PROVE  Typed' /\ Good(c)
<1>1. pc[c] = "save" /\ UNCHANGED <<req, view, children, parent>>
  BY DEF SaveRecord
<1>2. CASE Undo(c, {"array"})
  BY <1>1, <1>2, UndoGood
<1>3. ASSUME saved' = saved \union {c},
             IF IsSnap(c) THEN GoTo(c, "save_parent") /\ UNCHANGED lock ELSE End(c, "made"),
             UNCHANGED <<array, used>>
      PROVE  Typed' /\ Good(c)
  <2> DEFINE p == IF IsSnap(c) THEN "save_parent" ELSE "made"
  <2>1. /\ p \in Point /\ p \in Written /\ p \in {"save_parent", "made"}
        /\ p = "save_parent" <=> IsSnap(c)
    BY DEF Point, Written
  <2>2. \/ GoTo(c, p) /\ lock' = lock
        \/ End(c, p) /\ p = "made"
    BY <1>3
  <2> HIDE DEF p
  <2>3. /\ pc' \in [Call -> Point] /\ pc'[c] = p /\ \A d \in Call : d # c => pc'[d] = pc[d]
        /\ lock' \in [Name -> Call \union {Free}]
        /\ \A n \in Name, d \in Call : d # c /\ lock[n] = d => lock'[n] = d
        /\ p = "save_parent" => lock' = lock
    <3>1. CASE GoTo(c, p) /\ lock' = lock
      BY <2>1, <3>1, GoToFacts DEF Typed
    <3>2. CASE End(c, p) /\ p = "made"
      BY <2>1, <3>2, EndFacts
    <3> QED  BY <2>2, <3>1, <3>2
  <2>4. Typed'
    BY <1>1, <1>3, <2>3 DEF Typed
  <2>5. Frame(c)
    BY <1>1, <2>3 DEF Frame, Written, Final
  <2>6. /\ req[c] # None /\ req[c].op \in Makes
        /\ IsSnap(c) <=> parent[c] # None
        /\ IsSnap(c) => Known(view[c].of) /\ parent[c] = view[c].of
    BY <1>1, MakerKnown
  <2>7. Known(c)'
    BY <1>1, <2>1, <2>3, <2>6 DEF Known, IsSnap
  <2>8. Unique(c)
    BY <1>1, <2>6 DEF IInv, CallInv, UniqueInv, Unique, Makes
  <2>9. req[c].op = "clone" \/ lock[req[c].name] = c
    BY <1>1 DEF IInv, CallInv, LockInv, HoldsOuter, Outer
  <2>10. NewRecord(c, c)
    BY <2>6, <2>7, <2>8, <2>9 DEF NewRecord
  <2>11. used' \in [Event -> Nat] /\ used["failure"] <= used'["failure"]
    BY <1>3 DEF Typed, Event
  <2>12. DataStep(c)
    BY <1>1, <1>3, <2>10, <2>11 DEF DataStep
  <2>13. LossStep(c)
    BY <1>3 DEF LossStep
  <2>14. OwnStep(c)
    BY <1>1, <1>3, <2>1, <2>3, <2>6 DEF OwnStep, IsSnap, Before
  <2>15. CASE p = "made"
    <3>1. CallInv(c)'
      BY <1>1, <2>3, <2>5, <2>6, <2>12, <2>15, Ended DEF Final
    <3> QED  BY <2>4, <2>5, <2>12, <2>13, <2>14, <3>1 DEF Good
  <2>16. CASE p = "save_parent"
    <3>1. IsSnap(c) /\ req[c].op = "snapshot" /\ pc'[c] = "save_parent" /\ lock' = lock
      BY <2>1, <2>3, <2>16 DEF IsSnap
    <3>2. ReqInv(c)'
      BY <1>1, <2>6, <3>1 DEF ReqInv, Before, IsSnap, Makes
    <3>3. SeenInv(c)'
      BY <1>1, <2>5, <2>12, StillSeen
    <3>4. Copying(c) /\ Copying(c)' /\ ~Dropping(c)'
      BY <1>1, <3>1 DEF Copying, Dropping
    <3>5. \A v : Known(v) => Known(v)' /\ IsSnap(v)' = IsSnap(v)
      BY <2>5, KnownKept
    <3>6. ViewInv(c)'
      BY <1>1, <3>1, <3>4, <3>5 DEF IInv, CallInv, ViewInv, Known, IsSnap
    <3>7. LockInv(c)'
      BY <1>1, <3>1 DEF IInv, CallInv, LockInv, HoldsOuter, HoldsInner, Outer, Inner, Copies
    <3>8. req[c].name # req[view[c].of].name
      BY <1>1, <3>1, <3>4 DEF IInv, CallInv, LockInv, HoldsInner, Outer, Inner, Copies, ViewInv
    <3>9. UniqueInv(c)'
      <4>1. Unique(view[c].of)
        BY <3>4 DEF IInv, CallInv, UniqueInv
      <4>2. Unique(view[c].of)'
        BY <1>1, <1>3, <3>8, <4>1 DEF Unique, SameName
      <4> QED  BY <3>1, <3>4, <4>2 DEF UniqueInv
    <3>10. ListInv(c)'
      <4>1. \A s, q : PutBack(s, q) => PutBack(s, q)'
        BY <2>5, PutBackKept
      <4>2. \A s \in children[view[c].of] :
              s \in view[c].snaps \/ s \notin array \/ PutBack(s, view[c].of)
        BY <3>4 DEF IInv, CallInv, ListInv
      <4> QED  BY <1>1, <1>3, <3>1, <4>1, <4>2 DEF ListInv, PutBack
    <3> QED  BY <2>4, <2>5, <2>12, <2>13, <2>14, <3>2, <3>3, <3>6, <3>7, <3>9, <3>10
             DEF Good, CallInv
  <2> QED  BY <2>1, <2>15, <2>16
<1> QED  BY <1>2, <1>3 DEF SaveRecord

LEMMA SaveParentGood ==
  ASSUME Typed, IInv, NEW c \in Call, SaveParent(c)
  PROVE  Typed' /\ Good(c)
<1>1. pc[c] = "save_parent" /\ UNCHANGED <<req, view, parent>> /\ IsSnap(c) /\ "made" \in Point
  BY DEF SaveParent, IInv, CallInv, ReqInv, IsSnap, Point
<1>2. CASE Undo(c, {"array", "record"}) /\ UNCHANGED children
  BY <1>1, <1>2, UndoGood
<1>3. ASSUME NEW v \in Call, v = view[c].of, saved' = saved \union {v},
             children' = [children EXCEPT ![v] = view[c].snaps \union {c}],
             End(c, "made"), UNCHANGED <<array, used>>
      PROVE  Typed' /\ Good(c)
  <2>1. /\ req[c] # None /\ req[c].op \in Makes /\ IsSnap(c) /\ parent[c] = v /\ v # None
        /\ Known(v) /\ Known(c)
    BY <1>1, <1>3, MakerKnown, LifecycleAssumption DEF Known, Written
  <2>2. view[c].snaps \subseteq Call
    BY DEF Typed, View
  <2>3. /\ children' \in [Call -> SUBSET Call] /\ children'[v] = view[c].snaps \union {c}
        /\ \A p \in Call : p # v => children'[p] = children[p]
    BY <1>3, <2>2 DEF Typed
  <2>4. Typed'
    BY <1>1, <1>3, <2>3, EndFacts DEF Typed
  <2>5. Frame(c)
    BY <1>1, <1>3, EndFacts DEF Frame, Written, Final
  <2>6. pc'[c] = "made"
    BY <1>1, <1>3, EndFacts
  <2>7. \A u : Known(u) => Known(u)' /\ parent'[u] = parent[u] /\ IsSnap(u)' = IsSnap(u)
    BY <2>5, KnownKept
  <2>8. Copying(c) /\ HoldsInner(c) /\ Inner(c) = req[c].src
    BY <1>1 DEF Copying, HoldsInner, Inner, IsSnap, Copies
  <2>9. lock[req[v].name] = c /\ Unique(v)
    BY <1>3, <2>8 DEF IInv, CallInv, LockInv, ViewInv, UniqueInv
  <2>10. NewRecord(c, v)
    BY <2>1, <2>7, <2>9 DEF NewRecord, Known
  <2>11. \A s \in children'[v] : Known(s)' /\ IsSnap(s)' /\ parent'[s] = v
    BY <1>3, <2>1, <2>3, <2>7 DEF IInv, CallInv, SeenInv
  <2>12. used' \in [Event -> Nat] /\ used["failure"] <= used'["failure"]
    BY <1>3 DEF Typed, Event
  <2>13. \A p \in Call :
       \/ children'[p] = children[p]
       \/ /\ \A s \in children'[p] : Known(s)' /\ IsSnap(s)' /\ parent'[s] = p
          /\ Known(p) /\ lock[req[p].name] = c
    BY <2>1, <2>3, <2>9, <2>11
  <2>14. DataStep(c)
    BY <1>3, <2>10, <2>12, <2>13 DEF DataStep
  <2>15. LossStep(c)
    BY <1>3 DEF LossStep
  <2>16. OwnStep(c)
    BY <1>1, <1>3, <2>1, <2>6 DEF OwnStep, IsSnap, Before
  <2>17. CallInv(c)'
    BY <1>1, <2>1, <2>5, <2>6, <2>14, Ended DEF Final
  <2> QED  BY <2>4, <2>5, <2>14, <2>15, <2>16, <2>17 DEF Good
<1>4. view[c].of \in Call
  BY <1>1, MakerKnown DEF Known
<1> QED  BY <1>2, <1>3, <1>4 DEF SaveParent

LEMMA RemoveGood ==
  ASSUME Typed, IInv, NEW c \in Call, Remove(c)
  PROVE  Typed' /\ Good(c)
<1>1. pc[c] = "read" /\ req[c].op = "remove" /\ "destroy" \in Point
  BY DEF Remove, Point
<1>2. CASE Refuse(c)
  BY <1>1, <1>2, RefuseGood DEF Final
<1>3. ASSUME NEW v \in Named(req[c].name), Sees(c, "destroy", [NoView EXCEPT !.vol = v])
      PROVE  Typed' /\ Good(c)
  <2> DEFINE w == [NoView EXCEPT !.vol = v]
  <2>1. v \in Call /\ v \in saved /\ req[v].name = req[c].name /\ Known(v)
    BY <1>3 DEF Named, Typed, IInv, DataInv
  <2>2. w \in View /\ w.vol = v /\ w.snaps = {} /\ w.drop = {}
    BY <2>1 DEF NoView, View
  <2>3. Sees(c, "destroy", w)
    BY <1>3
  <2> HIDE DEF w
  <2>4. /\ Typed' /\ Frame(c) /\ DataStep(c) /\ LossStep(c) /\ OwnStep(c) /\ SeenInv(c)'
        /\ pc'[c] = "destroy" /\ view'[c] = w /\ req'[c] = req[c] /\ parent'[c] = parent[c]
        /\ lock' = lock /\ Known(v)' /\ req'[v] = req[v]
    BY <1>1, <2>1, <2>2, <2>3, SeesGood DEF Before, Final
  <2>5. saved' = saved /\ req' = req
    BY <2>3 DEF Sees
  <2>6. ReqInv(c)'
    BY <1>1, <2>4 DEF IInv, CallInv, ReqInv, Before, IsSnap
  <2>7. LockInv(c)'
    BY <1>1, <2>4 DEF IInv, CallInv, LockInv, HoldsOuter, HoldsInner, Outer
  <2>8. view'[c].vol = v /\ ~Copying(c)' /\ pc'[c] # "update_parent"
    BY <2>2, <2>4 DEF Copying
  <2>9. Known(view[c].vol)' /\ req'[view'[c].vol].name = req'[c].name
    BY <2>1, <2>4, <2>8 DEF Known, IsSnap
  <2>10. ViewInv(c)'
    BY <2>4, <2>8, <2>9 DEF ViewInv
  <2>11. Unique(v)
    BY <2>1 DEF IInv, Unique, UniqueUnlessCloned
  <2>12. UniqueInv(c)'
    BY <2>4, <2>5, <2>8, <2>11 DEF UniqueInv, Unique, SameName
  <2>13. ListInv(c)'
    BY <2>8 DEF ListInv
  <2> QED  BY <2>4, <2>6, <2>7, <2>10, <2>12, <2>13 DEF Good, CallInv
<1> QED  BY <1>2, <1>3 DEF Remove, Sees, etcd

\* What a removal holds at each of its steps.
LEMMA RemoverFacts ==
  ASSUME Typed, IInv, NEW c \in Call,
         pc[c] \in {"destroy", "parent", "update_parent", "delete"}
  PROVE  /\ Dropping(c) /\ req[c] # None /\ req[c].op = "remove"
         /\ Known(view[c].vol) /\ view[c].vol \in Call /\ view[c].vol # c
         /\ req[view[c].vol].name = req[c].name /\ Unique(view[c].vol)
         /\ pc[c] # "destroy" => view[c].vol \notin array
         /\ pc[c] \in {"parent", "update_parent"} => IsSnap(view[c].vol)
         /\ c \notin array /\ parent[c] = None /\ lock[Outer(c)] = c
<1>1. req[c] # None /\ req[c].op = "remove" /\ Dropping(c)
  BY DEF IInv, CallInv, ReqInv, Dropping
<1>2. /\ Known(view[c].vol) /\ req[view[c].vol].name = req[c].name /\ Unique(view[c].vol)
      /\ pc[c] # "destroy" => view[c].vol \notin array
      /\ pc[c] \in {"parent", "update_parent"} => IsSnap(view[c].vol)
  BY <1>1 DEF IInv, CallInv, ViewInv, UniqueInv
<1>3. view[c].vol \in Call /\ view[c].vol # c
  BY <1>2 DEF Known, Written
<1>4. c \notin array
  BY <1>1 DEF IInv, DataInv, Makes
<1>5. parent[c] = None
  BY <1>1 DEF IInv, CallInv, ReqInv, IsSnap
<1>6. lock[Outer(c)] = c
  BY DEF IInv, CallInv, LockInv, HoldsOuter
<1> QED  BY <1>1, <1>2, <1>3, <1>4, <1>5, <1>6

LEMMA DestroyGood ==
  ASSUME Typed, IInv, NEW c \in Call, Destroy(c)
  PROVE  Typed' /\ Good(c)
<1>1. pc[c] = "destroy" /\ UNCHANGED <<req, view, saved, children, parent>>
  BY DEF Destroy, etcd
<1>2. CASE End(c, "done") /\ array' = array /\ (used' = used \/ Spend("failure", 1))
  BY <1>1, <1>2, GiveUpGood DEF Final
<1>3. ASSUME NEW v \in Call, v = view[c].vol, array' = array \ {v},
             GoTo(c, IF IsSnap(v) THEN "inner" ELSE "delete"), UNCHANGED <<lock, used>>
      PROVE  Typed' /\ Good(c)
  <2> DEFINE p == IF IsSnap(v) THEN "inner" ELSE "delete"
  <2>1. p \in Point /\ p \in {"inner", "delete"} /\ (p = "inner" => IsSnap(v)) /\ GoTo(c, p)
    BY <1>3 DEF Point
  <2> HIDE DEF p
  <2>2. /\ pc' \in [Call -> Point] /\ pc'[c] = p /\ \A d \in Call : d # c => pc'[d] = pc[d]
    BY <2>1, GoToFacts
  <2>3. /\ Dropping(c) /\ req[c] # None /\ req[c].op = "remove"
        /\ Known(v) /\ req[v].name = req[c].name /\ Unique(v) /\ v # c
        /\ c \notin array /\ parent[c] = None /\ lock[Outer(c)] = c
    BY <1>1, <1>3, RemoverFacts
  <2>4. Typed'
    BY <1>1, <1>3, <2>2 DEF Typed
  <2>5. Frame(c)
    BY <1>1, <1>3, <2>2 DEF Frame, Written, Final
  <2>6. DataStep(c)
    BY <1>1, <1>3 DEF DataStep, Typed, Event
  <2>7. LossStep(c)
    BY <1>1 DEF LossStep
  <2>8. OwnStep(c)
    BY <1>3, <2>1, <2>2, <2>3 DEF OwnStep
  <2>9. SeenInv(c)'
    BY <1>1, <2>5, <2>6, StillSeen
  <2>10. ReqInv(c)'
    BY <1>1, <2>1, <2>2, <2>3 DEF ReqInv
  <2>11. LockInv(c)'
    BY <1>1, <1>3, <2>1, <2>2, <2>3 DEF LockInv, HoldsInner, Outer
  <2>12. ~Copying(c)' /\ pc'[c] # "update_parent" /\ view'[c].vol = v /\ v \notin array'
    BY <1>1, <1>3, <2>1, <2>2 DEF Copying
  <2>13. Known(v)' /\ IsSnap(v)' = IsSnap(v) /\ req'[v] = req[v]
    BY <2>3, <2>5, KnownKept
  <2>14. ViewInv(c)'
    BY <1>1, <1>3, <2>1, <2>2, <2>3, <2>12, <2>13 DEF ViewInv, Dropping, Known, IsSnap
  <2>15. UniqueInv(c)'
    BY <1>1, <1>3, <2>1, <2>2, <2>3, <2>12 DEF UniqueInv, Unique, SameName
  <2>16. ListInv(c)'
    BY <2>12 DEF ListInv
  <2> QED  BY <2>4, <2>5, <2>6, <2>7, <2>8, <2>9, <2>10, <2>11, <2>14, <2>15, <2>16
           DEF Good, CallInv
<1>4. view[c].vol \in Call
  BY <1>1, RemoverFacts
<1> QED  BY <1>2, <1>3, <1>4 DEF Destroy

\* remove_snapshot comes back, and remove_volume goes on.
LEMMA BackGood ==
  ASSUME Typed, IInv, NEW c \in Call, pc[c] \in {"parent", "update_parent"},
         BackFromParent(c), UNCHANGED <<req, view, saved, parent, array>>,
         children' \in [Call -> SUBSET Call],
         used' = used \/ Spend("failure", 1),
         \A p \in Call :
           \/ children'[p] = children[p]
           \/ /\ \A s \in children'[p] : Known(s) /\ IsSnap(s) /\ parent[s] = p
              /\ Known(p) /\ lock[req[p].name] = c
  PROVE  Typed' /\ Good(c)
<1>1. /\ GoTo(c, "delete") /\ lock' = [lock EXCEPT ![Inner(c)] = Free] /\ "delete" \in Point
      /\ "failure" \in Event /\ 1 \in Nat
  BY DEF BackFromParent, Point, Event
<1>2. pc' \in [Call -> Point] /\ pc'[c] = "delete" /\ \A d \in Call : d # c => pc'[d] = pc[d]
  BY <1>1, GoToFacts
<1>3. /\ Dropping(c) /\ req[c] # None /\ req[c].op = "remove"
      /\ Known(view[c].vol) /\ req[view[c].vol].name = req[c].name /\ Unique(view[c].vol)
      /\ view[c].vol \notin array
      /\ c \notin array /\ parent[c] = None /\ lock[Outer(c)] = c
  BY RemoverFacts
<1>4. lock[Inner(c)] = c /\ Inner(c) # Outer(c) /\ Inner(c) \in Name /\ Outer(c) \in Name
  BY <1>3, InnerFacts, OuterFacts DEF IInv, CallInv, LockInv, HoldsInner, ReqInv
<1>5. /\ lock' \in [Name -> Call \union {Free}] /\ lock'[Outer(c)] = c
      /\ \A n \in Name, d \in Call : d # c /\ lock[n] = d => lock'[n] = d
  BY <1>1, <1>3, <1>4 DEF Typed
<1>6. /\ used' \in [Event -> Nat] /\ \A e \in Event : used'[e] <= Limit[e]
      /\ used["failure"] <= used'["failure"]
  <2>1. CASE used' = used
    BY <1>1, <2>1 DEF Typed
  <2>2. CASE Spend("failure", 1)
    BY <1>1, <2>2, SpendFacts
  <2> QED  BY <2>1, <2>2
<1>7. Typed'
  BY <1>2, <1>5, <1>6 DEF Typed
<1>8. Frame(c)
  BY <1>2, <1>5 DEF Frame, Written, Final
<1>9. \A v : Known(v) => /\ Known(v)' /\ req'[v] = req[v] /\ parent'[v] = parent[v]
                         /\ IsSnap(v)' = IsSnap(v)
  BY <1>8, KnownKept
<1>10. DataStep(c)
  BY <1>6, <1>9 DEF DataStep
<1>11. LossStep(c)
  BY DEF LossStep
<1>12. OwnStep(c)
  BY <1>2, <1>3 DEF OwnStep
<1>13. SeenInv(c)'
  BY <1>8, <1>10, StillSeen
<1>14. ReqInv(c)'
  BY <1>2, <1>3 DEF ReqInv
<1>15. LockInv(c)'
  BY <1>2, <1>3, <1>5 DEF LockInv, HoldsInner, Outer
<1>16. ~Copying(c)'
  BY <1>2 DEF Copying
<1>17. ViewInv(c)'
  BY <1>2, <1>3, <1>9, <1>16 DEF ViewInv, Known, IsSnap
<1>18. UniqueInv(c)'
  BY <1>2, <1>3, <1>16 DEF UniqueInv, Unique, SameName
<1>19. ListInv(c)'
  BY <1>2, <1>16 DEF ListInv
<1> QED  BY <1>7, <1>8, <1>10, <1>11, <1>12, <1>13, <1>14, <1>15, <1>17, <1>18, <1>19
         DEF Good, CallInv

LEMMA ReadParentGood ==
  ASSUME Typed, IInv, NEW c \in Call, ReadParent(c)
  PROVE  Typed' /\ Good(c)
<1> DEFINE v == view[c].vol
<1>1. pc[c] = "parent" /\ UNCHANGED <<req, saved, children, parent, array, used>>
      /\ "update_parent" \in Point
  BY DEF ReadParent, etcd, Point
<1>2. CASE BackFromParent(c) /\ view' = view
  <2>1. children' \in [Call -> SUBSET Call]
    BY <1>1 DEF Typed
  <2> QED  BY <1>1, <1>2, <2>1, BackGood
<1>3. ASSUME NEW p \in Named(req[v].src), NEW s \in children[p], req[s].name = req[v].name,
             Sees(c, "update_parent", [view[c] EXCEPT !.of = p, !.snaps = children[p] \ {s}])
      PROVE  Typed' /\ Good(c)
  <2> DEFINE w == [view[c] EXCEPT !.of = p, !.snaps = children[p] \ {s}]
  <2>1. p \in Call /\ p \in saved /\ req[p].name = req[v].src /\ Known(p)
    BY <1>3 DEF Named, Typed, IInv, DataInv
  <2>2. /\ w \in View /\ w.of = p /\ w.snaps = children[p] \ {s} /\ w.drop = view[c].drop
        /\ w.vol = v
    <3>1. view[c] \in View
      BY DEF Typed
    <3>2. children[p] \ {s} \subseteq Call
      BY <2>1 DEF Typed
    <3> QED  BY <2>1, <3>1, <3>2 DEF View
  <2>3. Sees(c, "update_parent", w)
    BY <1>3
  <2>4. /\ Dropping(c) /\ req[c].op = "remove" /\ Known(v) /\ IsSnap(v) /\ v \notin array
        /\ req[v].name = req[c].name /\ Unique(v)
        /\ parent[c] = None /\ req[c] # None /\ lock[Outer(c)] = c
    BY <1>1, RemoverFacts
  <2>5. Inner(c) = req[v].src /\ lock[Inner(c)] = c /\ Inner(c) # Outer(c)
    BY <1>1, <2>4 DEF Inner, IInv, CallInv, LockInv, HoldsInner
  <2> HIDE DEF w, v
  <2>6. \A t \in w.snaps : Known(t) /\ IsSnap(t) /\ parent[t] = w.of
    BY <2>1, <2>2 DEF IInv, DataInv
  <2>7. \A t \in w.drop : Known(t) /\ IsSnap(t) /\ t \notin array
    BY <2>2 DEF IInv, CallInv, SeenInv
  <2>8. /\ Typed' /\ Frame(c) /\ DataStep(c) /\ LossStep(c) /\ OwnStep(c) /\ SeenInv(c)'
        /\ pc'[c] = "update_parent" /\ view'[c] = w
        /\ \A u : Known(u) => Known(u)'
    BY <1>1, <2>2, <2>3, <2>4, <2>6, <2>7, SeesGood DEF Before, Final
  <2>9. UNCHANGED <<req, lock, saved, children, parent, array>>
    BY <2>3 DEF Sees
  <2>10. ReqInv(c)'
    BY <2>4, <2>8, <2>9 DEF ReqInv
  <2>11. Inner(c)' = Inner(c) /\ Outer(c)' = Outer(c) /\ ~Copying(c)'
    BY <2>2, <2>4, <2>5, <2>8, <2>9 DEF Inner, Outer, Copying
  <2>12. LockInv(c)'
    BY <2>4, <2>5, <2>9, <2>11 DEF LockInv
  <2>13. view'[c].of = p /\ view'[c].vol = v
    BY <2>2, <2>8
  <2>14. Known(view[c].of)' /\ Known(view[c].vol)'
    BY <2>1, <2>4, <2>8, <2>13 DEF Known, IsSnap
  <2>15. ViewInv(c)'
    <3>1. IsSnap(view[c].vol)' /\ view'[c].vol \notin array'
      BY <2>4, <2>9, <2>13 DEF IsSnap
    <3>2. req'[view'[c].vol].name = req'[c].name /\ req'[view'[c].of].name = Inner(c)'
      BY <2>1, <2>4, <2>5, <2>9, <2>11, <2>13
    <3> QED  BY <2>11, <2>14, <3>1, <3>2 DEF ViewInv
  <2>16. UniqueInv(c)'
    BY <2>4, <2>8, <2>9, <2>11, <2>13 DEF UniqueInv, Unique, SameName
  <2>17. ListInv(c)'
    BY <1>3, <2>2, <2>8, <2>9, <2>11, <2>13 DEF ListInv
  <2> QED  BY <2>8, <2>10, <2>12, <2>15, <2>16, <2>17 DEF Good, CallInv
<1> QED  BY <1>2, <1>3 DEF ReadParent, Sees, etcd

\* What an update of the parent's list takes off is not live, or was put back meanwhile.
LEMMA UpdateParentGood ==
  ASSUME Typed, IInv, NEW c \in Call, UpdateParent(c)
  PROVE  Typed' /\ Good(c)
<1>1. /\ pc[c] = "update_parent" /\ BackFromParent(c)
      /\ UNCHANGED <<req, view, saved, parent, array>>
  BY DEF UpdateParent
<1>2. CASE children' = children /\ (used' = used \/ Spend("failure", 1))
  <2>1. children' \in [Call -> SUBSET Call]
    BY <1>2 DEF Typed
  <2> QED  BY <1>1, <1>2, <2>1, BackGood
<1>3. ASSUME NEW p \in Call, p = view[c].of,
             children' = [children EXCEPT ![p] = view[c].snaps], used' = used
      PROVE  Typed' /\ Good(c)
  <2>1. view[c].snaps \subseteq Call
    BY DEF Typed, View
  <2>2. /\ children' \in [Call -> SUBSET Call] /\ children'[p] = view[c].snaps
        /\ \A q \in Call : q # p => children'[q] = children[q]
    BY <1>3, <2>1 DEF Typed
  <2>3. Known(p) /\ lock[req[p].name] = c
    BY <1>1, <1>3 DEF IInv, CallInv, ViewInv, LockInv, HoldsInner
  <2>4. \A s \in children'[p] : Known(s) /\ IsSnap(s) /\ parent[s] = p
    BY <1>3, <2>2 DEF IInv, CallInv, SeenInv
  <2>5. \A q \in Call :
          \/ children'[q] = children[q]
          \/ /\ \A s \in children'[q] : Known(s) /\ IsSnap(s) /\ parent[s] = q
             /\ Known(q) /\ lock[req[q].name] = c
    BY <2>2, <2>3, <2>4
  <2> QED  BY <1>1, <1>3, <2>2, <2>5, BackGood
<1>4. view[c].of \in Call
  BY <1>1 DEF IInv, CallInv, ViewInv, Known
<1> QED  BY <1>1, <1>2, <1>3, <1>4 DEF UpdateParent

LEMMA DeleteRecordGood ==
  ASSUME Typed, IInv, NEW c \in Call, DeleteRecord(c)
  PROVE  Typed' /\ Good(c)
<1>1. pc[c] = "delete" /\ End(c, "done") /\ UNCHANGED <<req, view, children, parent, array>>
      /\ "done" \in Point /\ "done" \in Final
  BY DEF DeleteRecord, Point, Final
<1>2. CASE saved' = saved /\ Spend("failure", 1)
  BY <1>1, <1>2, GiveUpGood DEF Final
<1>3. CASE saved' = saved \ {view[c].vol} /\ used' = used
  <2>1. pc'[c] = "done"
    BY <1>1, EndFacts
  <2>2. Typed'
    BY <1>1, <1>3, EndFacts DEF Typed
  <2>3. Frame(c)
    BY <1>1, EndFacts DEF Frame, Written, Final
  <2>4. DataStep(c)
    BY <1>1, <1>3 DEF DataStep, Typed, Event
  <2>5. view[c].vol \notin array /\ c \notin array
    BY <1>1, RemoverFacts
  <2>6. LossStep(c)
    BY <1>1, <1>3, <2>5 DEF LossStep
  <2>7. OwnStep(c)
    BY <1>1, <2>1, <2>5 DEF OwnStep
  <2>8. CallInv(c)'
    BY <1>1, <2>1, <2>3, <2>4, Ended
  <2> QED  BY <2>2, <2>3, <2>4, <2>6, <2>7, <2>8 DEF Good
<1> QED  BY <1>2, <1>3 DEF DeleteRecord

\* An inspection holds no lock, and none of what makers and removers know is about it.
LEMMA InspectorFacts ==
  ASSUME Typed, IInv, NEW c \in Call, req[c] # None, req[c].op = "inspect"
  PROVE  /\ c \notin array /\ parent[c] = None
         /\ pc[c] \notin {"inner", "source", "make", "save", "save_parent", "destroy",
                          "parent", "update_parent", "delete", "outer", "made", "undone"}
BY DEF IInv, DataInv, CallInv, ReqInv, Makes, IsSnap

LEMMA InspectorKeeps ==
  ASSUME Typed, IInv, NEW c \in Call, req[c] # None, req[c].op = "inspect",
         req'[c] = req[c], parent'[c] = parent[c], SeenInv(c)',
         pc'[c] \in {"compare", "drop", "update_list", "done"}
  PROVE  CallInv(c)'
<1>1. parent'[c] = None
  BY InspectorFacts
<1>2. ReqInv(c)'
  BY <1>1 DEF ReqInv, Before
<1>3. ~Copying(c)' /\ ~Dropping(c)' /\ ~HoldsOuter(c)' /\ ~HoldsInner(c)'
  BY DEF Copying, Dropping, HoldsOuter, HoldsInner
<1> QED  BY <1>2, <1>3 DEF CallInv, ViewInv, LockInv, UniqueInv, ListInv

LEMMA InspectGood ==
  ASSUME Typed, IInv, NEW c \in Call, Inspect(c)
  PROVE  Typed' /\ Good(c)
<1>1. pc[c] = "read" /\ req[c].op = "inspect" /\ req[c] # None /\ "compare" \in Point
  BY DEF Inspect, Point, IInv, CallInv, ReqInv
<1>2. CASE Refuse(c)
  BY <1>1, <1>2, RefuseGood DEF Final
<1>3. ASSUME NEW p \in Call, Sees(c, "compare", [NoView EXCEPT !.of = p, !.snaps = children[p]])
      PROVE  Typed' /\ Good(c)
  <2> DEFINE w == [NoView EXCEPT !.of = p, !.snaps = children[p]]
  <2>1. w \in View /\ w.of = p /\ w.snaps = children[p] /\ w.drop = {} /\ w.vol = None
    BY DEF Typed, NoView, View
  <2>2. Sees(c, "compare", w)
    BY <1>3
  <2> HIDE DEF w
  <2>3. \A s \in w.snaps : Known(s) /\ IsSnap(s) /\ parent[s] = w.of
    BY <2>1 DEF IInv, DataInv
  <2>4. /\ Typed' /\ Frame(c) /\ DataStep(c) /\ LossStep(c) /\ OwnStep(c) /\ SeenInv(c)'
        /\ pc'[c] = "compare" /\ req'[c] = req[c] /\ parent'[c] = parent[c]
    BY <1>1, <2>1, <2>2, <2>3, SeesGood DEF Before, Final
  <2>5. CallInv(c)'
    BY <1>1, <2>4, InspectorKeeps
  <2> QED  BY <2>4, <2>5 DEF Good
<1>4. \A v \in Named(req[c].name) :
      \A p \in IF IsSnap(v) THEN Named(req[v].src) ELSE {v} : p \in Call
  BY DEF Named, Typed
<1> QED  BY <1>2, <1>3, <1>4 DEF Inspect, Sees, etcd

LEMMA CompareGood ==
  ASSUME Typed, IInv, NEW c \in Call, Compare(c)
  PROVE  Typed' /\ Good(c)
<1> DEFINE gone == {s \in view[c].snaps : ~(s \in array /\ parent[s] = view[c].of)}
           w == [view[c] EXCEPT !.drop = gone]
           p == IF gone = {} THEN "done" ELSE "drop"
<1>1. pc[c] = "compare" /\ req[c].op = "inspect" /\ req[c] # None /\ Sees(c, p, w)
  BY DEF Compare, Sees, etcd, IInv, CallInv, ReqInv
<1>2. view[c] \in View
  BY DEF Typed
<1>3. gone \subseteq Call
  BY <1>2 DEF View
<1>4. w \in View /\ w.of = view[c].of /\ w.snaps = view[c].snaps /\ w.drop = gone /\ w.vol = view[c].vol
  BY <1>2, <1>3 DEF View
<1>5. p \in {"done", "drop"} /\ p \in Point
  BY DEF Point
<1>6. \A s \in view[c].snaps : Known(s) /\ IsSnap(s) /\ parent[s] = view[c].of
  BY DEF IInv, CallInv, SeenInv
<1>7. \A s \in gone : Known(s) /\ IsSnap(s) /\ s \notin array
  BY <1>6
<1>8. view[c].vol # None => Known(view[c].vol)
  BY DEF IInv, CallInv, SeenInv
<1> HIDE DEF w, p, gone
<1>9. /\ Typed' /\ Frame(c) /\ DataStep(c) /\ LossStep(c) /\ OwnStep(c) /\ SeenInv(c)'
      /\ pc'[c] = p /\ req'[c] = req[c] /\ parent'[c] = parent[c]
  BY <1>1, <1>4, <1>5, <1>6, <1>7, <1>8, SeesGood DEF Before, Final
<1>10. CallInv(c)'
  BY <1>1, <1>5, <1>9, InspectorKeeps
<1> QED  BY <1>9, <1>10 DEF Good

\* An inspection deletes the record of what it has seen to be gone, or of its namesake.
LEMMA DropRecordGood ==
  ASSUME Typed, IInv, NEW c \in Call, DropRecord(c)
  PROVE  Typed' /\ Good(c)
<1>1. /\ pc[c] = "drop" /\ req[c].op = "inspect" /\ req[c] # None
      /\ UNCHANGED <<req, lock, children, parent, array>>
  BY DEF DropRecord, IInv, CallInv, ReqInv
<1>2. CASE /\ GoTo(c, "done") /\ view' = view /\ saved' = saved
           /\ (used' = used \/ Spend("failure", 1))
  BY <1>1, <1>2, GiveUpGood DEF Final
<1>3. ASSUME NEW s \in view[c].drop, NEW v \in Named(req[s].name), saved' = saved \ {v},
             See(c, [view[c] EXCEPT !.snaps = view[c].snaps \ {s}, !.drop = view[c].drop \ {s}]),
             GoTo(c, IF view[c].drop \ {s} = {} THEN "update_list" ELSE "drop"), used' = used
      PROVE  Typed' /\ Good(c)
  <2> DEFINE w == [view[c] EXCEPT !.snaps = view[c].snaps \ {s}, !.drop = view[c].drop \ {s}]
             p == IF view[c].drop \ {s} = {} THEN "update_list" ELSE "drop"
  <2>1. view[c] \in View
    BY DEF Typed
  <2>2. /\ w \in View /\ w.of = view[c].of /\ w.vol = view[c].vol
        /\ w.snaps \subseteq view[c].snaps /\ w.drop \subseteq view[c].drop
    BY <2>1 DEF View
  <2>3. p \in {"update_list", "drop"} /\ p \in Point
    BY DEF Point
  <2>4. See(c, w) /\ GoTo(c, p)
    BY <1>3
  <2> HIDE DEF w, p
  <2>5. /\ pc' \in [Call -> Point] /\ pc'[c] = p /\ \A d \in Call : d # c => pc'[d] = pc[d]
    BY <2>3, <2>4, GoToFacts
  <2>6. /\ view' \in [Call -> View] /\ view'[c] = w /\ \A d \in Call : d # c => view'[d] = view[d]
    BY <2>2, <2>4, SeeFacts
  <2>7. Typed'
    BY <1>1, <1>3, <2>5, <2>6 DEF Typed
  <2>8. Frame(c)
    BY <1>1, <2>5, <2>6 DEF Frame, Written, Final
  <2>9. DataStep(c)
    BY <1>1, <1>3 DEF DataStep, Typed, Event
  <2>10. c \notin array /\ parent[c] = None
    BY <1>1, InspectorFacts
  <2>11. OwnStep(c)
    BY <1>1, <2>3, <2>5, <2>10 DEF OwnStep
  <2>12. Known(s) /\ IsSnap(s) /\ s \notin array
    BY DEF IInv, CallInv, SeenInv
  <2>13. v \notin array \/ MistakenForSnapshot(v)
    <3>1. CASE v = s
      BY <2>12, <3>1
    <3>2. CASE v # s
      <4>1. SameName(s, v) /\ s \in Call /\ req[s] # None /\ req[s].op = "snapshot"
        BY <2>12, <3>2 DEF Named, SameName, Known, IsSnap
      <4> QED  BY <1>1, <4>1 DEF MistakenForSnapshot
    <3> QED  BY <3>1, <3>2
  <2>14. LossStep(c)
    BY <1>1, <1>3, <2>13 DEF LossStep
  <2>15. \A u : Known(u) => Known(u)' /\ parent'[u] = parent[u] /\ IsSnap(u)' = IsSnap(u)
    BY <2>8, KnownKept
  <2>16. SeenInv(c)'
    <3>1. SeenInv(c)
      BY DEF IInv, CallInv
    <3>2. \A t \in w.snaps : Known(t) /\ IsSnap(t) /\ parent[t] = w.of
      BY <2>2, <3>1 DEF SeenInv
    <3>3. \A t \in w.drop : Known(t) /\ IsSnap(t) /\ t \notin array
      BY <2>2, <3>1 DEF SeenInv
    <3>4. w.vol # None => Known(w.vol)
      BY <2>2, <3>1 DEF SeenInv
    <3> QED  BY <1>1, <2>6, <2>15, <3>2, <3>3, <3>4 DEF SeenInv
  <2>17. CallInv(c)'
    BY <1>1, <2>3, <2>5, <2>16, InspectorKeeps
  <2> QED  BY <2>7, <2>8, <2>9, <2>11, <2>14, <2>17 DEF Good
<1> QED  BY <1>1, <1>2, <1>3 DEF DropRecord

LEMMA UpdateListGood ==
  ASSUME Typed, IInv, NEW c \in Call, UpdateList(c)
  PROVE  Typed' /\ Good(c)
<1>1. /\ pc[c] = "update_list" /\ req[c].op = "inspect" /\ req[c] # None
      /\ GoTo(c, "done") /\ "done" \in Point /\ "done" \in Final
      /\ UNCHANGED <<req, view, lock, saved, parent, array>>
  BY DEF UpdateList, IInv, CallInv, ReqInv, Point, Final
<1>2. CASE children' = children /\ (used' = used \/ Spend("failure", 1))
  BY <1>1, <1>2, GiveUpGood DEF Final
<1>3. ASSUME NEW p \in Call, p = view[c].of,
             children' = [children EXCEPT ![p] = view[c].snaps], used' = used
      PROVE  Typed' /\ Good(c)
  <2>1. view[c].snaps \subseteq Call
    BY DEF Typed, View
  <2>2. /\ children' \in [Call -> SUBSET Call] /\ children'[p] = view[c].snaps
        /\ \A q \in Call : q # p => children'[q] = children[q]
    BY <1>3, <2>1 DEF Typed
  <2>3. pc' \in [Call -> Point] /\ pc'[c] = "done" /\ \A d \in Call : d # c => pc'[d] = pc[d]
    BY <1>1, GoToFacts
  <2>4. Typed'
    BY <1>1, <1>3, <2>2, <2>3 DEF Typed
  <2>5. Frame(c)
    BY <1>1, <2>3 DEF Frame, Written, Final
  <2>6. \A u : Known(u) => Known(u)' /\ parent'[u] = parent[u] /\ IsSnap(u)' = IsSnap(u)
    BY <2>5, KnownKept
  <2>7. \A s \in children'[p] : Known(s)' /\ IsSnap(s)' /\ parent'[s] = p
    BY <1>3, <2>2, <2>6 DEF IInv, CallInv, SeenInv
  <2>8. \A s \in children'[p] : PutBack(s, p)'
    BY <1>1, <1>3, <2>2, <2>3 DEF PutBack
  <2>9. used' \in [Event -> Nat] /\ used["failure"] <= used'["failure"]
    BY <1>3 DEF Typed, Event
  <2>10. \A q \in Call :
           \/ children'[q] = children[q]
           \/ /\ \A s \in children'[q] : Known(s)' /\ IsSnap(s)' /\ parent'[s] = q
              /\ \A s \in children'[q] : PutBack(s, q)'
    BY <2>2, <2>7, <2>8
  <2>11. DataStep(c)
    BY <1>1, <2>9, <2>10 DEF DataStep
  <2>12. LossStep(c)
    BY <1>1 DEF LossStep
  <2>13. OwnStep(c)
    BY <1>1, <2>3, InspectorFacts DEF OwnStep
  <2>14. SeenInv(c)'
    BY <1>1, <2>5, <2>11, StillSeen
  <2>15. CallInv(c)'
    BY <1>1, <2>3, <2>14, InspectorKeeps
  <2> QED  BY <2>4, <2>5, <2>11, <2>12, <2>13, <2>15 DEF Good
<1>4. view[c].of \in saved => view[c].of \in Call
  BY DEF Typed
<1> QED  BY <1>1, <1>2, <1>3, <1>4 DEF UpdateList

\* The lease of the lock of a dead call is over.
LEMMA OrphanInv ==
  ASSUME Typed, IInv, NEW n \in Name, OrphanExpires(n)
  PROVE  Typed' /\ IInv'
<1>1. /\ lock[n] \in Call /\ pc[lock[n]] = "dead" /\ lock' = [lock EXCEPT ![n] = Free]
      /\ UNCHANGED <<req, pc, view, saved, children, parent, array, used>>
  BY DEF OrphanExpires, etcd, Typed
<1>2. Typed'
  BY <1>1 DEF Typed
<1>3. ASSUME NEW c \in Call PROVE LockInv(c)'
  <2>1. HoldsOuter(c)' = HoldsOuter(c) /\ HoldsInner(c)' = HoldsInner(c)
        /\ Outer(c)' = Outer(c) /\ Inner(c)' = Inner(c)
    BY <1>1 DEF HoldsOuter, HoldsInner, Outer, Inner
  <2>2. \A m \in Name : lock[m] = c /\ pc[c] # "dead" => lock'[m] = c
    BY <1>1 DEF Typed
  <2>3. HoldsOuter(c) => pc[c] # "dead" /\ Outer(c) \in Name
    <3>1. HoldsOuter(c) => pc[c] \notin {"dead", "idle"} /\ req[c].op # "inspect"
      BY DEF HoldsOuter, IInv, CallInv, ReqInv, Makes
    <3> QED  BY <3>1, OuterFacts
  <2>4. HoldsInner(c) => pc[c] # "dead" /\ Inner(c) \in Name
    <3>1. CASE pc[c] \in {"make", "save", "save_parent"} /\ req[c].op \in Copies
      BY <3>1, RequestFacts DEF Inner, Copies
    <3>2. CASE pc[c] \in {"source", "parent", "update_parent"}
      BY <3>2, InnerFacts
    <3> QED  BY <3>1, <3>2 DEF HoldsInner
  <2> QED  BY <2>1, <2>2, <2>3, <2>4 DEF LockInv, IInv, CallInv
<1>4. DataInv' /\ UniqueUnlessCloned' /\ LossInv'
  BY <1>1 DEF IInv, DataInv, Known, IsSnap, UniqueUnlessCloned, SameName, LossInv,
              MistakenForSnapshot
<1>5. ASSUME NEW c \in Call
      PROVE  ReqInv(c)' /\ SeenInv(c)' /\ ViewInv(c)' /\ UniqueInv(c)' /\ ListInv(c)'
  BY <1>1 DEF IInv, CallInv, ReqInv, SeenInv, ViewInv, UniqueInv, ListInv, Copying, Dropping,
              Known, IsSnap, Unique, SameName, PutBack, Inner
<1> QED  BY <1>2, <1>3, <1>4, <1>5 DEF IInv, CallInv

-----------------------------------------------------------------------------
(* The invariant is inductive *)

LEMMA InitInv == Init => Typed /\ IInv
<1> SUFFICES ASSUME Init PROVE Typed /\ IInv
  OBVIOUS
<1> USE DEF Init
<1>1. \A v \in Past :
        /\ v \in Call /\ req[v] = PastRequest[v] /\ req[v] \in Request /\ req[v] # None
        /\ req[v].op \in Makes /\ pc[v] = "made" /\ parent[v] = PastParent[v]
        /\ IsSnap(v) <=> parent[v] # None
  BY LifecycleAssumption DEF IsSnap
<1>2. \A v \in Call \ Past : req[v] = None /\ pc[v] = "idle" /\ parent[v] = None
  OBVIOUS
<1>3. Typed
  <2>1. req \in [Call -> Request \union {None}] /\ parent \in [Call -> Call \union {None}]
    BY LifecycleAssumption
  <2>2. pc \in [Call -> Point]
    BY DEF Point
  <2>3. view \in [Call -> View]
    BY NoViewFacts
  <2>4. saved \subseteq Call /\ array \subseteq Call /\ children \in [Call -> SUBSET Call]
    BY LifecycleAssumption
  <2>5. used \in [Event -> Nat] /\ \A e \in Event : used[e] <= Limit[e]
    BY LifecycleAssumption
  <2> QED  BY <2>1, <2>2, <2>3, <2>4, <2>5 DEF Typed
<1>4. \A v \in Past : Known(v)
  BY <1>1 DEF Known, Written
<1>5. DataInv
  <2>1. \A p \in Call : \A s \in children[p] : s \in Past /\ parent[s] = p /\ p # None
    BY <1>1, LifecycleAssumption
  <2> QED  BY <1>1, <1>4, <2>1 DEF DataInv, Before
<1>6. UniqueUnlessCloned
  BY <1>1, LifecycleAssumption DEF UniqueUnlessCloned, SameName
<1>7. LossInv
  BY <1>1 DEF LossInv
<1>8. ASSUME NEW c \in Call PROVE CallInv(c)
  <2>1. pc[c] \in {"idle", "made"} /\ view[c] = NoView
    OBVIOUS
  <2>2. ReqInv(c)
    BY <1>1, <1>2, <2>1 DEF ReqInv, Before
  <2>3. SeenInv(c)
    BY <2>1, NoViewFacts DEF SeenInv
  <2>4. ~Copying(c) /\ ~Dropping(c) /\ ~HoldsOuter(c) /\ ~HoldsInner(c)
    BY <2>1 DEF Copying, Dropping, HoldsOuter, HoldsInner
  <2> QED  BY <2>1, <2>2, <2>3, <2>4 DEF CallInv, ViewInv, LockInv, UniqueInv, ListInv
<1> QED  BY <1>3, <1>5, <1>6, <1>7, <1>8 DEF IInv

LEMMA NextInv == Typed /\ IInv /\ [Next]_vars => Typed' /\ IInv'
<1> SUFFICES ASSUME Typed, IInv, [Next]_vars PROVE Typed' /\ IInv'
  OBVIOUS
<1>1. CASE UNCHANGED vars
  BY <1>1
  DEF vars, Typed, IInv, DataInv, CallInv, ReqInv, SeenInv, ViewInv, LockInv, UniqueInv, ListInv,
      LossInv, UniqueUnlessCloned, MistakenForSnapshot, PutBack, SameName, Unique, Known, IsSnap,
      Copying, Dropping, HoldsOuter, HoldsInner, Outer, Inner
<1>2. ASSUME NEW c \in Call, NEW r \in Request, Receive(c, r) PROVE Typed' /\ IInv'
  BY <1>2, ReceiveGood, GoodStep
<1>3. ASSUME NEW c \in Call, LockOuter(c) \/ LockInner(c) \/ LockTimeout(c)
      PROVE  Typed' /\ IInv'
  BY <1>3, LockOuterGood, LockInnerGood, LockTimeoutGood, GoodStep
<1>4. ASSUME NEW c \in Call, Making(c) PROVE Typed' /\ IInv'
  BY <1>4, CreateGood, CloneGood, SnapshotGood, ReadSourceGood, MakeGood, SaveRecordGood,
     SaveParentGood, GoodStep DEF Making
<1>5. ASSUME NEW c \in Call, Removing(c) PROVE Typed' /\ IInv'
  BY <1>5, RemoveGood, DestroyGood, ReadParentGood, UpdateParentGood, DeleteRecordGood, GoodStep
  DEF Removing
<1>6. ASSUME NEW c \in Call, Inspecting(c) PROVE Typed' /\ IInv'
  BY <1>6, InspectGood, CompareGood, DropRecordGood, UpdateListGood, GoodStep DEF Inspecting
<1>7. ASSUME NEW c \in Call, Expire(c) \/ Crash(c) PROVE Typed' /\ IInv'
  BY <1>7, ExpireGood, CrashGood, GoodStep
<1>8. ASSUME NEW n \in Name, OrphanExpires(n) PROVE Typed' /\ IInv'
  BY <1>8, OrphanInv
<1> QED  BY <1>1, <1>2, <1>3, <1>4, <1>5, <1>6, <1>7, <1>8 DEF Next

\* The inductive invariant holds, and with it what the record of every volume says.
THEOREM LifecycleInvariant == Spec => [](Typed /\ IInv)
<1>1. Init => Typed /\ IInv
  BY InitInv
<1>2. Typed /\ IInv /\ [Next]_vars => (Typed /\ IInv)'
  BY NextInv
<1> QED  BY <1>1, <1>2, PTL DEF Spec

\* Every variable has its type, the calls make no more events than there may be, and what
\* is on the array or in etcd was asked for by a call, with a parent if it is a snapshot.
THEOREM TypeCorrect == Spec => []TypeOK
<1>1. Typed /\ IInv => TypeOK
  BY DEF Typed, IInv, DataInv, Known, TypeOK
<1> QED  BY <1>1, LifecycleInvariant, PTL

\* However many calls there are, on whichever nodes: of two records of a name one is a
\* clone's, because create_volume and create_snapshot look for the name under its lock.
THEOREM NamesAreUnique == Spec => []UniqueUnlessCloned
<1>1. Typed /\ IInv => UniqueUnlessCloned
  BY DEF IInv
<1> QED  BY <1>1, LifecycleInvariant, PTL

\* Whatever fails or dies, a volume that a call has answered to have made, or has rolled back
\* after one failure, is not on the array without a record, unless an inspection has
\* deleted its record for that of a snapshot of its name.
THEOREM NothingIsLost == Spec => []NothingLost
<1>1. Typed /\ IInv => NothingLost
  BY DEF IInv, LossInv, NothingLost
<1> QED  BY <1>1, LifecycleInvariant, PTL

-----------------------------------------------------------------------------
(* The lists of snapshots *)

\* A step that writes the list of a parent takes no live snapshot off it, unless an inspection
\* writes it, or had written it back.
LEMMA ListStep ==
  ASSUME Typed, IInv, [Next]_vars, NEW s \in Call, NEW p \in Call, ReferenceLost(s, p)
  PROVE  Inspected(p) \/ PutBack(s, p)
<1>1. /\ s \in array /\ s \in array' /\ s \in saved
      /\ s \in children[p] /\ s \notin children'[p]
  BY DEF ReferenceLost
<1>2. ASSUME NEW c \in Call, SaveParent(c) PROVE PutBack(s, p)
  <2>1. pc[c] = "save_parent" /\ Copying(c)
    BY <1>2 DEF SaveParent, Copying, IInv, CallInv, ReqInv
  <2>2. children' = [children EXCEPT ![view[c].of] = view[c].snaps \union {c}]
    BY <1>1, <1>2 DEF SaveParent
  <2>3. p = view[c].of /\ s \notin view[c].snaps
    BY <1>1, <2>2 DEF Typed
  <2> QED  BY <1>1, <2>1, <2>3 DEF IInv, CallInv, ListInv
<1>3. ASSUME NEW c \in Call, UpdateParent(c) PROVE PutBack(s, p)
  <2>1. pc[c] = "update_parent"
    BY <1>3 DEF UpdateParent
  <2>2. children' = [children EXCEPT ![view[c].of] = view[c].snaps]
    BY <1>1, <1>3 DEF UpdateParent
  <2>3. p = view[c].of /\ s \notin view[c].snaps
    BY <1>1, <2>2 DEF Typed
  <2>4. req[s].name = req[view[c].vol].name \/ PutBack(s, p)
    BY <1>1, <2>1, <2>3 DEF IInv, CallInv, ListInv
  <2>5. /\ view[c].vol \notin array /\ IsSnap(view[c].vol) /\ Unique(view[c].vol)
    BY <2>1, RemoverFacts
  <2>6. IsSnap(s)
    BY <1>1 DEF IInv, DataInv
  <2>7. req[s].name # req[view[c].vol].name
    BY <1>1, <2>5, <2>6 DEF Unique, SameName, IsSnap
  <2> QED  BY <2>4, <2>7
<1>4. ASSUME NEW c \in Call, UpdateList(c) PROVE Inspected(p)
  <2>1. pc[c] = "update_list"
    BY <1>4 DEF UpdateList
  <2>2. children' = [children EXCEPT ![view[c].of] = view[c].snaps]
    BY <1>1, <1>4 DEF UpdateList
  <2>3. p = view[c].of
    BY <1>1, <2>2 DEF Typed
  <2> QED  BY <2>1, <2>3 DEF Inspected
<1>5. ASSUME children' = children PROVE FALSE
  BY <1>1, <1>5
<1>6. ASSUME NEW c \in Call,
             \/ \E r \in Request : Receive(c, r)
             \/ LockOuter(c) \/ LockInner(c) \/ LockTimeout(c) \/ Expire(c) \/ Crash(c)
      PROVE  children' = children
  BY <1>6 DEF Receive, LockOuter, LockInner, LockTimeout, Refuse, Expire, Crash, etcd
<1>7. ASSUME NEW c \in Call, Making(c), ~SaveParent(c) PROVE children' = children
  BY <1>7 DEF Making, Create, Clone, Snapshot, ReadSource, Make, SaveRecord, Refuse, etcd
<1>8. ASSUME NEW c \in Call, Removing(c), ~UpdateParent(c) PROVE children' = children
  BY <1>8 DEF Removing, Remove, Destroy, ReadParent, DeleteRecord, Refuse, etcd
<1>9. ASSUME NEW c \in Call, Inspecting(c), ~UpdateList(c) PROVE children' = children
  BY <1>9 DEF Inspecting, Inspect, Compare, DropRecord, Refuse, etcd
<1>10. ASSUME (\E n \in Name : OrphanExpires(n)) \/ UNCHANGED vars PROVE children' = children
  BY <1>10 DEF OrphanExpires, etcd, vars
<1> QED  BY <1>2, <1>3, <1>4, <1>5, <1>6, <1>7, <1>8, <1>9, <1>10 DEF Next

\* No snapshot call makes the record of its source forget a live snapshot that another call
\* had put there: the list that is written was read under the lock that is still held.
THEOREM ReferencesStay == Spec => BackReferenceKept
<1>1. Typed /\ IInv /\ [Next]_vars
      => [\A s, p \in Call : ReferenceLost(s, p) => Inspected(p) \/ PutBack(s, p)]_vars
  BY ListStep
<1> QED  BY <1>1, LifecycleInvariant, PTL DEF Spec, BackReferenceKept
=============================================================================
