------------------------ MODULE BackendRouting_proof ------------------------
(* Proofs about the routing of requests to backends, as modelled in BackendRouting, and
   about the options of a request to create, as modelled in RequestOptions. *)
EXTENDS BackendRouting, FiniteSetTheorems, TLAPS

-----------------------------------------------------------------------------
(* The inductive invariant *)

OfDriver(d) == IF d = "block" THEN Block ELSE File

\* Where the record of x says that it is.
RecordedHome(x) == IF record[x].backend = "none" THEN DefaultFor("block") ELSE record[x].backend

\* What is known of a name, by a cache, by its record or by an array, is a backend on which
\* it has been created.
PlaceInv ==
  /\ \A x \in Name : IsFiniteSet(homes[x])
  /\ \A n \in Node, d \in Driver, x \in Name :
       cache[n][d][x] # "none" => cache[n][d][x] \in homes[x] \intersect OfDriver(d)
  /\ \A x \in Name : Exists(x) => RecordedHome(x) \in homes[x]
  /\ \A b \in Backend : \A o \in array[b] : b \in homes[o.name]

\* So is where a deferred removal was sent; a deferred snapshot is for an array of volumes.
SentInv ==
  \A j \in queue :
    IF j.op = "remove" THEN j.via \in homes[j.name] ELSE j.via \in Block

Removals == {j \in queue : j.op = "remove"}

\* Until a second removal is asked for, a share keeps the record that its own took along.
AloneInv ==
  /\ used["remove"] = 0 => Removals = {}
  /\ used["remove"] = 1 =>
       /\ \A i, j \in Removals : i = j
       /\ \A j \in Removals :
            j.via \in File =>
              Exists(j.name) /\ DriverOf(j.name) = "file" /\ record[j.name].id = j.id

\* NoOrphan by the one home that a name has.
OrphanInv ==
  \A b \in Backend : \A o \in array[b] :
    homes[o.name] = {b} /\ (b \in Block \/ used["remove"] <= 1)
      => Exists(o.name) /\ record[o.name].id = o.id

\* A snapshot and the volume that it is of are on one array, which is not one of shares.
WithSource(s) ==
  LET source == record[s].parent
  IN /\ record[s].backend \in Block
     /\ Exists(source) /\ DriverOf(source) = "block"
     /\ [name |-> source, id |-> record[source].id] \in array[record[s].backend]

SnapshotInv == \A s \in Name : Exists(s) /\ record[s].parent # NoName => WithSource(s)

IInv == TypeOK /\ PlaceInv /\ SentInv /\ AloneInv /\ OrphanInv /\ SnapshotInv

-----------------------------------------------------------------------------
(* Backends, records and caches *)

LEMMA BackendFacts ==
  /\ Block \subseteq Backend /\ File \subseteq Backend /\ Block \intersect File = {}
  /\ "none" \notin Backend
  /\ \A d \in Driver : DefaultFor(d) \in OfDriver(d) /\ OfDriver(d) \subseteq Backend
BY OptionsAssumption DEF Backend, Driver, DefaultFor, OfDriver

\* The types, and what a record tells.
LEMMA TypeFacts ==
  ASSUME TypeOK
  PROVE  /\ \A x \in Name :
              Exists(x) => /\ record[x] \in Record /\ record[x].id \in Nat
                           /\ record[x].backend \in Backend \union {"none"}
                           /\ record[x].parent \in Name \union {NoName}
         /\ \A x \in Name : DriverOf(x) \in Driver
         /\ \A b \in Backend : \A o \in array[b] : o \in Object /\ o.name \in Name /\ o.id \in Nat
         /\ \A j \in queue : /\ j \in Job /\ j.node \in Node /\ j.op \in {"remove", "snapshot"}
                             /\ j.name \in Name /\ j.id \in Nat /\ j.via \in Backend
                             /\ j.source \in Name \union {NoName}
         /\ \A e \in Event : used[e] \in Nat
<1>1. \A x \in Name :
        Exists(x) => /\ record[x] \in Record /\ record[x].id \in Nat
                     /\ record[x].backend \in Backend \union {"none"}
                     /\ record[x].parent \in Name \union {NoName}
  BY DEF TypeOK, Exists, Record
<1>2. \A x \in Name : DriverOf(x) \in Driver
  BY DEF DriverOf, Driver
<1>3. \A b \in Backend : \A o \in array[b] : o \in Object /\ o.name \in Name /\ o.id \in Nat
  BY DEF TypeOK, Object
<1>4. \A j \in queue : /\ j \in Job /\ j.node \in Node /\ j.op \in {"remove", "snapshot"}
                       /\ j.name \in Name /\ j.id \in Nat /\ j.via \in Backend
                       /\ j.source \in Name \union {NoName}
  BY DEF TypeOK, Job
<1> QED
  BY <1>1, <1>2, <1>3, <1>4 DEF TypeOK

\* A counter that is spent stays within its limit, and the others where they are.
LEMMA SpendFacts ==
  ASSUME TypeOK, NEW e \in Event, Spend(e)
  PROVE  /\ used' \in [Event -> Nat] /\ \A f \in Event : used'[f] <= Limit[f]
         /\ used'[e] = used[e] + 1
         /\ \A f \in Event : f # e => used'[f] = used[f]
<1>1. used \in [Event -> Nat] /\ Limit \in [Event -> Nat] /\ \A f \in Event : used[f] <= Limit[f]
  BY RoutingAssumption DEF TypeOK
<1>2. used[e] < Limit[e] /\ used' = [used EXCEPT ![e] = used[e] + 1]
  BY DEF Spend
<1> QED
  BY <1>1, <1>2

\* A request goes where the name has been created before, or to the default backend.
LEMMA KnownFacts ==
  ASSUME TypeOK, PlaceInv, NEW n \in Node, NEW d \in Driver, NEW x \in Name
  PROVE  /\ Known(n, d, x) \in Backend \union {"none"}
         /\ Known(n, d, x) # "none" => Known(n, d, x) \in homes[x] \intersect OfDriver(d)
         /\ Resolve(n, d, x) \in OfDriver(d) /\ Resolve(n, d, x) \in Backend
         /\ Exists(x) /\ d = DriverOf(x) => Resolve(n, d, x) \in homes[x]
<1>1. cache[n][d][x] \in Backend \union {"none"}
  BY DEF TypeOK
<1>2. /\ Recorded(d, x) \in Backend \union {"none"}
      /\ Recorded(d, x) # "none" => Recorded(d, x) \in homes[x] \intersect OfDriver(d)
      /\ Exists(x) /\ d = DriverOf(x) /\ Recorded(d, x) = "none" => DefaultFor(d) \in homes[x]
  <2>1. CASE Exists(x) /\ DriverOf(x) = d
    <3>1. Recorded(d, x) = record[x].backend /\ RecordedHome(x) \in homes[x]
      BY <2>1 DEF Recorded, PlaceInv
    <3>2. record[x].backend \in Backend \union {"none"}
      BY <2>1, TypeFacts
    <3>3. record[x].backend \in File <=> d = "file"
      BY <2>1 DEF DriverOf, Driver
    <3>4. d # "file" => d = "block"
      BY DEF Driver
    <3> QED
      BY <2>1, <3>1, <3>2, <3>3, <3>4, BackendFacts DEF RecordedHome, OfDriver, Backend
  <2>2. CASE ~(Exists(x) /\ DriverOf(x) = d)
    BY <2>2 DEF Recorded
  <2> QED
    BY <2>1, <2>2
<1>3. cache[n][d][x] # "none" => cache[n][d][x] \in homes[x] \intersect OfDriver(d)
  BY DEF PlaceInv
<1>4. DefaultFor(d) \in OfDriver(d) /\ OfDriver(d) \subseteq Backend
  BY BackendFacts
<1> QED
  BY <1>1, <1>2, <1>3, <1>4 DEF Known, Resolve

\* Of an entry in a cache: typed, and where the name is.
CacheOK ==
  /\ cache \in [Node -> [Driver -> [Name -> Backend \union {"none"}]]]
  /\ \A n \in Node, d \in Driver, x \in Name :
       cache[n][d][x] # "none" => cache[n][d][x] \in homes[x] \intersect OfDriver(d)

\* A new entry is none, or one of the backends of the name.
LEMMA EntryStep ==
  ASSUME TypeOK, PlaceInv, NEW n \in Node, NEW d \in Driver, NEW x \in Name, NEW b,
         b = "none" \/ b \in homes'[x] \intersect OfDriver(d),
         \A y \in Name : homes[y] \subseteq homes'[y],
         cache' = [cache EXCEPT ![n][d][x] = b]
  PROVE  CacheOK'
<1>1. cache \in [Node -> [Driver -> [Name -> Backend \union {"none"}]]]
  BY DEF TypeOK
<1>2. b \in Backend \union {"none"}
  BY BackendFacts
<1>3. /\ cache' \in [Node -> [Driver -> [Name -> Backend \union {"none"}]]]
      /\ \A m \in Node, e \in Driver, y \in Name :
           cache'[m][e][y] = IF m = n /\ e = d /\ y = x THEN b ELSE cache[m][e][y]
  BY <1>1, <1>2
<1>4. ASSUME NEW m \in Node, NEW e \in Driver, NEW y \in Name, cache'[m][e][y] # "none"
      PROVE  cache'[m][e][y] \in homes'[y] \intersect OfDriver(e)
  <2>1. CASE m = n /\ e = d /\ y = x
    BY <1>3, <1>4, <2>1
  <2>2. CASE ~(m = n /\ e = d /\ y = x)
    BY <1>3, <1>4, <2>2 DEF PlaceInv
  <2> QED
    BY <2>1, <2>2
<1> QED
  BY <1>3, <1>4 DEF CacheOK, OfDriver

\* get_volume_backend_details adds what it knows.
LEMMA AddEntryStep ==
  ASSUME TypeOK, PlaceInv, NEW n \in Node, NEW d \in Driver, NEW x \in Name,
         AddCacheEntry(n, d, x), UNCHANGED homes
  PROVE  CacheOK'
BY KnownFacts, EntryStep DEF AddCacheEntry

\* The options of a request name a backend of the right driver, or it is refused.
LEMMA AnswerFacts ==
  ASSUME NEW r \in Request, Answer[r].op \in {"create", "replicated", "share", "import"}
  PROVE  /\ Answer[r].backend \in Backend
         /\ Answer[r].op # "share" => Answer[r].backend \in Block
<1>1. Answer[r] = Outcome(r)
  BY DEF Answer
<1>2. CASE "filePersona" \in DOMAIN r
  <2>1. FileOutcome(r).op = "share" /\ FileOutcome(r).backend \in File
    <3>1. \/ FileOutcome(r) = [op |-> "help", backend |-> "none"]
          \/ FileOutcome(r) = [op |-> "share", backend |-> FileBackend(r)] /\ ~ShareRefused(r)
          \/ FileOutcome(r) = None
      BY DEF FileOutcome
    <3> QED
      BY <1>1, <1>2, <3>1 DEF Outcome, None, ShareRefused
  <2> QED
    BY <1>1, <1>2, <2>1, BackendFacts DEF Outcome
<1>3. CASE "filePersona" \notin DOMAIN r
  <2>1. BlockOutcome(r).backend \in Block
    BY <1>1, <1>3 DEF Outcome, BlockOutcome, None
  <2> QED
    BY <1>1, <1>3, <2>1, BackendFacts DEF Outcome
<1> QED
  BY <1>2, <1>3

-----------------------------------------------------------------------------
(* How steps keep it *)

\* The part of it that is about what is recorded and on the arrays, and about how many removals
\* there were.
DataInv ==
  /\ record \in [Name -> Record \union {NoName}]
  /\ array \in [Backend -> SUBSET Object]
  /\ homes \in [Name -> SUBSET Backend]
  /\ \A x \in Name : IsFiniteSet(homes[x])
  /\ \A x \in Name : Exists(x) => RecordedHome(x) \in homes[x]
  /\ \A b \in Backend : \A o \in array[b] : b \in homes[o.name]
  /\ OrphanInv /\ SnapshotInv

\* The part about the deferred requests.
QueueInv == queue \subseteq Job /\ SentInv /\ AloneInv

LEMMA PartsOfInv ==
  IInv <=> /\ state \in [Node -> [Backend -> {"INITIALIZING", "OK", "FAILED"}]]
           /\ used \in [Event -> Nat] /\ \A e \in Event : used[e] <= Limit[e]
           /\ CacheOK /\ DataInv /\ QueueInv
BY DEF IInv, TypeOK, PlaceInv, CacheOK, DataInv, QueueInv

\* A step that touches neither records nor arrays, and takes no removal back.
LEMMA DataKept ==
  ASSUME IInv, UNCHANGED <<record, array, homes>>,
         used["remove"] \in Nat, used'["remove"] \in Nat, used["remove"] <= used'["remove"]
  PROVE  DataInv'
<1>1. OrphanInv'
  <2>1. used'["remove"] <= 1 => used["remove"] <= 1
    OBVIOUS
  <2> QED
    BY <2>1 DEF IInv, OrphanInv, Exists
<1>2. SnapshotInv'
  BY DEF IInv, SnapshotInv, WithSource, Exists, DriverOf
<1> QED
  BY <1>1, <1>2 DEF IInv, TypeOK, PlaceInv, DataInv, Exists, RecordedHome

\* Requests that leave the queue, records of shares that keep their ids, no other removal.
LEMMA QueueKept ==
  ASSUME IInv, queue' \subseteq queue, used'["remove"] = used["remove"],
         \A x \in Name : homes[x] \subseteq homes'[x],
         \A j \in queue' :
           j.op = "remove" /\ j.via \in File /\ used["remove"] = 1 /\ Exists(j.name)
             => record'[j.name] = record[j.name]
  PROVE  QueueInv'
<1>1. queue' \subseteq Job /\ \A j \in queue' : j.name \in Name
  BY TypeFacts DEF IInv, TypeOK
<1>2. SentInv'
  BY <1>1 DEF IInv, SentInv
<1>3. Removals' \subseteq Removals
  BY DEF Removals
<1>4. ASSUME used["remove"] = 1, NEW j \in Removals', j.via \in File
      PROVE  Exists(j.name)' /\ DriverOf(j.name)' = "file" /\ record'[j.name].id = j.id
  <2>1. Exists(j.name) /\ DriverOf(j.name) = "file" /\ record[j.name].id = j.id
    BY <1>3, <1>4 DEF IInv, AloneInv
  <2>2. record'[j.name] = record[j.name]
    BY <1>4, <2>1 DEF Removals
  <2> QED
    BY <2>1, <2>2 DEF Exists, DriverOf
<1> QED
  BY <1>1, <1>2, <1>3, <1>4 DEF QueueInv, IInv, AloneInv

\* What is saved under a free name.
LEMMA SaveStep ==
  ASSUME IInv, NEW x \in Name, NEW id \in Nat, NEW b \in Backend, NEW p \in Name \union {NoName},
         ~Exists(x), Save(x, id, b, p), used'["remove"] = used["remove"],
         p # NoName =>
           /\ b \in Block /\ Exists(p) /\ DriverOf(p) = "block"
           /\ [name |-> p, id |-> record[p].id] \in array[b]
  PROVE  /\ DataInv'
         /\ \A y \in Name : homes[y] \subseteq homes'[y]
         /\ \A y \in Name : Exists(y) => record'[y] = record[y]
<1> DEFINE r == [id |-> id, backend |-> b, parent |-> p]
           o == [name |-> x, id |-> id]
<1>1. /\ record \in [Name -> Record \union {NoName}] /\ array \in [Backend -> SUBSET Object]
      /\ homes \in [Name -> SUBSET Backend]
  BY DEF IInv, TypeOK
<1>2. r \in Record /\ r # NoName /\ r.id = id /\ r.backend = b /\ r.parent = p
  BY RoutingAssumption DEF Record
<1>3. o \in Object /\ o.name = x /\ o.id = id
  BY DEF Object
<1>4. /\ record' = [record EXCEPT ![x] = r]
      /\ array' = [array EXCEPT ![b] = @ \union {o}]
      /\ homes' = [homes EXCEPT ![x] = @ \union {b}]
  BY DEF Save
<1> HIDE DEF r, o
<1>5. /\ record' \in [Name -> Record \union {NoName}]
      /\ \A y \in Name : record'[y] = IF y = x THEN r ELSE record[y]
  BY <1>1, <1>2, <1>4
<1>6. /\ array' \in [Backend -> SUBSET Object]
      /\ \A c \in Backend : array'[c] = IF c = b THEN array[c] \union {o} ELSE array[c]
  BY <1>1, <1>3, <1>4
<1>7. /\ homes' \in [Name -> SUBSET Backend]
      /\ \A y \in Name : homes'[y] = IF y = x THEN homes[y] \union {b} ELSE homes[y]
  BY <1>1, <1>4
<1>8. /\ \A y \in Name : Exists(y) => y # x /\ record'[y] = record[y] /\ Exists(y)'
      /\ \A y \in Name : y # x => (Exists(y)' <=> Exists(y))
      /\ Exists(x)'
  BY <1>2, <1>5 DEF Exists
<1>9. \A y \in Name : IsFiniteSet(homes'[y])
  <2> TAKE y \in Name
  <2>1. IsFiniteSet(homes[y]) /\ IsFiniteSet(homes[y] \union {b})
    BY FS_AddElement DEF IInv, PlaceInv
  <2> QED
    BY <2>1, <1>7
<1>10. \A y \in Name : Exists(y)' => RecordedHome(y)' \in homes'[y]
  <2> TAKE y \in Name
  <2>1. CASE y = x
    BY <2>1, <1>2, <1>5, <1>7, BackendFacts DEF RecordedHome
  <2>2. CASE y # x
    BY <2>2, <1>5, <1>7 DEF RecordedHome, Exists, IInv, PlaceInv
  <2> QED
    BY <2>1, <2>2
<1>11. \A c \in Backend : \A q \in array'[c] : c \in homes'[q.name]
  <2> TAKE c \in Backend
  <2> TAKE q \in array'[c]
  <2>1. CASE q = o /\ c = b
    BY <2>1, <1>3, <1>7
  <2>2. CASE q \in array[c]
    <3>1. q.name \in Name /\ c \in homes[q.name]
      BY <2>2, TypeFacts DEF IInv, PlaceInv
    <3> QED
      BY <3>1, <1>7
  <2> QED
    BY <2>1, <2>2, <1>6
<1>12. OrphanInv'
  <2> SUFFICES ASSUME NEW c \in Backend, NEW q \in array'[c], homes'[q.name] = {c},
                      c \in Block \/ used["remove"] <= 1
               PROVE  Exists(q.name)' /\ record'[q.name].id = q.id
    BY DEF OrphanInv
  <2>1. CASE q = o /\ c = b
    BY <2>1, <1>2, <1>3, <1>5, <1>8
  <2>2. CASE q \in array[c]
    <3>1. q.name \in Name /\ c \in homes[q.name]
      BY <2>2, TypeFacts DEF IInv, PlaceInv
    <3>2. homes[q.name] = {c}
      BY <3>1, <1>7
    <3>3. Exists(q.name) /\ record[q.name].id = q.id
      BY <2>2, <3>2 DEF IInv, OrphanInv
    <3> QED
      BY <3>1, <3>3, <1>8
  <2> QED
    BY <2>1, <2>2, <1>6
<1>13. SnapshotInv'
  <2> SUFFICES ASSUME NEW s \in Name, Exists(s)', record'[s].parent # NoName
               PROVE  WithSource(s)'
    BY DEF SnapshotInv
  <2>1. CASE s = x
    <3>1. record'[s].parent = p /\ record'[s].backend = b /\ p # NoName /\ p \in Name
      BY <2>1, <1>2, <1>5
    <3>2. record'[p] = record[p] /\ Exists(p)'
      BY <3>1, <1>8
    <3> QED
      BY <3>1, <3>2, <1>6 DEF WithSource, DriverOf, Exists
  <2>2. CASE s # x
    <3>1. record'[s] = record[s] /\ Exists(s)
      BY <2>2, <1>5, <1>8
    <3>2. PICK t : t = record[s].parent
      OBVIOUS
    <3>3. /\ record[s].backend \in Block /\ Exists(t) /\ DriverOf(t) = "block"
          /\ [name |-> t, id |-> record[t].id] \in array[record[s].backend]
      BY <3>1, <3>2 DEF IInv, SnapshotInv, WithSource
    <3>4. t \in Name /\ record[s].backend \in Backend
      BY <3>1, <3>2, <3>3, TypeFacts, BackendFacts DEF IInv
    <3>5. record'[t] = record[t] /\ Exists(t)'
      BY <3>3, <3>4, <1>8
    <3> QED
      BY <3>1, <3>2, <3>3, <3>4, <3>5, <1>6 DEF WithSource, DriverOf, Exists
  <2> QED
    BY <2>1, <2>2
<1> QED
  BY <1>5, <1>6, <1>7, <1>8, <1>9, <1>10, <1>11, <1>12, <1>13 DEF DataInv

\* What a removal takes off one of the arrays of a name, and out of etcd or not.
LEMMA DropStep ==
  ASSUME IInv, NEW x \in Name, NEW id \in Nat, NEW b \in Backend, b \in homes[x],
         NEW r \in {NoName, record[x]},
         array' = [array EXCEPT ![b] = @ \ {[name |-> x, id |-> id]}],
         record' = [record EXCEPT ![x] = r],
         UNCHANGED homes, used'["remove"] = used["remove"],
         homes[x] = {b} /\ (b \in Block \/ used["remove"] <= 1) => Exists(x) /\ record[x].id = id,
         \A s \in Name : Exists(s) /\ record[s].parent = x => r = record[x] /\ b \in File
  PROVE  DataInv'
<1> DEFINE o == [name |-> x, id |-> id]
<1>1. /\ record \in [Name -> Record \union {NoName}] /\ array \in [Backend -> SUBSET Object]
      /\ homes \in [Name -> SUBSET Backend]
  BY DEF IInv, TypeOK
<1>2. /\ record' \in [Name -> Record \union {NoName}]
      /\ \A y \in Name : record'[y] = IF y = x THEN r ELSE record[y]
  BY <1>1
<1>3. /\ array' \in [Backend -> SUBSET Object]
      /\ \A c \in Backend : array'[c] = IF c = b THEN array[c] \ {o} ELSE array[c]
  BY <1>1
<1>4. \A y \in Name : Exists(y)' => Exists(y) /\ record'[y] = record[y]
  BY <1>2 DEF Exists
<1>5. \A y \in Name : Exists(y)' => RecordedHome(y)' \in homes'[y]
  BY <1>4 DEF RecordedHome, IInv, PlaceInv
<1>6. \A c \in Backend : array'[c] \subseteq array[c]
  BY <1>3
<1>7. \A c \in Backend : \A q \in array'[c] : c \in homes'[q.name]
  BY <1>6 DEF IInv, PlaceInv
<1>8. OrphanInv'
  <2> SUFFICES ASSUME NEW c \in Backend, NEW q \in array'[c], homes[q.name] = {c},
                      c \in Block \/ used["remove"] <= 1
               PROVE  Exists(q.name)' /\ record'[q.name].id = q.id
    BY DEF OrphanInv
  <2>1. q \in array[c] /\ q \in Object /\ q.name \in Name
    BY <1>6, TypeFacts DEF IInv
  <2>2. Exists(q.name) /\ record[q.name].id = q.id
    BY <2>1 DEF IInv, OrphanInv
  <2>3. CASE q.name # x \/ r = record[x]
    BY <2>1, <2>2, <2>3, <1>2 DEF Exists
  <2>4. CASE q.name = x
    <3>1. c = b /\ q.id = id
      BY <2>2, <2>4
    <3>2. q = o
      BY <2>1, <2>4, <3>1 DEF Object
    <3> QED
      BY <3>1, <3>2, <1>3
  <2> QED
    BY <2>3, <2>4
<1>9. SnapshotInv'
  <2> SUFFICES ASSUME NEW s \in Name, Exists(s)', record'[s].parent # NoName
               PROVE  WithSource(s)'
    BY DEF SnapshotInv
  <2>1. record'[s] = record[s] /\ Exists(s)
    BY <1>4
  <2>2. PICK t : t = record[s].parent
    OBVIOUS
  <2>3. /\ record[s].backend \in Block /\ Exists(t) /\ DriverOf(t) = "block"
        /\ [name |-> t, id |-> record[t].id] \in array[record[s].backend]
    BY <2>1, <2>2 DEF IInv, SnapshotInv, WithSource
  <2>4. t \in Name /\ record[s].backend \in Backend
    BY <2>1, <2>2, <2>3, TypeFacts, BackendFacts DEF IInv
  <2>5. record'[t] = record[t]
    BY <2>1, <2>2, <2>4, <1>2
  <2>6. [name |-> t, id |-> record[t].id] \in array'[record[s].backend]
    <3>1. CASE t = x
      <4>1. record[s].backend # b
        BY <2>1, <2>2, <2>3, <3>1, BackendFacts
      <4> QED
        BY <4>1, <2>3, <2>4, <1>3
    <3>2. CASE t # x
      <4>1. [name |-> t, id |-> record[t].id].name = t /\ o.name = x
        OBVIOUS
      <4>2. [name |-> t, id |-> record[t].id] # o
        BY <4>1, <3>2
      <4> QED
        BY <4>2, <2>3, <2>4, <1>3
    <3> QED
      BY <3>1, <3>2
  <2> QED
    BY <2>1, <2>2, <2>3, <2>4, <2>5, <2>6 DEF WithSource, DriverOf, Exists
<1> QED
  BY <1>1, <1>2, <1>3, <1>5, <1>7, <1>8, <1>9 DEF DataInv, IInv, PlaceInv

\* A removal that has run was the only one, if there has been one only.
LEMMA LastRemoval ==
  ASSUME IInv, NEW j \in queue, j.op = "remove", Finish(j), UNCHANGED homes
  PROVE  QueueInv'
<1>1. queue' = queue \ {j} /\ used' = used
  BY DEF Finish
<1>2. used["remove"] = 1 => \A i \in queue' : i.op # "remove"
  BY <1>1 DEF IInv, AloneInv, Removals
<1> QED
  BY <1>1, <1>2, QueueKept

LEMMA RemoveVolumeStep ==
  ASSUME IInv, NEW j \in queue, RunRemoveVolume(j)
  PROVE  DataInv' /\ QueueInv'
<1>1. /\ j.op = "remove" /\ j.via \in Block /\ Exists(j.name) /\ ~HasSnapshots(j.name)
      /\ array' = [array EXCEPT ![j.via] = @ \ {[name |-> j.name, id |-> record[j.name].id]}]
      /\ record' = [record EXCEPT ![j.name] = NoName]
      /\ UNCHANGED homes /\ Finish(j)
  BY DEF RunRemoveVolume
<1>2. /\ j.name \in Name /\ j.via \in Backend /\ j.via \in homes[j.name]
      /\ record[j.name].id \in Nat /\ used' = used
  BY <1>1, TypeFacts DEF IInv, SentInv, Finish
<1>3. \A s \in Name : ~(Exists(s) /\ record[s].parent = j.name)
  BY <1>1 DEF HasSnapshots
<1>4. DataInv'
  BY <1>1, <1>2, <1>3, DropStep
<1> QED
  BY <1>1, <1>4, LastRemoval

LEMMA RemoveShareStep ==
  ASSUME IInv, NEW j \in queue, RunRemoveShare(j)
  PROVE  DataInv' /\ QueueInv'
<1> DEFINE r == IF DriverOf(j.name) = "file" THEN NoName ELSE record[j.name]
<1>1. /\ j.op = "remove" /\ j.via \in File
      /\ array' = [array EXCEPT ![j.via] = @ \ {[name |-> j.name, id |-> j.id]}]
      /\ record' = [record EXCEPT ![j.name] = r]
      /\ UNCHANGED homes /\ Finish(j)
  BY DEF RunRemoveShare
<1>2. /\ j.name \in Name /\ j.id \in Nat /\ j.via \in Backend /\ j.via \in homes[j.name]
      /\ used["remove"] \in Nat /\ used' = used
  BY <1>1, TypeFacts DEF IInv, SentInv, Finish, Event
<1>3. \A s \in Name :
        Exists(s) /\ record[s].parent = j.name => r = record[j.name] /\ j.via \in File
  <2> SUFFICES ASSUME NEW s \in Name, Exists(s), record[s].parent = j.name
               PROVE  DriverOf(j.name) = "block"
    BY <1>1
  <2>1. j.name # NoName
    BY <1>2, RoutingAssumption
  <2> QED
    BY <2>1 DEF IInv, SnapshotInv, WithSource
<1>4. j.via \in Block \/ used["remove"] <= 1 => Exists(j.name) /\ record[j.name].id = j.id
  <2> SUFFICES ASSUME used["remove"] <= 1 PROVE Exists(j.name) /\ record[j.name].id = j.id
    BY <1>1, BackendFacts
  <2>1. j \in Removals
    BY <1>1 DEF Removals
  <2>2. used["remove"] = 1
    BY <1>2, <2>1 DEF IInv, AloneInv
  <2> QED
    BY <1>1, <2>1, <2>2 DEF IInv, AloneInv
<1>5. r \in {NoName, record[j.name]}
  OBVIOUS
<1> HIDE DEF r
<1>6. DataInv'
  BY <1>1, <1>2, <1>3, <1>4, <1>5, DropStep
<1> QED
  BY <1>1, <1>6, LastRemoval

\* A new deferred request.
LEMMA DeferStep ==
  ASSUME IInv, NEW n \in Node, NEW op \in {"remove", "snapshot"}, NEW x \in Name, NEW id \in Nat,
         NEW source \in Name \union {NoName}, NEW via \in Backend,
         Defer(n, op, x, id, source, via), UNCHANGED <<record, homes>>,
         op = "snapshot" => via \in Block /\ used'["remove"] = used["remove"],
         op = "remove" =>
           /\ via \in homes[x] /\ used'["remove"] = used["remove"] + 1
           /\ via \in File => Exists(x) /\ DriverOf(x) = "file" /\ record[x].id = id
  PROVE  QueueInv'
<1> DEFINE k == [node |-> n, op |-> op, name |-> x, id |-> id, source |-> source, via |-> via]
<1>1. /\ k \in Job /\ k.op = op /\ k.name = x /\ k.id = id /\ k.via = via
      /\ queue' = queue \union {k}
  BY DEF Job, Defer
<1> HIDE DEF k
<1>2. queue' \subseteq Job
  BY <1>1 DEF IInv, TypeOK
<1>3. SentInv'
  BY <1>1 DEF SentInv, IInv
<1>4. AloneInv'
  <2>1. used["remove"] \in Nat
    BY TypeFacts DEF IInv, Event
  <2>2. CASE op = "snapshot"
    <3>1. Removals' = Removals
      BY <1>1, <2>2 DEF Removals
    <3> QED
      BY <2>2, <3>1 DEF IInv, AloneInv, Exists, DriverOf
  <2>3. CASE op = "remove"
    <3>1. Removals' = Removals \union {k}
      BY <1>1, <2>3 DEF Removals
    <3>2. used'["remove"] # 0 /\ (used'["remove"] = 1 => Removals = {})
      BY <2>1, <2>3 DEF IInv, AloneInv
    <3> QED
      BY <1>1, <2>3, <3>1, <3>2 DEF AloneInv, Exists, DriverOf
  <2> QED
    BY <2>2, <2>3
<1> QED
  BY <1>2, <1>3, <1>4 DEF QueueInv

-----------------------------------------------------------------------------
(* The steps *)

LEMMA RoutingInitial == Init => IInv
<1> SUFFICES ASSUME Init PROVE IInv
  OBVIOUS
<1>1. PICK old \in {{}} \union {{x} : x \in Name} :
        /\ record = [x \in Name |->
             IF x \in old THEN [id |-> 0, backend |-> "none", parent |-> NoName] ELSE NoName]
        /\ array = [b \in Backend |->
             IF b = DefaultFor("block") THEN {[name |-> x, id |-> 0] : x \in old} ELSE {}]
        /\ homes = [x \in Name |-> IF x \in old THEN {DefaultFor("block")} ELSE {}]
  BY DEF Init
<1> DEFINE r == [id |-> 0, backend |-> "none", parent |-> NoName]
<1>2. old \subseteq Name
  OBVIOUS
<1>3. r \in Record /\ r # NoName /\ r.id = 0 /\ r.backend = "none" /\ r.parent = NoName
  BY RoutingAssumption DEF Record
<1>4. \A x \in Name : record[x] = IF x \in old THEN r ELSE NoName
  BY <1>1
<1> HIDE DEF r
<1>5. /\ record \in [Name -> Record \union {NoName}]
      /\ \A x \in Name : Exists(x) <=> x \in old
  BY <1>1, <1>3, <1>4 DEF Exists
<1>6. DefaultFor("block") \in Block /\ DefaultFor("block") \in Backend
  BY BackendFacts DEF Driver, OfDriver
<1>7. /\ array \in [Backend -> SUBSET Object]
      /\ \A b \in Backend : \A o \in array[b] :
           b = DefaultFor("block") /\ o.name \in old /\ o.id = 0
  BY <1>1, <1>2 DEF Object
<1>8. /\ homes \in [Name -> SUBSET Backend]
      /\ \A x \in Name : IsFiniteSet(homes[x]) /\ (x \in old => homes[x] = {DefaultFor("block")})
  BY <1>1, <1>6, FS_EmptySet, FS_Singleton
<1>9. /\ state = [n \in Node |-> NoManager] /\ cache = [n \in Node |-> NoCache]
      /\ queue = {} /\ used = [e \in Event |-> 0]
  BY DEF Init
<1>10. TypeOK
  <2>1. /\ state \in [Node -> [Backend -> {"INITIALIZING", "OK", "FAILED"}]]
        /\ cache \in [Node -> [Driver -> [Name -> Backend \union {"none"}]]]
    BY <1>9 DEF NoManager, NoCache
  <2>2. used \in [Event -> Nat] /\ \A e \in Event : used[e] <= Limit[e]
    BY <1>9, RoutingAssumption
  <2> QED
    BY <2>1, <2>2, <1>5, <1>7, <1>8, <1>9 DEF TypeOK
<1>11. PlaceInv
  <2>1. \A n \in Node, d \in Driver, x \in Name : cache[n][d][x] = "none"
    BY <1>9 DEF NoCache
  <2>2. \A x \in Name : Exists(x) => RecordedHome(x) \in homes[x]
    BY <1>3, <1>4, <1>5, <1>8 DEF RecordedHome
  <2>3. \A b \in Backend : \A o \in array[b] : b \in homes[o.name]
    BY <1>2, <1>7, <1>8
  <2> QED
    BY <2>1, <2>2, <2>3, <1>8 DEF PlaceInv
<1>12. OrphanInv
  BY <1>2, <1>3, <1>4, <1>5, <1>7 DEF OrphanInv
<1>13. SnapshotInv
  BY <1>3, <1>4, <1>5 DEF SnapshotInv
<1>14. SentInv /\ AloneInv
  BY <1>9 DEF SentInv, AloneInv, Removals
<1> QED
  BY <1>10, <1>11, <1>12, <1>13, <1>14 DEF IInv

LEMMA RoutingInductive == IInv /\ [Next]_vars => IInv'
<1> SUFFICES ASSUME IInv, [Next]_vars PROVE IInv'
  OBVIOUS
<1>a. /\ TypeOK /\ PlaceInv /\ CacheOK /\ used["remove"] \in Nat
      /\ state \in [Node -> [Backend -> {"INITIALIZING", "OK", "FAILED"}]]
      /\ used \in [Event -> Nat] /\ \A e \in Event : used[e] <= Limit[e]
  BY PartsOfInv, TypeFacts DEF IInv, Event
<1> DEFINE Plain == /\ state' \in [Node -> [Backend -> {"INITIALIZING", "OK", "FAILED"}]]
                    /\ used' \in [Event -> Nat] /\ \A e \in Event : used'[e] <= Limit[e]
<1>b. ASSUME Plain, CacheOK', DataInv', QueueInv' PROVE IInv'
  BY <1>b DEF IInv, TypeOK, PlaceInv, CacheOK, DataInv, QueueInv
<1>1. ASSUME NEW n \in Node, NEW b \in Backend, Initialize(n, b) PROVE IInv'
  <2>1. /\ UNCHANGED <<cache, record, array, queue, homes>>
        /\ state' \in [Node -> [Backend -> {"INITIALIZING", "OK", "FAILED"}]]
        /\ used' = used \/ Spend("fault")
    BY <1>1, <1>a DEF Initialize
  <2>2. Plain /\ used'["remove"] = used["remove"]
    BY <2>1, <1>a, SpendFacts DEF Event
  <2>3. DataInv' /\ QueueInv'
    BY <2>1, <2>2, <1>a, DataKept, QueueKept
  <2> QED
    BY <2>1, <2>2, <2>3, <1>a, <1>b DEF CacheOK
<1>2. ASSUME NEW n \in Node, NEW x \in Name, NEW r \in Request, Create(n, x, r) PROVE IInv'
  <2> DEFINE o == Answer[r]
  <2>1. /\ o.op \in {"create", "replicated", "share", "import"} /\ ~Exists(x)
        /\ Spend("create") /\ Save(x, used'["create"], o.backend, NoName)
        /\ cache' = IF o.op = "import" THEN [cache EXCEPT ![n]["block"][x] = o.backend] ELSE cache
        /\ UNCHANGED <<state, queue>>
    BY <1>2 DEF Create
  <2>2. Plain /\ used'["remove"] = used["remove"] /\ used'["create"] \in Nat
    BY <2>1, <1>a, SpendFacts DEF Event
  <2>3. o.backend \in Backend /\ (o.op = "import" => o.backend \in Block)
    BY <2>1, AnswerFacts
  <2> HIDE DEF o
  <2>4. /\ DataInv' /\ \A y \in Name : homes[y] \subseteq homes'[y]
        /\ \A y \in Name : Exists(y) => record'[y] = record[y]
    BY <2>1, <2>2, <2>3, SaveStep
  <2>5. QueueInv'
    <3>1. \A j \in queue' : j.name \in Name
      BY <2>1, <1>a, TypeFacts
    <3> QED
      BY <2>1, <2>2, <2>4, <3>1, QueueKept
  <2>6. CacheOK'
    <3>1. CASE o.op = "import"
      <4>1. o.backend \in homes'[x] \intersect OfDriver("block")
        BY <2>1, <2>3, <3>1, <1>a DEF Save, OfDriver, TypeOK
      <4>2. "block" \in Driver
        BY DEF Driver
      <4> QED
        BY <2>1, <2>4, <3>1, <4>1, <4>2, <1>a, EntryStep
    <3>2. CASE o.op # "import"
      BY <2>1, <2>4, <3>2, <1>a DEF CacheOK
    <3> QED
      BY <3>1, <3>2
  <2> QED
    BY <2>2, <2>4, <2>5, <2>6, <1>b
<1>3. ASSUME NEW n \in Node, NEW x \in Name, NEW y \in Name, NEW r \in Request,
             CreateSnapshot(n, x, y, r)
      PROVE  IInv'
  <2>1. /\ Spend("create")
        /\ Defer(n, "snapshot", x, used'["create"], y, Resolve(n, "block", y))
        /\ AddCacheEntry(n, "block", y) /\ UNCHANGED <<state, record, array, homes>>
    BY <1>3 DEF CreateSnapshot
  <2>2. Plain /\ used'["remove"] = used["remove"] /\ used'["create"] \in Nat
    BY <2>1, <1>a, SpendFacts DEF Event
  <2>3. Resolve(n, "block", y) \in Block /\ Resolve(n, "block", y) \in Backend
        /\ "block" \in Driver
    BY <1>a, KnownFacts DEF Driver, OfDriver
  <2>4. CacheOK'
    BY <2>1, <2>3, <1>a, AddEntryStep
  <2>5. DataInv'
    BY <2>1, <2>2, <1>a, DataKept
  <2>6. QueueInv'
    BY <2>1, <2>2, <2>3, DeferStep
  <2> QED
    BY <2>2, <2>4, <2>5, <2>6, <1>b
<1>4. ASSUME NEW n \in Node, NEW x \in Name, Remove(n, x) PROVE IInv'
  <2>1. PICK d \in Driver : d = DriverOf(x)
    BY <1>a, TypeFacts
  <2> DEFINE id == IF d = "file" THEN record[x].id ELSE 0
  <2>2. /\ Exists(x) /\ Spend("remove")
        /\ Defer(n, "remove", x, id, NoName, Resolve(n, d, x))
        /\ IF d = "file" THEN AddCacheEntry(n, d, x) ELSE cache' = [cache EXCEPT ![n][d][x] = "none"]
        /\ UNCHANGED <<state, record, array, homes>>
    BY <1>4, <2>1 DEF Remove
  <2>3. Plain /\ used'["remove"] = used["remove"] + 1
    BY <2>2, <1>a, SpendFacts DEF Event
  <2>4. /\ Resolve(n, d, x) \in homes[x] \intersect OfDriver(d)
        /\ Resolve(n, d, x) \in Backend
    BY <2>1, <2>2, <1>a, KnownFacts
  <2>5. id \in Nat /\ (Resolve(n, d, x) \in File => d = "file" /\ id = record[x].id)
    <3>1. record[x].id \in Nat
      BY <2>2, <1>a DEF TypeOK, Exists, Record
    <3>2. Resolve(n, d, x) \in File => d = "file"
      BY <2>1, <2>4, BackendFacts DEF OfDriver, Driver
    <3> QED
      BY <3>1, <3>2
  <2> HIDE DEF id
  <2>6. CacheOK'
    BY <2>2, <1>a, EntryStep, AddEntryStep
  <2>7. DataInv'
    BY <2>2, <2>3, <1>a, DataKept
  <2>8. QueueInv'
    BY <2>1, <2>2, <2>3, <2>4, <2>5, DeferStep
  <2> QED
    BY <2>3, <2>6, <2>7, <2>8, <1>b
<1>5. ASSUME NEW n \in Node, NEW x \in Name, Lookup(n, x) PROVE IInv'
  <2>1. /\ Spend("lookup") /\ AddCacheEntry(n, DriverOf(x), x) /\ DriverOf(x) \in Driver
        /\ UNCHANGED <<state, record, array, queue, homes>>
    BY <1>5, <1>a, TypeFacts DEF Lookup
  <2>2. Plain /\ used'["remove"] = used["remove"]
    BY <2>1, <1>a, SpendFacts DEF Event
  <2>3. CacheOK'
    BY <2>1, <1>a, AddEntryStep
  <2>4. DataInv' /\ QueueInv'
    BY <2>1, <2>2, <1>a, DataKept, QueueKept
  <2> QED
    BY <2>2, <2>3, <2>4, <1>b
<1>6. ASSUME NEW j \in queue, RunSnapshot(j) PROVE IInv'
  <2>1. /\ j.op = "snapshot" /\ CanSnapshot(j) /\ Save(j.name, j.id, j.via, j.source)
        /\ queue' = queue \ {j} /\ UNCHANGED <<state, cache, used>>
    BY <1>6 DEF RunSnapshot, Finish
  <2>2. /\ j.name \in Name /\ j.id \in Nat /\ j.via \in Backend /\ j.via \in Block
        /\ j.source \in Name \union {NoName}
    BY <2>1, <1>a, TypeFacts DEF IInv, SentInv
  <2>3. /\ DataInv' /\ \A y \in Name : homes[y] \subseteq homes'[y]
        /\ \A y \in Name : Exists(y) => record'[y] = record[y]
    BY <2>1, <2>2, SaveStep DEF CanSnapshot
  <2>4. \A i \in queue' : i.name \in Name
    BY <2>1, <1>a, TypeFacts
  <2>5. QueueInv'
    BY <2>1, <2>3, <2>4, QueueKept
  <2>6. CacheOK'
    BY <2>1, <2>3, <1>a DEF CacheOK
  <2> QED
    BY <2>1, <2>3, <2>5, <2>6, <1>a, <1>b
<1>7. ASSUME NEW j \in queue, RunRemoveVolume(j) \/ RunRemoveShare(j) PROVE IInv'
  <2>1. UNCHANGED <<state, cache, used, homes>>
    BY <1>7 DEF RunRemoveVolume, RunRemoveShare, Finish
  <2>2. DataInv' /\ QueueInv'
    BY <1>7, RemoveVolumeStep, RemoveShareStep
  <2> QED
    BY <2>1, <2>2, <1>a, <1>b DEF CacheOK
<1>8. ASSUME NEW j \in queue, RunRefused(j) PROVE IInv'
  <2>1. UNCHANGED <<state, cache, used, record, array, homes>> /\ queue' = queue \ {j}
    BY <1>8 DEF RunRefused, Finish
  <2>2. DataInv' /\ QueueInv'
    BY <2>1, <1>a, DataKept, QueueKept
  <2> QED
    BY <2>1, <2>2, <1>a, <1>b DEF CacheOK
<1>9. ASSUME NEW n \in Node, Restart(n) PROVE IInv'
  <2>1. /\ Spend("fault") /\ state' = [state EXCEPT ![n] = NoManager]
        /\ cache' = [cache EXCEPT ![n] = NoCache]
        /\ queue' \subseteq queue /\ UNCHANGED <<record, array, homes>>
    BY <1>9 DEF Restart
  <2>2. Plain /\ used'["remove"] = used["remove"]
    <3>1. NoManager \in [Backend -> {"INITIALIZING", "OK", "FAILED"}]
      BY DEF NoManager
    <3> QED
      BY <2>1, <3>1, <1>a, SpendFacts DEF Event
  <2>3. CacheOK'
    <3>1. /\ NoCache \in [Driver -> [Name -> Backend \union {"none"}]]
          /\ \A d \in Driver, x \in Name : NoCache[d][x] = "none"
      BY DEF NoCache
    <3> QED
      BY <2>1, <3>1, <1>a DEF CacheOK
  <2>4. DataInv' /\ QueueInv'
    BY <2>1, <2>2, <1>a, DataKept, QueueKept
  <2> QED
    BY <2>2, <2>3, <2>4, <1>b
<1>10. ASSUME UNCHANGED vars PROVE IInv'
  <2>1. UNCHANGED <<state, cache, used, record, array, homes, queue>>
    BY <1>10 DEF vars
  <2>2. DataInv' /\ QueueInv'
    BY <2>1, <1>a, DataKept, QueueKept
  <2> QED
    BY <2>1, <2>2, <1>a, <1>b DEF CacheOK
<1> QED
  BY <1>1, <1>2, <1>3, <1>4, <1>5, <1>6, <1>7, <1>8, <1>9, <1>10 DEF Next

-----------------------------------------------------------------------------
(* The options *)

\* Two options are more than one.
LEMMA OneOption == ASSUME NEW S, NEW e, S \subseteq {e} PROVE ~(Cardinality(S) >= 2)
<1>1. S = {} \/ S = {e}
  OBVIOUS
<1>2. Cardinality(S) = 0 \/ Cardinality(S) = 1
  BY <1>1, FS_EmptySet, FS_Singleton
<1> QED
  BY <1>2

\* What each of the operations admits.
LEMMA AdmittedOptions ==
  ASSUME NEW opts, ValidNames(opts)
  PROVE  \/ Operation(opts) = "schedule" /\ opts \subseteq ValidOptions.schedule
              /\ ScheduleMandatory \subseteq opts /\ "virtualCopyOf" \in opts
         \/ Operation(opts) = "snapshot" /\ opts \subseteq ValidOptions.snapshot
              /\ "virtualCopyOf" \in opts
         \/ Operation(opts) = "clone" /\ opts \subseteq ValidOptions.clone /\ "cloneOf" \in opts
         \/ Operation(opts) = "import" /\ opts \subseteq ValidOptions.import /\ "importVol" \in opts
         \/ Operation(opts) = "replicated" /\ opts \subseteq ValidOptions.replicated
              /\ "replicationGroup" \in opts
         \/ Operation(opts) = "help" /\ opts \subseteq ValidOptions.help /\ "help" \in opts
         \/ Operation(opts) = "create" /\ opts \subseteq ValidOptions.create
<1>1. opts \subseteq ValidOptions[Operation(opts)]
  BY DEF ValidNames
<1>2. Operation(opts) = "schedule" => ScheduleMandatory \subseteq opts
  BY DEF ValidNames
<1>3. \/ Operation(opts) = "schedule" /\ "virtualCopyOf" \in opts
      \/ Operation(opts) = "snapshot" /\ "virtualCopyOf" \in opts
      \/ Operation(opts) = "clone" /\ "cloneOf" \in opts
      \/ Operation(opts) = "import" /\ "importVol" \in opts
      \/ Operation(opts) = "replicated" /\ "replicationGroup" \in opts
      \/ Operation(opts) = "help" /\ "help" \in opts
      \/ Operation(opts) = "create"
  BY DEF Operation
<1> QED
  BY <1>1, <1>2, <1>3

\* Nothing that the validator lets through is refused by its names afterwards.
LEMMA NamesAccepted == ASSUME NEW opts, ValidNames(opts) PROVE ~NamesRefused(opts)
<1>1. opts \subseteq KnownOptions
  <2>1. opts \subseteq ValidOptions[Operation(opts)]
    BY DEF ValidNames
  <2>2. Operation(opts) \in DOMAIN ValidOptions
    BY AdmittedOptions DEF ValidOptions
  <2> QED
    BY <2>1, <2>2 DEF KnownOptions
<1> DEFINE A == opts \intersect {"virtualCopyOf", "cloneOf", "qos-name", "replicationGroup"}
           B == opts \intersect {"virtualCopyOf", "cloneOf", "backend"}
<1>2. \E e : A \subseteq {e}
  BY AdmittedOptions DEF ValidOptions, ScheduleMandatory
<1>3. \E e : B \subseteq {e}
  BY AdmittedOptions DEF ValidOptions, ScheduleMandatory
<1>4. ~(Cardinality(A) >= 2) /\ ~(Cardinality(B) >= 2)
  BY <1>2, <1>3, OneOption
<1>5. "virtualCopyOf" \in opts =>
        /\ opts \intersect {"cpg", "snapcpg"} = {}
        /\ opts \intersect ScheduleOptions # {} => "scheduleName" \in opts
        /\ "scheduleName" \in opts =>
             ScheduleMandatory \subseteq opts
               /\ opts \intersect {"expirationHours", "retentionHours"} = {}
  BY AdmittedOptions DEF ValidOptions, ScheduleMandatory, ScheduleOptions
<1>6. opts \intersect {"virtualCopyOf", "cloneOf"} = {} => opts \intersect ScheduleOptions = {}
  BY AdmittedOptions DEF ValidOptions, ScheduleMandatory, ScheduleOptions
<1> HIDE DEF A, B
<1> QED
  BY <1>1, <1>4, <1>5, <1>6 DEF NamesRefused, A, B

\* It carries out the operation that was validated.
LEMMA BranchAgrees ==
  ASSUME NEW opts, ValidNames(opts), NEW v \in {"good", "empty"}
  PROVE  Branch([o \in opts |-> v]) =
           IF v = "empty" /\ Operation(opts) = "replicated" THEN "create" ELSE Operation(opts)
<1> DEFINE r == [o \in opts |-> v]
<1>1. DOMAIN r = opts /\ (Given(r, "replicationGroup") <=> "replicationGroup" \in opts /\ v = "good")
  BY DEF Given
<1> HIDE DEF r
<1>2. CASE Operation(opts) \in {"schedule", "snapshot", "clone"}
  BY <1>1, <1>2, AdmittedOptions DEF Branch, ValidOptions, ScheduleMandatory
<1>3. CASE Operation(opts) \in {"import", "help"}
  BY <1>1, <1>3, AdmittedOptions DEF Branch, ValidOptions
<1>4. CASE Operation(opts) \in {"replicated", "create"}
  <2>1. opts \intersect {"importVol", "help", "virtualCopyOf", "cloneOf"} = {}
    BY <1>4, AdmittedOptions DEF ValidOptions
  <2>2. Operation(opts) = "create" => "replicationGroup" \notin opts
    BY AdmittedOptions DEF ValidOptions
  <2>3. Operation(opts) = "replicated" => "replicationGroup" \in opts
    BY AdmittedOptions
  <2>4. Branch(r) = IF "replicationGroup" \in opts /\ v = "good" THEN "replicated" ELSE "create"
    BY <1>1, <2>1 DEF Branch
  <2> QED
    BY <1>4, <2>2, <2>3, <2>4 DEF r
<1> QED
  BY <1>2, <1>3, <1>4, AdmittedOptions DEF r

-----------------------------------------------------------------------------
(* The theorems *)

\* Records, caches, arrays and deferred requests are what they should be.
THEOREM TypeCorrect == Spec => []TypeOK
<1>1. IInv => TypeOK
  BY DEF IInv
<1> QED
  BY <1>1, RoutingInitial, RoutingInductive, PTL DEF Spec

\* While a name has been used on one backend only, its removal leaves nothing on an array,
\* whatever the caches of the nodes say, however requests are delayed and plugins restart.
THEOREM NothingLeft == Spec => []NoOrphan
<1>1. IInv => NoOrphan
  <2> SUFFICES ASSUME IInv, NEW b \in Backend, NEW o \in array[b],
                      Cardinality(homes[o.name]) = 1, b \in Block \/ used["remove"] <= 1
               PROVE  Exists(o.name) /\ record[o.name].id = o.id
    BY DEF NoOrphan
  <2>1. o.name \in Name /\ b \in homes[o.name] /\ IsFiniteSet(homes[o.name])
    BY TypeFacts DEF IInv, PlaceInv
  <2>2. homes[o.name] = {b}
    BY <2>1, FS_Singleton
  <2> QED
    BY <2>2 DEF IInv, OrphanInv
<1> QED
  BY <1>1, RoutingInitial, RoutingInductive, PTL DEF Spec

\* A snapshot is on the array that has the volume it is of, as long as there is one.
THEOREM SnapshotsFollow == Spec => []SnapshotWithSource
<1>1. IInv => SnapshotWithSource
  BY DEF IInv, SnapshotInv, WithSource, SnapshotWithSource
<1> QED
  BY <1>1, RoutingInitial, RoutingInductive, PTL DEF Spec

\* The validator and volumedriver_create agree on what a set of options asks for, for any
\* set of options: what is validated is neither refused by its names nor taken for another
\* operation, but for an empty replicationGroup, which creates an ordinary volume.
THEOREM OptionsAgree ==
  ASSUME NEW opts, ValidNames(opts), NEW v \in {"good", "empty"}
  PROVE  /\ ~NamesRefused(opts)
         /\ Branch([o \in opts |-> v]) =
              IF v = "empty" /\ Operation(opts) = "replicated" THEN "create" ELSE Operation(opts)
BY NamesAccepted, BranchAgrees
=============================================================================
