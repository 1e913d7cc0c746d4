------------------------------ MODULE BackendRouting ------------------------------
(***************************************************************************)
(* Which array a request ends up on: the managers of the backends, which   *)
(* threads initialize while requests come in, the cache of the backends of *)
(* volumes and shares that each plugin fills from etcd, and the requests   *)
(* that are deferred to a thread once their backend is known               *)
(* (backend_orchestrator.py, file_backend_orchestrator.py,                 *)
(* backend_async_initializer.py).                                          *)
(*                                                                         *)
(* What a manager does under the lock of the name is one step here;        *)
(* VolumeLifecycle, VolumeCreate and ShareLifecycle take it apart.         *)
(***************************************************************************)
EXTENDS RequestOptions

CONSTANTS
  Node,    \* nodes that run the plugin
  Name,    \* names that Docker uses, of a volume or of a share
  Request, \* the options of the requests to create one
  NoName,  \* no parent, no record, no entry in a cache
  Limit    \* how often each kind of event below may happen

\* A request to create, one to remove, one that only looks a volume up or mounts it; and
\* a fault: a manager that cannot be made, or a restart of a plugin.
Event == {"create", "remove", "lookup", "fault"}

Backend == Block \union File

VARIABLES
  state,  \* backend_state of each backend's manager on each node
  cache,  \* volume_backends_map of each node's two orchestrators
  record, \* the record in etcd of a volume or share
  array,  \* what is on the array of each backend
  queue,  \* deferred requests, with the backend they were resolved to
  homes,  \* backends on which a name has ever been created
  used    \* how many events of each kind have happened

vars == <<state, cache, record, array, queue, homes, used>>

-----------------------------------------------------------------------------
Driver == {"block", "file"}

DefaultFor(d) ==
  IF d = "block" THEN DefaultOf(Block, "DEFAULT_BLOCK") ELSE DefaultOf(File, "DEFAULT_FILE")

\* The id in a record is the array's name for it: here, how many were created before.
Object == [name : Name, id : Nat]

\* A volume of a release before there were backends has none in its record.
Record == [id : Nat, backend : Backend \union {"none"}, parent : Name \union {NoName}]

ASSUME RoutingAssumption ==
  /\ NoName \notin Name \union Record
  /\ Limit \in [Event -> Nat]

\* The removal of a share takes along the record it was routed by.
Job == [node : Node, op : {"remove", "snapshot"}, name : Name, id : Nat,
        source : Name \union {NoName}, via : Backend]

TypeOK ==
  /\ state \in [Node -> [Backend -> {"INITIALIZING", "OK", "FAILED"}]]
  /\ cache \in [Node -> [Driver -> [Name -> Backend \union {"none"}]]]
  /\ record \in [Name -> Record \union {NoName}]
  /\ array \in [Backend -> SUBSET Object]
  /\ queue \subseteq Job
  /\ homes \in [Name -> SUBSET Backend]
  /\ used \in [Event -> Nat]
  /\ \A e \in Event : used[e] <= Limit[e]

NoManager == [b \in Backend |-> "INITIALIZING"]
NoCache == [d \in Driver |-> [x \in Name |-> "none"]]

\* There may be a volume from before.
Init ==
  /\ state = [n \in Node |-> NoManager]
  /\ cache = [n \in Node |-> NoCache]
  /\ \E old \in {{}} \union {{x} : x \in Name} :
       /\ record = [x \in Name |->
            IF x \in old THEN [id |-> 0, backend |-> "none", parent |-> NoName] ELSE NoName]
       /\ array = [b \in Backend |->
            IF b = DefaultFor("block") THEN {[name |-> x, id |-> 0] : x \in old} ELSE {}]
       /\ homes = [x \in Name |-> IF x \in old THEN {DefaultFor("block")} ELSE {}]
  /\ queue = {}
  /\ used = [e \in Event |-> 0]

-----------------------------------------------------------------------------
Spend(e) == used[e] < Limit[e] /\ used' = [used EXCEPT ![e] = @ + 1]

Answer == [r \in Request |-> Outcome(r)]

Exists(x) == record[x] # NoName

\* The router asks the shares first.
DriverOf(x) == IF Exists(x) /\ record[x].backend \in File THEN "file" ELSE "block"

\* get_meta_data_by_name of an orchestrator finds no record of the other's.
Recorded(d, x) == IF Exists(x) /\ DriverOf(x) = d THEN record[x].backend ELSE "none"

\* get_volume_backend_details: the cache before the record.
Known(n, d, x) == IF cache[n][d][x] # "none" THEN cache[n][d][x] ELSE Recorded(d, x)

\* A bug to be noticed: nothing but the default backend is ever used.
ResolveDefault(n, d, x) == DefaultFor(d)

\* A bug to be noticed: there is no backend for what is not known.
ResolveKnown(n, d, x) == Known(n, d, x)

\* What is not known goes to the default backend, and not into the cache.
Resolve(n, d, x) == IF Known(n, d, x) # "none" THEN Known(n, d, x) ELSE DefaultFor(d)

AddCacheEntry(n, d, x) == cache' = [cache EXCEPT ![n][d][x] = Known(n, d, x)]

\* _execute_request_for_backend answers with an error unless there is a manager.
Initialized(n, b) == state[n][b] = "OK"

-----------------------------------------------------------------------------
\* BackendInitializerThread replaces the entry, with a manager or with none.
Initialize(n, b) ==
  /\ state[n][b] = "INITIALIZING"
  /\ \/ state' = [state EXCEPT ![n][b] = "OK"] /\ UNCHANGED used
     \/ state' = [state EXCEPT ![n][b] = "FAILED"] /\ Spend("fault")
  /\ UNCHANGED <<cache, record, array, queue, homes>>

Save(x, id, b, parent) ==
  /\ record' = [record EXCEPT ![x] = [id |-> id, backend |-> b, parent |-> parent]]
  /\ array' = [array EXCEPT ![b] = @ \union {[name |-> x, id |-> id]}]
  /\ homes' = [homes EXCEPT ![x] = @ \union {b}]

\* Creation and import are not deferred; an import adds its cache entry by the record.
Create(n, x, r) ==
  LET o == Answer[r]
  IN /\ o.op \in {"create", "replicated", "share", "import"}
     /\ ~Exists(x) /\ Initialized(n, o.backend)
     /\ Spend("create")
     /\ Save(x, used'["create"], o.backend, NoName)
     /\ cache' = IF o.op = "import" THEN [cache EXCEPT ![n]["block"][x] = o.backend] ELSE cache
     /\ UNCHANGED <<state, queue>>

Defer(n, op, x, id, source, via) ==
  queue' = queue \union
    {[node |-> n, op |-> op, name |-> x, id |-> id, source |-> source, via |-> via]}

\* A snapshot, with a schedule or without, goes to the backend of its source.
CreateSnapshot(n, x, source, r) ==
  /\ Answer[r].op \in {"snapshot", "schedule"}
  /\ ~Exists(x)
  /\ Spend("create")
  /\ Defer(n, "snapshot", x, used'["create"], source, Resolve(n, "block", source))
  /\ AddCacheEntry(n, "block", source)
  /\ UNCHANGED <<state, record, array, homes>>

\* Docker asks to remove what it has just found.  The entry of a volume leaves the cache
\* when its removal has been deferred, whether or not that has run; a share's stays.
Remove(n, x) ==
  LET d == DriverOf(x)
  IN /\ Exists(x)
     /\ Spend("remove")
     /\ Defer(n, "remove", x, IF d = "file" THEN record[x].id ELSE 0, NoName, Resolve(n, d, x))
     /\ IF d = "file" THEN AddCacheEntry(n, d, x)
                      ELSE cache' = [cache EXCEPT ![n][d][x] = "none"]
     /\ UNCHANGED <<state, record, array, homes>>

\* Mount, unmount, path and inspection, of which only the cache entry matters here.
Lookup(n, x) ==
  /\ Spend("lookup")
  /\ AddCacheEntry(n, DriverOf(x), x)
  /\ UNCHANGED <<state, record, array, queue, homes>>

-----------------------------------------------------------------------------
Finish(j) == queue' = queue \ {j} /\ UNCHANGED <<state, cache, used>>

HasSnapshots(x) == \E s \in Name : Exists(s) /\ record[s].parent = x

\* A bug to be noticed: a snapshot is recorded though the array does not have its volume.
CanSnapshotUnseen(j) ==
  /\ Initialized(j.node, j.via)
  /\ Exists(j.source) /\ DriverOf(j.source) = "block" /\ record[j.source].parent = NoName
  /\ ~Exists(j.name)

\* create_snapshot of the manager: not of a snapshot, and not over anything.
CanSnapshot(j) ==
  /\ Initialized(j.node, j.via)
  /\ Exists(j.source) /\ DriverOf(j.source) = "block" /\ record[j.source].parent = NoName
  /\ [name |-> j.source, id |-> record[j.source].id] \in array[j.via]
  /\ ~Exists(j.name)

RunSnapshot(j) ==
  /\ j.op = "snapshot" /\ CanSnapshot(j)
  /\ Save(j.name, j.id, j.via, j.source)
  /\ Finish(j)

\* remove_volume reads the record again.  What is not on the array is as good as deleted.
RunRemoveVolume(j) ==
  /\ j.op = "remove" /\ j.via \in Block /\ Initialized(j.node, j.via)
  /\ Exists(j.name) /\ DriverOf(j.name) = "block" /\ ~HasSnapshots(j.name)
  /\ array' = [array EXCEPT ![j.via] = @ \ {[name |-> j.name, id |-> record[j.name].id]}]
  /\ record' = [record EXCEPT ![j.name] = NoName]
  /\ UNCHANGED homes
  /\ Finish(j)

\* remove_share does not; nor does it care whether there is a record to delete.
RunRemoveShare(j) ==
  /\ j.op = "remove" /\ j.via \in File /\ Initialized(j.node, j.via)
  /\ array' = [array EXCEPT ![j.via] = @ \ {[name |-> j.name, id |-> j.id]}]
  /\ record' = [record EXCEPT ![j.name] = IF DriverOf(j.name) = "file" THEN NoName ELSE @]
  /\ UNCHANGED homes
  /\ Finish(j)

\* The error goes into the answer.
RunRefused(j) ==
  /\ CASE j.op = "snapshot" -> ~CanSnapshot(j)
       [] j.op = "remove" /\ j.via \in File -> ~Initialized(j.node, j.via)
       [] OTHER -> \/ ~Initialized(j.node, j.via)
                   \/ ~Exists(j.name) \/ DriverOf(j.name) = "file" \/ HasSnapshots(j.name)
  /\ UNCHANGED <<record, array, homes>>
  /\ Finish(j)

\* The plugin starts again: its requests and what it had in memory are gone.
Restart(n) ==
  /\ Spend("fault")
  /\ state' = [state EXCEPT ![n] = NoManager]
  /\ cache' = [cache EXCEPT ![n] = NoCache]
  /\ queue' = {j \in queue : j.node # n}
  /\ UNCHANGED <<record, array, homes>>

-----------------------------------------------------------------------------
Next ==
  \/ \E n \in Node, b \in Backend : Initialize(n, b)
  \/ \E n \in Node, x \in Name :
       \/ \E r \in Request : Create(n, x, r)
       \/ \E r \in Request, y \in Name \ {x} : CreateSnapshot(n, x, y, r)
       \/ Remove(n, x) \/ Lookup(n, x)
  \/ \E j \in queue :
       RunSnapshot(j) \/ RunRemoveVolume(j) \/ RunRemoveShare(j) \/ RunRefused(j)
  \/ \E n \in Node : Restart(n)

Spec == Init /\ [][Next]_vars

-----------------------------------------------------------------------------
\* As long as a name has been used on one backend only, nothing is left on an array that
\* has no record any more, whichever node removes it, through whatever cache, and
\* however often plugins start again; shares too, unless two removals overlap
\* (get_volume_backend_details, volumedriver_remove).
NoOrphan ==
  \A b \in Backend : \A o \in array[b] :
    /\ Cardinality(homes[o.name]) = 1
    /\ b \in Block \/ used["remove"] <= 1
    => Exists(o.name) /\ record[o.name].id = o.id

\* A snapshot is on the backend of its volume, though the cache that its request was
\* resolved by may be stale (create_snapshot).
SnapshotWithSource ==
  \A s \in Name :
    Exists(s) /\ record[s].parent # NoName =>
      LET source == record[s].parent
      IN /\ Exists(source)
         /\ [name |-> source, id |-> record[source].id] \in array[record[s].backend]

\* docs/multi-array-feature.md: "docker volume rm <vol> will query the backend
\* automatically and remove that volume from the backend where it was created."
RemovedWhereCreated ==
  \A b \in Block : \A o \in array[b] : Exists(o.name) /\ record[o.name].id = o.id
=============================================================================
