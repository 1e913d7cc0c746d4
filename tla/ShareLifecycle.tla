---------------------------- MODULE ShareLifecycle ----------------------------
(***************************************************************************)
(* How file shares come and go: the thread of create_share, with its       *)
(* commands and their undo (file_manager.py, cmd/), and DeleteShareCmd,    *)
(* with the thread that it leaves behind.  Every call to etcd or to the    *)
(* array is an action of its own, in the order of the code; what the code  *)
(* does under the lock of the backend's metadata is one action, as nobody  *)
(* else may be at these metadata meanwhile.                                *)
(*                                                                         *)
(* Sizes are not modelled: whether an FPG has room for a share is a        *)
(* choice.  Nor is the mounting of shares: a share may be found mounted.   *)
(* The lease of a live holder is long enough here; Synchronization has     *)
(* what happens otherwise.                                                 *)
(***************************************************************************)
EXTENDS Naturals, Sequences

CONSTANTS
  Call,        \* threads that serve one request each, on any node
  Share,       \* names of shares
  Cpg,         \* CPGs of the array
  Fpg,         \* names of FPGs
  DefaultName, \* the names DockerFpg_<counter>, in any order
  Ip,          \* addresses of virtual file servers
  Pool,        \* those of hpe3par_server_ip_pool
  Request,     \* the requests that may come in
  Stock,       \* the FPGs there are in the beginning
  Past,        \* the calls that made the shares there are in the beginning
  PastRequest, \* what those calls did
  PastFpg,     \* the FPG each of them used
  None,        \* nothing
  NoVfs,       \* FPG metadata without a VFS
  Free,        \* nobody holds the lock
  Failures     \* how many calls to etcd or the array raise, and plugins die

\* A create request without an "fpg" leaves the choice to the plugin.  Which CPG and
\* FPG a share to be removed is on, its record tells.
RequestType ==
  [op : {"create"}, share : Share, cpg : Cpg, fpg : Fpg \union {None}]
    \union [op : {"remove"}, share : Share, cpg : {None}, fpg : {None}]

ASSUME ShareAssumption ==
  /\ DefaultName \subseteq Fpg /\ Pool \subseteq Ip
  /\ Request \subseteq RequestType
  /\ DOMAIN Stock \subseteq Fpg
  /\ \A f \in DOMAIN Stock : Stock[f] \in [cpg : Cpg, ip : Ip, owned : BOOLEAN]
  /\ \A f, g \in DOMAIN Stock : f # g => Stock[f].ip # Stock[g].ip
  /\ Past \subseteq Call
  /\ PastRequest \in [Past -> {r \in RequestType : r.op = "create"}]
  /\ \A c, d \in Past : c # d => PastRequest[c].share # PastRequest[d].share
  /\ PastFpg \in [Past -> DOMAIN Stock]
  /\ \A c \in Past : PastRequest[c].cpg = Stock[PastFpg[c]].cpg
  /\ None \notin Call \union Cpg \union Fpg \union Ip \union RequestType
  /\ NoVfs \notin Ip \union {None} /\ Free \notin Call
  /\ Failures \in Nat

VARIABLES
  req,      \* the request each call serves
  pc,       \* where it is
  view,     \* share_args of a creation, share_info of a removal
  todo,     \* the default FPGs that a creation has still to try
  target,   \* the FPG a creation makes, from when its name is known
  made,     \* undo_cmds, without CreateVfsCmd, which undoes nothing
  lock,     \* holders of the etcd locks
  rec,      \* the record of each share in etcd
  meta,     \* the FPG metadata: None, NoVfs or the address of the VFS
  defaults, \* default_fpgs of the backend's metadata
  locked,   \* ips_locked_for_use
  inUse,    \* how many times each address is in ips_in_use
  drawn,    \* the names the counter has gone past
  fpgs,     \* the FPGs on the array, each with its CPG
  vfs,      \* the address of each FPG's VFS on the array
  exports,  \* the shares on the array, by the call that made them and their FPG
  stores,   \* the file stores on the array
  failures  \* how many there have been

call == <<req, view, todo, target, made>>
ips == <<locked, inUse>>
array == <<fpgs, vfs, exports, stores>>
vars == <<call, pc, lock, rec, meta, defaults, ips, drawn, array, failures>>

-----------------------------------------------------------------------------
\* "made" and "failed" are the ends of a creation that are meant to be; "broken" is an
\* exception on its error path that ended the thread; "done" is anything else.
Point ==
  {"idle", "enter", "init", "getter", "pick", "draw", "fpg", "default", "fpg_meta",
   "claim", "vfs", "vfs_meta", "mark", "create", "save_id", "quota", "finish", "fail",
   "undo_share", "undo_store", "undo_ip", "undo_fpg", "undo_default", "undo_meta",
   "delete_share", "forget", "mark_failed", "store", "count", "owned", "delete_fpg",
   "forget_fpg", "release", "made", "failed", "broken", "done", "dead"}

Final == {"made", "failed", "broken", "done", "dead"}

Record == [status : {"CREATING", "AVAILABLE", "FAILED"}, cpg : Cpg \union {None},
           fpg : Fpg \union {None}, ip : Ip \union {None},
           id : (Call \X Fpg) \union {None}]

NoRecord == [status |-> "CREATING", cpg |-> None, fpg |-> None, ip |-> None, id |-> None]

\* No record is taken for the lack of one.
ASSUME RecordAssumption == None \notin Record

ShareLock(s) == <<"share", s>>
CpgLock(g) == <<"cpg", g>>
FpgLock(g, f) == <<"fpg", g, f>>

Key == {ShareLock(s) : s \in Share} \union {CpgLock(g) : g \in Cpg}
         \union {FpgLock(g, f) : g \in Cpg, f \in Fpg}

TypeOK ==
  /\ req \in [Call -> RequestType \union {None}]
  /\ pc \in [Call -> Point]
  /\ view \in [Call -> Record]
  /\ todo \in [Call -> SUBSET Fpg]
  /\ target \in [Call -> Fpg \union {None}]
  /\ made \in [Call -> Seq({"fpg", "ip", "share"})]
  /\ lock \in [Key -> Call \union {Free}]
  /\ rec \in [Share -> Record \union {None}]
  /\ meta \in [Cpg \X Fpg -> Ip \union {NoVfs, None}]
  /\ defaults \in [Cpg -> SUBSET Fpg]
  /\ locked \subseteq Pool
  /\ inUse \in [Ip -> Nat]
  /\ drawn \subseteq DefaultName
  /\ fpgs \in [Fpg -> Cpg \union {None}]
  /\ vfs \in [Fpg -> Ip \union {None}]
  /\ \A f \in Fpg : vfs[f] # None => fpgs[f] # None
  /\ exports \subseteq Call \X Fpg
  /\ stores \subseteq Fpg \X Share
  /\ \A e \in exports : vfs[e[2]] # None
  /\ \A e \in stores : vfs[e[1]] # None
  /\ failures \in 0 .. Failures

Owned(g) == {f \in DOMAIN Stock : Stock[f].cpg = g /\ Stock[f].owned}

\* The FPGs of the beginning that are not owned were made by an administrator.
Init ==
  /\ req = [c \in Call |-> IF c \in Past THEN PastRequest[c] ELSE None]
  /\ pc = [c \in Call |-> IF c \in Past THEN "made" ELSE "idle"]
  /\ view = [c \in Call |-> NoRecord]
  /\ todo = [c \in Call |-> {}]
  /\ target = [c \in Call |-> None]
  /\ made = [c \in Call |-> <<>>]
  /\ lock = [k \in Key |-> Free]
  /\ rec = [s \in Share |->
       IF \E c \in Past : PastRequest[c].share = s
         THEN LET c == CHOOSE d \in Past : PastRequest[d].share = s
                  f == PastFpg[c]
              IN [status |-> "AVAILABLE", cpg |-> Stock[f].cpg, fpg |-> f,
                  ip |-> Stock[f].ip, id |-> <<c, f>>]
         ELSE None]
  /\ meta = [p \in Cpg \X Fpg |-> IF p[2] \in Owned(p[1]) THEN Stock[p[2]].ip ELSE None]
  /\ defaults = [g \in Cpg |-> Owned(g) \intersect DefaultName]
  /\ locked = {}
  /\ inUse = [a \in Ip |->
       IF \E f \in DOMAIN Stock : Stock[f].owned /\ Stock[f].ip = a THEN 1 ELSE 0]
  /\ drawn = DOMAIN Stock \intersect DefaultName
  /\ fpgs = [f \in Fpg |-> IF f \in DOMAIN Stock THEN Stock[f].cpg ELSE None]
  /\ vfs = [f \in Fpg |-> IF f \in DOMAIN Stock THEN Stock[f].ip ELSE None]
  /\ exports = {<<c, PastFpg[c]>> : c \in Past}
  /\ stores = {<<PastFpg[c], PastRequest[c].share>> : c \in Past}
  /\ failures = 0

-----------------------------------------------------------------------------
Fault == failures < Failures /\ failures' = failures + 1

At(c, p) == pc[c] = p

GoTo(c, p) == pc' = [pc EXCEPT ![c] = p]

Acquire(c, k) == lock[k] = Free /\ lock' = [lock EXCEPT ![k] = c]

\* The finally clauses and the with statements release what the call holds.
End(c, p) ==
  /\ GoTo(c, p)
  /\ lock' = [k \in Key |-> IF lock[k] = c THEN Free ELSE lock[k]]

\* An exception that reaches the handler of _create_share, which holds only the lock
\* of the share; on its way _create_share_on_fpg turns it into ShareCreationFailed.
Fail(c) ==
  /\ GoTo(c, "fail")
  /\ lock' = [k \in Key |->
       IF lock[k] = c /\ k # ShareLock(req[c].share) THEN Free ELSE lock[k]]

MyShare(c) == req[c].share
MyCpg(c) == req[c].cpg
MyFpg(c) == view[c].fpg
Default(c) == req[c].fpg = None

-----------------------------------------------------------------------------
(* Requests come in *)

\* VolumeDriver.Create answers at once when there is a record of the name.
ReceiveCreate(c, r) ==
  /\ At(c, "idle") /\ r.op = "create"
  /\ req' = [req EXCEPT ![c] = r]
  /\ view' = [view EXCEPT ![c] = [NoRecord EXCEPT !.cpg = r.cpg, !.fpg = r.fpg]]
  /\ target' = [target EXCEPT ![c] = r.fpg]
  /\ GoTo(c, IF rec[r.share] = None THEN "enter" ELSE "done")
  /\ UNCHANGED <<todo, made, lock, rec, meta, defaults, ips, drawn, array, failures>>

\* A bug to be noticed: the record is passed on without a look at it.
ReceiveRemoveUnread(c, r) ==
  /\ At(c, "idle") /\ r.op = "remove"
  /\ req' = [req EXCEPT ![c] = r]
  /\ view' = [view EXCEPT ![c] = rec[r.share]]
  /\ GoTo(c, "delete_share")
  /\ UNCHANGED <<todo, target, made, lock, rec, meta, defaults, ips, drawn, array, failures>>

\* route_remove_request reads the record under the share's lock, but the removal runs
\* on a thread of its own, which goes by that record.  It refuses a share in CREATING,
\* and one that is mounted; of a FAILED one it only deletes the record.  If the lock is
\* not to be had, Docker is told that the share is removed.
ReceiveRemove(c, r) ==
  LET old == rec[r.share] IN
  /\ At(c, "idle") /\ r.op = "remove"
  /\ req' = [req EXCEPT ![c] = r]
  /\ IF lock[ShareLock(r.share)] # Free \/ old = None \/ old.status = "CREATING"
       THEN GoTo(c, "done") /\ UNCHANGED view
       ELSE /\ view' = [view EXCEPT ![c] = old]
            /\ \/ GoTo(c, IF old.status = "FAILED" THEN "forget" ELSE "delete_share")
               \/ old.status = "AVAILABLE" /\ GoTo(c, "done")
  /\ UNCHANGED <<todo, target, made, lock, rec, meta, defaults, ips, drawn, array, failures>>

-----------------------------------------------------------------------------
(* _create_share up to the choice of an FPG *)

\* Under the lock of the share, _create_share looks for the record again.
Enter(c) ==
  /\ At(c, "enter")
  /\ lock[ShareLock(MyShare(c))] = Free
  /\ IF rec[MyShare(c)] = None
       THEN Acquire(c, ShareLock(MyShare(c))) /\ GoTo(c, "init")
       ELSE GoTo(c, "done") /\ UNCHANGED lock
  /\ UNCHANGED <<call, rec, meta, defaults, ips, drawn, array, failures>>

\* InitializeShareCmd, under the lock of the CPG.
InitializeShare(c) ==
  /\ At(c, "init")
  /\ Acquire(c, CpgLock(MyCpg(c)))
  /\ rec' = [rec EXCEPT ![MyShare(c)] = view[c]]
  /\ GoTo(c, "getter")
  /\ UNCHANGED <<call, meta, defaults, ips, drawn, array, failures>>

Use(c, f, a) ==
  /\ view' = [view EXCEPT ![c].fpg = f, ![c].ip = a]
  /\ GoTo(c, "create")

\* _get_existing_fpg: an FPG that is not on the array is made; one that is not in etcd
\* is a legacy FPG, which must be of the CPG given.  It fails where it lacks room.
GetExistingFpg(c) ==
  LET f == req[c].fpg
      known == meta[<<MyCpg(c), f>>]
  IN
  /\ At(c, "getter") /\ ~Default(c)
  /\ \/ fpgs[f] = None /\ GoTo(c, "fpg") /\ UNCHANGED <<view, lock>>
     \/ fpgs[f] # None /\ Fail(c) /\ UNCHANGED view
     \/ /\ fpgs[f] # None
        /\ \/ known \in Ip /\ Use(c, f, known)
           \/ known = None /\ fpgs[f] = MyCpg(c) /\ vfs[f] # None /\ Use(c, f, vfs[f])
        /\ UNCHANGED lock
  /\ UNCHANGED <<req, todo, target, made, rec, meta, defaults, ips, drawn, array, failures>>

\* _get_current_default_fpg_name reads the list once, without the backend's lock.
GetDefaultFpgs(c) ==
  /\ At(c, "getter") /\ Default(c)
  /\ todo' = [todo EXCEPT ![c] = defaults[MyCpg(c)]]
  /\ GoTo(c, "pick")
  /\ UNCHANGED <<req, view, target, made, lock, rec, meta, defaults, ips, drawn, array, failures>>

\* _get_default_available_fpg passes over an FPG that is gone or lacks room, and
\* raises at one that has no VFS.
PickDefaultFpg(c) ==
  /\ At(c, "pick")
  /\ \/ /\ todo[c] = {}
        /\ GoTo(c, "draw")
        /\ UNCHANGED <<view, todo, lock>>
     \/ \E f \in todo[c] :
          /\ todo' = [todo EXCEPT ![c] = @ \ {f}]
          /\ \/ GoTo(c, "pick") /\ UNCHANGED <<view, lock>>
             \/ vfs[f] # None /\ Use(c, f, vfs[f]) /\ UNCHANGED lock
             \/ fpgs[f] # None /\ vfs[f] = None /\ Fail(c) /\ UNCHANGED view
  /\ UNCHANGED <<req, target, made, rec, meta, defaults, ips, drawn, array, failures>>

-----------------------------------------------------------------------------
(* A new FPG with its VFS *)

\* GenerateFpgVfsNamesCmd; a backend without metadata is one whose metadata are empty.
DrawName(c) ==
  /\ At(c, "draw")
  /\ \E f \in DefaultName \ drawn :
       /\ drawn' = drawn \union {f}
       /\ target' = [target EXCEPT ![c] = f]
  /\ GoTo(c, "fpg")
  /\ UNCHANGED <<req, view, todo, made, lock, rec, meta, defaults, ips, array, failures>>

\* CreateFpgCmd, the array first.  If the name is taken, a default FPG gets another.
CreateFpg(c) ==
  LET f == target[c] IN
  /\ At(c, "fpg")
  /\ lock[FpgLock(MyCpg(c), f)] = Free
  /\ \/ /\ fpgs[f] = None
        /\ Acquire(c, FpgLock(MyCpg(c), f))
        /\ fpgs' = [fpgs EXCEPT ![f] = MyCpg(c)]
        /\ GoTo(c, IF Default(c) THEN "default" ELSE "fpg_meta")
     \/ /\ fpgs[f] # None
        /\ IF Default(c) THEN GoTo(c, "draw") /\ UNCHANGED lock ELSE Fail(c)
        /\ UNCHANGED fpgs
  /\ UNCHANGED <<call, rec, meta, defaults, ips, drawn, vfs, exports, stores, failures>>

AddToDefaultFpg(c) ==
  /\ At(c, "default")
  /\ defaults' = [defaults EXCEPT ![MyCpg(c)] = @ \union {target[c]}]
  /\ GoTo(c, "fpg_meta")
  /\ UNCHANGED <<call, lock, rec, meta, ips, drawn, array, failures>>

\* Only now is the command on the undo list, the lock released and share_args set.
SaveFpgMetadata(c) ==
  LET p == <<MyCpg(c), target[c]>> IN
  /\ At(c, "fpg_meta")
  /\ meta' = [meta EXCEPT ![p] = NoVfs]
  /\ lock' = [lock EXCEPT ![FpgLock(p[1], p[2])] = Free]
  /\ made' = [made EXCEPT ![c] = Append(@, "fpg")]
  /\ view' = [view EXCEPT ![c].fpg = target[c]]
  /\ GoTo(c, "claim")
  /\ UNCHANGED <<req, todo, target, rec, defaults, ips, drawn, array, failures>>

InUseOnArray == {vfs[f] : f \in Fpg} \ {None}

Claim(c, available) ==
  /\ At(c, "claim")
  /\ \/ \E a \in available :
          /\ locked' = locked \union {a}
          /\ view' = [view EXCEPT ![c].ip = a]
          /\ made' = [made EXCEPT ![c] = Append(@, "ip")]
          /\ GoTo(c, "vfs")
          /\ UNCHANGED lock
     \/ available = {} /\ Fail(c) /\ UNCHANGED <<view, made, locked>>
  /\ UNCHANGED <<req, todo, target, rec, meta, defaults, inUse, drawn, array, failures>>

\* A bug to be noticed: the addresses locked for other creations are not looked at.
ClaimUnlocked(c) == Claim(c, Pool \ InUseOnArray)

\* ClaimAvailableIPCmd: the addresses locked and those the array reports are taken.
ClaimAvailableIp(c) == Claim(c, Pool \ (InUseOnArray \union locked))

\* CreateVfsCmd, the array first; nothing undoes it, as it goes with its FPG.
CreateVfs(c) ==
  LET f == target[c] IN
  /\ At(c, "vfs")
  /\ IF fpgs[f] # None
       THEN vfs' = [vfs EXCEPT ![f] = view[c].ip] /\ GoTo(c, "vfs_meta") /\ UNCHANGED lock
       ELSE Fail(c) /\ UNCHANGED vfs
  /\ UNCHANGED <<call, rec, meta, defaults, ips, drawn, fpgs, exports, stores, failures>>

\* _update_fpg_metadata, under the lock of the FPG; it raises when they are gone.
UpdateFpgMetadata(c) ==
  LET p == <<MyCpg(c), target[c]>> IN
  /\ At(c, "vfs_meta")
  /\ lock[FpgLock(p[1], p[2])] = Free
  /\ IF meta[p] # None
       THEN meta' = [meta EXCEPT ![p] = view[c].ip] /\ GoTo(c, "mark") /\ UNCHANGED lock
       ELSE Fail(c) /\ UNCHANGED meta
  /\ UNCHANGED <<call, rec, defaults, ips, drawn, array, failures>>

\* A bug to be noticed: the address stays locked.
MarkOnly(c) ==
  /\ At(c, "mark")
  /\ inUse' = [inUse EXCEPT ![view[c].ip] = @ + 1]
  /\ GoTo(c, "create")
  /\ UNCHANGED <<call, lock, rec, meta, defaults, locked, drawn, array, failures>>

\* mark_ip_in_use; remove raises ValueError if the address is not in the list.
MarkIpInUse(c) ==
  LET a == view[c].ip IN
  /\ At(c, "mark")
  /\ IF a \in locked
       THEN /\ locked' = locked \ {a}
            /\ inUse' = [inUse EXCEPT ![a] = @ + 1]
            /\ GoTo(c, "create") /\ UNCHANGED lock
       ELSE Fail(c) /\ UNCHANGED ips
  /\ UNCHANGED <<call, rec, meta, defaults, drawn, array, failures>>

-----------------------------------------------------------------------------
(* The share and its quota *)

\* CreateShareCmd; with the share the array makes a file store of its name.
CreateShare(c) ==
  LET f == MyFpg(c) IN
  /\ At(c, "create")
  /\ IF vfs[f] # None
       THEN /\ exports' = exports \union {<<c, f>>}
            /\ stores' = stores \union {<<f, MyShare(c)>>}
            /\ view' = [view EXCEPT ![c].id = <<c, f>>]
            /\ GoTo(c, "save_id") /\ UNCHANGED lock
       ELSE Fail(c) /\ UNCHANGED <<view, exports, stores>>
  /\ UNCHANGED <<req, todo, target, made, rec, meta, defaults, ips, drawn, fpgs, vfs, failures>>

\* A bug to be noticed: CreateShareCmd leaves the share on the array.
SaveShareIdOnly(c) ==
  /\ At(c, "save_id")
  /\ \/ /\ rec' = [rec EXCEPT ![MyShare(c)] = view[c]]
        /\ made' = [made EXCEPT ![c] = Append(@, "share")]
        /\ GoTo(c, "quota")
        /\ UNCHANGED <<lock, failures>>
     \/ Fault /\ Fail(c) /\ UNCHANGED <<rec, made>>
  /\ UNCHANGED <<req, view, todo, target, meta, defaults, ips, drawn, array>>

\* If save_share raises, CreateShareCmd takes the share back itself.
SaveShareId(c) ==
  /\ At(c, "save_id")
  /\ \/ /\ rec' = [rec EXCEPT ![MyShare(c)] = view[c]]
        /\ made' = [made EXCEPT ![c] = Append(@, "share")]
        /\ GoTo(c, "quota")
        /\ UNCHANGED failures
     \/ Fault /\ GoTo(c, "undo_share") /\ UNCHANGED <<rec, made>>
  /\ UNCHANGED <<req, view, todo, target, lock, meta, defaults, ips, drawn, array>>

OnNewFpg(c) == \E i \in DOMAIN made[c] : made[c][i] = "fpg"

\* SetQuotaFailed: on an FPG that was there the share is undone and another FPG is
\* tried; on a new one it ends the creation.
QuotaFails(c) ==
  IF OnNewFpg(c) THEN Fail(c) ELSE GoTo(c, "undo_share") /\ UNCHANGED lock

SetQuota(c) ==
  /\ At(c, "quota")
  /\ \/ vfs[MyFpg(c)] # None /\ GoTo(c, "finish") /\ UNCHANGED <<lock, failures>>
     \/ vfs[MyFpg(c)] = None /\ QuotaFails(c) /\ UNCHANGED failures
     \/ Fault /\ QuotaFails(c)
  /\ UNCHANGED <<call, rec, meta, defaults, ips, drawn, array>>

\* _update_share_metadata writes back the record that is there.  When there is none,
\* EtcdMetadataNotFound is taken for that of an FPG, and a new one is made.
MakeAvailable(c) ==
  LET s == MyShare(c) IN
  /\ At(c, "finish")
  /\ \/ /\ rec[s] # None
        /\ rec' = [rec EXCEPT ![s].status = "AVAILABLE"]
        /\ End(c, "made")
        /\ UNCHANGED failures
     \/ /\ rec[s] = None
        /\ IF OnNewFpg(c) THEN Fail(c)
           ELSE GoTo(c, IF Default(c) THEN "draw" ELSE "fpg") /\ UNCHANGED lock
        /\ UNCHANGED <<rec, failures>>
     \/ Fault /\ (QuotaFails(c) \/ Fail(c)) /\ UNCHANGED rec
  /\ UNCHANGED <<call, meta, defaults, ips, drawn, array>>

\* Whatever else raises under the lock of the CPG.
CreationRaises(c) ==
  /\ pc[c] \in {"init", "getter", "pick", "draw", "fpg", "default", "fpg_meta", "claim",
                "vfs", "vfs_meta", "mark", "create"}
  /\ Fault
  /\ Fail(c)
  /\ UNCHANGED <<call, rec, meta, defaults, ips, drawn, array>>

-----------------------------------------------------------------------------
(* The error path *)

\* _unexecute goes through the undo commands in reverse.
UndoNext(c, undo) ==
  IF undo = <<>>
    THEN End(c, "failed")
    ELSE /\ GoTo(c, CASE undo[Len(undo)] = "share" -> "undo_share"
                      [] undo[Len(undo)] = "ip" -> "undo_ip"
                      [] undo[Len(undo)] = "fpg" -> "undo_fpg")
         /\ UNCHANGED lock

\* A bug to be noticed: everything is undone but the record.
UndoSilently(c) ==
  /\ At(c, "fail")
  /\ view' = [view EXCEPT ![c].status = "FAILED"]
  /\ UndoNext(c, made[c])
  /\ UNCHANGED <<req, todo, target, made, rec, meta, defaults, ips, drawn, array, failures>>

\* The record is marked first; if that raises, nothing is undone.
SaveFailed(c) ==
  /\ At(c, "fail")
  /\ \/ /\ view' = [view EXCEPT ![c].status = "FAILED"]
        /\ rec' = [rec EXCEPT ![MyShare(c)] = view'[c]]
        /\ UndoNext(c, made[c])
        /\ UNCHANGED failures
     \/ Fault /\ End(c, "broken") /\ UNCHANGED <<view, rec>>
  /\ UNCHANGED <<req, todo, target, made, meta, defaults, ips, drawn, array>>

\* An undo command that raises ends the others too: _unexecute does not catch it.
\* Before the record is marked, it makes the creation fail.
UndoRaises(c) ==
  /\ pc[c] \in {"undo_share", "undo_store", "undo_ip"}
  /\ Fault
  /\ IF view[c].status = "FAILED" THEN End(c, "broken") ELSE Fail(c)
  /\ UNCHANGED <<call, rec, meta, defaults, ips, drawn, array>>

\* delete_share takes a share that is not there for deleted.
UndoShare(c) ==
  /\ At(c, "undo_share")
  /\ exports' = exports \ {view[c].id}
  /\ GoTo(c, "undo_store")
  /\ UNCHANGED <<call, lock, rec, meta, defaults, ips, drawn, fpgs, vfs, stores, failures>>

Undone(c) == made' = [made EXCEPT ![c] = SubSeq(@, 1, Len(@) - 1)]

\* The end of CreateShareCmd.unexecute: on the error path; after SetQuotaFailed, when
\* the generator goes on to the next default FPG or raises; and in execute itself.
UndoStore(c) ==
  LET listed == made[c] # <<>> /\ made[c][Len(made[c])] = "share" IN
  /\ At(c, "undo_store")
  /\ stores' = stores \ {<<MyFpg(c), MyShare(c)>>}
  /\ IF listed THEN Undone(c) ELSE UNCHANGED made
  /\ CASE view[c].status = "FAILED" -> UndoNext(c, made'[c])
       [] view[c].status # "FAILED" /\ listed /\ Default(c) ->
            GoTo(c, "pick") /\ UNCHANGED lock
       [] OTHER -> Fail(c)
  /\ UNCHANGED <<req, view, todo, target, rec, meta, defaults, ips, drawn, fpgs, vfs,
                  exports, failures>>

\* ClaimAvailableIPCmd.unexecute
UndoIp(c) ==
  LET a == view[c].ip IN
  /\ At(c, "undo_ip")
  /\ locked' = locked \ {a}
  /\ inUse' = [inUse EXCEPT ![a] = IF @ > 0 THEN @ - 1 ELSE 0]
  /\ Undone(c)
  /\ UndoNext(c, made'[c])
  /\ UNCHANGED <<req, view, todo, target, rec, meta, defaults, drawn, array, failures>>

\* An FPG takes its VFS, file stores and shares with it.
DeleteFromArray(f) ==
  /\ fpgs' = [fpgs EXCEPT ![f] = None]
  /\ vfs' = [vfs EXCEPT ![f] = None]
  /\ exports' = {e \in exports : e[2] # f}
  /\ stores' = {e \in stores : e[1] # f}

\* CreateFpgCmd.unexecute, without any lock but the share's; it catches what is raised.
UndoFpg(c) ==
  /\ At(c, "undo_fpg")
  /\ \/ DeleteFromArray(target[c]) /\ UNCHANGED failures
     \/ Fault /\ UNCHANGED array
  /\ GoTo(c, IF Default(c) THEN "undo_default" ELSE "undo_meta")
  /\ UNCHANGED <<call, lock, rec, meta, defaults, ips, drawn>>

\* When the list of the CPG gets empty, _remove_as_default_fpg drops those of all CPGs.
UndoDefault(c) ==
  LET rest == defaults[MyCpg(c)] \ {target[c]} IN
  /\ At(c, "undo_default")
  /\ \/ /\ target[c] \in defaults[MyCpg(c)]
        /\ defaults' = IF rest = {} THEN [g \in Cpg |-> {}]
                       ELSE [defaults EXCEPT ![MyCpg(c)] = rest]
        /\ UNCHANGED failures
     \/ target[c] \notin defaults[MyCpg(c)] /\ UNCHANGED <<defaults, failures>>
     \/ Fault /\ UNCHANGED defaults
  /\ GoTo(c, "undo_meta")
  /\ UNCHANGED <<call, lock, rec, meta, ips, drawn, array>>

UndoMeta(c) ==
  /\ At(c, "undo_meta")
  /\ \/ meta' = [meta EXCEPT ![<<MyCpg(c), target[c]>>] = None] /\ UNCHANGED failures
     \/ Fault /\ UNCHANGED meta
  /\ Undone(c)
  /\ UndoNext(c, made'[c])
  /\ UNCHANGED <<req, view, todo, target, rec, defaults, ips, drawn, array>>

-----------------------------------------------------------------------------
(* DeleteShareCmd *)

\* Empties the share, which may fail, and deletes it on the array.
DeleteShare(c) ==
  /\ At(c, "delete_share")
  /\ exports' = exports \ {view[c].id}
  /\ GoTo(c, "forget")
  /\ UNCHANGED <<call, lock, rec, meta, defaults, ips, drawn, fpgs, vfs, stores, failures>>

\* _delete_share_from_etcd; for a share that had FAILED this is all.
DeleteShareRecord(c) ==
  LET s == MyShare(c) IN
  /\ At(c, "forget")
  /\ \/ /\ rec[s] # None
        /\ rec' = [rec EXCEPT ![s] = None]
        /\ IF view[c].status = "FAILED" THEN End(c, "done")
           ELSE GoTo(c, "store") /\ UNCHANGED lock
        /\ UNCHANGED failures
     \/ /\ (rec[s] = None /\ UNCHANGED failures) \/ Fault
        /\ GoTo(c, "mark_failed")
        /\ UNCHANGED <<lock, rec>>
  /\ UNCHANGED <<call, meta, defaults, ips, drawn, array>>

\* If that raised, the record is written again as FAILED; _delete_share_from_etcd then
\* returns None, which its caller cannot unpack, so that it ends with a TypeError.  It
\* goes on only if the record could not be written either.
MarkShareFailed(c) ==
  /\ At(c, "mark_failed")
  /\ \/ /\ rec' = [rec EXCEPT ![MyShare(c)] = [view[c] EXCEPT !.status = "FAILED"]]
        /\ End(c, "done")
        /\ UNCHANGED failures
     \/ /\ Fault
        /\ IF view[c].status = "FAILED" THEN End(c, "done")
           ELSE GoTo(c, "store") /\ UNCHANGED lock
        /\ UNCHANGED rec
  /\ UNCHANGED <<call, meta, defaults, ips, drawn, array>>

\* The thread: _delete_file_store catches everything.
DeleteFileStore(c) ==
  /\ At(c, "store")
  /\ \/ stores' = stores \ {<<MyFpg(c), MyShare(c)>>} /\ UNCHANGED failures
     \/ Fault /\ UNCHANGED stores
  /\ GoTo(c, "count")
  /\ UNCHANGED <<call, lock, rec, meta, defaults, ips, drawn, fpgs, vfs, exports>>

\* shares_present_on_fpg, under the lock of the FPG.
CountShares(c) ==
  LET k == FpgLock(view[c].cpg, MyFpg(c)) IN
  /\ At(c, "count")
  /\ lock[k] = Free
  /\ IF \E s \in Share : <<MyFpg(c), s>> \in stores
       THEN End(c, "done")
       ELSE Acquire(c, k) /\ GoTo(c, "owned")
  /\ UNCHANGED <<call, rec, meta, defaults, ips, drawn, array, failures>>

\* A bug to be noticed: the owner of the FPG is not looked at.
AssumeOwned(c) ==
  /\ At(c, "owned")
  /\ GoTo(c, "delete_fpg")
  /\ UNCHANGED <<call, lock, rec, meta, defaults, ips, drawn, array, failures>>

\* _fpg_owned_by_docker
CheckOwner(c) ==
  /\ At(c, "owned")
  /\ IF meta[<<view[c].cpg, MyFpg(c)>>] = None THEN End(c, "done")
     ELSE GoTo(c, "delete_fpg") /\ UNCHANGED lock
  /\ UNCHANGED <<call, rec, meta, defaults, ips, drawn, array, failures>>

DeleteFpg(c) ==
  /\ At(c, "delete_fpg")
  /\ DeleteFromArray(MyFpg(c))
  /\ GoTo(c, "forget_fpg")
  /\ UNCHANGED <<call, lock, rec, meta, defaults, ips, drawn, failures>>

\* It raises if the metadata are gone.
DeleteFpgMetadata(c) ==
  LET p == <<view[c].cpg, MyFpg(c)>> IN
  /\ At(c, "forget_fpg")
  /\ meta' = [meta EXCEPT ![p] = None]
  /\ IF meta[p] = None THEN End(c, "done") ELSE GoTo(c, "release") /\ UNCHANGED lock
  /\ UNCHANGED <<call, rec, defaults, ips, drawn, array, failures>>

\* _update_backend_metadata saves nothing if the address is not in ips_in_use, or if
\* there are default FPGs but none of this CPG.
ReleaseIp(c) ==
  LET a == view[c].ip
      g == view[c].cpg
      listed == \A h \in Cpg : defaults[h] # {} => defaults[g] # {}
  IN
  /\ At(c, "release")
  /\ IF inUse[a] > 0 /\ listed
       THEN /\ inUse' = [inUse EXCEPT ![a] = @ - 1]
            /\ defaults' = [defaults EXCEPT ![g] = @ \ {MyFpg(c)}]
       ELSE UNCHANGED <<inUse, defaults>>
  /\ End(c, "done")
  /\ UNCHANGED <<call, rec, meta, locked, drawn, array, failures>>

\* What raises in the command is answered; what raises in the thread ends it.
RemovalRaises(c) ==
  /\ pc[c] \in {"delete_share", "count", "owned", "delete_fpg", "forget_fpg", "release"}
  /\ Fault
  /\ End(c, "done")
  /\ UNCHANGED <<call, rec, meta, defaults, ips, drawn, array>>

-----------------------------------------------------------------------------
\* HPEPluginLockFailed: _create_share is not run and Docker has long been answered;
\* other creations fail, and the thread of a removal ends.
LockTimeout(c) ==
  /\ \/ At(c, "enter") /\ lock[ShareLock(MyShare(c))] # Free /\ End(c, "done")
     \/ At(c, "init") /\ lock[CpgLock(MyCpg(c))] # Free /\ Fail(c)
     \/ /\ At(c, "fpg") \/ At(c, "vfs_meta")
        /\ lock[FpgLock(MyCpg(c), target[c])] # Free
        /\ Fail(c)
     \/ At(c, "count") /\ lock[FpgLock(view[c].cpg, MyFpg(c))] # Free /\ End(c, "done")
  /\ UNCHANGED <<call, rec, meta, defaults, ips, drawn, array, failures>>

\* The plugin dies; the locks of its call stay until their lease is over.
Crash(c) ==
  /\ pc[c] \notin Final \union {"idle"}
  /\ Fault
  /\ GoTo(c, "dead")
  /\ UNCHANGED <<call, lock, rec, meta, defaults, ips, drawn, array>>

OrphanExpires(k) ==
  /\ lock[k] # Free
  /\ pc[lock[k]] = "dead"
  /\ lock' = [lock EXCEPT ![k] = Free]
  /\ UNCHANGED <<call, pc, rec, meta, defaults, ips, drawn, array, failures>>

Choosing(c) ==
  Enter(c) \/ InitializeShare(c) \/ GetExistingFpg(c) \/ GetDefaultFpgs(c)
    \/ PickDefaultFpg(c)

MakingFpg(c) ==
  DrawName(c) \/ CreateFpg(c) \/ AddToDefaultFpg(c) \/ SaveFpgMetadata(c)
    \/ ClaimAvailableIp(c) \/ CreateVfs(c) \/ UpdateFpgMetadata(c) \/ MarkIpInUse(c)

MakingShare(c) ==
  CreateShare(c) \/ SaveShareId(c) \/ SetQuota(c) \/ MakeAvailable(c) \/ CreationRaises(c)

Undoing(c) ==
  SaveFailed(c) \/ UndoRaises(c) \/ UndoShare(c) \/ UndoStore(c) \/ UndoIp(c)
    \/ UndoFpg(c) \/ UndoDefault(c) \/ UndoMeta(c)

Removing(c) ==
  DeleteShare(c) \/ DeleteShareRecord(c) \/ MarkShareFailed(c) \/ DeleteFileStore(c)
    \/ CountShares(c) \/ CheckOwner(c) \/ DeleteFpg(c) \/ DeleteFpgMetadata(c)
    \/ ReleaseIp(c) \/ RemovalRaises(c)

Next ==
  \/ \E c \in Call :
       \/ \E r \in Request : ReceiveCreate(c, r) \/ ReceiveRemove(c, r)
       \/ Choosing(c) \/ MakingFpg(c) \/ MakingShare(c) \/ Undoing(c) \/ Removing(c)
       \/ LockTimeout(c) \/ Crash(c)
  \/ \E k \in Key : OrphanExpires(k)

Spec == Init /\ [][Next]_vars

-----------------------------------------------------------------------------
Creates(c) == req[c] # None /\ req[c].op = "create"
Removes(c) == req[c] # None /\ req[c].op = "remove"

\* Creations on any nodes, whatever fails, never give two virtual file servers the same
\* address: ips_locked_for_use covers the time until the array reports the VFS, and the
\* undo of one creation does not set free what another one holds.
UniqueIps ==
  (\A c \in Call : ~Removes(c)) =>
    \A f, g \in Fpg : f # g /\ vfs[f] # None => vfs[f] # vfs[g]

\* No address is lost to the pool by a creation that ended as it is meant to, made or
\* failed: only a thread that died holds one for ever.
LockedIpsAccounted ==
  \A a \in locked :
    \E c \in Call :
      /\ view[c].ip = a
      /\ \E i \in DOMAIN made[c] : made[c][i] = "ip"
      /\ pc[c] \notin {"idle", "made", "failed", "done"}

\* An FPG that an administrator made stays, with its VFS, though shares are made on it
\* and removed, and FPGs of its name are asked for.
ForeignKept ==
  \A f \in DOMAIN Stock :
    ~Stock[f].owned => fpgs[f] = Stock[f].cpg /\ vfs[f] = Stock[f].ip

\* "Most likely nothing got created at the backend when share is not in AVAILABLE state"
\* (cmd_deleteshare.py), so that the removal of a FAILED share only deletes the record:
\* with one failure, and no removal of the name meanwhile, nothing is left exported.
FailedIsClean ==
  failures <= 1 =>
    \A e \in exports :
      pc[e[1]] = "failed" => \E c \in Call : Removes(c) /\ MyShare(c) = MyShare(e[1])

\* A share that is in CREATING, which cannot be removed, is being worked on, unless its
\* thread has died.
Settled ==
  \A s \in Share :
    rec[s] # None /\ rec[s].status = "CREATING" =>
      \E c \in Call : /\ Creates(c) /\ MyShare(c) = s
                      /\ pc[c] \notin {"idle", "made", "failed", "done"}
=============================================================================
