-------------------------------- MODULE ShareMount --------------------------------
(***************************************************************************)
(* How a share is mounted on the nodes whose containers use it             *)
(* (mount_share and unmount_share of file_manager.py), how it is removed   *)
(* when its record has no mount (remove_share), and what failures,         *)
(* crashes and reboots in between leave behind.                            *)
(*                                                                         *)
(* The router reads the record under the share's lock and releases that    *)
(* when the request has been deferred to a thread: requests overlap, and   *)
(* each saves the whole record as it read it.  clientIPs of the record     *)
(* lists the nodes of path_info and is left out.                           *)
(***************************************************************************)
EXTENDS Naturals, FiniteSets

CONSTANTS
  Container, \* containers that use the share, each known by its mount id
  Admin,     \* who may remove the share with "docker volume rm"
  Node,
  At,        \* the node of each container and administrator
  Owned,     \* whether the share has fsOwner and fsMode, to be set when it is mounted
  NoShare,   \* there is no record any more
  MaxRequests, MaxFailures

Client == Container \union Admin

ASSUME MountAssumption ==
  /\ Container \intersect Admin = {}
  /\ At \in [Client -> Node]
  /\ Owned \in BOOLEAN
  /\ {MaxRequests, MaxFailures} \subseteq Nat

Status == {"CREATING", "AVAILABLE", "FAILED"}

ASSUME NoShareAssumption == NoShare \notin [status : Status, paths : [Node -> SUBSET Container]]

VARIABLES
  share,     \* the record: status, and path_info with the mount ids of each node
  clients,   \* nodes that the array lets mount the share
  mounted,   \* nodes on which the share is at its mount directory
  perms,     \* mode and owner have been set
  data,      \* what is stored on the share: kept, removed with it, or lost
  use,       \* what each container does
  req,       \* the request of each client: operation, next step, the record as read
  disturbed, \* requests have overlapped, or an unmount or a reboot has left a stale record
  requests, failures

vars == <<share, clients, mounted, perms, data, use, req, disturbed, requests, failures>>

-----------------------------------------------------------------------------
Step == {"start", "client", "mount", "perms", "wipe", "umount", "rmdir", "forbid", "delete", "save"}

Record == [status : Status, paths : [Node -> SUBSET Container]]

Idle == [op |-> "none"]

TypeOK ==
  /\ share \in Record \union {NoShare}
  /\ clients \subseteq Node
  /\ mounted \subseteq Node
  /\ {perms, disturbed} \subseteq BOOLEAN
  /\ data \in {"kept", "removed", "lost"}
  /\ use \in [Container -> {"out", "asks", "in", "leaves"}]
  /\ req \in [Client -> {Idle} \union
                [op : {"mount", "unmount", "remove"}, step : Step, copy : Record]]
  /\ requests \in 0..MaxRequests
  /\ failures \in 0..MaxFailures

\* The share has been created, or is being, or its creation failed; nobody has used it.
Init ==
  /\ \E s \in Status : share = [status |-> s, paths |-> [n \in Node |-> {}]]
  /\ clients = {} /\ mounted = {}
  /\ perms = FALSE /\ data = "kept" /\ disturbed = FALSE
  /\ use = [c \in Container |-> "out"]
  /\ req = [c \in Client |-> Idle]
  /\ requests = 0 /\ failures = 0

-----------------------------------------------------------------------------
Active(c) == req[c] # Idle

Doing(c, op, step) == Active(c) /\ req[c].op = op /\ req[c].step = step

GoTo(c, step) == req' = [req EXCEPT ![c].step = step]

PathsHere(c) == req[c].copy.paths[At[c]]

\* A bug to be noticed: the list of ids is appended to itself.
WithList(c, ids) == [req[c].copy EXCEPT !.paths[At[c]] = {ids}]

With(c, ids) == [req[c].copy EXCEPT !.paths[At[c]] = ids]

\* Where a client's container is when its request has been answered.
Settle(c, u) == use' = IF c \in Container THEN [use EXCEPT ![c] = u] ELSE use

Answer(c, u) == req' = [req EXCEPT ![c] = Idle] /\ Settle(c, u)

World == <<share, clients, mounted, perms, data>>

Counters == <<disturbed, requests, failures>>

\* Docker mounts for a container that starts, unmounts when it ends, and removes a volume
\* that no container on the node uses.
MayAsk(c, op) ==
  CASE op = "mount" -> c \in Container /\ use[c] = "out"
    [] op = "unmount" -> c \in Container /\ use[c] = "in"
    [] op = "remove" -> /\ c \in Admin
                        /\ \A d \in Container : At[d] = At[c] => use[d] = "out"

\* route_mount_request, route_unmount_request, route_remove_request.
Receive(c, op) ==
  /\ ~Active(c) /\ MayAsk(c, op) /\ requests < MaxRequests
  /\ requests' = requests + 1
  /\ IF share = NoShare
     THEN Settle(c, "out") /\ UNCHANGED <<req, disturbed>>
     ELSE /\ req' = [req EXCEPT ![c] = [op |-> op, step |-> "start", copy |-> share]]
          /\ disturbed' = (disturbed \/ \E d \in Client : Active(d))
          /\ Settle(c, IF op = "mount" THEN "asks" ELSE "leaves")
  /\ UNCHANGED <<World, failures>>

-----------------------------------------------------------------------------
(* mount_share *)

Refuse(c) ==
  /\ Doing(c, "mount", "start") /\ req[c].copy.status # "AVAILABLE"
  /\ Answer(c, "out")
  /\ UNCHANGED <<World, Counters>>

\* It is mounted on this node already.
Join(c) ==
  /\ Doing(c, "mount", "start") /\ req[c].copy.status = "AVAILABLE"
  /\ PathsHere(c) # {}
  /\ share' = IF c \in PathsHere(c) THEN share ELSE With(c, PathsHere(c) \union {c})
  /\ Answer(c, "in")
  /\ UNCHANGED <<clients, mounted, perms, data, Counters>>

FirstOnNode(c) ==
  /\ Doing(c, "mount", "start") /\ req[c].copy.status = "AVAILABLE"
  /\ PathsHere(c) = {}
  /\ GoTo(c, "client")
  /\ UNCHANGED <<World, use, Counters>>

AllowClient(c) ==
  /\ \E op \in {"mount", "remove"} : Doing(c, op, "client")
  /\ clients' = clients \union {At[c]}
  /\ GoTo(c, "mount")
  /\ UNCHANGED <<share, mounted, perms, data, use, Counters>>

\* A bug to be noticed: the list of clients keeps those whose mount has failed.
FirstClient(c) == clients = {At[c]}

\* Only the first node to mount the share sets mode and owner.
FirstOfAll(c) == \A n \in Node : req[c].copy.paths[n] = {}

Mount(c) ==
  /\ \E op \in {"mount", "remove"} : Doing(c, op, "mount")
  /\ At[c] \notin mounted
  /\ mounted' = mounted \union {At[c]}
  /\ GoTo(c, CASE req[c].op = "remove" -> "wipe"
               [] req[c].op = "mount" /\ Owned /\ FirstOfAll(c) -> "perms"
               [] OTHER -> "save")
  /\ UNCHANGED <<share, clients, perms, data, use, Counters>>

\* NFS refuses to mount the share twice; a removal goes on without deleting its contents.
MountRefused(c) ==
  /\ At[c] \in mounted
  /\ \/ Doing(c, "mount", "mount") /\ Answer(c, "out")
     \/ Doing(c, "remove", "mount") /\ GoTo(c, "delete") /\ UNCHANGED use
  /\ UNCHANGED <<World, Counters>>

SetPermissions(c) ==
  /\ Doing(c, "mount", "perms")
  /\ perms' = TRUE
  /\ GoTo(c, "save")
  /\ UNCHANGED <<share, clients, mounted, data, use, Counters>>

\* set_ACL does not accept them: the share is unmounted again.
PermissionsRefused(c) ==
  /\ Doing(c, "mount", "perms") /\ failures < MaxFailures
  /\ failures' = failures + 1
  /\ GoTo(c, "umount")
  /\ UNCHANGED <<World, use, disturbed, requests>>

-----------------------------------------------------------------------------
(* unmount_share *)

NotThere(c) ==
  /\ Doing(c, "unmount", "start") /\ c \notin PathsHere(c)
  /\ Answer(c, "out")
  /\ UNCHANGED <<World, Counters>>

Leave(c) ==
  /\ Doing(c, "unmount", "start") /\ c \in PathsHere(c) /\ PathsHere(c) # {c}
  /\ share' = With(c, PathsHere(c) \ {c})
  /\ Answer(c, "out")
  /\ UNCHANGED <<clients, mounted, perms, data, Counters>>

\* A bug to be noticed: the share is unmounted though others on the node use it.
AnyOnNode(c) ==
  /\ Doing(c, "unmount", "start") /\ c \in PathsHere(c)
  /\ GoTo(c, "umount")
  /\ UNCHANGED <<World, use, Counters>>

LastOnNode(c) ==
  /\ Doing(c, "unmount", "start") /\ PathsHere(c) = {c}
  /\ GoTo(c, "umount")
  /\ UNCHANGED <<World, use, Counters>>

\* umount raises when nothing is mounted.
Umount(c) ==
  /\ \E op \in {"mount", "unmount", "remove"} : Doing(c, op, "umount")
  /\ mounted' = mounted \ {At[c]}
  /\ IF At[c] \in mounted THEN GoTo(c, "rmdir") /\ UNCHANGED use ELSE Answer(c, "out")
  /\ UNCHANGED <<share, clients, perms, data, Counters>>

\* "rm -rf" of the mount directory: it raises, too late, when the share is mounted again.
RemoveDir(c) ==
  /\ \E op \in {"mount", "unmount", "remove"} : Doing(c, op, "rmdir")
  /\ data' = IF At[c] \in mounted THEN "lost" ELSE data
  /\ IF At[c] \in mounted \/ req[c].op = "mount"
     THEN Answer(c, "out") ELSE GoTo(c, "forbid") /\ UNCHANGED use
  /\ UNCHANGED <<share, clients, mounted, perms, Counters>>

ForbidClient(c) ==
  /\ \E op \in {"unmount", "remove"} : Doing(c, op, "forbid")
  /\ clients' = clients \ {At[c]}
  /\ GoTo(c, IF req[c].op = "remove" THEN "delete" ELSE "save")
  /\ UNCHANGED <<share, mounted, perms, data, use, Counters>>

\* The whole record, as it was read when the request came.
SaveShare(c) ==
  /\ \/ /\ Doing(c, "mount", "save")
        /\ share' = With(c, {c}) /\ Answer(c, "in")
     \/ /\ Doing(c, "unmount", "save")
        /\ share' = With(c, {}) /\ Answer(c, "out")
  /\ UNCHANGED <<clients, mounted, perms, data, Counters>>

-----------------------------------------------------------------------------
(* remove_share and DeleteShareCmd *)

\* A bug to be noticed: only the node that removes the share is asked about.
NotMountedHere(c) == PathsHere(c) = {}

\* There is no path_info in the record as it was read.
NotMounted(c) == \A n \in Node : req[c].copy.paths[n] = {}

\* "Cannot delete share ... as it is in mounted state"
RefuseRemoval(c) ==
  /\ Doing(c, "remove", "start") /\ ~NotMounted(c)
  /\ Answer(c, "out")
  /\ UNCHANGED <<World, Counters>>

BeginRemoval(c) ==
  /\ Doing(c, "remove", "start") /\ NotMounted(c)
  /\ IF req[c].copy.status = "AVAILABLE"
     THEN GoTo(c, "client") /\ UNCHANGED <<share, use>>
     ELSE /\ share' = IF req[c].copy.status = "FAILED" THEN NoShare ELSE share
          /\ Answer(c, "out")
  /\ UNCHANGED <<clients, mounted, perms, data, Counters>>

WipeContents(c) ==
  /\ Doing(c, "remove", "wipe")
  /\ data' = "removed"
  /\ GoTo(c, "umount")
  /\ UNCHANGED <<share, clients, mounted, perms, use, Counters>>

\* A record that is gone already is saved again, as FAILED.
Delete(c) ==
  /\ Doing(c, "remove", "delete")
  /\ share' = IF share = NoShare THEN [req[c].copy EXCEPT !.status = "FAILED"] ELSE NoShare
  /\ data' = "removed"
  /\ Answer(c, "out")
  /\ UNCHANGED <<clients, mounted, perms, Counters>>

\* The share goes, but its record does not.
DeleteFails(c) ==
  /\ Doing(c, "remove", "delete") /\ failures < MaxFailures
  /\ failures' = failures + 1
  /\ share' = [req[c].copy EXCEPT !.status = "FAILED"] /\ data' = "removed"
  /\ Answer(c, "out")
  /\ UNCHANGED <<clients, mounted, perms, disturbed, requests>>

-----------------------------------------------------------------------------
\* The record names a mount that is not there any more.
HalfUnmounted(c) ==
  \E step \in {"rmdir", "forbid", "save"} : Doing(c, "unmount", step)

\* A call raises: the error goes into the answer, and what has been done stays.  What
\* raises before the contents of a removed share are wiped is only logged.
Raise(c) ==
  /\ Active(c) /\ failures < MaxFailures
  /\ failures' = failures + 1
  /\ disturbed' = (disturbed \/ HalfUnmounted(c))
  /\ IF \E step \in {"client", "mount"} : Doing(c, "remove", step)
     THEN GoTo(c, "delete") /\ UNCHANGED use ELSE Answer(c, "out")
  /\ UNCHANGED <<World, requests>>

Abandon(n) ==
  /\ failures < MaxFailures
  /\ failures' = failures + 1
  /\ req' = [c \in Client |-> IF At[c] = n THEN Idle ELSE req[c]]
  /\ UNCHANGED requests

\* The plugin dies: Docker gets no answer, and running containers keep the share.
Crash(n) ==
  /\ \E c \in Client : At[c] = n /\ Active(c)
  /\ Abandon(n)
  /\ disturbed' = (disturbed \/ \E c \in Client : At[c] = n /\ HalfUnmounted(c))
  /\ use' = [c \in Container |-> IF At[c] = n /\ Active(c) THEN "out" ELSE use[c]]
  /\ UNCHANGED World

\* Mounts do not outlast a reboot; the record does.
Reboot(n) ==
  /\ Abandon(n)
  /\ mounted' = mounted \ {n}
  /\ use' = [c \in Container |-> IF At[c] = n THEN "out" ELSE use[c]]
  /\ disturbed' = (disturbed \/ (share # NoShare /\ share.paths[n] # {}))
  /\ UNCHANGED <<share, clients, perms, data>>

-----------------------------------------------------------------------------
Handle(c) ==
  \/ Refuse(c) \/ Join(c) \/ FirstOnNode(c) \/ AllowClient(c) \/ Mount(c) \/ MountRefused(c)
  \/ SetPermissions(c) \/ PermissionsRefused(c)
  \/ NotThere(c) \/ Leave(c) \/ LastOnNode(c) \/ Umount(c) \/ RemoveDir(c) \/ ForbidClient(c)
  \/ SaveShare(c)
  \/ RefuseRemoval(c) \/ BeginRemoval(c) \/ WipeContents(c) \/ Delete(c) \/ DeleteFails(c)

Next ==
  \/ \E c \in Client, op \in {"mount", "unmount", "remove"} : Receive(c, op)
  \/ \E c \in Client : Handle(c) \/ Raise(c)
  \/ \E n \in Node : Crash(n) \/ Reboot(n)

Spec == Init /\ [][Next]_vars

-----------------------------------------------------------------------------
\* Requests that come one at a time, as docs/share_usage.md asks for, keep the share
\* mounted where a container uses it, on the list of clients and with its mount id on
\* record; lose no data; and remove neither the share nor its contents while a container
\* of any node uses it, whatever failures and crashes there are in mounting and removing
\* it.  Only an unmount that stops half way, or a reboot, leaves a record that the next
\* mount is misled by (mount_share, unmount_share, remove_share).
IntactUnlessDisturbed ==
  ~disturbed =>
    /\ data # "lost"
    /\ \A c \in Container : use[c] = "in" =>
         /\ At[c] \in mounted \intersect clients
         /\ share # NoShare /\ c \in share.paths[At[c]]
         /\ \A d \in Admin : Active(d) => req[d].step = "start"

\* No container gets a share before its mode and owner have been set, though only one
\* node ever sets them and requests overlap, fail and are cut short (acls_already_set in
\* mount_share).
PermissionsBeforeUse == Owned => \A c \in Container : use[c] = "in" => perms
=============================================================================
