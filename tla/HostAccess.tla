------------------------------- MODULE HostAccess -------------------------------
(***************************************************************************)
(* How the Fibre Channel and iSCSI drivers give a Docker node access to    *)
(* volumes: initialize_connection makes the array's host for the node and  *)
(* a VLUN on each port, terminate_connection removes the VLUNs and the     *)
(* host with the last of them, and force_remove_volume_vlun does so for    *)
(* another node that takes a volume over (hpe_3par_fc.py,                  *)
(* hpe_3par_iscsi.py, hpe_3par_common.py).                                 *)
(*                                                                         *)
(* The lock of a volume keeps these apart for one volume; all volumes of   *)
(* the node share its host.  Every REST call is an action of its own.      *)
(***************************************************************************)
EXTENDS Naturals, FiniteSets

CONSTANTS
  Volume,    \* volumes that are attached to the node
  Port,      \* ports of the array that are ready
  Lun,       \* LUN ids
  Protocols, \* which of the drivers the runs are about
  Own,       \* the name the plugin gives the node's host: _safe_hostname
  Other,     \* the name of a host that an administrator made for the node
  None,      \* no host, no LUN
  Limit      \* how often each kind of event below may happen

\* A call that raises; requests to attach, detach or evict a volume.
Event == {"failure", "request"}

Host == {Own, Other}

ASSUME HostAssumption ==
  /\ Own # Other
  /\ None \notin Host \union Lun
  /\ Protocols \subseteq {"fc", "iscsi", "multipath"}
  /\ Limit \in [Event -> Nat]

VARIABLES
  protocol, \* the driver, and whether an iSCSI connector uses multipath
  hosts,    \* hosts on the array
  foreign,  \* the ones the plugin has not made
  path,     \* the host that has the node's WWNs or IQN
  vluns,    \* template VLUNs
  pc,       \* where the call for each volume is
  name,     \* the host it works with
  todo,     \* ports it has still to export on, or to remove the VLUN from
  lun,      \* the lun_id it wants
  attempt,  \* round of force_remove_volume_vlun
  used      \* how many events of each kind have happened

array == <<hosts, foreign, path, vluns>>
local == <<name, todo, lun, attempt>>
vars == <<protocol, array, pc, local, used>>

-----------------------------------------------------------------------------
Vlun == [vol : Volume, host : Host, port : Port, lun : Lun]

Attaching == {"get_host", "prefer", "add_path", "reread", "query", "create_host",
              "conflict", "host", "find", "export", "answer"}
Detaching == {"query_host", "list", "remove", "relist", "delete_host"}
Evicting == {"get_vlun", "evict_list", "evict", "evict_relist", "evict_host"}
Ends == {"idle", "attached", "detached", "failed"}

TypeOK ==
  /\ protocol \in Protocols
  /\ hosts \subseteq Host /\ foreign \subseteq hosts
  /\ path \in hosts \union {None}
  /\ vluns \subseteq Vlun
  /\ \A x \in vluns : x.host \in hosts
  /\ pc \in [Volume -> Attaching \union Detaching \union Evicting \union Ends]
  /\ name \in [Volume -> Host \union {None}]
  /\ todo \in [Volume -> SUBSET Port]
  /\ lun \in [Volume -> Lun \union {None}]
  /\ attempt \in [Volume -> 0 .. 2]
  /\ used \in [Event -> Nat]
  /\ \A e \in Event : used[e] <= Limit[e]

\* The node may be known to the array under its name, under another one, or both; its
\* WWNs belong to one host, and not to its namesake when there is another.
Init ==
  /\ protocol \in Protocols
  /\ hosts \in SUBSET Host
  /\ foreign = hosts
  /\ path \in hosts \union {None}
  /\ Other \in hosts => path = Other
  /\ vluns = {}
  /\ pc = [v \in Volume |-> "idle"]
  /\ name = [v \in Volume |-> None]
  /\ todo = [v \in Volume |-> {}]
  /\ lun = [v \in Volume |-> None]
  /\ attempt = [v \in Volume |-> 0]
  /\ used = [e \in Event |-> 0]

-----------------------------------------------------------------------------
Spend(e) == used[e] < Limit[e] /\ used' = [used EXCEPT ![e] = @ + 1]

GoTo(v, p) == pc' = [pc EXCEPT ![v] = p]

\* A call that only looks, and one that changes nothing but the place.
Look(v, p) ==
  GoTo(v, p) /\ UNCHANGED <<protocol, array, todo, lun, attempt, used>>

Pass(v, p) == Look(v, p) /\ UNCHANGED name

\* The exception reaches mount_volume or unmount_volume.
Refused(v) == Pass(v, "failed")

\* What delete_vlun raises for the host is ignored.
CallRaises(v) ==
  /\ pc[v] \notin Ends
  /\ Spend("failure")
  /\ GoTo(v, IF pc[v] = "delete_host" THEN "detached" ELSE "failed")
  /\ UNCHANGED <<protocol, array, local>>

Of(v, h) == {x \in vluns : x.vol = v /\ x.host = h}
OfHost(h) == {x \in vluns : x.host = h}

\* LUN ids the array may give a volume: one per volume and host, none that it has
\* given to another volume there.
FreeLun(v, h) ==
  IF lun[v] # None THEN {lun[v]} ELSE Lun \ {x.lun : x \in OfHost(h)}

-----------------------------------------------------------------------------
Begin(v, p) ==
  /\ pc[v] \in Ends
  /\ Spend("request")
  /\ GoTo(v, p)
  /\ name' = [name EXCEPT ![v] = None]
  /\ todo' = [todo EXCEPT ![v] = {}]
  /\ lun' = [lun EXCEPT ![v] = None]
  /\ attempt' = [attempt EXCEPT ![v] = 0]
  /\ UNCHANGED <<protocol, array>>

Attach(v) == Begin(v, "get_host")
Detach(v) == Begin(v, "query_host")
Evict(v) == Begin(v, "get_vlun")

\* _create_host looks for the host by its name; iSCSI sees its paths here.
GetHost(v) ==
  /\ pc[v] = "get_host"
  /\ name' = [name EXCEPT ![v] = Own]
  /\ Look(v, IF Own \notin hosts THEN "query"
             ELSE CASE protocol = "fc" -> "prefer"
                    [] protocol # "fc" /\ path = Own -> "host"
                    [] OTHER -> "add_path")

\* A bug to be noticed: the host of that name is used, whoever has the WWNs.
PreferOwn(v) ==
  /\ pc[v] = "prefer"
  /\ Pass(v, IF path = Own THEN "find" ELSE "add_path")

\* _get_prioritized_host_on_3par: the host that has the WWNs is the one to use.
PreferHost(v) ==
  /\ pc[v] = "prefer"
  /\ name' = [name EXCEPT ![v] = IF path = None THEN Own ELSE path]
  /\ Look(v, IF path = None THEN "add_path" ELSE "find")

\* The host without paths gets the node's.  When another host has got them meanwhile,
\* Fibre Channel only logs the conflict.
AddPath(v) ==
  /\ pc[v] = "add_path"
  /\ \/ /\ path = None /\ name[v] \in hosts
        /\ path' = name[v]
        /\ GoTo(v, "host")
        /\ UNCHANGED <<protocol, hosts, foreign, vluns, local, used>>
     \/ path # None /\ name[v] \in hosts /\ protocol = "fc" /\ Pass(v, "host")
     \/ (name[v] \notin hosts \/ (path # None /\ protocol # "fc")) /\ Refused(v)

\* A host of another name may have the path already.
QueryHost(v) ==
  /\ pc[v] = "query"
  /\ name' = [name EXCEPT ![v] = IF path = None THEN Own ELSE path]
  /\ Look(v, IF path = None THEN "create_host" ELSE "host")

\* Another attachment may have created it meanwhile, which the array reports as a
\* conflict of the name or of the path.
CreateHost(v) ==
  /\ pc[v] = "create_host"
  /\ \/ /\ Own \notin hosts /\ path = None
        /\ hosts' = hosts \union {Own}
        /\ path' = Own
        /\ GoTo(v, "host")
        /\ UNCHANGED <<protocol, foreign, vluns, local, used>>
     \/ (Own \in hosts \/ path # None) /\ Refused(v)
     \/ path # None /\ protocol = "fc" /\ Pass(v, "conflict")

\* EXISTENT_PATH: the host that has the WWNs is used instead.
ConflictingHost(v) ==
  /\ pc[v] = "conflict"
  /\ \/ /\ path # None
        /\ name' = [name EXCEPT ![v] = path]
        /\ Look(v, "host")
     \/ path = None /\ Refused(v)

\* The host is read again, by the name it was found or created under.
ReadHost(v) ==
  /\ pc[v] = "host"
  /\ \/ name[v] \in hosts /\ Pass(v, "find")
     \/ name[v] \notin hosts /\ Refused(v)

\* Fibre Channel and single-path iSCSI take any VLUN the volume has to the host for
\* all of them; iSCSI multipath makes the ones that are missing.
FindVluns(v) ==
  /\ pc[v] = "find"
  /\ \E p \in Port :
       LET mine == Of(v, name[v])
           missing == CASE protocol = "multipath" -> Port \ {x.port : x \in mine}
                        [] protocol # "multipath" /\ mine # {} -> {}
                        [] protocol = "fc" /\ mine = {} -> Port
                        [] OTHER -> {p}
       IN /\ todo' = [todo EXCEPT ![v] = missing]
          /\ GoTo(v, IF missing = {} THEN "answer" ELSE "export")
  /\ UNCHANGED <<protocol, array, name, lun, attempt, used>>

\* A bug to be noticed: every port gets a LUN id of its own.
ExportAnyLun(v) ==
  /\ pc[v] = "export"
  /\ name[v] \in hosts
  /\ \E p \in todo[v], l \in FreeLun(v, name[v]) :
       /\ vluns' = vluns \union {[vol |-> v, host |-> name[v], port |-> p, lun |-> l]}
       /\ todo' = [todo EXCEPT ![v] = @ \ {p}]
       /\ GoTo(v, IF todo[v] = {p} THEN "answer" ELSE "export")
  /\ UNCHANGED <<protocol, hosts, foreign, path, name, lun, attempt, used>>

\* The first VLUN gets its LUN id from the array, the others get the same.
Export(v) ==
  /\ pc[v] = "export"
  /\ \/ /\ name[v] \in hosts
        /\ \E p \in todo[v], l \in FreeLun(v, name[v]) :
             /\ vluns' = vluns \union {[vol |-> v, host |-> name[v], port |-> p, lun |-> l]}
             /\ todo' = [todo EXCEPT ![v] = @ \ {p}]
             /\ lun' = [lun EXCEPT ![v] = l]
             /\ GoTo(v, IF todo[v] = {p} THEN "answer" ELSE "export")
        /\ UNCHANGED <<protocol, hosts, foreign, path, name, attempt, used>>
     \/ name[v] \notin hosts /\ Refused(v)

Answer(v) == pc[v] = "answer" /\ Pass(v, "attached")

-----------------------------------------------------------------------------
\* terminate_connection asks which host has the node's path, and takes the node's name
\* for one that nobody has.
AskHost(v) ==
  /\ pc[v] = "query_host"
  /\ name' = [name EXCEPT ![v] = IF path = None THEN Own ELSE path]
  /\ Look(v, "list")

\* delete_vlun: a host without any VLUN, or without the path, is an error; one that has
\* only other volumes' is not.
ListVluns(v) ==
  /\ pc[v] = "list"
  /\ \/ /\ OfHost(name[v]) # {}
        /\ todo' = [todo EXCEPT ![v] = {x.port : x \in Of(v, name[v])}]
        /\ GoTo(v, IF Of(v, name[v]) = {} THEN "detached" ELSE "remove")
        /\ UNCHANGED <<protocol, array, name, lun, attempt, used>>
     \/ /\ name[v] \notin hosts /\ path # None
        /\ name' = [name EXCEPT ![v] = path]
        /\ Look(v, "list")
     \/ OfHost(name[v]) = {} /\ (name[v] \in hosts \/ path = None) /\ Refused(v)

\* A bug to be noticed: only the first VLUN is removed.
RemoveFirst(v, p, next) ==
  /\ vluns' = {x \in vluns : ~(x.vol = v /\ x.host = name[v] /\ x.port = p)}
  /\ todo' = [todo EXCEPT ![v] = {}]
  /\ GoTo(v, next)
  /\ UNCHANGED <<protocol, hosts, foreign, path, name, lun, attempt, used>>

RemoveOne(v, p, next) ==
  /\ vluns' = {x \in vluns : ~(x.vol = v /\ x.host = name[v] /\ x.port = p)}
  /\ todo' = [todo EXCEPT ![v] = @ \ {p}]
  /\ GoTo(v, IF todo[v] = {p} THEN next ELSE pc[v])
  /\ UNCHANGED <<protocol, hosts, foreign, path, name, lun, attempt, used>>

RemoveVlun(v) == pc[v] = "remove" /\ \E p \in todo[v] : RemoveOne(v, p, "relist")

\* Are there VLUNs of other volumes on the host?
Relist(v) ==
  /\ pc[v] = "relist"
  /\ Pass(v, IF OfHost(name[v]) \ Of(v, name[v]) = {} THEN "delete_host" ELSE "detached")

\* The array keeps a host that has VLUNs.
CanDelete(h) == h \in hosts /\ OfHost(h) = {}

\* A bug to be noticed: the host is removed with the VLUNs it may have.
DropHostForced(v, next) ==
  /\ name[v] \in hosts
  /\ hosts' = hosts \ {name[v]}
  /\ foreign' = foreign \ {name[v]}
  /\ path' = IF path = name[v] THEN None ELSE path
  /\ GoTo(v, next)
  /\ UNCHANGED <<protocol, vluns, local, used>>

DropHost(v, next) ==
  /\ CanDelete(name[v])
  /\ hosts' = hosts \ {name[v]}
  /\ foreign' = foreign \ {name[v]}
  /\ path' = IF path = name[v] THEN None ELSE path
  /\ GoTo(v, next)
  /\ UNCHANGED <<protocol, vluns, local, used>>

DeleteHost(v) ==
  /\ pc[v] = "delete_host"
  /\ DropHost(v, "detached") \/ (~CanDelete(name[v]) /\ Pass(v, "detached"))

-----------------------------------------------------------------------------
\* force_remove_volume_vlun, for a node that takes the volume over: twice, find a VLUN
\* of the volume and remove all the volume has to the host of that one.
GetVlun(v) ==
  /\ pc[v] = "get_vlun"
  /\ \/ /\ attempt[v] < 2
        /\ \E x \in vluns : x.vol = v /\ name' = [name EXCEPT ![v] = x.host]
        /\ attempt' = [attempt EXCEPT ![v] = @ + 1]
        /\ GoTo(v, "evict_list")
        /\ UNCHANGED <<protocol, array, todo, lun, used>>
     \/ /\ attempt[v] = 2 \/ \A x \in vluns : x.vol # v
        /\ Pass(v, "detached")

EvictList(v) ==
  /\ pc[v] = "evict_list"
  /\ todo' = [todo EXCEPT ![v] = {x.port : x \in Of(v, name[v])}]
  /\ GoTo(v, "evict")
  /\ UNCHANGED <<protocol, array, name, lun, attempt, used>>

EvictVlun(v) == pc[v] = "evict" /\ \E p \in todo[v] : RemoveOne(v, p, "evict_relist")

\* A bug to be noticed: the eviction leaves the host.
EvictRelistLeaves(v) == pc[v] = "evict_relist" /\ Pass(v, "get_vlun")

EvictRelist(v) ==
  /\ pc[v] = "evict_relist"
  /\ Pass(v, IF OfHost(name[v]) = {} THEN "evict_host" ELSE "get_vlun")

\* What the array answers when the host is in use again, or gone, is not caught here.
EvictHost(v) ==
  /\ pc[v] = "evict_host"
  /\ DropHost(v, "get_vlun") \/ (~CanDelete(name[v]) /\ Refused(v))

-----------------------------------------------------------------------------
Connect(v) ==
  \/ Attach(v) \/ GetHost(v) \/ PreferHost(v) \/ AddPath(v) \/ QueryHost(v)
  \/ CreateHost(v) \/ ConflictingHost(v) \/ ReadHost(v) \/ FindVluns(v) \/ Export(v)
  \/ Answer(v)

Disconnect(v) ==
  \/ Detach(v) \/ AskHost(v) \/ ListVluns(v) \/ RemoveVlun(v) \/ Relist(v)
  \/ DeleteHost(v)

Takeover(v) ==
  \/ Evict(v) \/ GetVlun(v) \/ EvictList(v) \/ EvictVlun(v) \/ EvictRelist(v)
  \/ EvictHost(v)

Next == \E v \in Volume : CallRaises(v) \/ Connect(v) \/ Disconnect(v) \/ Takeover(v)

Spec == Init /\ [][Next]_vars

-----------------------------------------------------------------------------
\* A volume whose attachment has succeeded, and which nobody has detached since, has a
\* VLUN to the host that holds the node's path, and all of its VLUNs are to that host:
\* no other volume's detachment, eviction or failure takes them, or the host, away
\* (initialize_connection, delete_vlun, force_remove_volume_vlun).
AttachedIsReachable ==
  \A v \in Volume :
    pc[v] = "attached" =>
      path # None /\ Of(v, path) # {} /\ \A x \in vluns : x.vol = v => x.host = path

\* A detachment or eviction that succeeds has removed the volume from every host, though
\* it may have been attached under another name than the node's (terminate_connection).
DetachedIsGone ==
  \A v \in Volume : pc[v] = "detached" => \A x \in vluns : x.vol # v

\* The VLUNs of a volume share a LUN id that no other volume of the host has; with iSCSI
\* multipath, where a later attachment adds what is missing, unless a call has failed
\* (create_vlun, initialize_connection).
LunsAgree ==
  protocol # "multipath" \/ used["failure"] = 0 =>
    \A x, y \in vluns : x.host = y.host => (x.lun = y.lun <=> x.vol = y.vol)

\* Without failures, a host that the plugin has made does not outlive its last VLUN,
\* in whichever order the volumes come and go (delete_vlun, force_remove_volume_vlun).
NoIdleHost ==
  (\A v \in Volume : pc[v] \in Ends) /\ used["failure"] = 0 =>
    \A h \in hosts \ foreign : OfHost(h) # {}
=============================================================================
