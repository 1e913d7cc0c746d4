------------------------- MODULE HostAccess_proof -------------------------
(* Proofs about the access of a node to its volumes, as modelled in HostAccess. *)
EXTENDS HostAccess, TLAPS

-----------------------------------------------------------------------------
(* Type correctness *)

Point == Attaching \union Detaching \union Evicting \union Ends

LEMMA SpendFacts ==
  ASSUME TypeOK, NEW e \in Event, Spend(e)
  PROVE  /\ used' \in [Event -> Nat]
         /\ \A d \in Event : used'[d] <= Limit[d]
         /\ used'["failure"] = 0 => used["failure"] = 0
         /\ e = "failure" => used'["failure"] # 0
<1>1. /\ used \in [Event -> Nat]
      /\ \A d \in Event : used[d] <= Limit[d]
      /\ Limit \in [Event -> Nat]
      /\ "failure" \in Event
  BY HostAssumption DEF TypeOK, Event
<1>2. used[e] < Limit[e] /\ used' = [used EXCEPT ![e] = used[e] + 1]
  BY DEF Spend
<1>3. used[e] \in Nat /\ Limit[e] \in Nat
  BY <1>1
<1>4. used'[e] = used[e] + 1 /\ \A d \in Event : d # e => used'[d] = used[d]
  BY <1>1, <1>2
<1>5. used' \in [Event -> Nat]
  BY <1>1, <1>2, <1>3
<1> QED  BY <1>1, <1>2, <1>3, <1>4, <1>5

\* A step of the call for a volume leaves the calls for the others alone.
LEMMA GoToFacts ==
  ASSUME TypeOK, NEW v \in Volume, NEW p \in Point, GoTo(v, p)
  PROVE  /\ pc' \in [Volume -> Point]
         /\ pc'[v] = p
         /\ \A w \in Volume : w # v => pc'[w] = pc[w]
BY DEF TypeOK, GoTo, Point

LEMMA InitType == Init => TypeOK
BY HostAssumption DEF Init, TypeOK, Host, Event, Ends

LEMMA FreeLunFacts ==
  ASSUME TypeOK, NEW v \in Volume, NEW h, NEW l \in FreeLun(v, h)
  PROVE  l \in Lun
<1>1. lun[v] \in Lun \union {None}
  BY DEF TypeOK
<1> QED  BY <1>1 DEF FreeLun

LEMMA ConnectType ==
  ASSUME TypeOK, NEW v \in Volume, Connect(v)
  PROVE  TypeOK'
<1> USE DEF Point, Attaching, Detaching, Evicting, Ends
<1>1. CASE Attach(v)
  BY <1>1, SpendFacts, GoToFacts, "request" \in Event DEF Attach, Begin, TypeOK, array, Event
<1>2. CASE GetHost(v)
  <2>1. PICK p \in {"query", "prefer", "host", "add_path"} : GoTo(v, p)
    BY <1>2 DEF GetHost, Look
  <2> QED  BY <1>2, <2>1, GoToFacts DEF GetHost, Look, TypeOK, array, Host
<1>3. CASE PreferHost(v)
  <2>1. PICK p \in {"find", "add_path"} : GoTo(v, p)
    BY <1>3 DEF PreferHost, Look
  <2> QED  BY <1>3, <2>1, GoToFacts DEF PreferHost, Look, TypeOK, array, Host
<1>4. CASE AddPath(v)
  <2>1. CASE path = None /\ name[v] \in hosts /\ path' = name[v] /\ GoTo(v, "host")
             /\ UNCHANGED <<protocol, hosts, foreign, vluns, local, used>>
    BY <2>1, GoToFacts DEF TypeOK, local
  <2>2. CASE Pass(v, "host")
    BY <2>2, GoToFacts DEF Pass, Look, TypeOK, array
  <2>3. CASE Refused(v)
    BY <2>3, GoToFacts DEF Refused, Pass, Look, TypeOK, array
  <2> QED  BY <1>4, <2>1, <2>2, <2>3 DEF AddPath
<1>5. CASE QueryHost(v)
  <2>1. PICK p \in {"create_host", "host"} : GoTo(v, p)
    BY <1>5 DEF QueryHost, Look
  <2> QED  BY <1>5, <2>1, GoToFacts DEF QueryHost, Look, TypeOK, array, Host
<1>6. CASE CreateHost(v)
  <2>1. CASE /\ hosts' = hosts \union {Own} /\ path' = Own /\ GoTo(v, "host")
             /\ UNCHANGED <<protocol, foreign, vluns, local, used>>
    BY <2>1, GoToFacts DEF TypeOK, local, Host
  <2>2. CASE Pass(v, "conflict")
    BY <2>2, GoToFacts DEF Pass, Look, TypeOK, array
  <2>3. CASE Refused(v)
    BY <2>3, GoToFacts DEF Refused, Pass, Look, TypeOK, array
  <2> QED  BY <1>6, <2>1, <2>2, <2>3 DEF CreateHost
<1>7. CASE ConflictingHost(v)
  <2>1. CASE path # None /\ name' = [name EXCEPT ![v] = path] /\ Look(v, "host")
    BY <2>1, GoToFacts DEF Look, TypeOK, array
  <2>2. CASE Refused(v)
    BY <2>2, GoToFacts DEF Refused, Pass, Look, TypeOK, array
  <2> QED  BY <1>7, <2>1, <2>2 DEF ConflictingHost
<1>8. CASE ReadHost(v)
  BY <1>8, GoToFacts DEF ReadHost, Refused, Pass, Look, TypeOK, array
<1>9. CASE FindVluns(v)
  <2>1. PICK q \in Port :
          LET mine == Of(v, name[v])
              missing == CASE protocol = "multipath" -> Port \ {x.port : x \in mine}
                           [] protocol # "multipath" /\ mine # {} -> {}
                           [] protocol = "fc" /\ mine = {} -> Port
                           [] OTHER -> {q}
          IN /\ todo' = [todo EXCEPT ![v] = missing]
             /\ GoTo(v, IF missing = {} THEN "answer" ELSE "export")
    BY <1>9 DEF FindVluns
  <2>2. PICK t \in SUBSET Port, p \in {"answer", "export"} :
          todo' = [todo EXCEPT ![v] = t] /\ GoTo(v, p)
    BY <2>1
  <2> QED  BY <1>9, <2>2, GoToFacts DEF FindVluns, TypeOK, array
<1>10. CASE Export(v)
  <2>1. CASE Refused(v)
    BY <2>1, GoToFacts DEF Refused, Pass, Look, TypeOK, array
  <2>2. ASSUME name[v] \in hosts,
               UNCHANGED <<protocol, hosts, foreign, path, name, attempt, used>>,
               NEW p \in todo[v], NEW l \in FreeLun(v, name[v]),
               vluns' = vluns \union {[vol |-> v, host |-> name[v], port |-> p, lun |-> l]},
               todo' = [todo EXCEPT ![v] = @ \ {p}],
               lun' = [lun EXCEPT ![v] = l],
               GoTo(v, IF todo[v] = {p} THEN "answer" ELSE "export")
        PROVE  TypeOK'
    <3>1. l \in Lun /\ p \in Port /\ todo[v] \in SUBSET Port
      BY <2>2, FreeLunFacts DEF TypeOK
    <3>2. PICK q \in {"answer", "export"} : GoTo(v, q)
      BY <2>2
    <3>3. vluns' \subseteq Vlun /\ \A x \in vluns' : x.host \in hosts'
      BY <2>2, <3>1 DEF TypeOK, Vlun
    <3>4. pc' \in [Volume -> Point]
      BY <3>2, GoToFacts
    <3>5. todo' \in [Volume -> SUBSET Port] /\ lun' \in [Volume -> Lun \union {None}]
      BY <2>2, <3>1 DEF TypeOK
    <3> QED  BY <2>2, <3>3, <3>4, <3>5 DEF TypeOK
  <2> QED  BY <1>10, <2>1, <2>2 DEF Export
<1>11. CASE Answer(v)
  BY <1>11, GoToFacts DEF Answer, Pass, Look, TypeOK, array
<1> QED
  BY <1>1, <1>2, <1>3, <1>4, <1>5, <1>6, <1>7, <1>8, <1>9, <1>10, <1>11 DEF Connect

LEMMA DropHostType ==
  ASSUME TypeOK, NEW v \in Volume, NEW p \in Point, DropHost(v, p)
  PROVE  TypeOK'
<1>1. pc' \in [Volume -> Point]
  BY GoToFacts DEF DropHost
<1>2. /\ OfHost(name[v]) = {}
      /\ hosts' = hosts \ {name[v]}
      /\ foreign' = foreign \ {name[v]}
      /\ path' = IF path = name[v] THEN None ELSE path
      /\ UNCHANGED <<protocol, vluns, name, todo, lun, attempt, used>>
  BY DEF DropHost, CanDelete, local
<1>3. \A x \in vluns : x.host # name[v]
  BY <1>2 DEF OfHost
<1> QED  BY <1>1, <1>2, <1>3 DEF TypeOK, Point

LEMMA RemoveOneType ==
  ASSUME TypeOK, NEW v \in Volume, NEW p \in todo[v], NEW q \in Point, RemoveOne(v, p, q)
  PROVE  TypeOK'
<1>1. PICK r \in Point : GoTo(v, r)
  BY DEF RemoveOne, TypeOK, Point
<1>2. pc' \in [Volume -> Point]
  BY <1>1, GoToFacts
<1> QED  BY <1>2 DEF RemoveOne, TypeOK, Point

LEMMA DisconnectType ==
  ASSUME TypeOK, NEW v \in Volume, Disconnect(v)
  PROVE  TypeOK'
<1> USE DEF Point, Attaching, Detaching, Evicting, Ends
<1>1. CASE Detach(v)
  BY <1>1, SpendFacts, GoToFacts, "request" \in Event DEF Detach, Begin, TypeOK, array, Event
<1>2. CASE AskHost(v)
  BY <1>2, GoToFacts DEF AskHost, Look, TypeOK, array, Host
<1>3. CASE ListVluns(v)
  <2>1. CASE /\ todo' = [todo EXCEPT ![v] = {x.port : x \in Of(v, name[v])}]
             /\ GoTo(v, IF Of(v, name[v]) = {} THEN "detached" ELSE "remove")
             /\ UNCHANGED <<protocol, array, name, lun, attempt, used>>
    <3>1. PICK p \in {"detached", "remove"} : GoTo(v, p)
      BY <2>1
    <3>2. {x.port : x \in Of(v, name[v])} \subseteq Port
      BY DEF Of, TypeOK, Vlun
    <3>3. todo' \in [Volume -> SUBSET Port]
      BY <2>1, <3>2 DEF TypeOK
    <3> QED  BY <2>1, <3>1, <3>3, GoToFacts DEF TypeOK, array
  <2>2. CASE name' = [name EXCEPT ![v] = path] /\ Look(v, "list")
    BY <2>2, GoToFacts DEF Look, TypeOK, array
  <2>3. CASE Refused(v)
    BY <2>3, GoToFacts DEF Refused, Pass, Look, TypeOK, array
  <2> QED  BY <1>3, <2>1, <2>2, <2>3 DEF ListVluns
<1>4. CASE RemoveVlun(v)
  BY <1>4, RemoveOneType DEF RemoveVlun
<1>5. CASE Relist(v)
  <2>1. PICK p \in {"delete_host", "detached"} : Pass(v, p)
    BY <1>5 DEF Relist
  <2> QED  BY <2>1, GoToFacts DEF Pass, Look, TypeOK, array
<1>6. CASE DeleteHost(v)
  <2>1. CASE DropHost(v, "detached")
    BY <2>1, DropHostType
  <2>2. CASE Pass(v, "detached")
    BY <2>2, GoToFacts DEF Pass, Look, TypeOK, array
  <2> QED  BY <1>6, <2>1, <2>2 DEF DeleteHost
<1> QED  BY <1>1, <1>2, <1>3, <1>4, <1>5, <1>6 DEF Disconnect

LEMMA TakeoverType ==
  ASSUME TypeOK, NEW v \in Volume, Takeover(v)
  PROVE  TypeOK'
<1> USE DEF Point, Attaching, Detaching, Evicting, Ends
<1>1. CASE Evict(v)
  BY <1>1, SpendFacts, GoToFacts, "request" \in Event DEF Evict, Begin, TypeOK, array, Event
<1>2. CASE GetVlun(v)
  <2>1. CASE Pass(v, "detached")
    BY <2>1, GoToFacts DEF Pass, Look, TypeOK, array
  <2>2. ASSUME attempt[v] < 2,
               NEW x \in vluns, name' = [name EXCEPT ![v] = x.host],
               attempt' = [attempt EXCEPT ![v] = @ + 1],
               GoTo(v, "evict_list"),
               UNCHANGED <<protocol, array, todo, lun, used>>
        PROVE  TypeOK'
    <3>1. attempt' \in [Volume -> 0 .. 2]
      BY <2>2 DEF TypeOK
    <3>2. name' \in [Volume -> Host \union {None}]
      BY <2>2 DEF TypeOK, Vlun
    <3> QED  BY <2>2, <3>1, <3>2, GoToFacts DEF TypeOK, array
  <2> QED  BY <1>2, <2>1, <2>2 DEF GetVlun
<1>3. CASE EvictList(v)
  <2>1. {x.port : x \in Of(v, name[v])} \subseteq Port
    BY DEF Of, TypeOK, Vlun
  <2>2. todo' \in [Volume -> SUBSET Port]
    BY <1>3, <2>1 DEF EvictList, TypeOK
  <2> QED  BY <1>3, <2>2, GoToFacts DEF EvictList, TypeOK, array
<1>4. CASE EvictVlun(v)
  BY <1>4, RemoveOneType DEF EvictVlun
<1>5. CASE EvictRelist(v)
  <2>1. PICK p \in {"evict_host", "get_vlun"} : Pass(v, p)
    BY <1>5 DEF EvictRelist
  <2> QED  BY <2>1, GoToFacts DEF Pass, Look, TypeOK, array
<1>6. CASE EvictHost(v)
  <2>1. CASE DropHost(v, "get_vlun")
    BY <2>1, DropHostType
  <2>2. CASE Refused(v)
    BY <2>2, GoToFacts DEF Refused, Pass, Look, TypeOK, array
  <2> QED  BY <1>6, <2>1, <2>2 DEF EvictHost
<1> QED  BY <1>1, <1>2, <1>3, <1>4, <1>5, <1>6 DEF Takeover

LEMMA RaiseType ==
  ASSUME TypeOK, NEW v \in Volume, CallRaises(v)
  PROVE  TypeOK'
<1>1. PICK p \in {"detached", "failed"} : GoTo(v, p)
  BY DEF CallRaises
<1> QED
  BY <1>1, SpendFacts, GoToFacts, "failure" \in Event
  DEF CallRaises, TypeOK, array, local, Event, Point, Ends

LEMMA NextType == TypeOK /\ [Next]_vars => TypeOK'
<1> SUFFICES ASSUME TypeOK, [Next]_vars PROVE TypeOK'
  OBVIOUS
<1>1. CASE Next
  BY <1>1, RaiseType, ConnectType, DisconnectType, TakeoverType DEF Next
<1>2. CASE UNCHANGED vars
  BY <1>2 DEF vars, array, local, TypeOK
<1> QED  BY <1>1, <1>2

\* The node's hosts, its VLUNs and what each call knows of them keep their types, and
\* every VLUN is to a host that the array has (hpe_3par_common.py).
THEOREM TypeCorrect == Spec => []TypeOK
BY InitType, NextType, PTL DEF Spec

-----------------------------------------------------------------------------
(* The inductive invariant *)

HasVlun(v) == \E x \in vluns : x.vol = v

\* The node is known by one name at a time: when the administrator's host is there, it
\* has the node's path, and every VLUN is to the host with the path.
OnPath ==
  /\ Other \in hosts => path = Other
  /\ \A x \in vluns : x.host = path

\* The host a call works with, once it has been found, made or corrected.
Found == {"host", "find", "export", "answer"}

NameOk(v) ==
  /\ pc[v] = "prefer" => protocol = "fc" /\ name[v] = Own
  /\ pc[v] = "add_path" => name[v] = Own
  /\ pc[v] = "add_path" /\ protocol = "fc" => Other \notin hosts
  /\ pc[v] = "create_host" => name[v] = Own
  /\ pc[v] \in Found =>
       /\ name[v] \in Host
       /\ name[v] \in hosts => path = name[v]
       /\ HasVlun(v) => path = name[v]
  /\ pc[v] \in {"list", "remove", "relist", "delete_host", "evict_list", "evict",
                "evict_relist", "evict_host"} => name[v] \in Host

\* What a call that removes VLUNs has still to remove.
RemovesAll(v) ==
  /\ pc[v] \in {"remove", "evict"} =>
       \A x \in vluns : x.vol = v => x.host = name[v] /\ x.port \in todo[v]
  /\ pc[v] = "evict_list" => \A x \in vluns : x.vol = v => x.host = name[v]
  /\ pc[v] \in {"relist", "delete_host", "evict_relist", "evict_host", "detached"} => ~HasVlun(v)
  /\ pc[v] = "get_vlun" /\ attempt[v] > 0 => ~HasVlun(v)

Reaches(v) == pc[v] \in {"answer", "attached"} => HasVlun(v)

\* The LUN ids that a call has used, and wants, and the ports it has still to export on.
Careful == protocol # "multipath" \/ used["failure"] = 0

OneLun == \A x, y \in vluns : x.lun = y.lun <=> x.vol = y.vol

Wants(v) ==
  pc[v] = "export" =>
    /\ lun[v] = None => ~HasVlun(v)
    /\ lun[v] # None => \E x \in vluns : x.vol = v /\ x.lun = lun[v]

NoLunYet(v) ==
  pc[v] \in {"get_host", "prefer", "add_path", "query", "create_host", "conflict", "host",
             "find"} => lun[v] = None

PortOf(v, p) == \E x \in vluns : x.vol = v /\ x.port = p

AllPorts(v) ==
  /\ pc[v] \notin {"export", "remove", "evict"} =>
       (HasVlun(v) => \A p \in Port : PortOf(v, p))
  /\ pc[v] = "export" => \A p \in Port : p \in todo[v] \/ PortOf(v, p)

LunInv ==
  Careful =>
    /\ OneLun
    /\ \A v \in Volume : Wants(v)
    /\ protocol = "multipath" => \A v \in Volume : AllPorts(v)

\* Somebody who is going to export to a host, or to see whether it can be removed.
Minding(v, h) ==
  /\ name[v] = h
  /\ pc[v] \in {"host", "find", "export", "remove", "relist", "delete_host", "evict",
                "evict_relist", "evict_host"}

HostInv ==
  used["failure"] = 0 =>
    \A h \in hosts \ foreign : OfHost(h) # {} \/ \E v \in Volume : Minding(v, h)

VolumeInv(v) == NameOk(v) /\ RemovesAll(v) /\ Reaches(v) /\ NoLunYet(v)

IInv == OnPath /\ (\A v \in Volume : VolumeInv(v)) /\ LunInv /\ HostInv

\* What the call for a volume can do to the array: nothing, give the node's path to its
\* host, remove a host that has no VLUN, make a VLUN of its own, or remove some of them.
Gains ==
  /\ path = None /\ path' = Own
  /\ hosts' = hosts \union {Own}
  /\ foreign' = foreign /\ vluns' = vluns

Drops(h) ==
  /\ h \in hosts /\ OfHost(h) = {}
  /\ hosts' = hosts \ {h} /\ foreign' = foreign \ {h} /\ vluns' = vluns
  /\ path' = IF path = h THEN None ELSE path

MakesOne(v, x) ==
  /\ x \in Vlun /\ x.vol = v /\ x.host = path /\ x.host \in hosts
  /\ vluns' = vluns \union {x}
  /\ UNCHANGED <<hosts, foreign, path>>

Unmakes(v) ==
  /\ vluns' \subseteq vluns
  /\ \A x \in vluns : x.vol # v => x \in vluns'
  /\ UNCHANGED <<hosts, foreign, path>>

ArrayStep(v) ==
  \/ UNCHANGED array
  \/ Gains
  \/ \E h \in Host : Drops(h)
  \/ \E x \in Vlun : MakesOne(v, x)
  \/ Unmakes(v)

Frame(v) ==
  /\ protocol' = protocol
  /\ used'["failure"] = 0 => used["failure"] = 0
  /\ \A w \in Volume : w # v =>
       /\ pc'[w] = pc[w] /\ name'[w] = name[w] /\ todo'[w] = todo[w]
       /\ lun'[w] = lun[w] /\ attempt'[w] = attempt[w]

LunStep(v) ==
  Careful' => OneLun' /\ Wants(v)' /\ (protocol = "multipath" => AllPorts(v)')

\* A host that nobody minds any more is gone, or has VLUNs.
HostStep(v) ==
  used'["failure"] = 0 =>
    \A h \in hosts' \ foreign' :
      \/ OfHost(h)' # {}
      \/ Minding(v, h)'
      \/ h \in hosts \ foreign /\ OfHost(h) = {} /\ ~Minding(v, h)

Good(v) == Frame(v) /\ ArrayStep(v) /\ VolumeInv(v)' /\ LunStep(v) /\ HostStep(v)

\* Nobody's VLUNs but the ones of the call's own volume change.
LEMMA VlunsOfOthers ==
  ASSUME NEW v \in Volume, NEW w \in Volume, w # v, ArrayStep(v)
  PROVE  /\ \A x \in vluns : x.vol = w => x \in vluns'
         /\ \A x \in vluns' : x.vol = w => x \in vluns
<1>1. CASE vluns' = vluns
  BY <1>1
<1>2. CASE \E x \in Vlun : MakesOne(v, x)
  BY <1>2 DEF MakesOne
<1>3. CASE Unmakes(v)
  BY <1>3 DEF Unmakes
<1> QED  BY <1>1, <1>2, <1>3 DEF ArrayStep, Gains, Drops, array

LEMMA OnPathStep ==
  ASSUME TypeOK, OnPath, NEW v \in Volume, ArrayStep(v)
  PROVE  OnPath'
<1> USE HostAssumption
<1>1. CASE UNCHANGED array
  BY <1>1 DEF array, OnPath
<1>2. CASE Gains
  <2>1. Other \notin hosts /\ vluns = {}
    BY <1>2 DEF Gains, OnPath, TypeOK, Host
  <2> QED  BY <1>2, <2>1 DEF Gains, OnPath
<1>3. ASSUME NEW h \in Host, Drops(h) PROVE OnPath'
  <2>1. \A x \in vluns : x.host # h /\ x.host = path
    BY <1>3 DEF Drops, OfHost, OnPath
  <2>2. path = h => vluns = {}
    BY <2>1
  <2>3. Other \in hosts' => path' = Other
    BY <1>3 DEF Drops, OnPath, TypeOK
  <2> QED  BY <1>3, <2>1, <2>2, <2>3 DEF Drops, OnPath
<1>4. CASE \E x \in Vlun : MakesOne(v, x)
  BY <1>4 DEF MakesOne, OnPath
<1>5. CASE Unmakes(v)
  BY <1>5 DEF Unmakes, OnPath
<1> QED  BY <1>1, <1>2, <1>3, <1>4, <1>5 DEF ArrayStep

\* The call for another volume keeps what it knows.
LEMMA OthersKeep ==
  ASSUME TypeOK, OnPath, NEW v \in Volume, NEW w \in Volume, w # v,
         Frame(v), ArrayStep(v), VolumeInv(w)
  PROVE  VolumeInv(w)'
<1> USE HostAssumption
<1>1. HasVlun(w)' = HasVlun(w)
  BY VlunsOfOthers DEF HasVlun
<1>2. /\ pc'[w] = pc[w] /\ name'[w] = name[w] /\ todo'[w] = todo[w]
      /\ lun'[w] = lun[w] /\ attempt'[w] = attempt[w] /\ protocol' = protocol
  BY DEF Frame
<1>3. Reaches(w)' /\ NoLunYet(w)'
  BY <1>1, <1>2 DEF VolumeInv, Reaches, NoLunYet
<1>4. RemovesAll(w)'
  BY <1>1, <1>2, VlunsOfOthers DEF VolumeInv, RemovesAll
<1>5. Other \in hosts' => Other \in hosts
  BY DEF ArrayStep, Gains, Drops, MakesOne, Unmakes, array
<1>6. HasVlun(w) => path' = path
  <2>1. CASE Gains
    <3>1. vluns = {}
      BY <2>1 DEF Gains, OnPath, TypeOK, Host
    <3> QED  BY <3>1 DEF HasVlun
  <2>2. ASSUME NEW h \in Host, Drops(h), HasVlun(w) PROVE path' = path
    <3>1. path # h
      BY <2>2 DEF Drops, OfHost, OnPath, HasVlun
    <3> QED  BY <2>2, <3>1 DEF Drops
  <2> QED  BY <2>1, <2>2 DEF ArrayStep, MakesOne, Unmakes, array
<1>7. ASSUME name[w] \in Host, name[w] \in hosts => path = name[w], name[w] \in hosts'
      PROVE  path' = name[w]
  <2>1. CASE Gains
    BY <2>1, <1>7 DEF Gains, Host
  <2>2. ASSUME NEW h \in Host, Drops(h) PROVE path' = name[w]
    BY <2>2, <1>7 DEF Drops
  <2> QED  BY <2>1, <2>2, <1>7 DEF ArrayStep, MakesOne, Unmakes, array
<1>8. NameOk(w)'
  BY <1>1, <1>2, <1>5, <1>6, <1>7 DEF VolumeInv, NameOk
<1> QED  BY <1>3, <1>4, <1>8 DEF VolumeInv

LEMMA OthersKeepLuns ==
  ASSUME NEW v \in Volume, NEW w \in Volume, w # v, Frame(v), ArrayStep(v)
  PROVE  /\ Wants(w) => Wants(w)'
         /\ AllPorts(w) => AllPorts(w)'
<1>1. HasVlun(w)' = HasVlun(w)
  BY VlunsOfOthers DEF HasVlun
<1>2. pc'[w] = pc[w] /\ todo'[w] = todo[w] /\ lun'[w] = lun[w]
  BY DEF Frame
<1>3. \A l : (\E x \in vluns : x.vol = w /\ x.lun = l) => \E x \in vluns' : x.vol = w /\ x.lun = l
  BY VlunsOfOthers
<1>4. \A p : PortOf(w, p) => PortOf(w, p)'
  BY VlunsOfOthers DEF PortOf
<1>5. Wants(w) => Wants(w)'
  BY <1>1, <1>2, <1>3 DEF Wants
<1>6. AllPorts(w) => AllPorts(w)'
  BY <1>1, <1>2, <1>4 DEF AllPorts
<1> QED  BY <1>5, <1>6

\* It is enough to look at the volume whose call makes a step.
LEMMA GoodStep ==
  ASSUME TypeOK, IInv, NEW v \in Volume, Good(v)
  PROVE  IInv'
<1> USE DEF Good
<1>1. OnPath'
  BY OnPathStep DEF IInv
<1>2. \A w \in Volume : VolumeInv(w)'
  BY OthersKeep DEF IInv
<1>3. Careful' => Careful
  BY DEF Careful, Frame
<1>4. LunInv'
  <2> SUFFICES ASSUME Careful'
               PROVE  /\ OneLun'
                      /\ \A w \in Volume : Wants(w)'
                      /\ protocol' = "multipath" => \A w \in Volume : AllPorts(w)'
    BY DEF LunInv
  <2>1. OneLun' /\ Wants(v)' /\ (protocol = "multipath" => AllPorts(v)')
    BY DEF LunStep
  <2>2. /\ \A w \in Volume : Wants(w)
        /\ protocol = "multipath" => \A w \in Volume : AllPorts(w)
    BY <1>3 DEF IInv, LunInv
  <2>3. protocol' = protocol
    BY DEF Frame
  <2> QED  BY <2>1, <2>2, <2>3, OthersKeepLuns
<1>5. HostInv'
  <2> SUFFICES ASSUME used'["failure"] = 0, NEW h \in hosts' \ foreign', OfHost(h)' = {}
               PROVE  \E w \in Volume : Minding(w, h)'
    BY DEF HostInv
  <2>1. used["failure"] = 0
    BY DEF Frame
  <2>2. CASE Minding(v, h)'
    BY <2>2
  <2>3. CASE h \in hosts \ foreign /\ OfHost(h) = {} /\ ~Minding(v, h)
    <3>1. PICK w \in Volume : Minding(w, h)
      BY <2>1, <2>3 DEF IInv, HostInv
    <3>2. w # v
      BY <2>3, <3>1
    <3>3. Minding(w, h)'
      BY <3>1, <3>2 DEF Frame, Minding
    <3> QED  BY <3>3
  <2> QED  BY <2>2, <2>3 DEF HostStep
<1> QED  BY <1>1, <1>2, <1>4, <1>5 DEF IInv

\* A step that leaves the array alone.
Quiet(v) == Frame(v) /\ UNCHANGED array

LEMMA QuietStep ==
  ASSUME TypeOK, IInv, NEW v \in Volume, Quiet(v), VolumeInv(v)',
         Careful' => Wants(v)' /\ (protocol = "multipath" => AllPorts(v)'),
         used'["failure"] = 0 =>
           \A h \in hosts : Minding(v, h) => OfHost(h) # {} \/ Minding(v, h)'
  PROVE  Good(v)
<1>1. Frame(v) /\ ArrayStep(v) /\ hosts' = hosts /\ foreign' = foreign /\ vluns' = vluns
  BY DEF Quiet, ArrayStep, array
<1>2. Careful' => Careful
  BY <1>1 DEF Careful, Frame
<1>3. LunStep(v)
  BY <1>1, <1>2 DEF LunStep, IInv, LunInv, OneLun
<1>4. HostStep(v)
  BY <1>1 DEF HostStep, OfHost
<1> QED  BY <1>1, <1>3, <1>4 DEF Good

-----------------------------------------------------------------------------
(* The steps of the calls *)

\* What a step changes of the call that makes it, and of no other.
LEMMA LocalFrame ==
  ASSUME TypeOK, NEW v \in Volume,
         NEW p \in Point, GoTo(v, p),
         protocol' = protocol, used' = used \/ \E e \in Event : Spend(e),
         name' = name \/ \E n : name' = [name EXCEPT ![v] = n],
         todo' = todo \/ \E t : todo' = [todo EXCEPT ![v] = t],
         lun' = lun \/ \E l : lun' = [lun EXCEPT ![v] = l],
         attempt' = attempt \/ \E a : attempt' = [attempt EXCEPT ![v] = a]
  PROVE  Frame(v) /\ pc'[v] = p
<1>1. pc'[v] = p /\ \A w \in Volume : w # v => pc'[w] = pc[w]
  BY GoToFacts
<1>2. \A w \in Volume : w # v => name'[w] = name[w]
  BY DEF TypeOK
<1>3. \A w \in Volume : w # v => todo'[w] = todo[w]
  BY DEF TypeOK
<1>4. \A w \in Volume : w # v => lun'[w] = lun[w]
  BY DEF TypeOK
<1>5. \A w \in Volume : w # v => attempt'[w] = attempt[w]
  BY DEF TypeOK
<1>6. used'["failure"] = 0 => used["failure"] = 0
  BY SpendFacts
<1> QED  BY <1>1, <1>2, <1>3, <1>4, <1>5, <1>6 DEF Frame

LEMMA RaiseGood ==
  ASSUME TypeOK, IInv, NEW v \in Volume, CallRaises(v)
  PROVE  Good(v)
<1> DEFINE p == IF pc[v] = "delete_host" THEN "detached" ELSE "failed"
<1>1. /\ "failure" \in Event /\ p \in Point
      /\ Spend("failure") /\ GoTo(v, p) /\ UNCHANGED <<protocol, array, local>>
  BY DEF CallRaises, Event, Point, Ends
<1>2. Quiet(v) /\ pc'[v] = p
  BY <1>1, LocalFrame DEF Quiet, local
<1>3. used'["failure"] # 0
  BY <1>1, SpendFacts
<1>4. HasVlun(v)' = HasVlun(v)
  BY <1>2 DEF Quiet, array, HasVlun
<1>5. VolumeInv(v)'
  BY <1>2, <1>4 DEF IInv, VolumeInv, NameOk, RemovesAll, Reaches, NoLunYet, Found
<1>6. Careful' => Wants(v)' /\ (protocol = "multipath" => AllPorts(v)')
  BY <1>2, <1>3 DEF Careful, Wants, Quiet, Frame
<1> QED  BY <1>2, <1>3, <1>5, <1>6, QuietStep

LEMMA BeginGood ==
  ASSUME TypeOK, IInv, NEW v \in Volume,
         NEW p \in {"get_host", "query_host", "get_vlun"}, Begin(v, p)
  PROVE  Good(v)
<1>1. /\ "request" \in Event /\ p \in Point
      /\ pc[v] \in Ends /\ Spend("request") /\ GoTo(v, p) /\ UNCHANGED <<protocol, array>>
      /\ name' = [name EXCEPT ![v] = None] /\ todo' = [todo EXCEPT ![v] = {}]
      /\ lun' = [lun EXCEPT ![v] = None] /\ attempt' = [attempt EXCEPT ![v] = 0]
  BY DEF Begin, Event, Point, Attaching, Detaching, Evicting
<1>2. Quiet(v) /\ pc'[v] = p
  BY <1>1, LocalFrame DEF Quiet
<1>3. lun'[v] = None /\ attempt'[v] = 0
  BY <1>1 DEF TypeOK
<1>4. VolumeInv(v)'
  BY <1>2, <1>3 DEF VolumeInv, NameOk, RemovesAll, Reaches, NoLunYet, Found
<1>5. Careful' => Wants(v)' /\ (protocol = "multipath" => AllPorts(v)')
  <2> SUFFICES ASSUME Careful', protocol = "multipath" PROVE AllPorts(v)'
    BY <1>2 DEF Wants
  <2>1. AllPorts(v)
    BY <1>2 DEF Quiet, Frame, Careful, IInv, LunInv
  <2> QED  BY <1>1, <1>2, <2>1 DEF Quiet, array, AllPorts, HasVlun, PortOf, Ends
<1>6. \A h : ~Minding(v, h)
  BY <1>1 DEF Minding, Ends
<1> QED  BY <1>2, <1>4, <1>5, <1>6, QuietStep

\* The steps up to the one that looks for VLUNs make none.
Early == {"get_host", "prefer", "add_path", "query", "create_host", "conflict", "host",
          "find"}

LEMMA EarlyLuns ==
  ASSUME TypeOK, IInv, NEW v \in Volume, Frame(v), vluns' = vluns,
         pc[v] \notin {"export", "remove", "evict"},
         pc'[v] \notin {"export", "remove", "evict"}
  PROVE  Careful' => Wants(v)' /\ (protocol = "multipath" => AllPorts(v)')
<1> SUFFICES ASSUME Careful', protocol = "multipath" PROVE AllPorts(v)'
  BY DEF Wants
<1>1. AllPorts(v)
  BY DEF Frame, Careful, IInv, LunInv
<1> QED  BY <1>1 DEF AllPorts, HasVlun, PortOf

\* A call that gives up before it has found a VLUN to make or to remove.
LEMMA RefusedGood ==
  ASSUME TypeOK, IInv, NEW v \in Volume, Refused(v),
         pc[v] \notin {"export", "remove", "evict"},
         \A h \in hosts : Minding(v, h) => OfHost(h) # {}
  PROVE  Good(v)
<1>1. GoTo(v, "failed") /\ UNCHANGED <<protocol, array, name, todo, lun, attempt, used>>
  BY DEF Refused, Pass, Look
<1>2. Quiet(v) /\ pc'[v] = "failed"
  BY <1>1, LocalFrame DEF Quiet, Point, Ends
<1>3. VolumeInv(v)'
  BY <1>2 DEF VolumeInv, NameOk, RemovesAll, Reaches, NoLunYet, Found
<1>4. Careful' => Wants(v)' /\ (protocol = "multipath" => AllPorts(v)')
  BY <1>2, EarlyLuns DEF Quiet, array
<1> QED  BY <1>2, <1>3, <1>4, QuietStep

LEMMA GetHostGood ==
  ASSUME TypeOK, IInv, NEW v \in Volume, GetHost(v)
  PROVE  Good(v)
<1> DEFINE p == IF Own \notin hosts THEN "query"
                ELSE CASE protocol = "fc" -> "prefer"
                       [] protocol # "fc" /\ path = Own -> "host"
                       [] OTHER -> "add_path"
<1>1. /\ pc[v] = "get_host" /\ GoTo(v, p)
      /\ name' = [name EXCEPT ![v] = Own]
      /\ UNCHANGED <<protocol, array, todo, lun, attempt, used>>
  BY DEF GetHost, Look
<1>2. \/ p = "query" /\ Own \notin hosts
      \/ p = "prefer" /\ protocol = "fc"
      \/ p = "host" /\ path = Own
      \/ p = "add_path" /\ protocol # "fc"
  OBVIOUS
<1>3. p \in Point
  BY <1>2 DEF Point, Attaching
<1> HIDE DEF p
<1>4. Quiet(v) /\ pc'[v] = p
  BY <1>1, <1>3, LocalFrame DEF Quiet
<1>5. name'[v] = Own /\ lun'[v] = lun[v] /\ path' = path /\ vluns' = vluns /\ hosts' = hosts
      /\ protocol' = protocol
  BY <1>1 DEF TypeOK, array
<1>6. NoLunYet(v)'
  BY <1>1, <1>2, <1>4, <1>5 DEF IInv, VolumeInv, NoLunYet
<1>7. NameOk(v)'
  BY <1>2, <1>4, <1>5 DEF NameOk, Host, Found
<1>8. VolumeInv(v)'
  BY <1>2, <1>4, <1>6, <1>7 DEF VolumeInv, RemovesAll, Reaches
<1>9. Careful' => Wants(v)' /\ (protocol = "multipath" => AllPorts(v)')
  BY <1>1, <1>2, <1>4, <1>5, EarlyLuns DEF Quiet
<1>10. \A h : ~Minding(v, h)
  BY <1>1 DEF Minding
<1> QED  BY <1>4, <1>8, <1>9, <1>10, QuietStep

LEMMA PreferHostGood ==
  ASSUME TypeOK, IInv, NEW v \in Volume, PreferHost(v)
  PROVE  Good(v)
<1> DEFINE p == IF path = None THEN "add_path" ELSE "find"
           h == IF path = None THEN Own ELSE path
<1>1. /\ pc[v] = "prefer" /\ GoTo(v, p)
      /\ name' = [name EXCEPT ![v] = h]
      /\ UNCHANGED <<protocol, array, todo, lun, attempt, used>>
  BY DEF PreferHost, Look
<1>2. p \in Point
  BY DEF Point, Attaching
<1>3. Quiet(v) /\ pc'[v] = p
  BY <1>1, <1>2, LocalFrame DEF Quiet
<1>4. name'[v] = h /\ lun'[v] = lun[v] /\ path' = path /\ vluns' = vluns /\ hosts' = hosts
      /\ protocol' = protocol
  BY <1>1 DEF TypeOK, array
<1>5. path = None => Other \notin hosts
  BY HostAssumption DEF IInv, OnPath, Host
<1>6. path # None => path \in Host
  BY DEF TypeOK
<1>7. VolumeInv(v)'
  BY <1>1, <1>3, <1>4, <1>5, <1>6
  DEF IInv, VolumeInv, NameOk, RemovesAll, Reaches, NoLunYet, Found
<1>8. Careful' => Wants(v)' /\ (protocol = "multipath" => AllPorts(v)')
  BY <1>1, <1>3, <1>4, EarlyLuns DEF Quiet
<1>9. \A g : ~Minding(v, g)
  BY <1>1 DEF Minding
<1> QED  BY <1>3, <1>7, <1>8, <1>9, QuietStep

\* A step on to the host, found or not, when its name is as it should be.
LEMMA PassGood ==
  ASSUME TypeOK, IInv, NEW v \in Volume, NEW p \in Point, Pass(v, p),
         pc[v] \notin {"export", "remove", "evict"}, p \notin {"export", "remove", "evict"},
         VolumeInv(v)',
         \A h \in hosts : Minding(v, h) => OfHost(h) # {} \/ Minding(v, h)'
  PROVE  Good(v)
<1>1. GoTo(v, p) /\ UNCHANGED <<protocol, array, name, todo, lun, attempt, used>>
  BY DEF Pass, Look
<1>2. Quiet(v) /\ pc'[v] = p
  BY <1>1, LocalFrame DEF Quiet
<1>3. Careful' => Wants(v)' /\ (protocol = "multipath" => AllPorts(v)')
  BY <1>2, EarlyLuns DEF Quiet, array
<1> QED  BY <1>2, <1>3, QuietStep

\* Everything about a step that passes on, to be used with PassGood.
LEMMA PassFacts ==
  ASSUME TypeOK, NEW v \in Volume, NEW p \in Point, Pass(v, p)
  PROVE  /\ pc'[v] = p
         /\ UNCHANGED <<protocol, hosts, foreign, path, vluns, name, todo, lun, attempt, used>>
BY GoToFacts DEF Pass, Look, array

\* The node's path is given to its host.
LEMMA GainGood ==
  ASSUME TypeOK, IInv, NEW v \in Volume,
         pc[v] \in {"add_path", "create_host"}, name[v] = Own, path = None,
         hosts' = hosts \union {Own}, path' = Own, GoTo(v, "host"),
         UNCHANGED <<protocol, foreign, vluns, local, used>>
  PROVE  Good(v)
<1>1. Frame(v) /\ pc'[v] = "host"
  BY LocalFrame DEF local, Point, Attaching
<1>2. ArrayStep(v)
  BY DEF ArrayStep, Gains
<1>3. VolumeInv(v)'
  BY <1>1 DEF IInv, VolumeInv, NameOk, RemovesAll, Reaches, NoLunYet, Found, local, Host
<1>4. LunStep(v)
  BY <1>1, EarlyLuns DEF LunStep, IInv, LunInv, OneLun, Careful
<1>5. HostStep(v)
  BY <1>1 DEF HostStep, Minding, OfHost, local
<1> QED  BY <1>1, <1>2, <1>3, <1>4, <1>5 DEF Good

LEMMA AddPathGood ==
  ASSUME TypeOK, IInv, NEW v \in Volume, AddPath(v)
  PROVE  Good(v)
<1>1. pc[v] = "add_path" /\ name[v] = Own
  BY DEF AddPath, IInv, VolumeInv, NameOk
<1>2. CASE /\ path = None /\ name[v] \in hosts /\ path' = name[v] /\ GoTo(v, "host")
           /\ UNCHANGED <<protocol, hosts, foreign, vluns, local, used>>
  BY <1>1, <1>2, GainGood
<1>3. CASE path # None /\ name[v] \in hosts /\ protocol = "fc" /\ Pass(v, "host")
  <2>1. Other \notin hosts
    BY <1>1, <1>3 DEF IInv, VolumeInv, NameOk
  <2>2. path = Own
    BY <1>3, <2>1 DEF TypeOK, Host
  <2>3. "host" \in Point
    BY DEF Point, Attaching
  <2>4. VolumeInv(v)'
    BY <1>1, <1>3, <2>2, <2>3, PassFacts
    DEF IInv, VolumeInv, NameOk, RemovesAll, Reaches, NoLunYet, Found, Host
  <2>5. \A h : ~Minding(v, h)
    BY <1>1 DEF Minding
  <2> QED  BY <1>1, <1>3, <2>3, <2>4, <2>5, PassGood
<1>4. CASE Refused(v)
  BY <1>1, <1>4, RefusedGood DEF Minding
<1> QED  BY <1>2, <1>3, <1>4 DEF AddPath

LEMMA QueryHostGood ==
  ASSUME TypeOK, IInv, NEW v \in Volume, QueryHost(v)
  PROVE  Good(v)
<1> DEFINE p == IF path = None THEN "create_host" ELSE "host"
           h == IF path = None THEN Own ELSE path
<1>1. /\ pc[v] = "query" /\ GoTo(v, p)
      /\ name' = [name EXCEPT ![v] = h]
      /\ UNCHANGED <<protocol, array, todo, lun, attempt, used>>
  BY DEF QueryHost, Look
<1>2. p \in Point
  BY DEF Point, Attaching
<1>3. Quiet(v) /\ pc'[v] = p
  BY <1>1, <1>2, LocalFrame DEF Quiet
<1>4. name'[v] = h /\ lun'[v] = lun[v] /\ path' = path /\ vluns' = vluns /\ hosts' = hosts
      /\ protocol' = protocol
  BY <1>1 DEF TypeOK, array
<1>5. path # None => path \in Host
  BY DEF TypeOK
<1>6. VolumeInv(v)'
  BY <1>1, <1>3, <1>4, <1>5
  DEF IInv, VolumeInv, NameOk, RemovesAll, Reaches, NoLunYet, Found
<1>7. Careful' => Wants(v)' /\ (protocol = "multipath" => AllPorts(v)')
  BY <1>1, <1>3, <1>4, EarlyLuns DEF Quiet
<1>8. \A g : ~Minding(v, g)
  BY <1>1 DEF Minding
<1> QED  BY <1>3, <1>6, <1>7, <1>8, QuietStep

LEMMA CreateHostGood ==
  ASSUME TypeOK, IInv, NEW v \in Volume, CreateHost(v)
  PROVE  Good(v)
<1>1. pc[v] = "create_host" /\ name[v] = Own /\ \A h : ~Minding(v, h)
  BY DEF CreateHost, IInv, VolumeInv, NameOk, Minding
<1>2. CASE /\ Own \notin hosts /\ path = None
           /\ hosts' = hosts \union {Own} /\ path' = Own /\ GoTo(v, "host")
           /\ UNCHANGED <<protocol, foreign, vluns, local, used>>
  BY <1>1, <1>2, GainGood
<1>3. CASE Refused(v)
  BY <1>1, <1>3, RefusedGood
<1>4. CASE Pass(v, "conflict")
  <2>1. "conflict" \in Point
    BY DEF Point, Attaching
  <2>2. VolumeInv(v)'
    BY <1>1, <1>4, <2>1, PassFacts
    DEF IInv, VolumeInv, NameOk, RemovesAll, Reaches, NoLunYet, Found
  <2> QED  BY <1>1, <1>4, <2>1, <2>2, PassGood
<1> QED  BY <1>2, <1>3, <1>4 DEF CreateHost

LEMMA ConflictingHostGood ==
  ASSUME TypeOK, IInv, NEW v \in Volume, ConflictingHost(v)
  PROVE  Good(v)
<1>1. pc[v] = "conflict" /\ \A h : ~Minding(v, h)
  BY DEF ConflictingHost, Minding
<1>2. CASE path # None /\ name' = [name EXCEPT ![v] = path] /\ Look(v, "host")
  <2>1. Quiet(v) /\ pc'[v] = "host"
    BY <1>2, LocalFrame DEF Look, Quiet, Point, Attaching
  <2>2. name'[v] = path /\ path \in Host /\ lun'[v] = lun[v] /\ path' = path /\ vluns' = vluns
        /\ hosts' = hosts /\ protocol' = protocol
    BY <1>2 DEF Look, TypeOK, array
  <2>3. VolumeInv(v)'
    BY <1>1, <2>1, <2>2 DEF IInv, VolumeInv, NameOk, RemovesAll, Reaches, NoLunYet, Found
  <2>4. Careful' => Wants(v)' /\ (protocol = "multipath" => AllPorts(v)')
    BY <1>1, <2>1, <2>2, EarlyLuns DEF Quiet
  <2> QED  BY <1>1, <2>1, <2>3, <2>4, QuietStep
<1>3. CASE Refused(v)
  BY <1>1, <1>3, RefusedGood
<1> QED  BY <1>2, <1>3 DEF ConflictingHost

LEMMA ReadHostGood ==
  ASSUME TypeOK, IInv, NEW v \in Volume, ReadHost(v)
  PROVE  Good(v)
<1>1. pc[v] = "host"
  BY DEF ReadHost
<1>2. CASE Pass(v, "find")
  <2>1. "find" \in Point
    BY DEF Point, Attaching
  <2>2. VolumeInv(v)'
    BY <1>1, <1>2, <2>1, PassFacts
    DEF IInv, VolumeInv, NameOk, RemovesAll, Reaches, NoLunYet, Found, HasVlun
  <2>3. \A h : Minding(v, h) => Minding(v, h)'
    BY <1>2, <2>1, PassFacts DEF Minding
  <2> QED  BY <1>1, <1>2, <2>1, <2>2, <2>3, PassGood
<1>3. CASE name[v] \notin hosts /\ Refused(v)
  BY <1>1, <1>3, RefusedGood DEF Minding
<1> QED  BY <1>2, <1>3 DEF ReadHost

LEMMA FindVlunsGood ==
  ASSUME TypeOK, IInv, NEW v \in Volume, FindVluns(v)
  PROVE  Good(v)
<1>1. PICK q \in Port :
        LET mine == Of(v, name[v])
            missing == CASE protocol = "multipath" -> Port \ {x.port : x \in mine}
                         [] protocol # "multipath" /\ mine # {} -> {}
                         [] protocol = "fc" /\ mine = {} -> Port
                         [] OTHER -> {q}
        IN /\ todo' = [todo EXCEPT ![v] = missing]
           /\ GoTo(v, IF missing = {} THEN "answer" ELSE "export")
  BY DEF FindVluns
<1> DEFINE mine == Of(v, name[v])
           missing == CASE protocol = "multipath" -> Port \ {x.port : x \in mine}
                        [] protocol # "multipath" /\ mine # {} -> {}
                        [] protocol = "fc" /\ mine = {} -> Port
                        [] OTHER -> {q}
           p == IF missing = {} THEN "answer" ELSE "export"
<1>2. /\ pc[v] = "find" /\ todo' = [todo EXCEPT ![v] = missing] /\ GoTo(v, p)
      /\ UNCHANGED <<protocol, array, name, lun, attempt, used>>
  BY <1>1 DEF FindVluns
<1>3. /\ missing = {} => mine # {}
      /\ protocol # "multipath" /\ missing # {} => mine = {}
      /\ protocol = "multipath" => missing = Port \ {x.port : x \in mine}
  <2> HIDE DEF mine
  <2>1. CASE protocol = "multipath"
    <3>1. missing = Port \ {x.port : x \in mine}
      BY <2>1
    <3>2. mine = {} => q \in missing
      BY <3>1
    <3> QED  BY <2>1, <3>1, <3>2
  <2>2. CASE protocol # "multipath"
    BY <2>2
  <2> QED  BY <2>1, <2>2
<1> HIDE DEF missing
<1>4. p \in Point
  BY DEF Point, Attaching
<1>5. Quiet(v) /\ pc'[v] = p
  BY <1>2, <1>4, LocalFrame DEF Quiet
<1>6. todo'[v] = missing /\ name'[v] = name[v] /\ lun'[v] = lun[v] /\ path' = path
      /\ vluns' = vluns /\ hosts' = hosts /\ protocol' = protocol
  BY <1>2 DEF TypeOK, array
<1>7. /\ HasVlun(v) => mine = {x \in vluns : x.vol = v}
      /\ mine # {} => HasVlun(v)
  BY <1>2 DEF HasVlun, Of, IInv, OnPath, VolumeInv, NameOk, Found
<1>8. VolumeInv(v)'
  BY <1>2, <1>3, <1>5, <1>6, <1>7
  DEF IInv, VolumeInv, NameOk, RemovesAll, Reaches, NoLunYet, Found, HasVlun
<1>9. Careful' => Wants(v)' /\ (protocol = "multipath" => AllPorts(v)')
  <2> SUFFICES ASSUME Careful' PROVE Wants(v)' /\ (protocol = "multipath" => AllPorts(v)')
    OBVIOUS
  <2>1. lun[v] = None /\ Careful
    BY <1>2 DEF IInv, VolumeInv, NoLunYet, Careful
  <2>2. CASE protocol = "multipath"
    <3>1. HasVlun(v) => \A r \in Port : PortOf(v, r)
      BY <1>2, <2>1, <2>2 DEF IInv, LunInv, AllPorts
    <3>2. \A r \in Port : r \in missing \/ PortOf(v, r)
      BY <1>3, <2>2 DEF Of, PortOf
    <3>3. missing # {} => ~HasVlun(v)
      BY <1>3, <1>7, <2>2, <3>1 DEF PortOf
    <3>4. Wants(v)'
      BY <1>5, <1>6, <2>1, <3>3 DEF Wants, HasVlun
    <3>5. AllPorts(v)'
      BY <1>5, <1>6, <3>1, <3>2 DEF AllPorts, HasVlun, PortOf
    <3> QED  BY <3>4, <3>5
  <2>3. CASE protocol # "multipath"
    <3>1. missing # {} => ~HasVlun(v)
      BY <1>3, <1>7, <2>3 DEF HasVlun
    <3> QED  BY <1>5, <1>6, <2>1, <2>3, <3>1 DEF Wants, HasVlun
  <2> QED  BY <2>2, <2>3
<1>10. \A h : Minding(v, h) => OfHost(h) # {} \/ Minding(v, h)'
  BY <1>2, <1>3, <1>5, <1>6 DEF Minding, OfHost, Of
<1> QED  BY <1>5, <1>8, <1>9, <1>10, QuietStep

LEMMA ExportGood ==
  ASSUME TypeOK, IInv, NEW v \in Volume, Export(v)
  PROVE  Good(v)
<1>1. pc[v] = "export"
  BY DEF Export
<1>2. CASE name[v] \notin hosts /\ Refused(v)
  <2>1. GoTo(v, "failed") /\ UNCHANGED <<protocol, array, name, todo, lun, attempt, used>>
    BY <1>2 DEF Refused, Pass, Look
  <2>2. Quiet(v) /\ pc'[v] = "failed"
    BY <2>1, LocalFrame DEF Quiet, Point, Ends
  <2>3. ~HasVlun(v)
    BY <1>1, <1>2 DEF IInv, VolumeInv, NameOk, Found, OnPath, HasVlun, TypeOK
  <2>4. ~HasVlun(v)'
    BY <2>1, <2>3 DEF array, HasVlun
  <2>5. VolumeInv(v)'
    BY <2>2 DEF VolumeInv, NameOk, RemovesAll, Reaches, NoLunYet, Found
  <2>6. Wants(v)' /\ AllPorts(v)'
    BY <2>2, <2>4 DEF Wants, AllPorts
  <2>7. \A h \in hosts : ~Minding(v, h)
    BY <1>2 DEF Minding
  <2> QED  BY <2>2, <2>5, <2>6, <2>7, QuietStep
<1>3. ASSUME name[v] \in hosts,
             UNCHANGED <<protocol, hosts, foreign, path, name, attempt, used>>,
             NEW p \in todo[v], NEW l \in FreeLun(v, name[v]),
             vluns' = vluns \union {[vol |-> v, host |-> name[v], port |-> p, lun |-> l]},
             todo' = [todo EXCEPT ![v] = @ \ {p}],
             lun' = [lun EXCEPT ![v] = l],
             GoTo(v, IF todo[v] = {p} THEN "answer" ELSE "export")
      PROVE  Good(v)
  <2> DEFINE x == [vol |-> v, host |-> name[v], port |-> p, lun |-> l]
             next == IF todo[v] = {p} THEN "answer" ELSE "export"
  <2>1. /\ next \in Point /\ l \in Lun /\ l # None /\ p \in Port
        /\ path = name[v] /\ name[v] \in Host
    BY <1>1, <1>3, FreeLunFacts, HostAssumption
    DEF Point, Attaching, TypeOK, IInv, VolumeInv, NameOk, Found
  <2>2. x \in Vlun /\ x.vol = v /\ x.host = path /\ x.port = p /\ x.lun = l
    BY <2>1 DEF Vlun
  <2>3. vluns' = vluns \union {x}
    BY <1>3
  <2>4. todo' = [todo EXCEPT ![v] = todo[v] \ {p}]
    BY <1>3
  <2>5. Frame(v) /\ pc'[v] = next
    BY <1>3, <2>1, <2>4, LocalFrame
  <2>6. /\ todo'[v] = todo[v] \ {p} /\ lun'[v] = l /\ name'[v] = name[v]
        /\ path' = path /\ hosts' = hosts /\ protocol' = protocol /\ foreign' = foreign
        /\ used' = used
    BY <1>3, <2>4 DEF TypeOK
  <2> HIDE DEF x
  <2>7. ArrayStep(v)
    BY <1>3, <2>1, <2>2, <2>3 DEF ArrayStep, MakesOne
  <2>8. x \in vluns' /\ HasVlun(v)'
    BY <2>2, <2>3 DEF HasVlun
  <2>9. VolumeInv(v)'
    BY <1>1, <1>3, <2>1, <2>5, <2>6, <2>8 DEF VolumeInv, NameOk, RemovesAll, Reaches, NoLunYet, Found
  <2>10. LunStep(v)
    <3> SUFFICES ASSUME Careful'
                 PROVE  OneLun' /\ Wants(v)' /\ (protocol = "multipath" => AllPorts(v)')
      BY DEF LunStep
    <3>1. Careful
      BY <2>6 DEF Careful
    <3>2. /\ OneLun
          /\ lun[v] = None => ~HasVlun(v)
          /\ lun[v] # None => \E y \in vluns : y.vol = v /\ y.lun = lun[v]
          /\ protocol = "multipath" => \A r \in Port : r \in todo[v] \/ PortOf(v, r)
      BY <1>1, <3>1 DEF IInv, LunInv, Wants, AllPorts
    <3>3. \A y \in vluns : y.host = name[v]
      BY <2>1 DEF IInv, OnPath
    <3>4. \A y \in vluns : y.lun = l <=> y.vol = v
      <4>1. CASE lun[v] = None
        <5>1. \A y \in vluns : y.vol # v
          BY <3>2, <4>1 DEF HasVlun
        <5>2. l \notin {y.lun : y \in OfHost(name[v])}
          BY <1>3, <4>1 DEF FreeLun
        <5>3. \A y \in vluns : y.lun # l
          BY <3>3, <5>2 DEF OfHost
        <5> QED  BY <5>1, <5>3
      <4>2. CASE lun[v] # None
        <5>1. l = lun[v]
          BY <1>3, <4>2 DEF FreeLun
        <5>2. PICK z \in vluns : z.vol = v /\ z.lun = l
          BY <3>2, <4>2, <5>1
        <5> QED  BY <3>2, <5>2 DEF OneLun
      <4> QED  BY <4>1, <4>2
    <3>5. OneLun'
      BY <2>2, <2>3, <3>2, <3>4 DEF OneLun
    <3>6. Wants(v)'
      BY <2>1, <2>2, <2>6, <2>8 DEF Wants
    <3>7. PortOf(v, p)' /\ \A r : PortOf(v, r) => PortOf(v, r)'
      BY <2>2, <2>3, <2>8 DEF PortOf
    <3>8. protocol = "multipath" => \A r \in Port : r \in todo[v] \ {p} \/ PortOf(v, r)'
      BY <3>2, <3>7
    <3>9. protocol = "multipath" => AllPorts(v)'
      BY <2>5, <2>6, <3>8 DEF AllPorts
    <3> QED  BY <3>5, <3>6, <3>9
  <2>11. HostStep(v)
    <3>1. \A h : h # name[v] => ~Minding(v, h)
      BY DEF Minding
    <3>2. ASSUME NEW h, OfHost(h) # {} PROVE OfHost(h)' # {}
      BY <2>3, <3>2 DEF OfHost
    <3>3. \A h : h = name[v] => OfHost(h)' # {}
      BY <2>6, <2>1, <2>2, <2>8 DEF OfHost
    <3> QED  BY <2>6, <3>1, <3>2, <3>3 DEF HostStep
  <2> QED  BY <2>5, <2>7, <2>9, <2>10, <2>11 DEF Good
<1> QED  BY <1>2, <1>3 DEF Export

LEMMA AnswerGood ==
  ASSUME TypeOK, IInv, NEW v \in Volume, Answer(v)
  PROVE  Good(v)
<1>1. pc[v] = "answer" /\ Pass(v, "attached") /\ "attached" \in Point
  BY DEF Answer, Point, Ends
<1>2. VolumeInv(v)'
  BY <1>1, PassFacts
  DEF IInv, VolumeInv, NameOk, RemovesAll, Reaches, NoLunYet, Found, HasVlun
<1>3. \A h : ~Minding(v, h)
  BY <1>1 DEF Minding
<1> QED  BY <1>1, <1>2, <1>3, PassGood

LEMMA AskHostGood ==
  ASSUME TypeOK, IInv, NEW v \in Volume, AskHost(v)
  PROVE  Good(v)
<1> DEFINE h == IF path = None THEN Own ELSE path
<1>1. /\ pc[v] = "query_host" /\ name' = [name EXCEPT ![v] = h] /\ GoTo(v, "list")
      /\ UNCHANGED <<protocol, array, todo, lun, attempt, used>>
  BY DEF AskHost, Look
<1>2. Quiet(v) /\ pc'[v] = "list"
  BY <1>1, LocalFrame DEF Quiet, Point, Detaching
<1>3. name'[v] = h /\ h \in Host /\ vluns' = vluns
  BY <1>1 DEF TypeOK, array, Host
<1>4. VolumeInv(v)'
  BY <1>2, <1>3 DEF VolumeInv, NameOk, RemovesAll, Reaches, NoLunYet, Found
<1>5. Careful' => Wants(v)' /\ (protocol = "multipath" => AllPorts(v)')
  BY <1>1, <1>2, <1>3, EarlyLuns DEF Quiet
<1>6. \A g : ~Minding(v, g)
  BY <1>1 DEF Minding
<1> QED  BY <1>2, <1>4, <1>5, <1>6, QuietStep

LEMMA ListVlunsGood ==
  ASSUME TypeOK, IInv, NEW v \in Volume, ListVluns(v)
  PROVE  Good(v)
<1>1. pc[v] = "list" /\ \A h : ~Minding(v, h)
  BY DEF ListVluns, Minding
<1>2. CASE /\ OfHost(name[v]) # {}
           /\ todo' = [todo EXCEPT ![v] = {x.port : x \in Of(v, name[v])}]
           /\ GoTo(v, IF Of(v, name[v]) = {} THEN "detached" ELSE "remove")
           /\ UNCHANGED <<protocol, array, name, lun, attempt, used>>
  <2> DEFINE p == IF Of(v, name[v]) = {} THEN "detached" ELSE "remove"
  <2>1. p \in Point /\ GoTo(v, p)
    BY <1>2 DEF Point, Detaching, Ends
  <2>2. Quiet(v) /\ pc'[v] = p
    BY <1>2, <2>1, LocalFrame DEF Quiet
  <2>3. /\ todo'[v] = {x.port : x \in Of(v, name[v])} /\ name'[v] = name[v]
        /\ lun'[v] = lun[v] /\ vluns' = vluns /\ hosts' = hosts /\ path' = path
    BY <1>2 DEF TypeOK, array
  <2>4. \A x \in vluns : x.host = name[v]
    BY <1>2 DEF OfHost, IInv, OnPath
  <2>5. Of(v, name[v]) = {x \in vluns : x.vol = v}
    BY <2>4 DEF Of
  <2>6. p = "detached" => ~HasVlun(v)'
    BY <2>3, <2>5 DEF HasVlun
  <2>7. RemovesAll(v)'
    BY <2>2, <2>3, <2>4, <2>5, <2>6 DEF RemovesAll
  <2>8. VolumeInv(v)'
    BY <1>1, <2>2, <2>3, <2>7 DEF IInv, VolumeInv, NameOk, Reaches, NoLunYet, Found
  <2>9. Careful' => Wants(v)' /\ (protocol = "multipath" => AllPorts(v)')
    <3>1. CASE p = "remove"
      BY <2>2, <3>1 DEF Wants, AllPorts
    <3>2. CASE p = "detached"
      BY <2>2, <2>6, <3>2 DEF Wants, AllPorts
    <3> QED  BY <3>1, <3>2
  <2> QED  BY <1>1, <2>2, <2>8, <2>9, QuietStep
<1>3. CASE name' = [name EXCEPT ![v] = path] /\ path # None /\ Look(v, "list")
  <2>1. Quiet(v) /\ pc'[v] = "list"
    BY <1>3, LocalFrame DEF Look, Quiet, Point, Detaching
  <2>2. name'[v] = path /\ path \in Host /\ vluns' = vluns
    BY <1>3 DEF Look, TypeOK, array
  <2>3. VolumeInv(v)'
    BY <2>1, <2>2 DEF VolumeInv, NameOk, RemovesAll, Reaches, NoLunYet, Found
  <2>4. Careful' => Wants(v)' /\ (protocol = "multipath" => AllPorts(v)')
    BY <1>1, <2>1, <2>2, EarlyLuns DEF Quiet
  <2> QED  BY <1>1, <2>1, <2>3, <2>4, QuietStep
<1>4. CASE Refused(v)
  BY <1>1, <1>4, RefusedGood
<1> QED  BY <1>2, <1>3, <1>4 DEF ListVluns

\* A VLUN of the volume is removed from its host.
LEMMA RemoveOneGood ==
  ASSUME TypeOK, IInv, NEW v \in Volume, NEW p \in todo[v], NEW q, RemoveOne(v, p, q),
         \/ pc[v] = "remove" /\ q = "relist"
         \/ pc[v] = "evict" /\ q = "evict_relist"
  PROVE  Good(v)
<1> DEFINE next == IF todo[v] = {p} THEN q ELSE pc[v]
           t == todo[v] \ {p}
<1>1. /\ vluns' = {x \in vluns : ~(x.vol = v /\ x.host = name[v] /\ x.port = p)}
      /\ todo' = [todo EXCEPT ![v] = t] /\ GoTo(v, next)
      /\ UNCHANGED <<protocol, hosts, foreign, path, name, lun, attempt, used>>
  BY DEF RemoveOne
<1>2. next \in Point
  BY DEF Point, Detaching, Evicting
<1>3. Frame(v) /\ pc'[v] = next
  BY <1>1, <1>2, LocalFrame
<1>4. ArrayStep(v)
  BY <1>1 DEF ArrayStep, Unmakes
<1>5. todo'[v] = t /\ name'[v] = name[v] /\ name[v] \in Host
  BY <1>1 DEF TypeOK, IInv, VolumeInv, NameOk
<1>6. \A x \in vluns : x.vol = v => x.host = name[v] /\ x.port \in todo[v]
  BY DEF IInv, VolumeInv, RemovesAll
<1>7. \A x \in vluns' : x.vol = v => x.host = name[v] /\ x.port \in t
  BY <1>1, <1>6
<1>8. t = {} => ~HasVlun(v)'
  BY <1>7 DEF HasVlun
<1>9. next = q => t = {}
  OBVIOUS
<1>10. VolumeInv(v)'
  BY <1>3, <1>5, <1>7, <1>8, <1>9 DEF VolumeInv, NameOk, RemovesAll, Reaches, NoLunYet, Found
<1>11. LunStep(v)
  <2>1. Careful' => Careful
    BY <1>3 DEF Careful, Frame
  <2>2. Careful' => OneLun'
    BY <1>1, <2>1 DEF IInv, LunInv, OneLun
  <2>3. Wants(v)' /\ AllPorts(v)'
    BY <1>3, <1>8, <1>9 DEF Wants, AllPorts
  <2> QED  BY <2>2, <2>3 DEF LunStep
<1>12. HostStep(v)
  <2>1. Minding(v, name[v])'
    BY <1>3, <1>5 DEF Minding
  <2>2. ASSUME NEW h, h # name[v], OfHost(h) # {} PROVE OfHost(h)' # {}
    BY <1>1, <2>2 DEF OfHost
  <2>3. \A h : h # name[v] => ~Minding(v, h)
    BY DEF Minding
  <2> QED  BY <1>1, <2>1, <2>2, <2>3 DEF HostStep
<1> QED  BY <1>3, <1>4, <1>10, <1>11, <1>12 DEF Good

LEMMA RelistGood ==
  ASSUME TypeOK, IInv, NEW v \in Volume, Relist(v)
  PROVE  Good(v)
<1> DEFINE p == IF OfHost(name[v]) \ Of(v, name[v]) = {} THEN "delete_host" ELSE "detached"
<1>1. pc[v] = "relist" /\ Pass(v, p) /\ p \in Point
  BY DEF Relist, Point, Detaching, Ends
<1>2. VolumeInv(v)'
  BY <1>1, PassFacts
  DEF IInv, VolumeInv, NameOk, RemovesAll, Reaches, NoLunYet, Found, HasVlun
<1>3. p = "detached" => OfHost(name[v]) # {}
  OBVIOUS
<1>4. \A h : Minding(v, h) => OfHost(h) # {} \/ Minding(v, h)'
  BY <1>1, <1>3, PassFacts DEF Minding
<1> QED  BY <1>1, <1>2, <1>4, PassGood

\* A host that has no VLUN is removed.
LEMMA DropHostGood ==
  ASSUME TypeOK, IInv, NEW v \in Volume, NEW p, DropHost(v, p),
         \/ pc[v] = "delete_host" /\ p = "detached"
         \/ pc[v] = "evict_host" /\ p = "get_vlun"
  PROVE  Good(v)
<1>1. /\ name[v] \in Host /\ p \in Point
      /\ Drops(name[v]) /\ GoTo(v, p)
      /\ UNCHANGED <<protocol, vluns, name, todo, lun, attempt, used>>
  BY DEF DropHost, CanDelete, Drops, local, IInv, VolumeInv, NameOk, Point, Ends, Evicting
<1>2. Frame(v) /\ pc'[v] = p
  BY <1>1, LocalFrame
<1>3. ArrayStep(v)
  BY <1>1 DEF ArrayStep
<1>4. VolumeInv(v)'
  BY <1>1, <1>2
  DEF IInv, VolumeInv, NameOk, RemovesAll, Reaches, NoLunYet, Found, HasVlun
<1>5. LunStep(v)
  BY <1>1, <1>2, EarlyLuns DEF LunStep, IInv, LunInv, OneLun, Careful
<1>6. HostStep(v)
  <2>1. \A h : h # name[v] => ~Minding(v, h)
    BY DEF Minding
  <2> QED  BY <1>1, <2>1 DEF HostStep, Drops, OfHost
<1> QED  BY <1>2, <1>3, <1>4, <1>5, <1>6 DEF Good

LEMMA DeleteHostGood ==
  ASSUME TypeOK, IInv, NEW v \in Volume, DeleteHost(v)
  PROVE  Good(v)
<1>1. pc[v] = "delete_host" /\ "detached" \in Point
  BY DEF DeleteHost, Point, Ends
<1>2. CASE DropHost(v, "detached")
  BY <1>1, <1>2, DropHostGood
<1>3. CASE ~CanDelete(name[v]) /\ Pass(v, "detached")
  <2>1. VolumeInv(v)'
    BY <1>1, <1>3, PassFacts
    DEF IInv, VolumeInv, NameOk, RemovesAll, Reaches, NoLunYet, Found, HasVlun
  <2>2. \A h \in hosts : Minding(v, h) => OfHost(h) # {}
    BY <1>3 DEF Minding, CanDelete
  <2> QED  BY <1>1, <1>3, <2>1, <2>2, PassGood
<1> QED  BY <1>2, <1>3 DEF DeleteHost

LEMMA GetVlunGood ==
  ASSUME TypeOK, IInv, NEW v \in Volume, GetVlun(v)
  PROVE  Good(v)
<1>1. pc[v] = "get_vlun" /\ \A h : ~Minding(v, h)
  BY DEF GetVlun, Minding
<1>2. ASSUME NEW x \in vluns, attempt[v] < 2, x.vol = v, name' = [name EXCEPT ![v] = x.host],
             attempt' = [attempt EXCEPT ![v] = @ + 1], GoTo(v, "evict_list"),
             UNCHANGED <<protocol, array, todo, lun, used>>
      PROVE  Good(v)
  <2>1. attempt' = [attempt EXCEPT ![v] = attempt[v] + 1]
    BY <1>2
  <2>2. Quiet(v) /\ pc'[v] = "evict_list"
    BY <1>2, <2>1, LocalFrame DEF Quiet, Point, Evicting
  <2>3. name'[v] = x.host /\ x.host \in Host /\ vluns' = vluns
    BY <1>2 DEF TypeOK, Vlun, array
  <2>4. \A y \in vluns : y.host = x.host
    BY DEF IInv, OnPath
  <2>5. VolumeInv(v)'
    BY <2>2, <2>3, <2>4 DEF VolumeInv, NameOk, RemovesAll, Reaches, NoLunYet, Found
  <2>6. Careful' => Wants(v)' /\ (protocol = "multipath" => AllPorts(v)')
    BY <1>1, <2>2, <2>3, EarlyLuns DEF Quiet
  <2> QED  BY <1>1, <2>2, <2>5, <2>6, QuietStep
<1>3. CASE (attempt[v] = 2 \/ \A x \in vluns : x.vol # v) /\ Pass(v, "detached")
  <2>1. "detached" \in Point
    BY DEF Point, Ends
  <2>2. ~HasVlun(v)
    BY <1>1, <1>3 DEF IInv, VolumeInv, RemovesAll, HasVlun
  <2>3. VolumeInv(v)'
    BY <1>3, <2>1, <2>2, PassFacts
    DEF VolumeInv, NameOk, RemovesAll, Reaches, NoLunYet, Found, HasVlun
  <2> QED  BY <1>1, <1>3, <2>1, <2>3, PassGood
<1> QED  BY <1>2, <1>3 DEF GetVlun

LEMMA EvictListGood ==
  ASSUME TypeOK, IInv, NEW v \in Volume, EvictList(v)
  PROVE  Good(v)
<1>1. /\ pc[v] = "evict_list" /\ GoTo(v, "evict")
      /\ todo' = [todo EXCEPT ![v] = {x.port : x \in Of(v, name[v])}]
      /\ UNCHANGED <<protocol, array, name, lun, attempt, used>>
  BY DEF EvictList
<1>2. Quiet(v) /\ pc'[v] = "evict"
  BY <1>1, LocalFrame DEF Quiet, Point, Evicting
<1>3. todo'[v] = {x.port : x \in Of(v, name[v])} /\ name'[v] = name[v] /\ vluns' = vluns
  BY <1>1 DEF TypeOK, array
<1>4. \A x \in vluns : x.vol = v => x.host = name[v] /\ x.port \in todo'[v]
  BY <1>1, <1>3 DEF IInv, VolumeInv, RemovesAll, Of
<1>5. VolumeInv(v)'
  BY <1>1, <1>2, <1>3, <1>4
  DEF IInv, VolumeInv, NameOk, RemovesAll, Reaches, NoLunYet, Found
<1>6. Wants(v)' /\ AllPorts(v)'
  BY <1>2 DEF Wants, AllPorts
<1>7. \A h : ~Minding(v, h)
  BY <1>1 DEF Minding
<1> QED  BY <1>2, <1>5, <1>6, <1>7, QuietStep

LEMMA EvictRelistGood ==
  ASSUME TypeOK, IInv, NEW v \in Volume, EvictRelist(v)
  PROVE  Good(v)
<1> DEFINE p == IF OfHost(name[v]) = {} THEN "evict_host" ELSE "get_vlun"
<1>1. pc[v] = "evict_relist" /\ Pass(v, p) /\ p \in Point
  BY DEF EvictRelist, Point, Evicting
<1>2. VolumeInv(v)'
  BY <1>1, PassFacts
  DEF IInv, VolumeInv, NameOk, RemovesAll, Reaches, NoLunYet, Found, HasVlun
<1>3. \A h : Minding(v, h) => OfHost(h) # {} \/ Minding(v, h)'
  BY <1>1, PassFacts DEF Minding
<1> QED  BY <1>1, <1>2, <1>3, PassGood

LEMMA EvictHostGood ==
  ASSUME TypeOK, IInv, NEW v \in Volume, EvictHost(v)
  PROVE  Good(v)
<1>1. pc[v] = "evict_host"
  BY DEF EvictHost
<1>2. CASE DropHost(v, "get_vlun")
  BY <1>1, <1>2, DropHostGood
<1>3. CASE ~CanDelete(name[v]) /\ Refused(v)
  BY <1>1, <1>3, RefusedGood DEF Minding, CanDelete
<1> QED  BY <1>2, <1>3 DEF EvictHost

-----------------------------------------------------------------------------
(* The invariant and the properties *)

LEMMA InitIInv == Init => IInv
<1> SUFFICES ASSUME Init PROVE IInv
  OBVIOUS
<1>1. OnPath
  BY DEF Init, OnPath
<1>2. \A v \in Volume : VolumeInv(v)
  BY DEF Init, VolumeInv, NameOk, RemovesAll, Reaches, NoLunYet, Found
<1>3. LunInv
  BY DEF Init, LunInv, OneLun, Wants, AllPorts, HasVlun
<1>4. HostInv
  BY DEF Init, HostInv
<1> QED  BY <1>1, <1>2, <1>3, <1>4 DEF IInv

LEMMA NextIInv == TypeOK /\ IInv /\ [Next]_vars => IInv'
<1> SUFFICES ASSUME TypeOK, IInv, [Next]_vars PROVE IInv'
  OBVIOUS
<1>1. ASSUME NEW v \in Volume, Connect(v) PROVE Good(v)
  <2>1. CASE Attach(v)
    BY <2>1, BeginGood DEF Attach
  <2> QED
    BY <1>1, <2>1, GetHostGood, PreferHostGood, AddPathGood, QueryHostGood, CreateHostGood,
       ConflictingHostGood, ReadHostGood, FindVlunsGood, ExportGood, AnswerGood DEF Connect
<1>2. ASSUME NEW v \in Volume, Disconnect(v) PROVE Good(v)
  <2>1. CASE Detach(v)
    BY <2>1, BeginGood DEF Detach
  <2>2. CASE RemoveVlun(v)
    BY <2>2, RemoveOneGood DEF RemoveVlun
  <2> QED
    BY <1>2, <2>1, <2>2, AskHostGood, ListVlunsGood, RelistGood, DeleteHostGood DEF Disconnect
<1>3. ASSUME NEW v \in Volume, Takeover(v) PROVE Good(v)
  <2>1. CASE Evict(v)
    BY <2>1, BeginGood DEF Evict
  <2>2. CASE EvictVlun(v)
    BY <2>2, RemoveOneGood DEF EvictVlun
  <2> QED
    BY <1>3, <2>1, <2>2, GetVlunGood, EvictListGood, EvictRelistGood, EvictHostGood DEF Takeover
<1>4. CASE Next
  BY <1>1, <1>2, <1>3, <1>4, RaiseGood, GoodStep DEF Next
<1>5. CASE UNCHANGED vars
  BY <1>5
  DEF vars, array, local, IInv, OnPath, VolumeInv, NameOk, RemovesAll, Reaches, NoLunYet,
      LunInv, Careful, OneLun, Wants, AllPorts, HasVlun, PortOf, HostInv, Minding, OfHost
<1> QED  BY <1>4, <1>5

LEMMA Inductive == Spec => [](TypeOK /\ IInv)
<1>1. Init => TypeOK /\ IInv
  BY InitType, InitIInv
<1>2. (TypeOK /\ IInv) /\ [Next]_vars => (TypeOK /\ IInv)'
  BY NextType, NextIInv
<1> QED  BY <1>1, <1>2, PTL DEF Spec

\* Whatever the calls for the other volumes of the node do, and whichever of them fail, a
\* volume whose attachment has succeeded stays reachable by the host with the node's path,
\* and only by it (initialize_connection, delete_vlun, force_remove_volume_vlun).
THEOREM StaysReachable == Spec => []AttachedIsReachable
<1>1. TypeOK /\ IInv => AttachedIsReachable
  <2> SUFFICES ASSUME TypeOK, IInv, NEW v \in Volume, pc[v] = "attached"
               PROVE  path # None /\ Of(v, path) # {} /\ \A x \in vluns : x.vol = v => x.host = path
    BY DEF AttachedIsReachable
  <2>1. PICK x \in vluns : x.vol = v
    BY DEF IInv, VolumeInv, Reaches, HasVlun
  <2>2. \A y \in vluns : y.host = path /\ y.host \in Host
    BY DEF IInv, OnPath, TypeOK
  <2> QED  BY <2>1, <2>2, HostAssumption DEF Of
<1> QED  BY <1>1, Inductive, PTL

\* A detachment or eviction that succeeds leaves no VLUN of the volume on any host, however
\* the node was known to the array (terminate_connection, force_remove_volume_vlun).
THEOREM RemovedEverywhere == Spec => []DetachedIsGone
<1>1. IInv => DetachedIsGone
  BY DEF IInv, VolumeInv, RemovesAll, HasVlun, DetachedIsGone
<1> QED  BY <1>1, Inductive, PTL

\* The VLUNs of a volume share a LUN id that no other volume of the host has, on every
\* port, unless a call of iSCSI multipath has failed (create_vlun, initialize_connection).
THEOREM LunsAreOne == Spec => []LunsAgree
<1>1. IInv => LunsAgree
  BY DEF IInv, LunInv, Careful, OneLun, LunsAgree
<1> QED  BY <1>1, Inductive, PTL

\* When no call has failed and all are over, a host that the plugin has made has VLUNs
\* (delete_vlun, force_remove_volume_vlun).
THEOREM HostsAreUsed == Spec => []NoIdleHost
<1>1. IInv => NoIdleHost
  BY DEF IInv, HostInv, Minding, Ends, NoIdleHost
<1> QED  BY <1>1, Inductive, PTL
=============================================================================
