------------------------- MODULE ShareMount_proof -------------------------
(* Proofs about the mounts of a file share, as modelled in ShareMount. *)
EXTENDS ShareMount, TLAPS

-----------------------------------------------------------------------------
(* Type correctness *)

Request == [op : {"mount", "unmount", "remove"}, step : Step, copy : Record]

\* Only containers mount and unmount, so that the ids in a record are containers.
OwnRequests ==
  \A c \in Client : Active(c) /\ req[c].op # "remove" => c \in Container

TypeInv == TypeOK /\ OwnRequests

\* What is known of a request that is being worked on.
LEMMA RequestFacts ==
  ASSUME TypeInv, NEW c \in Client, Active(c)
  PROVE  /\ req[c] \in Request
         /\ req[c].op \in {"mount", "unmount", "remove"} /\ req[c].step \in Step
         /\ req[c].copy \in Record
         /\ req[c].copy.status \in Status
         /\ req[c].copy.paths \in [Node -> SUBSET Container]
         /\ At[c] \in Node
         /\ PathsHere(c) \in SUBSET Container
         /\ req[c].op # "remove" => c \in Container
<1>1. req[c] \in Request
  BY DEF TypeInv, TypeOK, Active, Request
<1>2. At[c] \in Node
  BY MountAssumption
<1>3. req[c].op # "remove" => c \in Container
  BY DEF TypeInv, OwnRequests
<1> QED  BY <1>1, <1>2, <1>3 DEF Request, Record, PathsHere

\* The record that a request saves.
LEMMA WithFacts ==
  ASSUME TypeInv, NEW c \in Client, Active(c), NEW ids \in SUBSET Container
  PROVE  /\ With(c, ids) \in Record
         /\ With(c, ids) # NoShare
         /\ With(c, ids).paths[At[c]] = ids
         /\ \A n \in Node : n # At[c] => With(c, ids).paths[n] = req[c].copy.paths[n]
<1>1. /\ req[c].copy \in Record
      /\ req[c].copy.paths \in [Node -> SUBSET Container]
      /\ At[c] \in Node
  BY RequestFacts
<1>2. With(c, ids) = [req[c].copy EXCEPT !.paths = [req[c].copy.paths EXCEPT ![At[c]] = ids]]
  BY <1>1 DEF With, Record
<1>3. [req[c].copy.paths EXCEPT ![At[c]] = ids] \in [Node -> SUBSET Container]
  BY <1>1
<1>4. With(c, ids) \in Record /\ With(c, ids).paths = [req[c].copy.paths EXCEPT ![At[c]] = ids]
  BY <1>1, <1>2, <1>3 DEF Record
<1>5. With(c, ids) # NoShare
  BY <1>4, NoShareAssumption DEF Record, Status
<1> QED  BY <1>1, <1>4, <1>5

\* The share as FAILED.
LEMMA FailedFacts ==
  ASSUME TypeInv, NEW c \in Client, Active(c)
  PROVE  /\ [req[c].copy EXCEPT !.status = "FAILED"] \in Record
         /\ [req[c].copy EXCEPT !.status = "FAILED"] # NoShare
         /\ [req[c].copy EXCEPT !.status = "FAILED"].paths = req[c].copy.paths
<1>1. req[c].copy \in Record
  BY RequestFacts
<1>2. /\ [req[c].copy EXCEPT !.status = "FAILED"] \in Record
      /\ [req[c].copy EXCEPT !.status = "FAILED"].paths = req[c].copy.paths
  BY <1>1 DEF Record, Status
<1> QED  BY <1>2, NoShareAssumption DEF Record, Status

\* A step of one request leaves the others alone.
LEMMA GoToFacts ==
  ASSUME TypeInv, NEW c \in Client, Active(c), NEW s \in Step, GoTo(c, s)
  PROVE  /\ req' \in [Client -> {Idle} \union Request]
         /\ req'[c].op = req[c].op /\ req'[c].step = s /\ req'[c].copy = req[c].copy
         /\ \A d \in Client : d # c => req'[d] = req[d]
         /\ \A d \in Client : Active(d)' <=> Active(d)
         /\ \A d \in Client : req'[d] # Idle => req'[d].op = req[d].op /\ req'[d].copy = req[d].copy
<1>1. req \in [Client -> {Idle} \union Request] /\ req[c] \in Request
  BY RequestFacts DEF TypeInv, TypeOK, Request
<1>2. req' = [req EXCEPT ![c] = [req[c] EXCEPT !.step = s]]
  BY DEF GoTo
<1>3. /\ [req[c] EXCEPT !.step = s] \in Request
      /\ [req[c] EXCEPT !.step = s].op = req[c].op
      /\ [req[c] EXCEPT !.step = s].step = s
      /\ [req[c] EXCEPT !.step = s].copy = req[c].copy
  BY <1>1 DEF Request
<1>4. req'[c] = [req[c] EXCEPT !.step = s] /\ \A d \in Client : d # c => req'[d] = req[d]
  BY <1>1, <1>2
<1>5. req' \in [Client -> {Idle} \union Request]
  BY <1>1, <1>2, <1>3
<1>6. req'[c] # Idle
  BY <1>1, <1>3, <1>4 DEF Idle, Request
<1> QED  BY <1>3, <1>4, <1>5, <1>6 DEF Active

\* An answer ends the request and says where the container is.
LEMMA AnswerFacts ==
  ASSUME TypeInv, NEW c \in Client, NEW u \in {"out", "asks", "in", "leaves"}, Answer(c, u)
  PROVE  /\ req' \in [Client -> {Idle} \union Request]
         /\ ~Active(c)'
         /\ \A d \in Client : d # c => req'[d] = req[d]
         /\ \A d \in Client : Active(d)' => d # c /\ Active(d)
         /\ use' \in [Container -> {"out", "asks", "in", "leaves"}]
         /\ \A d \in Container : use'[d] = IF d = c THEN u ELSE use[d]
<1>1. /\ req \in [Client -> {Idle} \union Request]
      /\ use \in [Container -> {"out", "asks", "in", "leaves"}]
  BY DEF TypeInv, TypeOK, Request
<1>2. req' = [req EXCEPT ![c] = Idle]
  BY DEF Answer
<1>3. /\ use' \in [Container -> {"out", "asks", "in", "leaves"}]
      /\ \A d \in Container : use'[d] = IF d = c THEN u ELSE use[d]
  <2>1. CASE c \in Container
    BY <1>1, <2>1 DEF Answer, Settle
  <2>2. CASE c \notin Container
    BY <1>1, <2>2 DEF Answer, Settle
  <2> QED  BY <2>1, <2>2
<1> QED  BY <1>1, <1>2, <1>3 DEF Active

LEMMA InitTypeInv == Init => TypeInv
<1> SUFFICES ASSUME Init PROVE TypeInv
  OBVIOUS
<1>1. PICK s \in Status : share = [status |-> s, paths |-> [n \in Node |-> {}]]
  BY DEF Init
<1>2. share \in Record
  BY <1>1 DEF Record
<1>3. requests \in 0..MaxRequests /\ failures \in 0..MaxFailures
  BY MountAssumption DEF Init
<1>4. \A c \in Client : req[c] = Idle
  BY DEF Init
<1>5. req \in [Client -> {Idle}] /\ use \in [Container -> {"out"}]
  BY DEF Init
<1>6. {perms, disturbed} \subseteq BOOLEAN
  BY DEF Init
<1>7. TypeOK
  BY <1>2, <1>3, <1>5, <1>6 DEF Init, TypeOK
<1> QED  BY <1>4, <1>7 DEF TypeInv, OwnRequests, Active

\* A client that only goes on to another step.
LEMMA GoToType ==
  ASSUME TypeInv, NEW c \in Client, Active(c), NEW s \in Step, GoTo(c, s),
         share' = share \/ share' \in Record \union {NoShare},
         clients' \subseteq Node, mounted' \subseteq Node,
         {perms, disturbed}' \subseteq BOOLEAN, data' \in {"kept", "removed", "lost"},
         use' = use, requests' = requests, failures' \in 0..MaxFailures
  PROVE  TypeInv'
<1>1. /\ req' \in [Client -> {Idle} \union Request]
      /\ \A d \in Client : Active(d)' <=> Active(d)
      /\ \A d \in Client : req'[d] # Idle => req'[d].op = req[d].op
  BY GoToFacts
<1>2. OwnRequests'
  BY <1>1 DEF TypeInv, OwnRequests, Active
<1>3. TypeOK'
  BY <1>1 DEF TypeInv, TypeOK, Request
<1> QED  BY <1>2, <1>3 DEF TypeInv

\* A client whose request is answered.
LEMMA AnswerType ==
  ASSUME TypeInv, NEW c \in Client, NEW u \in {"out", "asks", "in", "leaves"}, Answer(c, u),
         share' = share \/ share' \in Record \union {NoShare},
         clients' \subseteq Node, mounted' \subseteq Node,
         {perms, disturbed}' \subseteq BOOLEAN, data' \in {"kept", "removed", "lost"},
         requests' = requests, failures' \in 0..MaxFailures
  PROVE  TypeInv'
<1>1. /\ req' \in [Client -> {Idle} \union Request]
      /\ ~Active(c)'
      /\ \A d \in Client : d # c => req'[d] = req[d]
      /\ use' \in [Container -> {"out", "asks", "in", "leaves"}]
  BY AnswerFacts
<1>2. OwnRequests'
  BY <1>1 DEF TypeInv, OwnRequests, Active
<1>3. TypeOK'
  BY <1>1 DEF TypeInv, TypeOK, Request
<1> QED  BY <1>2, <1>3 DEF TypeInv

\* A request comes in, unless there is no share.
LEMMA ReceiveFacts ==
  ASSUME TypeInv, NEW c \in Client, NEW op \in {"mount", "unmount", "remove"}, Receive(c, op)
  PROVE  /\ TypeInv'
         /\ share = NoShare =>
              req' = req /\ \A d \in Container : use'[d] = IF d = c THEN "out" ELSE use[d]
         /\ share # NoShare =>
              /\ Active(c)' /\ req'[c].op = op /\ req'[c].step = "start" /\ req'[c].copy = share
              /\ \A d \in Client : d # c => req'[d] = req[d]
              /\ \A d \in Container :
                   use'[d] = IF d = c THEN IF op = "mount" THEN "asks" ELSE "leaves" ELSE use[d]
<1> DEFINE u == IF share = NoShare THEN "out" ELSE IF op = "mount" THEN "asks" ELSE "leaves"
<1>1. /\ use' \in [Container -> {"out", "asks", "in", "leaves"}]
      /\ \A d \in Container : use'[d] = IF d = c THEN u ELSE use[d]
  <2>1. Settle(c, u)
    BY DEF Receive
  <2>2. use \in [Container -> {"out", "asks", "in", "leaves"}]
    BY DEF TypeInv, TypeOK
  <2>3. CASE c \in Container
    BY <2>1, <2>2, <2>3 DEF Settle
  <2>4. CASE c \notin Container
    BY <2>1, <2>2, <2>4 DEF Settle
  <2> QED  BY <2>3, <2>4
<1>2. op # "remove" => c \in Container
  BY DEF Receive, MayAsk
<1>3. requests' \in 0..MaxRequests /\ failures' \in 0..MaxFailures
  BY MountAssumption DEF Receive, Counters, TypeInv, TypeOK
<1>4. CASE share = NoShare
  <2>1. req' = req /\ disturbed' = disturbed
    BY <1>4 DEF Receive
  <2>2. TypeOK'
    BY <1>1, <1>3, <2>1 DEF TypeInv, TypeOK, Receive, World
  <2>3. OwnRequests'
    BY <2>1 DEF TypeInv, OwnRequests, Active
  <2> QED  BY <1>1, <1>4, <2>1, <2>2, <2>3 DEF TypeInv
<1>5. CASE share # NoShare
  <2> DEFINE r == [op |-> op, step |-> "start", copy |-> share]
  <2>1. req' = [req EXCEPT ![c] = r] /\ disturbed' \in BOOLEAN
    BY <1>5 DEF Receive
  <2>2. r \in Request /\ r # Idle /\ r.op = op /\ r.step = "start" /\ r.copy = share
    BY <1>5 DEF Request, Step, Idle, TypeInv, TypeOK
  <2>3. /\ req' \in [Client -> {Idle} \union Request]
        /\ req'[c] = r /\ \A d \in Client : d # c => req'[d] = req[d]
    <3> HIDE DEF r
    <3>1. req \in [Client -> {Idle} \union Request]
      BY DEF TypeInv, TypeOK, Request
    <3> QED  BY <2>1, <2>2, <3>1
  <2>4. TypeOK'
    BY <1>1, <1>3, <2>1, <2>3 DEF TypeInv, TypeOK, Receive, World, Request
  <2>5. OwnRequests'
    BY <1>2, <2>2, <2>3 DEF TypeInv, OwnRequests, Active
  <2> QED  BY <1>1, <1>5, <2>2, <2>3, <2>4, <2>5 DEF TypeInv, Active
<1> QED  BY <1>4, <1>5

\* The requests of a node that has died.
LEMMA AbandonFacts ==
  ASSUME TypeInv, NEW n \in Node, Abandon(n)
  PROVE  /\ req' \in [Client -> {Idle} \union Request]
         /\ \A d \in Client : Active(d)' <=> Active(d) /\ At[d] # n
         /\ \A d \in Client : Active(d)' => req'[d] = req[d]
         /\ OwnRequests'
         /\ requests' \in 0..MaxRequests /\ failures' \in 0..MaxFailures
<1>1. req \in [Client -> {Idle} \union Request]
  BY DEF TypeInv, TypeOK, Request
<1>2. req' = [c \in Client |-> IF At[c] = n THEN Idle ELSE req[c]]
  BY DEF Abandon
<1>3. requests' \in 0..MaxRequests /\ failures' \in 0..MaxFailures
  BY MountAssumption DEF Abandon, TypeInv, TypeOK
<1>4. req' \in [Client -> {Idle} \union Request]
  BY <1>1, <1>2
<1>5. \A d \in Client : Active(d)' <=> Active(d) /\ At[d] # n
  BY <1>2 DEF Active
<1>6. \A d \in Client : Active(d)' => req'[d] = req[d]
  BY <1>2, <1>5
<1>7. OwnRequests'
  BY <1>5, <1>6 DEF TypeInv, OwnRequests
<1> QED  BY <1>3, <1>4, <1>5, <1>6, <1>7

LEMMA TypeStep == TypeInv /\ [Next]_vars => TypeInv'
<1> SUFFICES ASSUME TypeInv, [Next]_vars PROVE TypeInv'
  OBVIOUS
<1> USE DEF Step
<1>1. ASSUME NEW c \in Client, NEW op \in {"mount", "unmount", "remove"}, Receive(c, op)
      PROVE  TypeInv'
  BY <1>1, ReceiveFacts
<1>2. ASSUME NEW c \in Client, Refuse(c) \/ Join(c) \/ NotThere(c) \/ Leave(c) PROVE TypeInv'
  <2>1. Active(c) /\ c \in Container /\ PathsHere(c) \in SUBSET Container
    BY <1>2, RequestFacts DEF Refuse, Join, NotThere, Leave, Doing
  <2>2. With(c, PathsHere(c) \union {c}) \in Record /\ With(c, PathsHere(c) \ {c}) \in Record
    BY <2>1, WithFacts
  <2>3. share' = share \/ share' \in Record
    BY <1>2, <2>2 DEF Refuse, Join, NotThere, Leave, World
  <2>4. PICK u \in {"in", "out"} : Answer(c, u)
    BY <1>2 DEF Refuse, Join, NotThere, Leave
  <2>5. /\ clients' = clients /\ mounted' = mounted /\ perms' = perms /\ data' = data
        /\ disturbed' = disturbed /\ requests' = requests /\ failures' = failures
    BY <1>2 DEF Refuse, Join, NotThere, Leave, World, Counters
  <2> QED  BY <2>3, <2>4, <2>5, AnswerType DEF TypeInv, TypeOK
<1>3. ASSUME NEW c \in Client,
             \/ FirstOnNode(c) \/ AllowClient(c) \/ Mount(c) \/ SetPermissions(c)
             \/ PermissionsRefused(c) \/ LastOnNode(c) \/ ForbidClient(c) \/ WipeContents(c)
      PROVE  TypeInv'
  <2>1. Active(c)
    BY <1>3 DEF FirstOnNode, AllowClient, Mount, SetPermissions, PermissionsRefused,
                LastOnNode, ForbidClient, WipeContents, Doing
  <2>2. PICK s \in Step : GoTo(c, s)
    BY <1>3 DEF FirstOnNode, AllowClient, Mount, SetPermissions, PermissionsRefused,
                LastOnNode, ForbidClient, WipeContents, Doing
  <2>3. At[c] \in Node
    BY MountAssumption
  <2>4. /\ share' = share /\ clients' \subseteq Node /\ mounted' \subseteq Node
        /\ {perms, disturbed}' \subseteq BOOLEAN /\ data' \in {"kept", "removed", "lost"}
        /\ use' = use /\ requests' = requests
    BY <1>3, <2>3 DEF FirstOnNode, AllowClient, Mount, SetPermissions, PermissionsRefused,
                LastOnNode, ForbidClient, WipeContents, World, Counters, TypeInv, TypeOK
  <2>5. failures' \in 0..MaxFailures
    BY <1>3, MountAssumption DEF FirstOnNode, AllowClient, Mount, SetPermissions,
                PermissionsRefused, LastOnNode, ForbidClient, WipeContents, World, Counters,
                TypeInv, TypeOK
  <2> QED  BY <2>1, <2>2, <2>4, <2>5, GoToType
<1>4. ASSUME NEW c \in Client, MountRefused(c) PROVE TypeInv'
  <2>1. Active(c)
    BY <1>4 DEF MountRefused, Doing
  <2>2. Answer(c, "out") \/ (GoTo(c, "delete") /\ use' = use)
    BY <1>4 DEF MountRefused
  <2>3. /\ share' = share /\ clients' = clients /\ mounted' = mounted /\ perms' = perms
        /\ data' = data /\ disturbed' = disturbed /\ requests' = requests
        /\ failures' = failures
    BY <1>4 DEF MountRefused, World, Counters
  <2> QED  BY <2>1, <2>2, <2>3, AnswerType, GoToType DEF TypeInv, TypeOK
<1>5. ASSUME NEW c \in Client, Umount(c) \/ RemoveDir(c) PROVE TypeInv'
  <2>1. Active(c)
    BY <1>5 DEF Umount, RemoveDir, Doing
  <2>2. Answer(c, "out") \/ \E s \in Step : GoTo(c, s) /\ use' = use
    BY <1>5 DEF Umount, RemoveDir
  <2>3. /\ share' = share /\ clients' = clients /\ mounted' \subseteq Node /\ perms' = perms
        /\ data' \in {"kept", "removed", "lost"} /\ disturbed' = disturbed
        /\ requests' = requests /\ failures' = failures
    BY <1>5 DEF Umount, RemoveDir, Counters, TypeInv, TypeOK
  <2> QED  BY <2>1, <2>2, <2>3, AnswerType, GoToType DEF TypeInv, TypeOK
<1>6. ASSUME NEW c \in Client, SaveShare(c) PROVE TypeInv'
  <2>1. Active(c) /\ c \in Container
    BY <1>6, RequestFacts DEF SaveShare, Doing
  <2>2. With(c, {c}) \in Record /\ With(c, {}) \in Record
    BY <2>1, WithFacts
  <2>3. PICK u \in {"in", "out"} : Answer(c, u)
    BY <1>6 DEF SaveShare
  <2>4. /\ share' \in Record /\ clients' = clients /\ mounted' = mounted /\ perms' = perms
        /\ data' = data /\ disturbed' = disturbed /\ requests' = requests
        /\ failures' = failures
    BY <1>6, <2>2 DEF SaveShare, Counters
  <2> QED  BY <2>3, <2>4, AnswerType DEF TypeInv, TypeOK
<1>7. ASSUME NEW c \in Client, RefuseRemoval(c) \/ BeginRemoval(c) PROVE TypeInv'
  <2>1. Active(c)
    BY <1>7 DEF RefuseRemoval, BeginRemoval, Doing
  <2>2. Answer(c, "out") \/ (GoTo(c, "client") /\ use' = use)
    BY <1>7 DEF RefuseRemoval, BeginRemoval
  <2>3. /\ share' \in {share, NoShare} /\ clients' = clients /\ mounted' = mounted
        /\ perms' = perms /\ data' = data /\ disturbed' = disturbed
        /\ requests' = requests /\ failures' = failures
    BY <1>7 DEF RefuseRemoval, BeginRemoval, World, Counters
  <2> QED  BY <2>1, <2>2, <2>3, AnswerType, GoToType DEF TypeInv, TypeOK
<1>8. ASSUME NEW c \in Client, Delete(c) \/ DeleteFails(c) PROVE TypeInv'
  <2>1. Active(c) /\ Answer(c, "out")
    BY <1>8 DEF Delete, DeleteFails, Doing
  <2>2. [req[c].copy EXCEPT !.status = "FAILED"] \in Record
    BY <2>1, FailedFacts
  <2>3. /\ share' \in Record \union {NoShare} /\ clients' = clients /\ mounted' = mounted
        /\ perms' = perms /\ data' = "removed" /\ disturbed' = disturbed
        /\ requests' = requests
    BY <1>8, <2>2 DEF Delete, DeleteFails, Counters
  <2>4. failures' \in 0..MaxFailures
    BY <1>8, MountAssumption DEF Delete, DeleteFails, Counters, TypeInv, TypeOK
  <2> QED  BY <2>1, <2>3, <2>4, AnswerType DEF TypeInv, TypeOK
<1>9. ASSUME NEW c \in Client, Raise(c) PROVE TypeInv'
  <2>1. Active(c)
    BY <1>9 DEF Raise
  <2>2. Answer(c, "out") \/ (GoTo(c, "delete") /\ use' = use)
    BY <1>9 DEF Raise
  <2>3. /\ share' = share /\ clients' = clients /\ mounted' = mounted /\ perms' = perms
        /\ data' = data /\ disturbed' \in BOOLEAN /\ requests' = requests
    BY <1>9 DEF Raise, World
  <2>4. failures' \in 0..MaxFailures
    BY <1>9, MountAssumption DEF Raise, TypeInv, TypeOK
  <2> QED  BY <2>1, <2>2, <2>3, <2>4, AnswerType, GoToType DEF TypeInv, TypeOK
<1>10. ASSUME NEW n \in Node, Crash(n) \/ Reboot(n) PROVE TypeInv'
  <2>1. Abandon(n)
    BY <1>10 DEF Crash, Reboot
  <2>2. /\ req' \in [Client -> {Idle} \union Request] /\ OwnRequests'
        /\ requests' \in 0..MaxRequests /\ failures' \in 0..MaxFailures
    BY <2>1, AbandonFacts
  <2>3. use' \in [Container -> {"out", "asks", "in", "leaves"}]
    BY <1>10 DEF Crash, Reboot, TypeInv, TypeOK
  <2>4. /\ share' = share /\ clients' = clients /\ mounted' \subseteq Node /\ perms' = perms
        /\ data' = data /\ disturbed' \in BOOLEAN
    BY <1>10 DEF Crash, Reboot, World, TypeInv, TypeOK
  <2> QED  BY <2>2, <2>3, <2>4 DEF TypeInv, TypeOK, Request
<1>11. CASE UNCHANGED vars
  BY <1>11 DEF vars, TypeInv, TypeOK, OwnRequests, Active
<1> QED
  BY <1>1, <1>2, <1>3, <1>4, <1>5, <1>6, <1>7, <1>8, <1>9, <1>10, <1>11 DEF Next, Handle

LEMMA TypeInvariant == Spec => []TypeInv
<1> QED  BY InitTypeInv, TypeStep, PTL DEF Spec

\* Every state of the mounts of a share is well typed, with any failures, crashes and
\* reboots: what a request saves is a record with containers' ids for every node.
THEOREM TypeCorrect == Spec => []TypeOK
<1>1. TypeInv => TypeOK
  BY DEF TypeInv
<1> QED  BY <1>1, TypeInvariant, PTL

-----------------------------------------------------------------------------
(* No use of a share without its mode and owner *)

\* As long as they are not set, nobody is on record or uses the share, and no mount is
\* about to be saved.
Untouched ==
  /\ \A c \in Container : use[c] # "in"
  /\ share # NoShare => \A n \in Node : share.paths[n] = {}
  /\ \A c \in Client : Active(c) =>
       /\ \A n \in Node : req[c].copy.paths[n] = {}
       /\ ~Doing(c, "mount", "save")

PermInv == Owned /\ ~perms => Untouched

LEMMA PermStep == TypeInv /\ PermInv /\ [Next]_vars => PermInv'
<1> SUFFICES ASSUME TypeInv, PermInv, [Next]_vars, Owned, ~perms' PROVE Untouched'
  BY DEF PermInv
<1>1. CASE perms
  <2>1. perms' = perms \/ perms' = TRUE
    BY DEF Next, vars, Handle, Receive, Refuse, Join, FirstOnNode, AllowClient, Mount,
           MountRefused, SetPermissions, PermissionsRefused, NotThere, Leave, LastOnNode,
           Umount, RemoveDir, ForbidClient, SaveShare, RefuseRemoval, BeginRemoval, WipeContents, Delete,
           DeleteFails, Raise, Crash, Reboot, World
  <2> QED  BY <1>1, <2>1
<1> SUFFICES ASSUME ~perms PROVE Untouched'
  BY <1>1
<1> USE DEF Step
<1>2. Untouched
  BY DEF PermInv
<1>3. ASSUME NEW c \in Client, Active(c), NEW s \in Step, GoTo(c, s), use' = use,
             share' = share, ~(req[c].op = "mount" /\ s = "save")
      PROVE  Untouched'
  <2>1. /\ \A d \in Client : Active(d)' <=> Active(d)
        /\ \A d \in Client : d # c => req'[d] = req[d]
        /\ req'[c].op = req[c].op /\ req'[c].step = s /\ req'[c].copy = req[c].copy
    BY <1>3, GoToFacts
  <2>2. \A d \in Client : Active(d)' => /\ \A n \in Node : req'[d].copy.paths[n] = {}
                                        /\ ~Doing(d, "mount", "save")'
    BY <1>2, <1>3, <2>1 DEF Untouched, Doing
  <2> QED  BY <1>2, <1>3, <2>2 DEF Untouched
<1>4. ASSUME NEW c \in Client, Active(c), Answer(c, "out"),
             share' # NoShare => \A n \in Node : share'.paths[n] = {}
      PROVE  Untouched'
  <2>1. /\ \A d \in Client : Active(d)' => d # c /\ Active(d)
        /\ \A d \in Client : d # c => req'[d] = req[d]
        /\ \A d \in Container : use'[d] = IF d = c THEN "out" ELSE use[d]
    BY <1>4, AnswerFacts
  <2>2. \A d \in Client : Active(d)' => /\ \A n \in Node : req'[d].copy.paths[n] = {}
                                        /\ ~Doing(d, "mount", "save")'
    BY <1>2, <2>1 DEF Untouched, Doing
  <2> QED  BY <1>2, <1>4, <2>1, <2>2 DEF Untouched
<1>5. \A c \in Client : Active(c) => PathsHere(c) = {}
  BY <1>2, RequestFacts DEF Untouched, PathsHere
<1>6. ASSUME NEW c \in Client, NEW op \in {"mount", "unmount", "remove"}, Receive(c, op)
      PROVE  Untouched'
  <2>1. share' = share
    BY <1>6 DEF Receive, World
  <2>2. CASE share = NoShare
    BY <1>2, <1>6, <2>1, <2>2, ReceiveFacts DEF Untouched, Doing, Active
  <2>3. CASE share # NoShare
    <3>1. /\ req'[c].step = "start" /\ req'[c].copy = share
          /\ \A d \in Client : d # c => req'[d] = req[d]
          /\ \A d \in Container : use'[d] = "in" => use[d] = "in"
      BY <1>6, <2>3, ReceiveFacts
    <3>2. \A d \in Client : Active(d)' => /\ \A n \in Node : req'[d].copy.paths[n] = {}
                                          /\ ~Doing(d, "mount", "save")'
      BY <1>2, <2>3, <3>1 DEF Untouched, Doing, Active
    <3> QED  BY <1>2, <2>1, <3>1, <3>2 DEF Untouched
  <2> QED  BY <2>2, <2>3
<1>7. ASSUME NEW c \in Client, Refuse(c) \/ RefuseRemoval(c) \/ NotThere(c) PROVE Untouched'
  <2>1. Active(c) /\ Answer(c, "out") /\ share' = share
    BY <1>7 DEF Refuse, RefuseRemoval, NotThere, Doing, World
  <2> QED  BY <1>2, <1>4, <2>1 DEF Untouched
<1>8. ASSUME NEW c \in Client, Join(c) \/ Leave(c) PROVE Untouched'
  BY <1>5, <1>8 DEF Join, Leave, Doing
<1>9. ASSUME NEW c \in Client, FirstOnNode(c) \/ AllowClient(c) \/ PermissionsRefused(c)
                               \/ LastOnNode(c) \/ WipeContents(c)
      PROVE  Untouched'
  <2>1. Active(c) /\ share' = share /\ use' = use
    BY <1>9 DEF FirstOnNode, AllowClient, PermissionsRefused, LastOnNode, WipeContents,
                Doing, World
  <2>2. PICK s \in Step \ {"save"} : GoTo(c, s)
    BY <1>9 DEF FirstOnNode, AllowClient, PermissionsRefused, LastOnNode, WipeContents
  <2> QED  BY <1>3, <2>1, <2>2
<1>10. ASSUME NEW c \in Client, Mount(c) PROVE Untouched'
  <2>1. Active(c) /\ share' = share /\ use' = use
    BY <1>10 DEF Mount, Doing
  <2>2. FirstOfAll(c)
    BY <1>2, <2>1 DEF Untouched, FirstOfAll
  <2>3. req[c].op = "remove" \/ req[c].op = "mount"
    BY <1>10 DEF Mount, Doing
  <2>4. PICK s \in {"wipe", "perms"} : GoTo(c, s)
    BY <1>10, <2>2, <2>3 DEF Mount
  <2> QED  BY <1>3, <2>1, <2>4
<1>11. ASSUME NEW c \in Client, SetPermissions(c) PROVE Untouched'
  BY <1>11 DEF SetPermissions
<1>12. ASSUME NEW c \in Client, MountRefused(c) \/ Umount(c) \/ RemoveDir(c) \/ Raise(c)
       PROVE  Untouched'
  <2>1. Active(c) /\ share' = share
    BY <1>12 DEF MountRefused, Umount, RemoveDir, Raise, Doing, World
  <2>2. Answer(c, "out") \/ \E s \in Step \ {"save"} : GoTo(c, s) /\ use' = use
    BY <1>12 DEF MountRefused, Umount, RemoveDir, Raise
  <2> QED  BY <1>2, <1>3, <1>4, <2>1, <2>2 DEF Untouched
<1>13. ASSUME NEW c \in Client, ForbidClient(c) PROVE Untouched'
  <2>1. /\ Active(c) /\ share' = share /\ use' = use
        /\ req[c].op \in {"unmount", "remove"}
        /\ GoTo(c, "delete") \/ GoTo(c, "save")
    BY <1>13 DEF ForbidClient, Doing
  <2> QED  BY <1>3, <2>1
<1>14. ASSUME NEW c \in Client, SaveShare(c) PROVE Untouched'
  <2>1. Active(c)
    BY <1>14 DEF SaveShare, Doing
  <2>2. share' = With(c, {}) /\ Answer(c, "out")
    BY <1>2, <1>14, <2>1 DEF Untouched, SaveShare
  <2>3. \A n \in Node : With(c, {}).paths[n] = {}
    BY <1>2, <2>1, WithFacts DEF Untouched
  <2> QED  BY <1>4, <2>1, <2>2, <2>3
<1>15. ASSUME NEW c \in Client, BeginRemoval(c) PROVE Untouched'
  <2>1. Active(c)
    BY <1>15 DEF BeginRemoval, Doing
  <2>2. \/ share' = share /\ GoTo(c, "client") /\ use' = use
        \/ share' \in {share, NoShare} /\ Answer(c, "out")
    BY <1>15 DEF BeginRemoval
  <2> QED  BY <1>2, <1>3, <1>4, <2>1, <2>2 DEF Untouched
<1>16. ASSUME NEW c \in Client, Delete(c) \/ DeleteFails(c) PROVE Untouched'
  <2>1. Active(c) /\ Answer(c, "out")
    BY <1>16 DEF Delete, DeleteFails, Doing
  <2>2. share' = NoShare \/ share' = [req[c].copy EXCEPT !.status = "FAILED"]
    BY <1>16 DEF Delete, DeleteFails
  <2>3. share' # NoShare => share'.paths = req[c].copy.paths
    BY <2>1, <2>2, FailedFacts
  <2> QED  BY <1>2, <1>4, <2>1, <2>3 DEF Untouched
<1>17. ASSUME NEW n \in Node, Crash(n) \/ Reboot(n) PROVE Untouched'
  <2>1. Abandon(n) /\ share' = share
    BY <1>17 DEF Crash, Reboot, World
  <2>2. \A d \in Container : use'[d] = "in" => use[d] = "in"
    BY <1>17 DEF Crash, Reboot
  <2>3. \A d \in Client : Active(d)' => Active(d) /\ req'[d] = req[d]
    BY <2>1, AbandonFacts
  <2> QED  BY <1>2, <2>1, <2>2, <2>3 DEF Untouched, Doing
<1>18. CASE UNCHANGED vars
  BY <1>2, <1>18 DEF vars, Untouched, Doing, Active
<1> QED
  BY <1>6, <1>7, <1>8, <1>9, <1>10, <1>11, <1>12, <1>13, <1>14, <1>15, <1>16, <1>17, <1>18
  DEF Next, Handle

\* Whoever uses a share that has a mode and an owner to be set, uses it with these,
\* though only the first node to mount it sets them, and requests overlap, fail and are
\* cut short in any number (acls_already_set in mount_share).
THEOREM PermissionsSet == Spec => []PermissionsBeforeUse
<1>1. Init => PermInv
  BY DEF Init, PermInv, Untouched, Active
<1>2. PermInv => PermissionsBeforeUse
  BY DEF PermInv, Untouched, PermissionsBeforeUse
<1> QED  BY <1>1, <1>2, PermStep, TypeInvariant, PTL DEF Spec

-----------------------------------------------------------------------------
(* Requests that come one at a time *)

OneActive == \A c, d \in Client : Active(c) /\ Active(d) => c = d

\* What a request has read is still on record.
Fresh == \A c \in Client : Active(c) => share = req[c].copy

UsedIsThere ==
  \A c \in Container : use[c] = "in" =>
    /\ At[c] \in mounted \intersect clients
    /\ share # NoShare /\ c \in share.paths[At[c]]

\* Where the record has mount ids, the share is mounted, but for the end of an unmount.
RecordedIsThere ==
  share # NoShare =>
    \A n \in Node : share.paths[n] # {} =>
      \/ n \in mounted /\ n \in clients
      \/ \E c \in Client : At[c] = n /\ HalfUnmounted(c)

\* What a request has found out and done, by the time it is at its step.
Progress(c) ==
  /\ req[c].op # "remove" => use[c] # "in"
  /\ req[c].op = "remove" => \A d \in Container : At[d] = At[c] => use[d] # "in"
  /\ req[c].op = "mount" /\ req[c].step # "start" => PathsHere(c) = {}
  /\ req[c].op = "unmount" /\ req[c].step # "start" => PathsHere(c) = {c}
  /\ req[c].op = "remove" /\ req[c].step # "start" => NotMounted(c)
  /\ req[c].op = "mount" /\ req[c].step \in {"mount", "perms", "save"} => At[c] \in clients
  /\ req[c].op = "mount" /\ req[c].step \in {"perms", "save"} => At[c] \in mounted
  /\ req[c].step = "rmdir" => At[c] \notin mounted

Orderly ==
  /\ OneActive /\ Fresh
  /\ data # "lost"
  /\ UsedIsThere /\ RecordedIsThere
  /\ \A c \in Client : Active(c) => Progress(c)

OrderInv == ~disturbed => Orderly

\* The request that is being worked on is the only one, and knows the record.
LEMMA OrderlyFacts ==
  ASSUME TypeInv, Orderly, NEW c \in Client, Active(c)
  PROVE  /\ \A d \in Client : Active(d) => d = c
         /\ share = req[c].copy /\ share # NoShare
         /\ share.paths[At[c]] = PathsHere(c)
         /\ Progress(c)
         /\ \A n \in Node : share.paths[n] # {} =>
              (n \in mounted /\ n \in clients) \/ (n = At[c] /\ HalfUnmounted(c))
         /\ \A d \in Container : use[d] = "in" =>
              At[d] \in mounted /\ At[d] \in clients /\ d \in share.paths[At[d]]
         /\ NotMounted(c) => \A d \in Container : use[d] # "in"
<1>1. \A d \in Client : Active(d) => d = c
  BY DEF Orderly, OneActive
<1>2. share = req[c].copy
  BY DEF Orderly, Fresh
<1>3. share # NoShare
  BY <1>2, RequestFacts, NoShareAssumption DEF Record
<1>4. share.paths[At[c]] = PathsHere(c)
  BY <1>2 DEF PathsHere
<1>5. \A d \in Client : HalfUnmounted(d) => d = c
  BY <1>1 DEF HalfUnmounted, Doing
<1>6. \A n \in Node : share.paths[n] # {} =>
        (n \in mounted /\ n \in clients) \/ (n = At[c] /\ HalfUnmounted(c))
  BY <1>3, <1>5 DEF Orderly, RecordedIsThere
<1>7. \A d \in Container : use[d] = "in" =>
        At[d] \in mounted /\ At[d] \in clients /\ d \in share.paths[At[d]]
  BY <1>3 DEF Orderly, UsedIsThere
<1>8. NotMounted(c) => \A d \in Container : use[d] # "in"
  BY <1>2, <1>7, MountAssumption DEF NotMounted, Client
<1> QED  BY <1>1, <1>2, <1>3, <1>4, <1>6, <1>7, <1>8 DEF Orderly

\* A step of a request that keeps what is used and recorded where it is.
LEMMA GoToOrderly ==
  ASSUME TypeInv, Orderly, NEW c \in Client, Active(c), NEW s \in Step, GoTo(c, s),
         share' = share, use' = use, data' # "lost",
         \A d \in Container : use[d] = "in" => At[d] \in mounted' /\ At[d] \in clients',
         \A n \in Node : share.paths[n] # {} =>
           (n \in mounted' /\ n \in clients') \/ (n = At[c] /\ HalfUnmounted(c)'),
         Progress(c)'
  PROVE  Orderly'
<1>1. /\ \A d \in Client : Active(d) => d = c
      /\ share = req[c].copy /\ share # NoShare
      /\ \A d \in Container : use[d] = "in" => d \in share.paths[At[d]]
  BY OrderlyFacts
<1>2. /\ \A d \in Client : Active(d)' <=> Active(d)
      /\ req'[c].copy = req[c].copy
  BY GoToFacts
<1>3. OneActive'
  BY <1>1, <1>2 DEF OneActive
<1>4. Fresh'
  BY <1>1, <1>2 DEF Fresh
<1>5. UsedIsThere'
  BY <1>1 DEF UsedIsThere
<1>6. RecordedIsThere'
  BY DEF RecordedIsThere
<1>7. \A d \in Client : Active(d)' => Progress(d)'
  BY <1>1, <1>2
<1> QED  BY <1>3, <1>4, <1>5, <1>6, <1>7 DEF Orderly

\* The end of a request, when no other is left.
LEMMA AnswerOrderly ==
  ASSUME TypeInv, Orderly, NEW c \in Client, Active(c), NEW u \in {"in", "out"}, Answer(c, u),
         data' # "lost",
         \A d \in Container : d # c /\ use[d] = "in" =>
           /\ At[d] \in mounted' /\ At[d] \in clients'
           /\ share' # NoShare /\ d \in share'.paths[At[d]],
         u = "in" => /\ At[c] \in mounted' /\ At[c] \in clients'
                     /\ share' # NoShare /\ c \in share'.paths[At[c]],
         share' # NoShare =>
           \A n \in Node : share'.paths[n] # {} => n \in mounted' /\ n \in clients'
  PROVE  Orderly'
<1>1. /\ \A d \in Client : Active(d)' => d # c /\ Active(d)
      /\ \A d \in Container : use'[d] = IF d = c THEN u ELSE use[d]
  BY AnswerFacts
<1>2. \A d \in Client : ~Active(d)'
  BY <1>1, OrderlyFacts
<1>3. UsedIsThere'
  BY <1>1 DEF UsedIsThere
<1> QED  BY <1>2, <1>3 DEF Orderly, OneActive, Fresh, RecordedIsThere

LEMMA OrderStep == TypeInv /\ OrderInv /\ [Next]_vars => OrderInv'
<1> SUFFICES ASSUME TypeInv, OrderInv, [Next]_vars, ~disturbed' PROVE Orderly'
  BY DEF OrderInv
<1> USE DEF Step
<1>1. ~disturbed
  BY DEF Next, vars, Handle, Receive, Refuse, Join, FirstOnNode, AllowClient, Mount,
         MountRefused, SetPermissions, PermissionsRefused, NotThere, Leave, LastOnNode,
         Umount, RemoveDir, ForbidClient, SaveShare, RefuseRemoval, BeginRemoval, WipeContents, Delete,
         DeleteFails, Raise, Crash, Reboot, Counters
<1>2. Orderly
  BY <1>1 DEF OrderInv
<1>3. ASSUME NEW c \in Client, Active(c)
      PROVE  /\ \A d \in Client : Active(d) => d = c
             /\ share = req[c].copy /\ share # NoShare
             /\ share.paths[At[c]] = PathsHere(c)
             /\ Progress(c)
             /\ \A n \in Node : share.paths[n] # {} =>
                  (n \in mounted /\ n \in clients) \/ (n = At[c] /\ HalfUnmounted(c))
             /\ \A d \in Container : use[d] = "in" =>
                  At[d] \in mounted /\ At[d] \in clients /\ d \in share.paths[At[d]]
             /\ NotMounted(c) => \A d \in Container : use[d] # "in"
             /\ data # "lost" /\ At[c] \in Node
             /\ req[c].op \in {"mount", "unmount", "remove"}
  BY <1>2, <1>3, OrderlyFacts, RequestFacts DEF Orderly
<1>4. ASSUME NEW c \in Client, NEW op \in {"mount", "unmount", "remove"}, Receive(c, op)
      PROVE  Orderly'
  <2>1. /\ share' = share /\ clients' = clients /\ mounted' = mounted /\ data' = data
        /\ ~Active(c) /\ MayAsk(c, op)
    BY <1>4 DEF Receive, World
  <2>2. CASE share = NoShare
    <3>1. req' = req /\ \A d \in Container : use'[d] = IF d = c THEN "out" ELSE use[d]
      BY <1>4, <2>2, ReceiveFacts
    <3>2. \A d \in Client : ~Active(d) /\ ~Active(d)'
      <4>1. \A d \in Client : ~Active(d)
        BY <1>3, <2>2
      <4> QED  BY <3>1, <4>1 DEF Active
    <3>3. UsedIsThere'
      BY <1>2, <2>1, <3>1 DEF Orderly, UsedIsThere
    <3> QED
      BY <1>2, <2>1, <2>2, <3>2, <3>3 DEF Orderly, OneActive, Fresh, RecordedIsThere
  <2>3. CASE share # NoShare
    <3>1. /\ Active(c)' /\ req'[c].op = op /\ req'[c].step = "start" /\ req'[c].copy = share
          /\ \A d \in Client : d # c => req'[d] = req[d]
          /\ \A d \in Container :
               use'[d] = IF d = c THEN IF op = "mount" THEN "asks" ELSE "leaves" ELSE use[d]
      BY <1>4, <2>3, ReceiveFacts
    <3>2. \A d \in Client : ~Active(d)
      BY <1>4, <2>3 DEF Receive
    <3>3. \A d \in Client : Active(d)' => d = c
      BY <3>1, <3>2 DEF Active
    <3>4. OneActive' /\ Fresh'
      BY <2>1, <3>1, <3>3 DEF OneActive, Fresh
    <3>5. UsedIsThere'
      BY <1>2, <2>1, <3>1 DEF Orderly, UsedIsThere
    <3>6. RecordedIsThere'
      <4>1. \A d \in Client : ~HalfUnmounted(d)
        BY <3>2 DEF HalfUnmounted, Doing
      <4> QED  BY <1>2, <2>1, <4>1 DEF Orderly, RecordedIsThere
    <3>7. Progress(c)'
      <4>1. op # "remove" => c \in Container
        BY <2>1 DEF MayAsk
      <4>2. op # "remove" => use'[c] # "in"
        BY <3>1, <4>1
      <4>3. op = "remove" => \A d \in Container : At[d] = At[c] => use[d] = "out" /\ d # c
        BY <2>1, MountAssumption DEF MayAsk
      <4>4. op = "remove" => \A d \in Container : At[d] = At[c] => use'[d] # "in"
        BY <3>1, <4>3
      <4> QED  BY <3>1, <4>2, <4>4 DEF Progress
    <3> QED
      BY <1>2, <2>1, <3>3, <3>4, <3>5, <3>6, <3>7 DEF Orderly
  <2> QED  BY <2>2, <2>3
<1>5. ASSUME NEW c \in Client, Refuse(c) \/ RefuseRemoval(c) \/ NotThere(c) PROVE Orderly'
  <2>1. /\ Active(c) /\ Answer(c, "out") /\ ~HalfUnmounted(c)
        /\ share' = share /\ clients' = clients /\ mounted' = mounted /\ data' = data
    BY <1>5 DEF Refuse, RefuseRemoval, NotThere, Doing, HalfUnmounted, World
  <2> QED  BY <1>2, <1>3, <2>1, AnswerOrderly
<1>6. ASSUME NEW c \in Client, Join(c) PROVE Orderly'
  <2>1. /\ Active(c) /\ Answer(c, "in") /\ ~HalfUnmounted(c) /\ PathsHere(c) # {}
        /\ share' = IF c \in PathsHere(c) THEN share ELSE With(c, PathsHere(c) \union {c})
        /\ clients' = clients /\ mounted' = mounted /\ data' = data
    BY <1>6 DEF Join, Doing, HalfUnmounted
  <2>2. c \in Container /\ PathsHere(c) \in SUBSET Container
    BY <1>6, <2>1, RequestFacts DEF Join, Doing
  <2>3. /\ With(c, PathsHere(c) \union {c}) # NoShare
        /\ With(c, PathsHere(c) \union {c}).paths[At[c]] = PathsHere(c) \union {c}
        /\ \A n \in Node : n # At[c] =>
             With(c, PathsHere(c) \union {c}).paths[n] = share.paths[n]
    BY <1>3, <2>1, <2>2, WithFacts
  <2>4. At[c] \in mounted /\ At[c] \in clients
    BY <1>3, <2>1
  <2>5. \A n \in Node : share'.paths[n] # {} => n \in mounted /\ n \in clients
    BY <1>3, <2>1, <2>3, <2>4
  <2>6. \A d \in Container : At[d] \in Node
    BY MountAssumption DEF Client
  <2>7. \A d \in Container : use[d] = "in" => d \in share'.paths[At[d]]
    <3> SUFFICES ASSUME NEW d \in Container, use[d] = "in" PROVE d \in share'.paths[At[d]]
      OBVIOUS
    <3>1. d \in share.paths[At[d]] /\ share.paths[At[c]] = PathsHere(c) /\ At[d] \in Node
      BY <1>3, <2>1, <2>6
    <3>2. CASE c \in PathsHere(c)
      BY <2>1, <3>1, <3>2
    <3>3. CASE c \notin PathsHere(c)
      <4>1. share' = With(c, PathsHere(c) \union {c})
        BY <2>1, <3>3
      <4>2. CASE At[d] = At[c]
        BY <2>3, <3>1, <4>1, <4>2
      <4>3. CASE At[d] # At[c]
        BY <2>3, <3>1, <4>1, <4>3
      <4> QED  BY <4>2, <4>3
    <3> QED  BY <3>2, <3>3
  <2>8. share' # NoShare /\ c \in share'.paths[At[c]]
    BY <1>3, <2>1, <2>3
  <2> QED  BY <1>2, <1>3, <2>1, <2>4, <2>5, <2>7, <2>8, AnswerOrderly
<1>7. ASSUME NEW c \in Client, Leave(c) PROVE Orderly'
  <2>1. /\ Active(c) /\ Answer(c, "out") /\ ~HalfUnmounted(c)
        /\ share' = With(c, PathsHere(c) \ {c}) /\ c \in PathsHere(c)
        /\ clients' = clients /\ mounted' = mounted /\ data' = data
    BY <1>7 DEF Leave, Doing, HalfUnmounted
  <2>2. /\ With(c, PathsHere(c) \ {c}) # NoShare
        /\ With(c, PathsHere(c) \ {c}).paths[At[c]] = PathsHere(c) \ {c}
        /\ \A n \in Node : n # At[c] => With(c, PathsHere(c) \ {c}).paths[n] = share.paths[n]
    <3>1. PathsHere(c) \ {c} \in SUBSET Container
      BY <2>1, RequestFacts
    <3> QED  BY <1>3, <2>1, <3>1, WithFacts
  <2>3. \A n \in Node : share'.paths[n] # {} => n \in mounted /\ n \in clients
    <3> SUFFICES ASSUME NEW n \in Node, share'.paths[n] # {}
                 PROVE  n \in mounted /\ n \in clients
      OBVIOUS
    <3>1. share.paths[n] # {}
      <4>1. CASE n = At[c]
        <5>1. share.paths[At[c]] = PathsHere(c)
          BY <1>3, <2>1
        <5> QED  BY <2>1, <4>1, <5>1
      <4>2. CASE n # At[c]
        BY <2>1, <2>2, <4>2
      <4> QED  BY <4>1, <4>2
    <3> QED  BY <1>3, <2>1, <3>1
  <2>4. \A d \in Container : At[d] \in Node
    BY MountAssumption DEF Client
  <2>5. \A d \in Container : d # c /\ use[d] = "in" => d \in share'.paths[At[d]]
    <3> SUFFICES ASSUME NEW d \in Container, d # c, use[d] = "in"
                 PROVE  d \in share'.paths[At[d]]
      OBVIOUS
    <3>1. d \in share.paths[At[d]] /\ share.paths[At[c]] = PathsHere(c) /\ At[d] \in Node
      BY <1>3, <2>1, <2>4
    <3>2. CASE At[d] = At[c]
      BY <2>1, <2>2, <3>1, <3>2
    <3>3. CASE At[d] # At[c]
      BY <2>1, <2>2, <3>1, <3>3
    <3> QED  BY <3>2, <3>3
  <2> QED  BY <1>2, <1>3, <2>1, <2>2, <2>3, <2>5, AnswerOrderly
<1>8. ASSUME NEW c \in Client, FirstOnNode(c) \/ LastOnNode(c) PROVE Orderly'
  <2>1. /\ Active(c) /\ ~HalfUnmounted(c)
        /\ share' = share /\ clients' = clients /\ mounted' = mounted /\ data' = data
        /\ use' = use
    BY <1>8 DEF FirstOnNode, LastOnNode, Doing, HalfUnmounted, World
  <2>2. PICK s \in {"client", "umount"} : GoTo(c, s)
    BY <1>8 DEF FirstOnNode, LastOnNode
  <2>3. req'[c].op = req[c].op /\ req'[c].step = s /\ req'[c].copy = req[c].copy
    BY <2>1, <2>2, GoToFacts
  <2>4. PathsHere(c)' = PathsHere(c)
    BY <2>3 DEF PathsHere
  <2>5. \/ req[c].op = "mount" /\ s = "client" /\ PathsHere(c) = {}
        \/ req[c].op = "unmount" /\ s = "umount" /\ PathsHere(c) = {c}
    <3>1. CASE FirstOnNode(c)
      <4>1. GoTo(c, "client")
        BY <3>1 DEF FirstOnNode
      <4>2. req'[c].step = "client"
        BY <2>1, <4>1, GoToFacts
      <4> QED  BY <2>3, <3>1, <4>2 DEF FirstOnNode, Doing
    <3>2. CASE LastOnNode(c)
      <4>1. GoTo(c, "umount")
        BY <3>2 DEF LastOnNode
      <4>2. req'[c].step = "umount"
        BY <2>1, <4>1, GoToFacts
      <4> QED  BY <2>3, <3>2, <4>2 DEF LastOnNode, Doing
    <3> QED  BY <1>8, <3>1, <3>2
  <2>6. Progress(c)'
    BY <1>3, <2>1, <2>3, <2>4, <2>5 DEF Progress, PathsHere, NotMounted
  <2> QED  BY <1>2, <1>3, <2>1, <2>2, <2>6, GoToOrderly
<1>9. ASSUME NEW c \in Client, AllowClient(c) PROVE Orderly'
  <2>1. /\ Active(c) /\ ~HalfUnmounted(c) /\ GoTo(c, "mount")
        /\ req[c].op \in {"mount", "remove"} /\ req[c].step = "client"
        /\ clients' = clients \union {At[c]}
        /\ share' = share /\ mounted' = mounted /\ data' = data /\ use' = use
    BY <1>9 DEF AllowClient, Doing, HalfUnmounted
  <2>2. req'[c].op = req[c].op /\ req'[c].step = "mount" /\ req'[c].copy = req[c].copy
    BY <2>1, GoToFacts
  <2>3. Progress(c)'
    BY <1>3, <2>1, <2>2 DEF Progress, PathsHere, NotMounted
  <2> QED  BY <1>2, <1>3, <2>1, <2>3, GoToOrderly
<1>10. ASSUME NEW c \in Client, Mount(c) PROVE Orderly'
  <2>1. /\ Active(c) /\ ~HalfUnmounted(c)
        /\ req[c].op \in {"mount", "remove"} /\ req[c].step = "mount"
        /\ At[c] \notin mounted /\ mounted' = mounted \union {At[c]}
        /\ share' = share /\ clients' = clients /\ data' = data /\ use' = use
    BY <1>10 DEF Mount, Doing, HalfUnmounted
  <2>2. PICK s \in {"wipe", "perms", "save"} :
          GoTo(c, s) /\ (s = "wipe" <=> req[c].op = "remove")
    BY <1>10, <2>1 DEF Mount
  <2>3. req'[c].op = req[c].op /\ req'[c].step = s /\ req'[c].copy = req[c].copy
    BY <2>1, <2>2, GoToFacts
  <2>4. PathsHere(c) = {}
    BY <1>3, <2>1
  <2>5. PathsHere(c)' = {}
    BY <2>3, <2>4 DEF PathsHere
  <2>6. Progress(c)'
    BY <1>3, <2>1, <2>2, <2>3, <2>5 DEF Progress, PathsHere, NotMounted
  <2> QED  BY <1>2, <1>3, <2>1, <2>2, <2>6, GoToOrderly
<1>11. ASSUME NEW c \in Client, MountRefused(c) PROVE Orderly'
  <2>1. /\ Active(c) /\ ~HalfUnmounted(c)
        /\ share' = share /\ clients' = clients /\ mounted' = mounted /\ data' = data
    BY <1>11 DEF MountRefused, Doing, HalfUnmounted, World
  <2>2. CASE Answer(c, "out")
    BY <1>2, <1>3, <2>1, <2>2, AnswerOrderly
  <2>3. CASE /\ req[c].op = "remove" /\ req[c].step # "start"
             /\ GoTo(c, "delete") /\ use' = use
    <3>1. req'[c].op = req[c].op /\ req'[c].step = "delete" /\ req'[c].copy = req[c].copy
      BY <2>1, <2>3, GoToFacts
    <3>2. Progress(c)'
      BY <1>3, <2>1, <2>3, <3>1 DEF Progress, PathsHere, NotMounted
    <3> QED  BY <1>2, <1>3, <2>1, <2>3, <3>2, GoToOrderly
  <2> QED  BY <1>11, <2>2, <2>3 DEF MountRefused, Doing
<1>12. ASSUME NEW c \in Client, SetPermissions(c) \/ PermissionsRefused(c) PROVE Orderly'
  <2>1. /\ Active(c) /\ ~HalfUnmounted(c)
        /\ req[c].op = "mount" /\ req[c].step = "perms"
        /\ share' = share /\ clients' = clients /\ mounted' = mounted /\ data' = data
        /\ use' = use
    BY <1>12 DEF SetPermissions, PermissionsRefused, Doing, HalfUnmounted, World
  <2>2. PICK s \in {"save", "umount"} : GoTo(c, s)
    BY <1>12 DEF SetPermissions, PermissionsRefused
  <2>3. req'[c].op = req[c].op /\ req'[c].step = s /\ req'[c].copy = req[c].copy
    BY <2>1, <2>2, GoToFacts
  <2>4. Progress(c)'
    BY <1>3, <2>1, <2>2, <2>3 DEF Progress, PathsHere, NotMounted
  <2> QED  BY <1>2, <1>3, <2>1, <2>2, <2>4, GoToOrderly
<1>13. ASSUME NEW c \in Client, Umount(c) PROVE Orderly'
  <2>1. /\ Active(c) /\ ~HalfUnmounted(c) /\ req[c].step = "umount"
        /\ mounted' = mounted \ {At[c]}
        /\ share' = share /\ clients' = clients /\ data' = data
    BY <1>13 DEF Umount, Doing, HalfUnmounted
  \* Nobody on the node uses the share.
  <2>2. \A d \in Container : d # c /\ use[d] = "in" => At[d] # At[c]
    BY <1>3, <2>1 DEF Progress, PathsHere, NotMounted
  <2>3. CASE At[c] \notin mounted
    <3>1. mounted' = mounted /\ Answer(c, "out")
      BY <1>13, <2>1, <2>3 DEF Umount
    <3> QED  BY <1>2, <1>3, <2>1, <3>1, AnswerOrderly
  <2>4. CASE At[c] \in mounted
    <3>1. GoTo(c, "rmdir") /\ use' = use
      BY <1>13, <2>4 DEF Umount
    <3>2. /\ req'[c].op = req[c].op /\ req'[c].step = "rmdir" /\ req'[c].copy = req[c].copy
          /\ Active(c)'
      BY <2>1, <3>1, GoToFacts
    <3>3. PathsHere(c)' = PathsHere(c)
      BY <3>2 DEF PathsHere
    <3>4. Progress(c)'
      BY <1>3, <2>1, <3>1, <3>2, <3>3 DEF Progress, PathsHere, NotMounted
    <3>5. PathsHere(c) = {} \/ HalfUnmounted(c)'
      BY <1>3, <2>1, <3>2 DEF Progress, HalfUnmounted, Doing, PathsHere, NotMounted
    <3>6. \A n \in Node : share.paths[n] # {} =>
            (n \in mounted' /\ n \in clients') \/ (n = At[c] /\ HalfUnmounted(c)')
      BY <1>3, <2>1, <3>5
    <3>7. \A d \in Container : use[d] = "in" => At[d] \in mounted' /\ At[d] \in clients'
      <4>1. \A d \in Container : d = c => use[d] # "in"
        BY <1>3, <2>1 DEF Progress, PathsHere, NotMounted
      <4> QED  BY <1>3, <2>1, <2>2, <4>1
    <3> QED  BY <1>2, <1>3, <2>1, <3>1, <3>4, <3>6, <3>7, GoToOrderly
  <2> QED  BY <2>3, <2>4
<1>14. ASSUME NEW c \in Client, RemoveDir(c) PROVE Orderly'
  <2>1. /\ Active(c) /\ req[c].step = "rmdir"
        /\ share' = share /\ clients' = clients /\ mounted' = mounted
        /\ data' = IF At[c] \in mounted THEN "lost" ELSE data
    BY <1>14 DEF RemoveDir, Doing
  <2>2. At[c] \notin mounted /\ data' = data
    BY <1>3, <2>1 DEF Progress, PathsHere, NotMounted
  <2>3. CASE req[c].op = "mount"
    <3>1. Answer(c, "out") /\ ~HalfUnmounted(c)
      BY <1>14, <2>3 DEF RemoveDir, HalfUnmounted, Doing
    <3> QED  BY <1>2, <1>3, <2>1, <2>2, <3>1, AnswerOrderly
  <2>4. CASE req[c].op # "mount"
    <3>1. GoTo(c, "forbid") /\ use' = use
      BY <1>14, <2>2, <2>4 DEF RemoveDir
    <3>2. /\ req'[c].op = req[c].op /\ req'[c].step = "forbid" /\ req'[c].copy = req[c].copy
          /\ Active(c)'
      BY <2>1, <3>1, GoToFacts
    <3>3. Progress(c)'
      BY <1>3, <2>1, <2>4, <3>1, <3>2 DEF Progress, PathsHere, NotMounted
    <3>4. HalfUnmounted(c) => HalfUnmounted(c)'
      BY <3>2 DEF HalfUnmounted, Doing
    <3> QED  BY <1>2, <1>3, <2>1, <2>2, <3>1, <3>3, <3>4, GoToOrderly
  <2> QED  BY <2>3, <2>4
<1>15. ASSUME NEW c \in Client, ForbidClient(c) PROVE Orderly'
  <2>1. /\ Active(c) /\ req[c].step = "forbid" /\ req[c].op \in {"unmount", "remove"}
        /\ clients' = clients \ {At[c]}
        /\ share' = share /\ mounted' = mounted /\ data' = data /\ use' = use
    BY <1>15 DEF ForbidClient, Doing
  <2>2. PICK s \in {"delete", "save"} : GoTo(c, s) /\ (s = "delete" <=> req[c].op = "remove")
    BY <1>15 DEF ForbidClient
  <2>3. /\ req'[c].op = req[c].op /\ req'[c].step = s /\ req'[c].copy = req[c].copy
        /\ Active(c)'
    BY <2>1, <2>2, GoToFacts
  <2>4. Progress(c)'
    BY <1>3, <2>1, <2>2, <2>3 DEF Progress, PathsHere, NotMounted
  <2>5. PathsHere(c) = {} \/ HalfUnmounted(c)'
    BY <1>3, <2>1, <2>2, <2>3 DEF Progress, HalfUnmounted, Doing, PathsHere, NotMounted
  <2>6. \A n \in Node : share.paths[n] # {} =>
          (n \in mounted' /\ n \in clients') \/ (n = At[c] /\ HalfUnmounted(c)')
    BY <1>3, <2>1, <2>5
  <2>7. \A d \in Container : use[d] = "in" => At[d] # At[c]
    BY <1>3, <2>1 DEF Progress, PathsHere, NotMounted
  <2>8. \A d \in Container : use[d] = "in" => At[d] \in mounted' /\ At[d] \in clients'
    BY <1>3, <2>1, <2>7
  <2> QED  BY <1>2, <1>3, <2>1, <2>2, <2>4, <2>6, <2>8, GoToOrderly
<1>16. ASSUME NEW c \in Client, SaveShare(c) PROVE Orderly'
  <2>1. /\ Active(c) /\ req[c].step = "save" /\ req[c].op \in {"mount", "unmount"}
        /\ clients' = clients /\ mounted' = mounted /\ data' = data
    BY <1>16 DEF SaveShare, Doing
  <2>2. c \in Container
    BY <2>1, RequestFacts
  <2>3. \A d \in Container : At[d] \in Node
    BY MountAssumption DEF Client
  \* Nobody else on the node uses the share.
  <2>4. \A d \in Container : d # c /\ use[d] = "in" => At[d] # At[c]
    BY <1>3, <2>1 DEF Progress, PathsHere, NotMounted
  <2>5. CASE req[c].op = "mount"
    <3>1. share' = With(c, {c}) /\ Answer(c, "in") /\ ~HalfUnmounted(c)
      BY <1>16, <2>5 DEF SaveShare, Doing, HalfUnmounted
    <3>2. /\ With(c, {c}) # NoShare /\ With(c, {c}).paths[At[c]] = {c}
          /\ \A n \in Node : n # At[c] => With(c, {c}).paths[n] = share.paths[n]
      BY <1>3, <2>1, <2>2, WithFacts
    <3>3. At[c] \in mounted /\ At[c] \in clients
      BY <1>3, <2>1, <2>5 DEF Progress, PathsHere, NotMounted
    <3>4. \A n \in Node : share'.paths[n] # {} => n \in mounted /\ n \in clients
      BY <1>3, <2>1, <3>1, <3>2, <3>3
    <3>5. \A d \in Container : d # c /\ use[d] = "in" => d \in share'.paths[At[d]]
      BY <1>3, <2>1, <2>3, <2>4, <3>1, <3>2
    <3> QED  BY <1>2, <1>3, <2>1, <3>1, <3>2, <3>3, <3>4, <3>5, AnswerOrderly
  <2>6. CASE req[c].op = "unmount"
    <3>1. share' = With(c, {}) /\ Answer(c, "out")
      BY <1>16, <2>6 DEF SaveShare, Doing
    <3>2. /\ With(c, {}) # NoShare /\ With(c, {}).paths[At[c]] = {}
          /\ \A n \in Node : n # At[c] => With(c, {}).paths[n] = share.paths[n]
      BY <1>3, <2>1, WithFacts
    <3>3. \A n \in Node : share'.paths[n] # {} => n \in mounted /\ n \in clients
      BY <1>3, <2>1, <3>1, <3>2
    <3>4. \A d \in Container : d # c /\ use[d] = "in" => d \in share'.paths[At[d]]
      BY <1>3, <2>1, <2>3, <2>4, <3>1, <3>2
    <3> QED  BY <1>2, <1>3, <2>1, <3>1, <3>2, <3>3, <3>4, AnswerOrderly
  <2> QED  BY <2>1, <2>5, <2>6
<1>17. ASSUME NEW c \in Client, BeginRemoval(c) PROVE Orderly'
  <2>1. /\ Active(c) /\ ~HalfUnmounted(c) /\ req[c].op = "remove" /\ NotMounted(c)
        /\ clients' = clients /\ mounted' = mounted /\ data' = data
    BY <1>17 DEF BeginRemoval, Doing, HalfUnmounted
  <2>2. CASE share' \in {share, NoShare} /\ Answer(c, "out")
    BY <1>2, <1>3, <2>1, <2>2, AnswerOrderly
  <2>3. CASE share' = share /\ GoTo(c, "client") /\ use' = use
    <3>1. req'[c].op = req[c].op /\ req'[c].step = "client" /\ req'[c].copy = req[c].copy
      BY <2>1, <2>3, GoToFacts
    <3>2. Progress(c)'
      BY <1>3, <2>1, <2>3, <3>1 DEF Progress, PathsHere, NotMounted
    <3> QED  BY <1>2, <1>3, <2>1, <2>3, <3>2, GoToOrderly
  <2> QED  BY <1>17, <2>2, <2>3 DEF BeginRemoval
<1>18. ASSUME NEW c \in Client, WipeContents(c) PROVE Orderly'
  <2>1. /\ Active(c) /\ ~HalfUnmounted(c) /\ req[c].op = "remove" /\ req[c].step = "wipe"
        /\ share' = share /\ clients' = clients /\ mounted' = mounted /\ use' = use
        /\ data' = "removed" /\ GoTo(c, "umount")
    BY <1>18 DEF WipeContents, Doing, HalfUnmounted
  <2>2. req'[c].op = req[c].op /\ req'[c].step = "umount" /\ req'[c].copy = req[c].copy
    BY <2>1, GoToFacts
  <2>3. Progress(c)'
    BY <1>3, <2>1, <2>2 DEF Progress, PathsHere, NotMounted
  <2> QED  BY <1>2, <1>3, <2>1, <2>3, GoToOrderly
<1>19. ASSUME NEW c \in Client, Delete(c) \/ DeleteFails(c) PROVE Orderly'
  <2>1. /\ Active(c) /\ ~HalfUnmounted(c) /\ Answer(c, "out")
        /\ clients' = clients /\ mounted' = mounted /\ data' = "removed"
    BY <1>19 DEF Delete, DeleteFails, Doing, HalfUnmounted
  <2>2. share' = NoShare \/ share' = [req[c].copy EXCEPT !.status = "FAILED"]
    BY <1>19 DEF Delete, DeleteFails
  <2>3. share' # NoShare => share'.paths = share.paths
    BY <1>3, <2>1, <2>2, FailedFacts
  <2>4. \A d \in Container : use[d] # "in"
    <3>1. req[c].op = "remove" /\ req[c].step = "delete"
      BY <1>19 DEF Delete, DeleteFails, Doing
    <3> QED  BY <1>3, <2>1, <3>1 DEF Progress
  <2> QED  BY <1>2, <1>3, <2>1, <2>3, <2>4, AnswerOrderly
<1>20. ASSUME NEW c \in Client, Raise(c) PROVE Orderly'
  <2>1. /\ Active(c) /\ ~HalfUnmounted(c)
        /\ share' = share /\ clients' = clients /\ mounted' = mounted /\ data' = data
    BY <1>20 DEF Raise, World
  <2>2. CASE Answer(c, "out")
    BY <1>2, <1>3, <2>1, <2>2, AnswerOrderly
  <2>3. CASE /\ req[c].op = "remove" /\ req[c].step # "start"
             /\ GoTo(c, "delete") /\ use' = use
    <3>1. req'[c].op = req[c].op /\ req'[c].step = "delete" /\ req'[c].copy = req[c].copy
      BY <2>1, <2>3, GoToFacts
    <3>2. Progress(c)'
      BY <1>3, <2>1, <2>3, <3>1 DEF Progress, PathsHere, NotMounted
    <3> QED  BY <1>2, <1>3, <2>1, <2>3, <3>2, GoToOrderly
  <2> QED  BY <1>20, <2>2, <2>3 DEF Raise, Doing
<1>21. ASSUME NEW n \in Node, Crash(n) PROVE Orderly'
  <2>1. /\ Abandon(n)
        /\ \E c \in Client : At[c] = n /\ Active(c)
        /\ \A c \in Client : At[c] = n => ~HalfUnmounted(c)
        /\ \A d \in Container : use'[d] = "in" => use[d] = "in"
        /\ share' = share /\ clients' = clients /\ mounted' = mounted /\ data' = data
    BY <1>21 DEF Crash, World
  <2>2. PICK c \in Client : At[c] = n /\ Active(c)
    BY <2>1
  <2>3. \A d \in Client : ~Active(d)'
    BY <1>3, <2>1, <2>2, AbandonFacts
  <2>4. ~HalfUnmounted(c)
    BY <2>1, <2>2
  <2>5. UsedIsThere'
    BY <1>2, <2>1 DEF Orderly, UsedIsThere
  <2>6. RecordedIsThere'
    BY <1>3, <2>1, <2>2, <2>4 DEF RecordedIsThere
  <2> QED  BY <1>2, <2>1, <2>3, <2>5, <2>6 DEF Orderly, OneActive, Fresh
<1>22. ASSUME NEW n \in Node, Reboot(n) PROVE Orderly'
  <2>1. /\ Abandon(n) /\ mounted' = mounted \ {n}
        /\ share # NoShare => share.paths[n] = {}
        /\ \A d \in Container : use'[d] = "in" => use[d] = "in" /\ At[d] # n
        /\ \A d \in Container : At[d] # n => use'[d] = use[d]
        /\ share' = share /\ clients' = clients /\ data' = data
    BY <1>22 DEF Reboot
  <2>2. /\ \A d \in Client : Active(d)' <=> Active(d) /\ At[d] # n
        /\ \A d \in Client : Active(d)' => req'[d] = req[d]
    BY <2>1, AbandonFacts
  <2>3. OneActive' /\ Fresh'
    BY <1>2, <2>1, <2>2 DEF Orderly, OneActive, Fresh
  <2>4. UsedIsThere'
    BY <1>2, <2>1 DEF Orderly, UsedIsThere
  <2>5. \A d \in Client : HalfUnmounted(d) /\ At[d] # n => HalfUnmounted(d)'
    BY <2>2 DEF HalfUnmounted, Doing
  <2>6. RecordedIsThere'
    BY <1>2, <2>1, <2>5 DEF Orderly, RecordedIsThere
  <2>7. ASSUME NEW d \in Client, Active(d)' PROVE Progress(d)'
    <3>1. Active(d) /\ req'[d] = req[d] /\ At[d] # n /\ Progress(d)
      BY <1>2, <2>2, <2>7 DEF Orderly
    <3>2. req[d].op # "remove" => d \in Container /\ use'[d] = use[d]
      BY <2>1, <3>1, RequestFacts
    <3> QED  BY <2>1, <3>1, <3>2 DEF Progress, PathsHere, NotMounted
  <2> QED  BY <1>2, <2>1, <2>3, <2>4, <2>6, <2>7 DEF Orderly
<1>23. CASE UNCHANGED vars
  BY <1>2, <1>23 DEF vars, Orderly, OneActive, Fresh, UsedIsThere, RecordedIsThere,
                     Progress, NotMounted, Active, HalfUnmounted, Doing, PathsHere
<1> QED
  BY <1>4, <1>5, <1>6, <1>7, <1>8, <1>9, <1>10, <1>11, <1>12, <1>13, <1>14, <1>15, <1>16,
     <1>17, <1>18, <1>19, <1>20, <1>21, <1>22, <1>23 DEF Next, Handle

\* As long as requests come one at a time, and no unmount stops half way and no node that
\* is on record reboots, a container that uses the share has it mounted and is on record,
\* no data are lost, and nobody removes the share or its contents, whatever else fails or
\* dies (mount_share, unmount_share, remove_share, DeleteShareCmd).
THEOREM SequentialIntact == Spec => []IntactUnlessDisturbed
<1>1. Init => OrderInv
  <2> SUFFICES ASSUME Init PROVE Orderly
    BY DEF OrderInv
  <2>1. \A c \in Client : ~Active(c)
    BY DEF Init, Active
  <2>2. UsedIsThere
    BY DEF Init, UsedIsThere
  <2>3. RecordedIsThere
    BY DEF Init, RecordedIsThere
  <2> QED  BY <2>1, <2>2, <2>3 DEF Init, Orderly, OneActive, Fresh
<1>2. TypeInv /\ OrderInv => IntactUnlessDisturbed
  <2> SUFFICES ASSUME TypeInv, OrderInv, ~disturbed, NEW c \in Container, use[c] = "in"
               PROVE  \A d \in Admin : Active(d) => req[d].step = "start"
    BY DEF OrderInv, Orderly, UsedIsThere, IntactUnlessDisturbed
  <2> SUFFICES ASSUME NEW d \in Admin, Active(d) PROVE req[d].step = "start"
    OBVIOUS
  <2>1. d \in Client /\ d \notin Container
    BY MountAssumption DEF Client
  <2>2. req[d].op = "remove" /\ Orderly
    BY <2>1, RequestFacts DEF OrderInv
  <2> QED  BY <2>1, <2>2, OrderlyFacts DEF Progress
<1> QED  BY <1>1, <1>2, OrderStep, TypeInvariant, PTL DEF Spec
=============================================================================
