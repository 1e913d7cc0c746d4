--------------------------- MODULE Synchronization ---------------------------
(***************************************************************************)
(* Mutual exclusion between the plugins: the decorators of                 *)
(* synchronization.py over EtcdLock of etcdutil.py.  A call takes one etcd *)
(* lock, runs its body and releases the lock in a finally; the body may    *)
(* call another decorated method, so that locks nest.  A lock is a lease   *)
(* of lock_ttl seconds that nothing renews, and a caller waits at most     *)
(* timeout seconds for it.  Time passes in ticks.                          *)
(***************************************************************************)
EXTENDS Integers, Sequences

CONSTANTS
  Name,       \* lock names: every lock type shares one name space
  Call,       \* threads that run decorated methods, on any node
  Plan,       \* the names each call locks, outermost first
  Free,       \* nobody holds the name
  Dead,       \* the name is held by a queue entry that nobody will delete
  Ttl,        \* lock_ttl, in ticks
  Patience,   \* timeout, in ticks
  BodyTicks,  \* ticks that the bodies of one call take together, at most
  Failures    \* bound: crashes of the plugin and failed releases

Frame == [call : Call, level : Nat \ {0}]

ASSUME SyncAssumption ==
  /\ Plan \in [Call -> Seq(Name) \ {<<>>}]
  /\ Free \notin Frame /\ Dead \notin Frame /\ Free # Dead
  /\ Ttl \in Nat \ {0} /\ Patience \in Nat \ {0}
  /\ BodyTicks \in Nat /\ Failures \in Nat

VARIABLES
  holder,  \* the head of the etcd queue of each name
  age,     \* ticks since the lease of each held name was granted
  at,      \* where each call is: at the lock, in the body or leaving
  level,   \* how many decorated methods each call has entered
  waited,  \* ticks each call has waited for its present lock
  busy,    \* ticks each call has spent in bodies
  late,    \* frames that are still inside although their lease has expired
  failed   \* crashes and failed releases so far

vars == <<holder, age, at, level, waited, busy, late, failed>>

TypeOK ==
  /\ holder \in [Name -> Frame \union {Free, Dead}]
  /\ age \in [Name -> 0..Ttl]
  /\ at \in [Call -> {"idle", "lock", "body", "exit"}]
  /\ level \in [Call -> Nat]
  /\ \A c \in Call : level[c] <= Len(Plan[c]) /\ (level[c] = 0 <=> at[c] = "idle")
  /\ waited \in [Call -> 0..Patience]
  /\ busy \in [Call -> 0..BodyTicks]
  /\ late \subseteq Frame
  /\ failed \in 0..Failures

Init ==
  /\ holder = [n \in Name |-> Free]
  /\ age = [n \in Name |-> 0]
  /\ at = [c \in Call |-> "idle"]
  /\ level = [c \in Call |-> 0]
  /\ waited = [c \in Call |-> 0]
  /\ busy = [c \in Call |-> 0]
  /\ late = {}
  /\ failed = 0

-----------------------------------------------------------------------------
\* The decorated method the call is in, and the names of those it is inside of.
Current(c) == [call |-> c, level |-> level[c]]

Wanted(c) == Plan[c][level[c]]

Inside(f) ==
  /\ f.level <= level[f.call]
  /\ f.level = level[f.call] => at[f.call] # "lock"

NameOf(f) == Plan[f.call][f.level]

FramesOf(c) == {[call |-> c, level |-> k] : k \in 1..Len(Plan[c])}

\* A bug to be noticed: the next holder inherits what is left of the last lease.
HandOver(n, h) ==
  /\ holder' = [holder EXCEPT ![n] = h]
  /\ UNCHANGED age

\* The queue of n gets the head h; a lease is counted from its grant.
Hand(n, h) ==
  /\ holder' = [holder EXCEPT ![n] = h]
  /\ age' = [age EXCEPT ![n] = IF h = Free THEN 0 ELSE @]

\* A request calls the outermost decorated method.
Invoke(c) ==
  /\ at[c] = "idle"
  /\ at' = [at EXCEPT ![c] = "lock"]
  /\ level' = [level EXCEPT ![c] = 1]
  /\ busy' = [busy EXCEPT ![c] = 0]
  /\ UNCHANGED <<holder, age, waited, late, failed>>

\* try_lock_name: acquire(lock_ttl=300, timeout=300) succeeds.
TryLock(c) ==
  /\ at[c] = "lock"
  /\ holder[Wanted(c)] = Free
  /\ Hand(Wanted(c), Current(c))
  /\ at' = [at EXCEPT ![c] = "body"]
  /\ waited' = [waited EXCEPT ![c] = 0]
  /\ UNCHANGED <<level, busy, late, failed>>

\* Control goes back to the caller of the method: to the rest of the enclosing
\* body, or out of the plugin.
Back(c) ==
  /\ level' = [level EXCEPT ![c] = @ - 1]
  /\ at' = [at EXCEPT ![c] = IF level[c] = 1 THEN "idle" ELSE "exit"]
  /\ waited' = [waited EXCEPT ![c] = 0]

\* A bug to be noticed: the request is started again, its locks given back.
StartAgain(c) ==
  /\ at[c] = "lock"
  /\ waited[c] = Patience
  /\ level' = [level EXCEPT ![c] = 1]
  /\ waited' = [waited EXCEPT ![c] = 0]
  /\ LET own(n) == holder[n] \in Frame /\ holder[n].call = c
     IN  /\ holder' = [n \in Name |-> IF own(n) THEN Free ELSE holder[n]]
         /\ age' = [n \in Name |-> IF own(n) THEN 0 ELSE age[n]]
  /\ late' = {f \in late : f.call # c}
  /\ UNCHANGED <<at, busy, failed>>

\* HPEPluginLockFailed: __synchronized answers Err '' and the body never runs.
LockFailed(c) ==
  /\ at[c] = "lock"
  /\ waited[c] = Patience
  /\ Back(c)
  /\ UNCHANGED <<holder, age, busy, late, failed>>

\* The body calls a decorated method, or comes to its end, normally or by an
\* exception or an early return.
CallInner(c) ==
  /\ at[c] = "body"
  /\ level[c] < Len(Plan[c])
  /\ level' = [level EXCEPT ![c] = @ + 1]
  /\ at' = [at EXCEPT ![c] = "lock"]
  /\ UNCHANGED <<holder, age, waited, busy, late, failed>>

EndBody(c) ==
  /\ at[c] = "body"
  /\ at' = [at EXCEPT ![c] = "exit"]
  /\ UNCHANGED <<holder, age, level, waited, busy, late, failed>>

\* A bug to be noticed: the head of the queue is deleted, whoever put it there.
ReleaseHead(c) ==
  /\ at[c] = "exit"
  /\ Back(c)
  /\ Hand(Wanted(c), Free)
  /\ late' = late \ {Current(c)}
  /\ UNCHANGED <<busy, failed>>

\* A bug to be noticed: only the outermost decorator has the finally.
ReleaseOutermost(c) ==
  /\ at[c] = "exit"
  /\ Back(c)
  /\ IF holder[Wanted(c)] = Current(c) /\ level[c] = 1
       THEN Hand(Wanted(c), Free) ELSE UNCHANGED <<holder, age>>
  /\ late' = late \ {Current(c)}
  /\ UNCHANGED <<busy, failed>>

\* try_unlock_name deletes the caller's own queue entry, which is gone when the
\* lease has expired.  A release that fails is logged and forgotten.
Unlock(c) ==
  /\ at[c] = "exit"
  /\ Back(c)
  /\ late' = late \ {Current(c)}
  /\ IF holder[Wanted(c)] = Current(c)
       THEN \/ Hand(Wanted(c), Free) /\ UNCHANGED failed
            \/ /\ failed < Failures
               /\ failed' = failed + 1
               /\ Hand(Wanted(c), Dead)
       ELSE UNCHANGED <<holder, age, failed>>
  /\ UNCHANGED busy

\* The plugin that runs the call dies; its queue entries stay until they expire.
Crash(c) ==
  /\ at[c] # "idle"
  /\ failed < Failures
  /\ failed' = failed + 1
  /\ at' = [at EXCEPT ![c] = "idle"]
  /\ level' = [level EXCEPT ![c] = 0]
  /\ waited' = [waited EXCEPT ![c] = 0]
  /\ holder' = [n \in Name |->
                  IF holder[n] \in Frame /\ holder[n].call = c THEN Dead ELSE holder[n]]
  /\ late' = {f \in late : f.call # c}
  /\ UNCHANGED <<age, busy>>

-----------------------------------------------------------------------------
\* etcd drops the queue entry when lock_ttl has passed.
Expire(n) ==
  /\ holder[n] # Free
  /\ age[n] = Ttl
  /\ late' = IF holder[n] \in Frame THEN late \union {holder[n]} ELSE late
  /\ Hand(n, Free)
  /\ UNCHANGED <<at, level, waited, busy, failed>>

Working(c) == at[c] \in {"body", "exit"}

\* A bug to be noticed: a waiter looks at the clock only when the lock moves.
TickOnly ==
  /\ \A c \in Call : at[c] = "lock" => holder[Wanted(c)] # Free
  /\ \A n \in Name : holder[n] # Free => age[n] < Ttl
  /\ \A c \in Call : Working(c) => busy[c] < BodyTicks
  /\ age' = [n \in Name |-> IF holder[n] # Free THEN age[n] + 1 ELSE age[n]]
  /\ waited' = [c \in Call |-> IF at[c] = "lock" THEN waited[c] + 1 ELSE waited[c]]
  /\ busy' = [c \in Call |-> IF Working(c) THEN busy[c] + 1 ELSE busy[c]]
  /\ UNCHANGED <<holder, at, level, late, failed>>

\* One tick; nobody is kept past a deadline or waits for a name that is free.
Tick ==
  /\ \A n \in Name : holder[n] # Free => age[n] < Ttl
  /\ \A c \in Call :
       at[c] = "lock" => waited[c] < Patience /\ holder[Wanted(c)] # Free
  /\ \A c \in Call : Working(c) => busy[c] < BodyTicks
  /\ age' = [n \in Name |-> IF holder[n] # Free THEN age[n] + 1 ELSE age[n]]
  /\ waited' = [c \in Call |-> IF at[c] = "lock" THEN waited[c] + 1 ELSE waited[c]]
  /\ busy' = [c \in Call |-> IF Working(c) THEN busy[c] + 1 ELSE busy[c]]
  /\ UNCHANGED <<holder, at, level, late, failed>>

-----------------------------------------------------------------------------
Step(c) ==
  \/ TryLock(c) \/ LockFailed(c) \/ CallInner(c) \/ EndBody(c) \/ Unlock(c)

Next ==
  \/ \E c \in Call : Invoke(c) \/ Step(c) \/ Crash(c)
  \/ \E n \in Name : Expire(n)
  \/ Tick

Spec == Init /\ [][Next]_vars

\* Threads run on, the etcd queue serves its waiters in order (so one whose lock
\* keeps getting free gets it), etcd drops the leases that are over, and time
\* passes: no endless run of calls fits into one tick.
Fairness ==
  /\ \A c \in Call : WF_vars(Step(c)) /\ SF_vars(TryLock(c))
  /\ \A n \in Name : WF_vars(Expire(n))
  /\ SF_vars(Tick)

FairSpec == Spec /\ Fairness

-----------------------------------------------------------------------------
(* Properties *)

\* Two calls are inside of the same name only when the lease of one of them has
\* expired under it: the wrapper, nesting, timeouts and crashes never let two in.
OverlapNeedsExpiry ==
  \A c, x \in Call : \A f \in FramesOf(c), g \in FramesOf(x) :
    Inside(f) /\ Inside(g) /\ f # g /\ NameOf(f) = NameOf(g)
      => f \in late \/ g \in late

\* No lock leaks: a name held by a live frame is held by one whose body runs, so
\* the finally of __synchronized has released it when the method is over.
HeldFromInside ==
  \A n \in Name :
    holder[n] \in Frame => Inside(holder[n]) /\ NameOf(holder[n]) = n

\* A name is taken from a live holder by that holder's own release, by its crash
\* or by the end of its lease, and never by another caller's release or timeout.
ReleaseIsOwn ==
  \A n \in Name :
    holder[n] \in Frame /\ holder'[n] # holder[n]
      => age[n] = Ttl \/ level'[holder[n].call] < holder[n].level

NoForeignRelease == [][ReleaseIsOwn]_vars

\* A lease that runs out under its holder has been spent on waiting: the bodies of the
\* call and its waits for the locks below it, timeout seconds each at most, filled
\* lock_ttl.  So with the same 300 seconds for both an innermost method is never late
\* unless its body is, and an outer one is only after an inner lock was contended.
LateOnlyByWaiting ==
  \A f \in late : Ttl <= BodyTicks + Patience * (Len(Plan[f.call]) - f.level)

\* Every decorated call comes back, although locks are taken in opposite orders
\* and a call may wait for a name it holds itself.
EveryCallReturns == \A c \in Call : at[c] # "idle" ~> at[c] = "idle"
=============================================================================
