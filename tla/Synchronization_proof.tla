------------------------ MODULE Synchronization_proof ------------------------
(* Proofs about the nested, leased locks of Synchronization. *)
EXTENDS Synchronization, TLAPS

-----------------------------------------------------------------------------
(* Type correctness *)

\* Every state of the lock wrapper is well typed: a call never leaves more
\* methods than it entered nor enters more than its plan, and no deadline passes.
THEOREM TypeCorrect == Spec => []TypeOK
<1>1. Init => TypeOK
  BY SyncAssumption DEF Init, TypeOK
<1>2. TypeOK /\ [Next]_vars => TypeOK'
  <2> SUFFICES ASSUME TypeOK, [Next]_vars PROVE TypeOK'
    OBVIOUS
  <2> USE SyncAssumption DEF TypeOK, Hand, Back, Wanted
  <2>0. \A c \in Call : Len(Plan[c]) \in Nat \ {0}
    OBVIOUS
  <2>1. ASSUME NEW c \in Call, Invoke(c) PROVE TypeOK'
    BY <2>0, <2>1 DEF Invoke
  <2>2. ASSUME NEW c \in Call, at[c] # "idle" PROVE Plan[c][level[c]] \in Name /\ Current(c) \in Frame
    BY <2>2 DEF Current, Frame
  <2>3. ASSUME NEW c \in Call, TryLock(c) PROVE TypeOK'
    BY <2>2, <2>3 DEF TryLock
  <2>4. ASSUME NEW c \in Call, LockFailed(c) PROVE TypeOK'
    BY <2>4 DEF LockFailed
  <2>5. ASSUME NEW c \in Call, CallInner(c) PROVE TypeOK'
    BY <2>0, <2>5 DEF CallInner
  <2>6. ASSUME NEW c \in Call, EndBody(c) PROVE TypeOK'
    BY <2>6 DEF EndBody
  <2>7. ASSUME NEW c \in Call, Unlock(c) PROVE TypeOK'
    <3> USE <2>7 DEF Unlock
    <3>0. /\ level[c] - 1 \in Nat
          /\ (IF level[c] = 1 THEN "idle" ELSE "exit") \in {"idle", "lock", "body", "exit"}
      BY SMTT(30)
    <3>1. /\ level' \in [Call -> Nat] /\ waited' \in [Call -> 0..Patience]
          /\ at' \in [Call -> {"idle", "lock", "body", "exit"}]
      BY <3>0, SMTT(30)
    <3>2. \A x \in Call :
            level'[x] <= Len(Plan[x]) /\ (level'[x] = 0 <=> at'[x] = "idle")
      BY <2>0
    <3>3. Plan[c][level[c]] \in Name
      BY <2>2
    <3>4. /\ holder' \in [Name -> Frame \union {Free, Dead}]
          /\ age' \in [Name -> 0..Ttl] /\ failed' \in 0..Failures
      <4>1. CASE holder[Wanted(c)] = Current(c) /\ Hand(Wanted(c), Free)
        BY <3>3, <4>1, SMTT(30)
      <4>2. CASE holder[Wanted(c)] = Current(c) /\ Hand(Wanted(c), Dead)
        BY <3>3, <4>2, SMTT(30)
      <4> QED
        BY <4>1, <4>2
    <3> QED
      BY <3>1, <3>2, <3>4
  <2>8. ASSUME NEW c \in Call, Crash(c) PROVE TypeOK'
    BY <2>8 DEF Crash
  <2>9. ASSUME NEW n \in Name, Expire(n) PROVE TypeOK'
    BY <2>9 DEF Expire
  <2>10. ASSUME Tick PROVE TypeOK'
    BY <2>10 DEF Tick, Working
  <2>11. ASSUME UNCHANGED vars PROVE TypeOK'
    BY <2>11 DEF vars
  <2> QED
    BY <2>1, <2>3, <2>4, <2>5, <2>6, <2>7, <2>8, <2>9, <2>10, <2>11 DEF Next, Step
<1> QED
  BY <1>1, <1>2, PTL DEF Spec

-----------------------------------------------------------------------------
(* Mutual exclusion up to the expiry of a lease *)

\* A frame that is inside with a lease that runs holds its name, a holder is
\* inside, and a frame counts as late only while it is inside.
LockInv ==
  /\ \A f \in Frame : Inside(f) /\ f \notin late => holder[NameOf(f)] = f
  /\ HeldFromInside
  /\ \A f \in late : Inside(f)

\* Frames are pairs of a call and a level, and no frame is a marker of the queue.
LEMMA FrameFacts ==
  /\ \A f \in Frame : f.call \in Call /\ f.level \in Nat \ {0}
  /\ \A f, g \in Frame : f.call = g.call /\ f.level = g.level => f = g
  /\ Free \notin Frame /\ Dead \notin Frame /\ Free # Dead
BY SyncAssumption DEF Frame

\* The frame a busy call is in, and the name that frame is about.
LEMMA CurrentFacts ==
  ASSUME TypeOK, NEW c \in Call, at[c] # "idle"
  PROVE  /\ Current(c) \in Frame
         /\ Current(c).call = c /\ Current(c).level = level[c]
         /\ Wanted(c) = NameOf(Current(c)) /\ Wanted(c) \in Name
BY SyncAssumption DEF TypeOK, Current, Frame, Wanted, NameOf

\* A frame that is inside has a name.
LEMMA InsideNamed ==
  ASSUME TypeOK, NEW f \in Frame, Inside(f)
  PROVE  NameOf(f) \in Name
<1>1. f.call \in Call /\ f.level \in 1..Len(Plan[f.call])
  BY FrameFacts, SyncAssumption DEF TypeOK, Inside
<1> QED
  BY <1>1, SyncAssumption DEF NameOf

\* The wrapper keeps LockInv through every step, those of other calls, crashes,
\* failed releases and expiries included.
LEMMA LockInvariant == Spec => []LockInv
<1>1. Init => LockInv
  BY FrameFacts DEF Init, LockInv, HeldFromInside, Inside
<1>2. TypeOK /\ LockInv /\ [Next]_vars => LockInv'
  <2> SUFFICES ASSUME TypeOK, LockInv, [Next]_vars PROVE LockInv'
    OBVIOUS
  <2>a. ASSUME \A f \in Frame : Inside(f)' <=> Inside(f),
               UNCHANGED <<holder, late>>
        PROVE  LockInv'
    BY <2>a, FrameFacts DEF LockInv, HeldFromInside, NameOf, TypeOK
  <2>b. ASSUME UNCHANGED <<at, level>> PROVE \A f \in Frame : Inside(f)' <=> Inside(f)
    BY <2>b DEF Inside
  <2>1. ASSUME NEW c \in Call, Invoke(c) PROVE LockInv'
    <3>1. \A f \in Frame : Inside(f)' <=> Inside(f)
      BY <2>1, FrameFacts DEF Invoke, Inside, TypeOK
    <3> QED
      BY <2>1, <2>a, <3>1 DEF Invoke
  <2>2. ASSUME NEW c \in Call, TryLock(c) PROVE LockInv'
    <3> DEFINE g == Current(c)
    <3>1. /\ g \in Frame /\ g.call = c /\ g.level = level[c]
          /\ Wanted(c) = NameOf(g) /\ Wanted(c) \in Name
      BY <2>2, CurrentFacts DEF TryLock
    <3> HIDE DEF g
    <3>2. \A f \in Frame : Inside(f)' <=> Inside(f) \/ f = g
      BY <2>2, <3>1, FrameFacts DEF TryLock, Inside, TypeOK
    <3>3. holder[NameOf(g)] = Free /\ holder' = [holder EXCEPT ![NameOf(g)] = g]
          /\ late' = late
      BY <2>2, <3>1 DEF TryLock, Hand, g
    <3>4. g \notin late
      BY <2>2, <3>1 DEF LockInv, Inside, TryLock
    <3>5. \A f \in Frame : NameOf(f)' = NameOf(f)
      BY DEF NameOf
    <3>6. \A f \in Frame : Inside(f)' /\ f \notin late' => holder'[NameOf(f)] = f
      BY <3>1, <3>2, <3>3, InsideNamed, FrameFacts DEF LockInv, TypeOK
    <3>7. HeldFromInside'
      BY <3>1, <3>2, <3>3, <3>5, FrameFacts DEF LockInv, HeldFromInside, TypeOK
    <3>8. \A f \in late' : Inside(f)'
      BY <3>2, <3>3 DEF LockInv, TypeOK
    <3> QED
      BY <3>5, <3>6, <3>7, <3>8 DEF LockInv
  <2>3. ASSUME NEW c \in Call, LockFailed(c) PROVE LockInv'
    <3>1. \A f \in Frame : Inside(f)' <=> Inside(f)
      BY <2>3, FrameFacts DEF LockFailed, Back, Inside, TypeOK
    <3> QED
      BY <2>3, <2>a, <3>1 DEF LockFailed
  <2>4. ASSUME NEW c \in Call, CallInner(c) PROVE LockInv'
    <3>1. \A f \in Frame : Inside(f)' <=> Inside(f)
      BY <2>4, FrameFacts DEF CallInner, Inside, TypeOK
    <3> QED
      BY <2>4, <2>a, <3>1 DEF CallInner
  <2>5. ASSUME NEW c \in Call, EndBody(c) PROVE LockInv'
    <3>1. \A f \in Frame : Inside(f)' <=> Inside(f)
      BY <2>5, FrameFacts DEF EndBody, Inside, TypeOK
    <3> QED
      BY <2>5, <2>a, <3>1 DEF EndBody
  <2>6. ASSUME NEW c \in Call, Unlock(c) PROVE LockInv'
    <3> DEFINE g == Current(c)
    <3>1. /\ g \in Frame /\ g.call = c /\ g.level = level[c]
          /\ Wanted(c) = NameOf(g) /\ Wanted(c) \in Name
      BY <2>6, CurrentFacts DEF Unlock
    <3> HIDE DEF g
    <3>2. \A f \in Frame : Inside(f)' <=> Inside(f) /\ f # g
      BY <2>6, <3>1, FrameFacts DEF Unlock, Back, Inside, TypeOK
    <3>3. /\ late' = late \ {g}
          /\ \/ /\ holder[NameOf(g)] = g
                /\ \E h \in {Free, Dead} : holder' = [holder EXCEPT ![NameOf(g)] = h]
             \/ holder[NameOf(g)] # g /\ holder' = holder
      BY <2>6, <3>1 DEF Unlock, Hand, g
    <3>5. \A f \in Frame : NameOf(f)' = NameOf(f)
      BY DEF NameOf
    <3>6. \A f \in Frame : Inside(f)' /\ f \notin late' => holder'[NameOf(f)] = f
      BY <3>1, <3>2, <3>3, InsideNamed, FrameFacts DEF LockInv, TypeOK
    <3>7. HeldFromInside'
      BY <3>1, <3>2, <3>3, <3>5, FrameFacts DEF LockInv, HeldFromInside, TypeOK
    <3>8. \A f \in late' : Inside(f)'
      BY <3>2, <3>3 DEF LockInv, TypeOK
    <3> QED
      BY <3>5, <3>6, <3>7, <3>8 DEF LockInv
  <2>7. ASSUME NEW c \in Call, Crash(c) PROVE LockInv'
    <3>2. \A f \in Frame : Inside(f)' <=> Inside(f) /\ f.call # c
      BY <2>7, FrameFacts DEF Crash, Inside, TypeOK
    <3>3. /\ late' = {f \in late : f.call # c}
          /\ \A n \in Name : holder'[n] =
               IF holder[n] \in Frame /\ holder[n].call = c THEN Dead ELSE holder[n]
      BY <2>7 DEF Crash
    <3>5. \A f \in Frame : NameOf(f)' = NameOf(f)
      BY DEF NameOf
    <3>6. \A f \in Frame : Inside(f)' /\ f \notin late' => holder'[NameOf(f)] = f
      BY <3>2, <3>3, InsideNamed, FrameFacts DEF LockInv, TypeOK
    <3>7. HeldFromInside'
      BY <3>2, <3>3, <3>5, FrameFacts DEF LockInv, HeldFromInside, TypeOK
    <3>8. \A f \in late' : Inside(f)'
      BY <3>2, <3>3 DEF LockInv, TypeOK
    <3> QED
      BY <3>5, <3>6, <3>7, <3>8 DEF LockInv
  <2>8. ASSUME NEW n \in Name, Expire(n) PROVE LockInv'
    <3>2. \A f \in Frame : Inside(f)' <=> Inside(f)
      BY <2>8, <2>b DEF Expire
    <3>3. /\ late' = IF holder[n] \in Frame THEN late \union {holder[n]} ELSE late
          /\ holder' = [holder EXCEPT ![n] = Free]
      BY <2>8 DEF Expire, Hand
    <3>5. \A f \in Frame : NameOf(f)' = NameOf(f)
      BY DEF NameOf
    <3>6. \A f \in Frame : Inside(f)' /\ f \notin late' => holder'[NameOf(f)] = f
      BY <3>2, <3>3, InsideNamed, FrameFacts DEF LockInv, TypeOK
    <3>7. HeldFromInside'
      BY <3>2, <3>3, <3>5, FrameFacts DEF LockInv, HeldFromInside, TypeOK
    <3>8. \A f \in late' : Inside(f)'
      BY <3>2, <3>3 DEF LockInv, HeldFromInside, TypeOK
    <3> QED
      BY <3>5, <3>6, <3>7, <3>8 DEF LockInv
  <2>9. ASSUME Tick PROVE LockInv'
    BY <2>9, <2>a, <2>b DEF Tick
  <2>10. ASSUME UNCHANGED vars PROVE LockInv'
    BY <2>10, <2>a, <2>b DEF vars
  <2> QED
    BY <2>1, <2>2, <2>3, <2>4, <2>5, <2>6, <2>7, <2>8, <2>9, <2>10 DEF Next, Step
<1> QED
  BY <1>1, <1>2, TypeCorrect, PTL DEF Spec

\* Two calls are inside of one name only if the lease of one has expired, for any
\* number of calls, names and nested locks.
THEOREM MutualExclusion == Spec => []OverlapNeedsExpiry
<1>1. LockInv => OverlapNeedsExpiry
  BY SyncAssumption DEF LockInv, OverlapNeedsExpiry, FramesOf, Frame
<1> QED
  BY <1>1, LockInvariant, PTL

\* No lock outlives the body it was taken for.
THEOREM NoLeak == Spec => []HeldFromInside
<1>1. LockInv => HeldFromInside
  BY DEF LockInv
<1> QED
  BY <1>1, LockInvariant, PTL

\* A live holder loses a name by its own release, its own crash or the end of the
\* lease, whatever the other calls do.
THEOREM OnlyOwnRelease == Spec => NoForeignRelease
<1>1. TypeOK /\ [Next]_vars => [ReleaseIsOwn]_vars
  <2> SUFFICES ASSUME TypeOK, Next PROVE ReleaseIsOwn
    OBVIOUS
  <2> USE FrameFacts DEF TypeOK, Hand, ReleaseIsOwn
  <2>1. ASSUME NEW c \in Call, TryLock(c) PROVE ReleaseIsOwn
    <3>1. Wanted(c) \in Name /\ holder[Wanted(c)] = Free
      BY <2>1, CurrentFacts DEF TryLock
    <3> QED
      BY <2>1, <3>1 DEF TryLock
  <2>2. ASSUME NEW c \in Call, Unlock(c) PROVE ReleaseIsOwn
    <3>1. /\ Current(c).call = c /\ Current(c).level = level[c]
          /\ Wanted(c) \in Name /\ level'[c] < level[c]
      BY <2>2, CurrentFacts DEF Unlock, Back
    <3>2. \A n \in Name : holder'[n] # holder[n] => holder[n] = Current(c)
      BY <2>2, <3>1 DEF Unlock
    <3> QED
      BY <3>1, <3>2
  <2>3. ASSUME NEW c \in Call, Crash(c) PROVE ReleaseIsOwn
    BY <2>3 DEF Crash
  <2>4. ASSUME NEW n \in Name, Expire(n) PROVE ReleaseIsOwn
    BY <2>4 DEF Expire
  <2>5. ASSUME UNCHANGED holder PROVE ReleaseIsOwn
    BY <2>5
  <2> QED
    BY <2>1, <2>2, <2>3, <2>4, <2>5
       DEF Next, Step, Invoke, LockFailed, CallInner, EndBody, Tick
<1> QED
  BY <1>1, TypeCorrect, PTL DEF Spec, NoForeignRelease
-----------------------------------------------------------------------------
(* A lease runs out under its holder only by the waits for inner locks *)

\* The waits for inner locks that a call may have behind it; an exception or an early
\* return skips some.
WaitsBehind(c) ==
  CASE at[c] = "exit" -> Len(Plan[c])
    [] at[c] = "lock" -> level[c] - 1
    [] OTHER -> level[c]

\* What the lease of a frame may have spent: bodies, inner waits that are over and
\* the present one.
Spent(f) ==
  busy[f.call] + Patience * (WaitsBehind(f.call) - f.level) + waited[f.call]

LeaseInv ==
  /\ LateOnlyByWaiting
  /\ \A n \in Name : holder[n] = Free => age[n] = 0
  /\ \A c \in Call : at[c] # "lock" => waited[c] = 0
  /\ \A f \in Frame : Inside(f) /\ f \notin late => age[NameOf(f)] <= Spent(f)

LEMMA Product ==
  ASSUME NEW p \in Nat, NEW a \in Int, NEW b \in Int, a <= b
  PROVE  p * a \in Int /\ p * b \in Int /\ p * a <= p * b /\ p * (a + 1) = p * a + p
<1>1. PICK d \in Nat : b = a + d
  <2>1. b - a \in Nat /\ b = a + (b - a)
    OBVIOUS
  <2> QED  BY <2>1
<1>2. p * b = p * a + p * d /\ p * d \in Nat /\ p * (a + 1) = p * a + p
  BY <1>1
<1> QED  BY <1>2

\* No product has more factors than these.
LEMMA WaitFacts ==
  ASSUME TypeOK, NEW f \in Frame, Inside(f)
  PROVE  /\ WaitsBehind(f.call) - f.level \in Nat
         /\ Patience * (WaitsBehind(f.call) - f.level) \in Nat
         /\ WaitsBehind(f.call) <= Len(Plan[f.call]) /\ Len(Plan[f.call]) \in Nat
         /\ at[f.call] = "lock" => WaitsBehind(f.call) + 1 <= Len(Plan[f.call])
         /\ waited[f.call] \in 0..Patience /\ busy[f.call] \in 0..BodyTicks
         /\ Patience \in Nat /\ Spent(f) \in Nat
<1>1. /\ f.call \in Call /\ f.level \in Nat \ {0} /\ f.level <= level[f.call]
      /\ f.level = level[f.call] => at[f.call] # "lock"
      /\ at[f.call] \in {"idle", "lock", "body", "exit"}
      /\ level[f.call] \in Nat /\ level[f.call] <= Len(Plan[f.call])
      /\ Len(Plan[f.call]) \in Nat
      /\ waited[f.call] \in 0..Patience /\ busy[f.call] \in 0..BodyTicks
      /\ Patience \in Nat
  BY FrameFacts, SyncAssumption DEF TypeOK, Inside
<1>2. /\ at[f.call] = "exit" => WaitsBehind(f.call) = Len(Plan[f.call])
      /\ at[f.call] = "lock" => WaitsBehind(f.call) = level[f.call] - 1
      /\ at[f.call] \in {"idle", "body"} => WaitsBehind(f.call) = level[f.call]
  BY DEF WaitsBehind
<1>3. /\ WaitsBehind(f.call) - f.level \in Nat /\ WaitsBehind(f.call) \in Int
      /\ WaitsBehind(f.call) <= Len(Plan[f.call])
      /\ at[f.call] = "lock" => WaitsBehind(f.call) + 1 <= Len(Plan[f.call])
  BY <1>1, <1>2
<1>4. Patience * (WaitsBehind(f.call) - f.level) \in Nat
  BY <1>1, <1>3
<1>5. Spent(f) \in Nat
  BY <1>1, <1>4 DEF Spent
<1> QED  BY <1>1, <1>3, <1>4, <1>5

\* A step of one call, by which no lease ages, keeps what its frames may have spent.
LEMMA SpentGrows ==
  ASSUME TypeOK, TypeOK', LeaseInv, NEW c \in Call, NEW f \in Frame, Inside(f), Inside(f)',
         f \notin late,
         \A d \in Call : d # c => /\ at'[d] = at[d] /\ level'[d] = level[d]
                                  /\ waited'[d] = waited[d] /\ busy'[d] = busy[d],
         f.call = c =>
           /\ busy'[c] = busy[c]
           /\ \/ WaitsBehind(c)' >= WaitsBehind(c) /\ waited'[c] >= waited[c]
              \/ WaitsBehind(c)' >= WaitsBehind(c) + 1,
         \A n \in Name : age'[n] <= age[n]
  PROVE  age'[NameOf(f)'] <= Spent(f)'
<1> DEFINE p == Patience
           a == WaitsBehind(f.call) - f.level
           b == WaitsBehind(f.call)' - f.level
<1>1. Inside(f) /\ f.call \in Call /\ f.level \in Nat
  BY FrameFacts
<1>2. /\ NameOf(f)' = NameOf(f) /\ NameOf(f) \in Name
      /\ age[NameOf(f)] <= Spent(f) /\ age'[NameOf(f)] <= age[NameOf(f)]
      /\ age[NameOf(f)] \in Nat /\ age'[NameOf(f)] \in Nat
  <2>1. NameOf(f)' = NameOf(f) /\ NameOf(f) \in Name
    BY <1>1, InsideNamed DEF NameOf
  <2>2. age[NameOf(f)] <= Spent(f)
    BY <1>1 DEF LeaseInv
  <2>3. age[NameOf(f)] \in 0..Ttl /\ age'[NameOf(f)] \in 0..Ttl
    BY <2>1 DEF TypeOK
  <2> QED  BY <2>1, <2>2, <2>3
<1>3. /\ a \in Nat /\ p * a \in Nat /\ p \in Nat
      /\ waited[f.call] \in 0..p /\ busy[f.call] \in 0..BodyTicks
      /\ Spent(f) = busy[f.call] + p * a + waited[f.call]
  BY <1>1, WaitFacts DEF Spent
<1>4. /\ b \in Nat /\ p * b \in Nat
      /\ waited'[f.call] \in 0..p /\ busy'[f.call] \in 0..BodyTicks
      /\ Spent(f)' = busy'[f.call] + p * b + waited'[f.call]
  <2>1. /\ f.call \in Call /\ f.level \in Nat \ {0} /\ f.level <= level'[f.call]
        /\ f.level = level'[f.call] => at'[f.call] # "lock"
        /\ at'[f.call] \in {"idle", "lock", "body", "exit"}
        /\ level'[f.call] \in Nat /\ level'[f.call] <= Len(Plan[f.call])
        /\ Len(Plan[f.call]) \in Nat
        /\ waited'[f.call] \in 0..Patience /\ busy'[f.call] \in 0..BodyTicks
        /\ Patience \in Nat
    <3>1. f.level <= level'[f.call] /\ (f.level = level'[f.call] => at'[f.call] # "lock")
      BY DEF Inside
    <3>2. Patience \in Nat /\ Len(Plan[f.call]) \in Nat
      BY <1>1, SyncAssumption
    <3>3. f.level \in Nat \ {0}
      BY FrameFacts
    <3> QED  BY <1>1, <3>1, <3>2, <3>3 DEF TypeOK
  <2>2. b \in Nat
    BY <2>1 DEF WaitsBehind
  <2>3. p * b \in Nat
    BY <2>1, <2>2
  <2> QED  BY <2>1, <2>2, <2>3 DEF Spent
<1>5. BodyTicks \in Nat
  BY SyncAssumption
<1>6. Spent(f) <= Spent(f)'
  <2>1. CASE f.call # c
    <3>1. WaitsBehind(f.call)' = WaitsBehind(f.call)
      BY <1>1, <2>1 DEF WaitsBehind
    <3> QED  BY <1>1, <1>3, <1>4, <2>1, <3>1
  <2>2. CASE f.call = c
    <3>1. busy'[c] = busy[c]
      BY <2>2
    <3>2. \/ b >= a /\ waited'[c] >= waited[c]
          \/ b >= a + 1
      <4>1. /\ WaitsBehind(c) \in Int /\ WaitsBehind(c)' \in Int
            /\ a = WaitsBehind(c) - f.level /\ b = WaitsBehind(c)' - f.level
        <5>1. /\ at[c] \in {"idle", "lock", "body", "exit"} /\ level[c] \in Nat
              /\ at'[c] \in {"idle", "lock", "body", "exit"} /\ level'[c] \in Nat
              /\ Len(Plan[c]) \in Nat
          BY SyncAssumption DEF TypeOK
        <5>2. WaitsBehind(c)' = CASE at'[c] = "exit" -> Len(Plan[c])
                                  [] at'[c] = "lock" -> level'[c] - 1
                                  [] OTHER -> level'[c]
          BY DEF WaitsBehind
        <5> QED  BY <2>2, <5>1, <5>2 DEF WaitsBehind
      <4>2. \/ WaitsBehind(c)' >= WaitsBehind(c) /\ waited'[c] >= waited[c]
            \/ WaitsBehind(c)' >= WaitsBehind(c) + 1
        BY <2>2
      <4> QED  BY <1>1, <4>1, <4>2
    <3>3. CASE b >= a /\ waited'[c] >= waited[c]
      <4>1. p * a <= p * b
        BY <1>3, <1>4, <3>3, Product
      <4> HIDE DEF a, b, p
      <4> QED  BY <1>3, <1>4, <1>5, <2>2, <3>1, <3>3, <4>1
    <3>4. CASE b >= a + 1
      <4>1. p * (a + 1) <= p * b /\ p * (a + 1) = p * a + p
        BY <1>3, <1>4, <3>4, Product
      <4> HIDE DEF a, b, p
      <4> QED  BY <1>3, <1>4, <1>5, <2>2, <3>1, <4>1
    <3> QED  BY <3>2, <3>3, <3>4
  <2> QED  BY <2>1, <2>2
<1> QED  BY <1>2, <1>3, <1>4, <1>6

\* What a lease may have spent is bounded by the bodies and the waits for the locks below
\* it, so that one that expires under its holder meets the bound.
LEMMA LeaseInvariant == Spec => []LeaseInv
<1>1. Init => LeaseInv
  BY FrameFacts DEF Init, LeaseInv, LateOnlyByWaiting, Inside
<1>2. TypeOK /\ TypeOK' /\ LockInv /\ LeaseInv /\ [Next]_vars => LeaseInv'
  <2> SUFFICES ASSUME TypeOK, TypeOK', LockInv, LeaseInv, [Next]_vars PROVE LeaseInv'
    OBVIOUS
  <2>t. /\ \A n \in Name : age[n] \in 0..Ttl /\ age'[n] \in 0..Ttl
        /\ \A c \in Call : /\ level[c] \in Nat /\ level'[c] \in Nat /\ Len(Plan[c]) \in Nat
                            /\ level[c] <= Len(Plan[c])
                            /\ waited[c] \in 0..Patience /\ Ttl \in Nat /\ Patience \in Nat
    BY SyncAssumption DEF TypeOK
  <2>a. ASSUME NEW c \in Call,
               \A d \in Call : d # c => /\ at'[d] = at[d] /\ level'[d] = level[d]
                                        /\ waited'[d] = waited[d] /\ busy'[d] = busy[d],
               \A f \in Frame : Inside(f)' => Inside(f),
               \A f \in Frame : Inside(f)' /\ f.call = c =>
                 /\ busy'[c] = busy[c]
                 /\ \/ WaitsBehind(c)' >= WaitsBehind(c) /\ waited'[c] >= waited[c]
                    \/ WaitsBehind(c)' >= WaitsBehind(c) + 1,
               \A n \in Name : age'[n] <= age[n] /\ (holder'[n] = Free => age'[n] = 0),
               at'[c] # "lock" => waited'[c] = 0,
               late' \subseteq late, \A f \in Frame : Inside(f)' /\ f \in late => f \in late'
        PROVE  LeaseInv'
    <3>1. \A f \in Frame : Inside(f)' /\ f \notin late' => age'[NameOf(f)'] <= Spent(f)'
      BY <2>a, SpentGrows
    <3>2. \A d \in Call : at'[d] # "lock" => waited'[d] = 0
      BY <2>a DEF LeaseInv
    <3>3. LateOnlyByWaiting'
      BY <2>a DEF LeaseInv, LateOnlyByWaiting
    <3> QED  BY <2>a, <3>1, <3>2, <3>3 DEF LeaseInv
  <2>1. ASSUME NEW c \in Call, Invoke(c) PROVE LeaseInv'
    <3>1. \A f \in Frame : Inside(f)' => f.call # c
      BY <2>1, FrameFacts DEF Invoke, Inside, TypeOK
    <3>2. \A f \in Frame : Inside(f)' => Inside(f)
      BY <2>1, <3>1, FrameFacts DEF Invoke, Inside, TypeOK
    <3>3. \A d \in Call : d # c => /\ at'[d] = at[d] /\ level'[d] = level[d]
                                   /\ waited'[d] = waited[d] /\ busy'[d] = busy[d]
      BY <2>1 DEF Invoke, TypeOK
    <3>4. at'[c] = "lock" /\ late' = late /\ age' = age /\ holder' = holder
      BY <2>1 DEF Invoke, LeaseInv, TypeOK
    <3> QED  BY <2>t, <2>a, <3>1, <3>2, <3>3, <3>4 DEF LeaseInv
  <2>2. ASSUME NEW c \in Call, TryLock(c) PROVE LeaseInv'
    <3> DEFINE g == Current(c)
    <3>1. /\ g \in Frame /\ g.call = c /\ g.level = level[c]
          /\ Wanted(c) = NameOf(g) /\ Wanted(c) \in Name
      BY <2>2, CurrentFacts DEF TryLock
    <3>2. /\ at[c] = "lock" /\ at'[c] = "body" /\ level' = level /\ waited'[c] = 0
          /\ busy' = busy /\ late' = late
          /\ \A d \in Call : d # c => at'[d] = at[d] /\ waited'[d] = waited[d]
      BY <2>2 DEF TryLock, LeaseInv, TypeOK
    <3>3. /\ holder[NameOf(g)] = Free /\ holder' = [holder EXCEPT ![NameOf(g)] = g]
          /\ \A n \in Name : age'[n] = age[n]
      BY <2>2, <3>1, FrameFacts DEF TryLock, Hand, TypeOK
    <3> HIDE DEF g
    <3>4. \A f \in Frame : Inside(f)' => Inside(f) \/ f = g
      BY <2>2, <3>1, <3>2, FrameFacts DEF Inside
    <3>5. WaitsBehind(c)' = level[c] /\ WaitsBehind(c) = level[c] - 1
      BY <3>2 DEF WaitsBehind
    <3>6. ASSUME NEW f \in Frame, Inside(f)', f \notin late' PROVE age'[NameOf(f)'] <= Spent(f)'
      <4>1. CASE Inside(f)
        <5>1. WaitsBehind(c)' >= WaitsBehind(c) + 1
          BY <2>t, <3>5
        <5> QED  BY <2>t, <3>2, <3>3, <3>6, <4>1, <5>1, SpentGrows
      <4>2. CASE f = g
        <5>1. age'[NameOf(f)'] = 0
          BY <3>1, <3>3, <4>2 DEF LeaseInv, NameOf
        <5>2. Spent(f)' = busy[c] + Patience * 0 + 0
          <6>1. (WaitsBehind(f.call) - f.level)' = 0
            BY <2>t, <3>1, <3>5, <4>2
          <6> QED  BY <3>1, <3>2, <4>2, <6>1 DEF Spent
        <5>3. busy[c] \in 0..BodyTicks
          BY DEF TypeOK
        <5> QED  BY <2>t, <5>1, <5>2, <5>3
      <4> QED  BY <3>4, <3>6, <4>1, <4>2
    <3>7. \A n \in Name : holder'[n] = Free => age'[n] = 0
      BY <3>1, <3>3, FrameFacts DEF LeaseInv, TypeOK
    <3>8. \A d \in Call : at'[d] # "lock" => waited'[d] = 0
      BY <3>2 DEF LeaseInv
    <3>9. LateOnlyByWaiting'
      BY <3>2 DEF LeaseInv, LateOnlyByWaiting
    <3> QED  BY <3>6, <3>7, <3>8, <3>9 DEF LeaseInv
  <2>3. ASSUME NEW c \in Call, LockFailed(c) PROVE LeaseInv'
    <3>1. /\ at[c] = "lock" /\ waited[c] = Patience /\ level'[c] = level[c] - 1
          /\ at'[c] = IF level[c] = 1 THEN "idle" ELSE "exit"
          /\ waited'[c] = 0 /\ busy' = busy /\ holder' = holder /\ age' = age /\ late' = late
          /\ \A d \in Call : d # c => /\ at'[d] = at[d] /\ level'[d] = level[d]
                                      /\ waited'[d] = waited[d]
      BY <2>3 DEF LockFailed, Back, LeaseInv, TypeOK
    <3>2. \A f \in Frame : Inside(f)' <=> Inside(f)
      BY <2>3, FrameFacts DEF LockFailed, Back, Inside, TypeOK
    <3>3. ASSUME NEW f \in Frame, Inside(f)', f.call = c
          PROVE  WaitsBehind(c)' >= WaitsBehind(c) + 1
      <4>1. at'[c] = "exit"
        BY <2>t, <3>1, <3>3, FrameFacts DEF Inside
      <4>2. WaitsBehind(c)' = Len(Plan[c]) /\ WaitsBehind(c) = level[c] - 1
        BY <3>1, <4>1 DEF WaitsBehind
      <4> QED  BY <2>t, <4>2
    <3>4. \A n \in Name : age'[n] <= age[n] /\ (holder'[n] = Free => age'[n] = 0)
      BY <2>t, <3>1 DEF LeaseInv
    <3> QED  BY <2>a, <3>1, <3>2, <3>3, <3>4
  <2>4. ASSUME NEW c \in Call, CallInner(c) PROVE LeaseInv'
    <3>1. /\ at[c] = "body" /\ level'[c] = level[c] + 1 /\ at'[c] = "lock"
          /\ waited' = waited /\ busy' = busy /\ holder' = holder /\ age' = age /\ late' = late
          /\ \A d \in Call : d # c => at'[d] = at[d] /\ level'[d] = level[d]
      BY <2>4 DEF CallInner, LeaseInv, TypeOK
    <3>2. \A f \in Frame : Inside(f)' <=> Inside(f)
      BY <2>4, FrameFacts DEF CallInner, Inside, TypeOK
    <3>3. WaitsBehind(c)' >= WaitsBehind(c) /\ waited'[c] >= waited[c]
      BY <2>t, <3>1 DEF WaitsBehind
    <3>4. \A n \in Name : age'[n] <= age[n] /\ (holder'[n] = Free => age'[n] = 0)
      BY <2>t, <3>1 DEF LeaseInv
    <3> QED  BY <2>a, <3>1, <3>2, <3>3, <3>4
  <2>5. ASSUME NEW c \in Call, EndBody(c) PROVE LeaseInv'
    <3>1. /\ at[c] = "body" /\ at'[c] = "exit" /\ level' = level
          /\ waited' = waited /\ busy' = busy /\ holder' = holder /\ age' = age /\ late' = late
          /\ \A d \in Call : d # c => at'[d] = at[d]
      BY <2>5 DEF EndBody, LeaseInv, TypeOK
    <3>2. \A f \in Frame : Inside(f)' <=> Inside(f)
      BY <2>5, FrameFacts DEF EndBody, Inside, TypeOK
    <3>3. WaitsBehind(c)' >= WaitsBehind(c) /\ waited'[c] >= waited[c]
      BY <2>t, <3>1 DEF WaitsBehind
    <3>4. \A n \in Name : age'[n] <= age[n] /\ (holder'[n] = Free => age'[n] = 0)
      BY <2>t, <3>1 DEF LeaseInv
    <3>5. waited'[c] = 0
      BY <3>1 DEF LeaseInv
    <3> QED  BY <2>a, <3>1, <3>2, <3>3, <3>4, <3>5
  <2>6. ASSUME NEW c \in Call, Unlock(c) PROVE LeaseInv'
    <3>1. /\ at[c] = "exit" /\ level'[c] = level[c] - 1
          /\ at'[c] = IF level[c] = 1 THEN "idle" ELSE "exit"
          /\ waited[c] = 0 /\ waited'[c] = 0 /\ busy' = busy
          /\ late' = late \ {Current(c)}
          /\ \A d \in Call : d # c => /\ at'[d] = at[d] /\ level'[d] = level[d]
                                      /\ waited'[d] = waited[d]
      BY <2>6 DEF Unlock, Back, LeaseInv, TypeOK
    <3>2. \A f \in Frame : Inside(f)' => Inside(f)
      BY <2>6, FrameFacts DEF Unlock, Back, Inside, TypeOK
    <3>3. ASSUME NEW f \in Frame, Inside(f)', f.call = c
          PROVE  WaitsBehind(c)' >= WaitsBehind(c) /\ waited'[c] >= waited[c]
      <4>1. at'[c] = "exit"
        BY <2>t, <3>1, <3>3, FrameFacts DEF Inside
      <4>2. WaitsBehind(c)' = Len(Plan[c]) /\ WaitsBehind(c) = Len(Plan[c])
        BY <3>1, <4>1 DEF WaitsBehind
      <4> QED  BY <2>t, <3>1, <4>2
    <3>4. \A n \in Name : age'[n] <= age[n] /\ (holder'[n] = Free => age'[n] = 0)
      <4>1. Wanted(c) \in Name
        BY <2>6, CurrentFacts DEF Unlock
      <4>2. \/ holder' = holder /\ age' = age
            \/ Hand(Wanted(c), Free)
            \/ Hand(Wanted(c), Dead)
        BY <2>6 DEF Unlock
      <4>3. CASE holder' = holder /\ age' = age
        BY <2>t, <4>3 DEF LeaseInv
      <4>4. CASE Hand(Wanted(c), Free)
        BY <2>t, <4>1, <4>4 DEF LeaseInv, Hand, TypeOK
      <4>5. CASE Hand(Wanted(c), Dead)
        BY <2>t, <4>1, <4>5, FrameFacts DEF LeaseInv, Hand, TypeOK
      <4> QED  BY <4>2, <4>3, <4>4, <4>5
    <3>5. \A f \in Frame : Inside(f)' => f # Current(c)
      BY <2>6, <3>1, CurrentFacts DEF Inside, Unlock, TypeOK
    <3> QED  BY <2>a, <3>1, <3>2, <3>3, <3>4, <3>5
  <2>7. ASSUME NEW c \in Call, Crash(c) PROVE LeaseInv'
    <3>1. /\ at'[c] = "idle" /\ waited'[c] = 0 /\ busy' = busy /\ late' = {f \in late : f.call # c} /\ age' = age
          /\ \A d \in Call : d # c => /\ at'[d] = at[d] /\ level'[d] = level[d]
                                      /\ waited'[d] = waited[d]
      BY <2>7 DEF Crash, LeaseInv, TypeOK
    <3>2. \A f \in Frame : Inside(f)' => Inside(f) /\ f.call # c
      BY <2>7, FrameFacts DEF Crash, Inside, TypeOK
    <3>3. \A n \in Name : holder'[n] = Free => holder[n] = Free
      BY <2>7, FrameFacts DEF Crash
    <3>4. \A n \in Name : age'[n] <= age[n] /\ (holder'[n] = Free => age'[n] = 0)
      BY <2>t, <3>1, <3>3 DEF LeaseInv
    <3>5. late' \subseteq late /\ \A f \in Frame : Inside(f)' /\ f \in late => f \in late'
      BY <3>1, <3>2
    <3> QED  BY <2>a, <3>1, <3>2, <3>4, <3>5
  <2>8. ASSUME NEW n \in Name, Expire(n) PROVE LeaseInv'
    <3>1. \A f \in Frame : Inside(f) /\ f \notin late => holder[NameOf(f)] = f
      BY DEF LockInv
    <3>2. ASSUME holder[n] \in Frame, holder[n] \notin late
          PROVE  Ttl <= BodyTicks + Patience * (Len(Plan[holder[n].call]) - holder[n].level)
      <4> DEFINE f == holder[n]
                 w == WaitsBehind(f.call) - f.level
                 m == Len(Plan[f.call]) - f.level
      <4>1. /\ f \in Frame /\ Inside(f) /\ NameOf(f) = n
            /\ f.call \in Call /\ f.level \in Nat \ {0}
        BY <3>2, FrameFacts DEF LockInv, HeldFromInside
      <4>2. Ttl <= Spent(f)
        BY <2>8, <3>2, <4>1 DEF LeaseInv, Expire
      <4>3. /\ w \in Nat /\ waited[f.call] \in 0..Patience /\ busy[f.call] \in 0..BodyTicks
            /\ Spent(f) = busy[f.call] + Patience * w + waited[f.call]
            /\ w <= m /\ (at[f.call] = "lock" => w + 1 <= m) /\ m \in Int
        <5>1. WaitsBehind(f.call) \in Int /\ m \in Int
          BY <2>t, <4>1 DEF WaitsBehind
        <5>2. /\ w \in Nat /\ waited[f.call] \in 0..Patience /\ busy[f.call] \in 0..BodyTicks
              /\ WaitsBehind(f.call) <= Len(Plan[f.call])
              /\ at[f.call] = "lock" => WaitsBehind(f.call) + 1 <= Len(Plan[f.call])
              /\ Len(Plan[f.call]) \in Nat
          BY <4>1, WaitFacts
        <5>3. Spent(f) = busy[f.call] + Patience * w + waited[f.call]
          BY DEF Spent
        <5> HIDE DEF f
        <5>4. w <= m /\ (at[f.call] = "lock" => w + 1 <= m)
          BY <4>1, <5>1, <5>2
        <5> QED  BY <5>1, <5>2, <5>3, <5>4
      <4>5. BodyTicks \in Nat /\ Patience \in Nat /\ Ttl \in Nat
        BY SyncAssumption
      <4>6. Patience * w \in Int /\ Patience * m \in Int
        BY <4>3, <4>5, Product
      <4>7. Spent(f) <= BodyTicks + Patience * m
        <5>1. CASE at[f.call] = "lock"
          <6> HIDE DEF f, w, m
          <6>1. w + 1 <= m /\ w \in Int /\ w + 1 \in Int /\ m \in Int
            BY <4>3, <5>1
          <6>2. Patience * (w + 1) <= Patience * m
            BY <4>5, <6>1, Product
          <6>3. Patience * (w + 1) = Patience * w + Patience
            BY <4>5, <6>1
          <6> QED  BY <4>3, <4>5, <4>6, <6>2, <6>3
        <5>2. CASE at[f.call] # "lock"
          <6>1. waited[f.call] = 0
            BY <4>1, <5>2 DEF LeaseInv
          <6> HIDE DEF f, w, m
          <6>2. Patience * w <= Patience * m
            <7>1. w <= m /\ w \in Int /\ m \in Int
              BY <4>3
            <7> QED  BY <4>5, <7>1, Product
          <6> QED  BY <4>3, <4>5, <4>6, <6>1, <6>2
        <5> QED  BY <5>1, <5>2
      <4>8. Ttl <= BodyTicks + Patience * m
        <5> HIDE DEF f, w, m
        <5>1. Spent(f) \in Int
          BY <4>3, <4>5, <4>6
        <5> QED  BY <4>2, <4>5, <4>6, <4>7, <5>1
      <4> QED  BY <4>8
    <3>3. /\ UNCHANGED <<at, level, waited, busy>>
          /\ \A x \in Name : x # n => age'[x] = age[x] /\ holder'[x] = holder[x]
          /\ age'[n] = 0
          /\ late \subseteq late' /\ late' \subseteq late \union {holder[n]}
          /\ holder[n] \in Frame => holder[n] \in late'
          /\ holder[n] \notin Frame => late' = late
      BY <2>8 DEF Expire, Hand, LeaseInv, TypeOK
    <3>4. ASSUME NEW f \in Frame, Inside(f)', f \notin late'
          PROVE  age'[NameOf(f)'] <= Spent(f)'
      <4>1. Inside(f) /\ f \notin late /\ NameOf(f)' = NameOf(f) /\ Spent(f)' = Spent(f)
        BY <3>3, <3>4 DEF Inside, NameOf, Spent, WaitsBehind
      <4>2. NameOf(f) \in Name /\ NameOf(f) # n
        BY <3>1, <3>3, <3>4, <4>1, InsideNamed
      <4> QED  BY <3>3, <4>1, <4>2 DEF LeaseInv
    <3>5. \A x \in Name : holder'[x] = Free => age'[x] = 0
      BY <3>3 DEF LeaseInv
    <3>6. \A d \in Call : at'[d] # "lock" => waited'[d] = 0
      BY <3>3 DEF LeaseInv
    <3>7. LateOnlyByWaiting'
      BY <3>2, <3>3 DEF LeaseInv, LateOnlyByWaiting
    <3> QED  BY <3>4, <3>5, <3>6, <3>7 DEF LeaseInv
  <2>9. ASSUME Tick PROVE LeaseInv'
    <3>1. /\ late' = late /\ holder' = holder /\ at' = at /\ level' = level
          /\ \A n \in Name : age'[n] = IF holder[n] # Free THEN age[n] + 1 ELSE age[n]
      BY <2>9 DEF Tick, LeaseInv
    <3>1a. ASSUME NEW c \in Call
          PROVE  /\ at[c] = "lock" => waited'[c] = waited[c] + 1 /\ busy'[c] = busy[c]
                 /\ at[c] # "lock" => waited'[c] = waited[c]
                 /\ at[c] \in {"body", "exit"} => busy'[c] = busy[c] + 1
      <4>1. /\ waited'[c] = IF at[c] = "lock" THEN waited[c] + 1 ELSE waited[c]
            /\ busy'[c] = IF at[c] \in {"body", "exit"} THEN busy[c] + 1 ELSE busy[c]
        BY <2>9 DEF Tick, Working
      <4> QED  BY <4>1
    <3>2. ASSUME NEW f \in Frame, Inside(f)', f \notin late' PROVE age'[NameOf(f)'] <= Spent(f)'
      <4> DEFINE pw == Patience * (WaitsBehind(f.call) - f.level)
      <4>1. /\ Inside(f) /\ f \notin late /\ NameOf(f)' = NameOf(f)
            /\ Spent(f) = busy[f.call] + pw + waited[f.call]
            /\ Spent(f)' = busy'[f.call] + pw + waited'[f.call]
        BY <3>1, <3>2 DEF Inside, NameOf, Spent, WaitsBehind
      <4>2. /\ pw \in Nat /\ waited[f.call] \in 0..Patience /\ busy[f.call] \in 0..BodyTicks
            /\ Patience \in Nat /\ BodyTicks \in Nat /\ f.call \in Call
        BY <4>1, WaitFacts, FrameFacts, SyncAssumption
      <4>3. /\ NameOf(f) \in Name /\ age[NameOf(f)] <= Spent(f)
            /\ age[NameOf(f)] \in 0..Ttl /\ Ttl \in Nat
        <5>1. NameOf(f) \in Name
          BY <4>1, InsideNamed
        <5>2. age[NameOf(f)] <= Spent(f)
          BY <4>1 DEF LeaseInv
        <5>3. age[NameOf(f)] \in 0..Ttl /\ Ttl \in Nat
          BY <2>t, <5>1, SyncAssumption
        <5> QED  BY <5>1, <5>2, <5>3
      <4>4. at[f.call] \in {"lock", "body", "exit"}
        BY <4>1, <4>2, FrameFacts DEF Inside, TypeOK
      <4> HIDE DEF pw
      <4>5. Spent(f)' = Spent(f) + 1 /\ Spent(f) \in Int
        <5>1. \/ waited'[f.call] = waited[f.call] + 1 /\ busy'[f.call] = busy[f.call]
              \/ waited'[f.call] = waited[f.call] /\ busy'[f.call] = busy[f.call] + 1
          BY <3>1a, <4>2, <4>4
        <5>2. waited[f.call] \in Int /\ busy[f.call] \in Int /\ pw \in Int
          BY <4>2
        <5> QED  BY <4>1, <5>1, <5>2
      <4>6. age'[NameOf(f)] <= age[NameOf(f)] + 1 /\ age'[NameOf(f)] \in Nat
        BY <2>t, <3>1, <4>3
      <4> QED  BY <4>1, <4>3, <4>5, <4>6
    <3>3. \A n \in Name : holder'[n] = Free => age'[n] = 0
      BY <3>1 DEF LeaseInv
    <3>4. \A c \in Call : at'[c] # "lock" => waited'[c] = 0
      BY <3>1, <3>1a DEF LeaseInv
    <3>5. LateOnlyByWaiting'
      BY <3>1 DEF LeaseInv, LateOnlyByWaiting
    <3> QED  BY <3>2, <3>3, <3>4, <3>5 DEF LeaseInv
  <2>10. ASSUME UNCHANGED vars PROVE LeaseInv'
    BY <2>10 DEF LeaseInv, LateOnlyByWaiting, vars, Inside, NameOf, Spent, WaitsBehind
  <2> QED
    BY <2>1, <2>2, <2>3, <2>4, <2>5, <2>6, <2>7, <2>8, <2>9, <2>10 DEF Next, Step
<1> QED
  BY <1>1, <1>2, TypeCorrect, LockInvariant, PTL DEF Spec

\* For any calls, names, nesting, lease and timeout, and whatever crashes or fails to be
\* released, a lease runs out under its holder only when the bodies of the call and its
\* waits for the locks below that one can fill it.
THEOREM LeasesLastBodies == Spec => []LateOnlyByWaiting
<1>1. LeaseInv => LateOnlyByWaiting
  BY DEF LeaseInv
<1> QED
  BY <1>1, LeaseInvariant, PTL
=============================================================================
