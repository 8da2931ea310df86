-------------------------- MODULE WorkspacePoolProofs --------------------------
(***************************************************************************)
(* The count of a workspace, the reaper that reads it and the Sessions     *)
(* that go with the object, for any number of turns, conversations and     *)
(* objects.                                                                *)
(***************************************************************************)
EXTENDS WorkspacePool, FiniteSetTheorems, TLAPS

(* A turn and a reader have the objects that they are about to use.        *)
TurnRefs ==
    \A t \in Turns :
        /\ pc[t] # "new" => home[t] \in Objects
        /\ pc[t] \in CountedPcs \cup {"found"} => on[t] \in Objects

(* A reader counts on nothing before the first event; and one that ends    *)
(* has found the object of the pool, if that is the one it counts on.      *)
ReaderRefs ==
    \A r \in Turns :
        /\ rpc[r] \in {"off", "select", "found"} => counted[r] = NoObject
        /\ rpc[r] \in {"ending", "leaving"} /\ pool # NoObject /\ counted[r] = pool =>
              got[r] = pool

(* A turn counts on the object of the pool, or began on a dropped one.     *)
Pooled == \A t \in Turns \ exposed : pc[t] \in CountedPcs => on[t] = pool

(* A turn that the count may miss is known as such: where a reader has     *)
(* taken a count, and where the reaper has read the count and the time.    *)
Unseen == (robbed \/ reaper = "old" \/ (reaper = "quiet" /\ idle)) => OnPool \subseteq exposed

ReaperInv == reaper # "off" => pool # NoObject

(* A turn that has locked its Session has it locked, and alone.            *)
LockInv ==
    \A t \in Turns : pc[t] \in LockedPcs =>
        /\ ConvOf[t] \in locked[home[t]]
        /\ \A u \in Turns \ {t} :
              pc[u] \in LockedPcs /\ ConvOf[u] = ConvOf[t] => home[u] # home[t]

PoolInv ==
    /\ TypeOK /\ TurnRefs /\ ReaderRefs /\ ReaperInv
    /\ CountFollowsTurns
    /\ Pooled /\ Unseen
    /\ LockInv

-----------------------------------------------------------------------------
LEMMA CountType ==
  ASSUME TypeOK, NEW w, Begun(w) \/ Ended(w)
  PROVE  active' \in Nat /\ idle' \in BOOLEAN
  <1>1. active' \in Nat BY DEF TypeOK, Begun, Ended
  <1>2. idle' = (w # pool /\ idle) BY DEF Begun, Ended
  <1> QED BY <1>1, <1>2

LEMMA LookupType ==
  ASSUME TypeOK, NEW w \in Objects, GetOrCreate(w)
  PROVE  /\ pool' \in Refs /\ active' \in Nat /\ robbed' \in BOOLEAN
         /\ locked' \in [Objects -> SUBSET Conversations]
  <1>1. CASE w = pool /\ pool # NoObject /\ UNCHANGED <<pool, active, robbed, locked>>
    BY <1>1 DEF TypeOK
  <1>2. CASE /\ pool' = w /\ active' = 0 /\ robbed' = FALSE
             /\ locked' = [locked EXCEPT ![w] = {}]
    BY <1>2 DEF TypeOK, Refs
  <1> QED BY <1>1, <1>2 DEF GetOrCreate

LEMMA TypeStep ==
  ASSUME PoolInv, [Next]_vars
  PROVE  TypeOK'
  <1> USE DEF PoolInv, TypeOK, TurnRefs, Refs, TurnPcs, CountedPcs, LockedPcs, ReaderPcs,
              Goto, vars, poolVars, turnVars, readerVars
  <1>1. ASSUME NEW t \in Turns, Turn(t) PROVE TypeOK'
    <2>1. CASE Resolve(t)
      <3>1. PICK w \in Objects : GetOrCreate(w) /\ home' = [home EXCEPT ![t] = w]
        BY <2>1 DEF Resolve
      <3>2. idle' \in BOOLEAN BY <2>1 DEF Resolve
      <3> QED BY <2>1, <3>1, <3>2, LookupType DEF Resolve
    <2>2. CASE TryLock(t) BY <2>2 DEF TryLock, Conversations
    <2>3. CASE Busy(t) BY <2>3 DEF Busy
    <2>4. CASE NoAgent(t) \/ DrainOrphaned(t) \/ DrainEnds(t)
      BY <2>4 DEF NoAgent, DrainOrphaned, DrainEnds
    <2>5. CASE Find(t)
      <3>1. PICK w \in Objects : GetOrCreate(w) /\ on' = [on EXCEPT ![t] = w]
        BY <2>5 DEF Find
      <3>2. idle' \in BOOLEAN BY <2>5 DEF Find
      <3> QED BY <2>5, <3>1, <3>2, LookupType DEF Find
    <2>6. CASE BeginTurn(t) BY <2>6 DEF BeginTurn, Begun
    <2>7. CASE Unlock(t) BY <2>7 DEF Unlock
    <2>8. CASE StartReader(t) BY <2>8 DEF StartReader
    <2>9. CASE EndTurn(t) BY <2>9 DEF EndTurn, Ended
    <2>10. CASE DeferredUnlock(t) BY <2>10 DEF DeferredUnlock
    <2> QED BY <1>1, <2>1, <2>2, <2>3, <2>4, <2>5, <2>6, <2>7, <2>8, <2>9, <2>10 DEF Turn
  <1>2. ASSUME NEW r \in Turns, Reader(r) PROVE TypeOK'
    <2>1. CASE FirstEvent(r) \/ ReaderResult(r) \/ ReaderLeaves(r)
      BY <2>1 DEF FirstEvent, ReaderResult, ReaderLeaves, ReaderGets
    <2>2. CASE ReaderBegins(r)
      <3>1. active' \in Nat /\ idle' \in BOOLEAN BY <2>2, CountType DEF ReaderBegins
      <3> QED BY <2>2, <3>1 DEF ReaderBegins
    <2>3. CASE ReaderEnds(r)
      <3>1. active' \in Nat /\ idle' \in BOOLEAN BY <2>3, CountType DEF ReaderEnds
      <3>2. robbed' \in BOOLEAN /\ exposed' \subseteq Turns BY <2>3 DEF ReaderEnds, OnPool
      <3> QED BY <2>3, <3>1, <3>2 DEF ReaderEnds
    <2>4. CASE ReaderStops(r) BY <2>4 DEF ReaderStops
    <2> QED BY <1>2, <2>1, <2>2, <2>3, <2>4 DEF Reader
  <1>3. CASE TimePasses \/ ReapLooks \/ ReapCompares \/ ReapDrops
    <2>1. CASE TimePasses BY <2>1 DEF TimePasses
    <2>2. CASE ReapLooks BY <2>2 DEF ReapLooks
    <2>3. CASE ReapCompares BY <2>3 DEF ReapCompares
    <2>4. CASE ReapDrops BY <2>4 DEF ReapDrops
    <2> QED BY <1>3, <2>1, <2>2, <2>3, <2>4
  <1>4. CASE UNCHANGED vars BY <1>4
  <1> QED BY <1>1, <1>2, <1>3, <1>4 DEF Next

LEMMA RefsStep ==
  ASSUME PoolInv, [Next]_vars
  PROVE  TurnRefs' /\ ReaderRefs' /\ ReaperInv'
  <1> USE NoObjectAssumption DEF PoolInv, TypeOK, TurnRefs, ReaderRefs, ReaperInv, Refs, CountedPcs,
              Goto, vars, poolVars, turnVars, readerVars
  <1>1. ASSUME NEW t \in Turns, Turn(t) PROVE TurnRefs' /\ ReaderRefs' /\ ReaperInv'
    <2>1. CASE Resolve(t) BY <2>1 DEF Resolve, GetOrCreate, Unused, PoolFree
    <2>2. CASE TryLock(t) BY <2>2 DEF TryLock
    <2>3. CASE Busy(t) BY <2>3 DEF Busy
    <2>4. CASE NoAgent(t) \/ DrainOrphaned(t) \/ DrainEnds(t)
      BY <2>4 DEF NoAgent, DrainOrphaned, DrainEnds
    <2>5. CASE Find(t) BY <2>5 DEF Find, GetOrCreate, Unused, PoolFree
    <2>6. CASE BeginTurn(t) BY <2>6 DEF BeginTurn
    <2>7. CASE Unlock(t) BY <2>7 DEF Unlock
    <2>8. CASE StartReader(t) BY <2>8 DEF StartReader
    <2>9. CASE EndTurn(t) BY <2>9 DEF EndTurn
    <2>10. CASE DeferredUnlock(t) BY <2>10 DEF DeferredUnlock
    <2> QED BY <1>1, <2>1, <2>2, <2>3, <2>4, <2>5, <2>6, <2>7, <2>8, <2>9, <2>10 DEF Turn
  <1>2. ASSUME NEW r \in Turns, Reader(r) PROVE TurnRefs' /\ ReaderRefs' /\ ReaperInv'
    <2>1. CASE FirstEvent(r) \/ ReaderResult(r) \/ ReaderLeaves(r)
      BY <2>1 DEF FirstEvent, ReaderResult, ReaderLeaves, ReaderGets
    <2>2. CASE ReaderBegins(r) BY <2>2 DEF ReaderBegins
    <2>3. CASE ReaderEnds(r) BY <2>3 DEF ReaderEnds
    <2>4. CASE ReaderStops(r) BY <2>4 DEF ReaderStops
    <2> QED BY <1>2, <2>1, <2>2, <2>3, <2>4 DEF Reader
  <1>3. CASE TimePasses \/ ReapLooks \/ ReapCompares \/ ReapDrops
    BY <1>3 DEF TimePasses, ReapLooks, ReapCompares, ReapDrops
  <1>4. CASE UNCHANGED vars BY <1>4
  <1> QED BY <1>1, <1>2, <1>3, <1>4 DEF Next

LEMMA LockStep ==
  ASSUME PoolInv, [Next]_vars
  PROVE  LockInv'
  <1> USE DEF PoolInv, TypeOK, TurnRefs, LockInv, LockedPcs, Conversations,
              Goto, vars, poolVars, turnVars, readerVars
  <1>1. ASSUME NEW t \in Turns, Turn(t) PROVE LockInv'
    <2>1. CASE Resolve(t) BY <2>1 DEF Resolve, GetOrCreate, Unused
    <2>2. CASE TryLock(t) BY <2>2 DEF TryLock, SessionFree
    <2>3. CASE Busy(t) BY <2>3 DEF Busy
    <2>4. CASE NoAgent(t) \/ DrainOrphaned(t) \/ DrainEnds(t)
      BY <2>4 DEF NoAgent, DrainOrphaned, DrainEnds
    <2>5. CASE Find(t) BY <2>5 DEF Find, GetOrCreate, Unused
    <2>6. CASE BeginTurn(t) BY <2>6 DEF BeginTurn
    <2>7. CASE Unlock(t) BY <2>7 DEF Unlock
    <2>8. CASE StartReader(t) BY <2>8 DEF StartReader
    <2>9. CASE EndTurn(t) BY <2>9 DEF EndTurn
    <2>10. CASE DeferredUnlock(t) BY <2>10 DEF DeferredUnlock
    <2> QED BY <1>1, <2>1, <2>2, <2>3, <2>4, <2>5, <2>6, <2>7, <2>8, <2>9, <2>10 DEF Turn
  <1>2. ASSUME NEW r \in Turns, Reader(r) PROVE LockInv'
    BY <1>2 DEF Reader, FirstEvent, ReaderBegins, ReaderResult, ReaderLeaves, ReaderEnds, ReaderStops,
       ReaderGets
  <1>3. CASE TimePasses \/ ReapLooks \/ ReapCompares \/ ReapDrops
    BY <1>3 DEF TimePasses, ReapLooks, ReapCompares, ReapDrops
  <1>4. CASE UNCHANGED vars BY <1>4
  <1> QED BY <1>1, <1>2, <1>3, <1>4 DEF Next

-----------------------------------------------------------------------------
LEMMA HoldersFinite ==
  ASSUME TypeOK
  PROVE  IsFiniteSet(Holders)
  <1>1. IsFiniteSet({"turn"} \cup {"reader"}) BY FS_Singleton, FS_AddElement
  <1>2. IsFiniteSet(Turns \X ({"turn"} \cup {"reader"})) BY <1>1, TurnsAssumption, FS_Product
  <1>3. Holders \in SUBSET (Turns \X ({"turn"} \cup {"reader"})) BY DEF Holders, OnPool
  <1> QED BY <1>2, <1>3, FS_Subset

(* A workspace whose count is zero and true has nobody who counts on it.   *)
LEMMA NoneCounted ==
  ASSUME TypeOK, CountFollowsTurns, pool # NoObject, ~robbed, active = 0
  PROVE  OnPool = {}
  <1>1. Holders = {} BY HoldersFinite, FS_EmptySet DEF CountFollowsTurns
  <1> QED BY <1>1 DEF Holders

LEMMA ReachStep ==
  ASSUME PoolInv, [Next]_vars
  PROVE  Pooled' /\ Unseen'
  <1> USE NoObjectAssumption
      DEF PoolInv, TypeOK, TurnRefs, Pooled, Unseen, ReaperInv, CountedPcs, LockedPcs, TurnPcs,
          Goto, OnPool, vars, poolVars, turnVars, readerVars
  <1>1. ASSUME NEW t \in Turns, Turn(t) PROVE Pooled' /\ Unseen'
    <2>1. CASE Resolve(t) BY <2>1 DEF Resolve, GetOrCreate, PoolFree
    <2>2. CASE TryLock(t) BY <2>2 DEF TryLock
    <2>3. CASE Busy(t) BY <2>3 DEF Busy
    <2>4. CASE NoAgent(t) \/ DrainOrphaned(t) \/ DrainEnds(t)
      BY <2>4 DEF NoAgent, DrainOrphaned, DrainEnds
    <2>5. CASE Find(t) BY <2>5 DEF Find, GetOrCreate, PoolFree
    <2>6. CASE BeginTurn(t) BY <2>6 DEF BeginTurn, Begun
    <2>7. CASE Unlock(t) BY <2>7 DEF Unlock
    <2>8. CASE StartReader(t) BY <2>8 DEF StartReader
    <2>9. CASE EndTurn(t) BY <2>9 DEF EndTurn, Ended
    <2>10. CASE DeferredUnlock(t) BY <2>10 DEF DeferredUnlock
    <2> QED BY <1>1, <2>1, <2>2, <2>3, <2>4, <2>5, <2>6, <2>7, <2>8, <2>9, <2>10 DEF Turn
  <1>2. ASSUME NEW r \in Turns, Reader(r) PROVE Pooled' /\ Unseen'
    <2>1. CASE FirstEvent(r) \/ ReaderResult(r) \/ ReaderLeaves(r)
      BY <2>1 DEF FirstEvent, ReaderResult, ReaderLeaves, ReaderGets
    <2>2. CASE ReaderBegins(r) BY <2>2 DEF ReaderBegins, Begun
    <2>3. CASE ReaderEnds(r) BY <2>3 DEF ReaderEnds, Ended, Robs
    <2>4. CASE ReaderStops(r) BY <2>4 DEF ReaderStops
    <2> QED BY <1>2, <2>1, <2>2, <2>3, <2>4 DEF Reader
  <1>3. CASE TimePasses BY <1>3 DEF TimePasses
  <1>4. CASE ReapLooks
    <2>1. robbed \/ OnPool = {} BY <1>4, NoneCounted DEF ReapLooks, HasActiveTurn
    <2> QED BY <1>4, <2>1 DEF ReapLooks
  <1>5. CASE ReapCompares BY <1>5 DEF ReapCompares
  <1>6. CASE ReapDrops BY <1>6 DEF ReapDrops
  <1>7. CASE UNCHANGED vars BY <1>7
  <1> QED BY <1>1, <1>2, <1>3, <1>4, <1>5, <1>6, <1>7 DEF Next

-----------------------------------------------------------------------------
CountersSame == UNCHANGED <<pool, active, robbed>> /\ Holders' = Holders

LEMMA CountSame ==
  ASSUME CountFollowsTurns, CountersSame
  PROVE  CountFollowsTurns'
  BY DEF CountFollowsTurns, CountersSame

(* One who counts on the object of the pool comes ...                      *)
LEMMA CountComes ==
  ASSUME TypeOK, CountFollowsTurns, NEW x, x \notin Holders,
         UNCHANGED <<pool, robbed>>, active' = active + 1, Holders' = Holders \cup {x}
  PROVE  CountFollowsTurns'
  <1>1. Cardinality(Holders') = Cardinality(Holders) + 1 BY HoldersFinite, FS_AddElement
  <1>2. Cardinality(Holders) \in Nat BY HoldersFinite, FS_CardinalityType
  <1> QED BY <1>1, <1>2 DEF CountFollowsTurns, TypeOK

(* ... and goes.                                                           *)
LEMMA CountGoes ==
  ASSUME TypeOK, CountFollowsTurns, NEW x, x \in Holders,
         UNCHANGED <<pool, robbed>>, active' = IF active > 0 THEN active - 1 ELSE active,
         Holders' = Holders \ {x}
  PROVE  CountFollowsTurns'
  <1>1. Cardinality(Holders') = Cardinality(Holders) - 1 BY HoldersFinite, FS_RemoveElement
  <1>2. Cardinality(Holders) \in Nat /\ Cardinality(Holders') \in Nat
    BY HoldersFinite, FS_CardinalityType, FS_RemoveElement
  <1> QED BY <1>1, <1>2 DEF CountFollowsTurns, TypeOK

(* The pool finds its object, or creates one that nobody counts on yet.    *)
LEMMA CountLookup ==
  ASSUME PoolInv, NEW w \in Objects, GetOrCreate(w), UNCHANGED counted,
         \A t \in Turns : pc'[t] \in CountedPcs <=> pc[t] \in CountedPcs,
         \A t \in Turns : pc[t] \in CountedPcs => on'[t] = on[t]
  PROVE  CountFollowsTurns'
  <1>1. CASE UNCHANGED <<pool, active, robbed, locked>>
    BY <1>1, CountSame DEF PoolInv, CountersSame, Holders, OnPool
  <1>2. CASE pool' = w /\ active' = 0 /\ Unused(w)
    <2>1. Holders' = {} BY <1>2 DEF Holders, OnPool, Unused
    <2> QED BY <1>2, <2>1, FS_EmptySet DEF CountFollowsTurns
  <1> QED BY <1>1, <1>2 DEF GetOrCreate

LEMMA CountStep ==
  ASSUME PoolInv, [Next]_vars
  PROVE  CountFollowsTurns'
  <1> USE DEF vars, poolVars, turnVars, readerVars, Goto
  <1>a. TypeOK /\ CountFollowsTurns BY DEF PoolInv
  <1>1. ASSUME NEW t \in Turns, Turn(t) PROVE CountFollowsTurns'
    <2>1. CASE Resolve(t)
      <3>1. PICK w \in Objects : GetOrCreate(w) BY <2>1 DEF Resolve
      <3> QED BY <1>a, <2>1, <3>1, CountLookup DEF Resolve, TypeOK, CountedPcs
    <2>2. CASE Find(t)
      <3>1. PICK w \in Objects : GetOrCreate(w) /\ on' = [on EXCEPT ![t] = w] BY <2>2 DEF Find
      <3> QED BY <1>a, <2>2, <3>1, CountLookup DEF Find, TypeOK, CountedPcs
    <2>3. CASE BeginTurn(t)
      <3>1. CASE on[t] = pool
        <4>1. Holders' = Holders \cup {<<t, "turn">>} /\ <<t, "turn">> \notin Holders
          BY <1>a, <2>3, <3>1 DEF BeginTurn, Holders, OnPool, TypeOK, CountedPcs
        <4> QED BY <1>a, <2>3, <3>1, <4>1, CountComes DEF BeginTurn, Begun
      <3>2. CASE on[t] # pool
        BY <1>a, <2>3, <3>2, CountSame DEF BeginTurn, Begun, CountersSame, Holders, OnPool, TypeOK, CountedPcs
      <3> QED BY <3>1, <3>2
    <2>4. CASE EndTurn(t)
      <3>1. CASE on[t] = pool
        <4>1. Holders' = Holders \ {<<t, "turn">>} /\ <<t, "turn">> \in Holders
          BY <1>a, <2>4, <3>1 DEF EndTurn, Holders, OnPool, TypeOK, CountedPcs
        <4> QED BY <1>a, <2>4, <3>1, <4>1, CountGoes DEF EndTurn, Ended
      <3>2. CASE on[t] # pool
        BY <1>a, <2>4, <3>2, CountSame DEF EndTurn, Ended, CountersSame, Holders, OnPool, TypeOK, CountedPcs
      <3> QED BY <3>1, <3>2
    <2>5. CASE TryLock(t) \/ Busy(t) \/ NoAgent(t) \/ DrainOrphaned(t) \/ DrainEnds(t)
      BY <1>a, <2>5, CountSame
      DEF TryLock, Busy, NoAgent, DrainOrphaned, DrainEnds, CountersSame, Holders, OnPool, TypeOK, CountedPcs
    <2>6. CASE Unlock(t) \/ StartReader(t) \/ DeferredUnlock(t)
      BY <1>a, <2>6, CountSame
      DEF Unlock, StartReader, DeferredUnlock, CountersSame, Holders, OnPool, TypeOK, CountedPcs
    <2> QED BY <1>1, <2>1, <2>2, <2>3, <2>4, <2>5, <2>6 DEF Turn
  <1>2. ASSUME NEW r \in Turns, Reader(r) PROVE CountFollowsTurns'
    <2>1. CASE FirstEvent(r) \/ ReaderResult(r) \/ ReaderLeaves(r) \/ ReaderStops(r)
      BY <1>a, <2>1, CountSame
      DEF FirstEvent, ReaderResult, ReaderLeaves, ReaderStops, ReaderGets, CountersSame, Holders, OnPool
    <2>2. CASE ReaderBegins(r)
      <3>0. counted[r] = NoObject BY <2>2 DEF PoolInv, ReaderRefs, ReaderBegins
      <3>1. CASE got[r] = pool /\ pool # NoObject
        <4>1. Holders' = Holders \cup {<<r, "reader">>} /\ <<r, "reader">> \notin Holders
          BY <1>a, <2>2, <3>0, <3>1 DEF ReaderBegins, Holders, OnPool, TypeOK
        <4> QED BY <1>a, <2>2, <3>1, <4>1, CountComes DEF ReaderBegins, Begun
      <3>2. CASE got[r] # pool /\ pool # NoObject
        <4>1. Holders' = Holders
          BY <1>a, <2>2, <3>0, <3>2 DEF ReaderBegins, Holders, OnPool, TypeOK
        <4> QED BY <1>a, <2>2, <3>2, <4>1, CountSame DEF ReaderBegins, Begun, CountersSame
      <3>3. CASE pool = NoObject BY <2>2, <3>3 DEF ReaderBegins, CountFollowsTurns
      <3> QED BY <3>1, <3>2, <3>3
    <2>3. CASE ReaderEnds(r)
      <3>0. pool # NoObject /\ counted[r] = pool => got[r] = pool
        BY <2>3 DEF PoolInv, ReaderRefs, ReaderEnds
      <3>1. CASE pool # NoObject /\ counted[r] = pool
        <4>1. Holders' = Holders \ {<<r, "reader">>} /\ <<r, "reader">> \in Holders
          BY <1>a, <2>3, <3>1, NoObjectAssumption DEF ReaderEnds, Holders, OnPool, TypeOK
        <4>2. got[r] = pool /\ ~Robs(r) BY <3>0, <3>1 DEF Robs
        <4>3. UNCHANGED <<pool, robbed>> BY <1>a, <2>3, <3>1, <4>2 DEF ReaderEnds, TypeOK
        <4> QED BY <1>a, <2>3, <3>1, <4>1, <4>2, <4>3, CountGoes DEF ReaderEnds, Ended
      <3>2. CASE pool # NoObject /\ counted[r] # pool
        <4>1. Holders' = Holders
          BY <1>a, <2>3, <3>2, NoObjectAssumption DEF ReaderEnds, Holders, OnPool, TypeOK
        <4>2. CASE Robs(r)
          <5>1. got[r] = pool /\ active > 0 /\ active \in Nat BY <1>a, <4>2 DEF Robs, TypeOK
          <5>2. active' = active - 1 /\ robbed' /\ UNCHANGED pool
            BY <2>3, <3>2, <4>2, <5>1 DEF ReaderEnds, Ended
          <5>3. Cardinality(Holders) \in Nat BY <1>a, HoldersFinite, FS_CardinalityType
          <5> QED BY <1>a, <3>2, <4>1, <5>1, <5>2, <5>3 DEF CountFollowsTurns
        <4>3. CASE ~Robs(r)
          <5>1. UNCHANGED <<pool, robbed>> BY <1>a, <2>3, <4>3 DEF ReaderEnds, TypeOK
          <5>2. UNCHANGED active BY <1>a, <2>3, <3>2, <4>3 DEF ReaderEnds, Ended, Robs, TypeOK
          <5> QED BY <1>a, <4>1, <5>1, <5>2, CountSame DEF CountersSame
        <4> QED BY <4>2, <4>3
      <3>3. CASE pool = NoObject BY <2>3, <3>3 DEF ReaderEnds, CountFollowsTurns
      <3> QED BY <3>1, <3>2, <3>3
    <2> QED BY <1>2, <2>1, <2>2, <2>3 DEF Reader
  <1>3. CASE TimePasses \/ ReapLooks \/ ReapCompares
    BY <1>a, <1>3, CountSame DEF TimePasses, ReapLooks, ReapCompares, CountersSame, Holders, OnPool
  <1>4. CASE ReapDrops BY <1>4 DEF ReapDrops, CountFollowsTurns
  <1>5. CASE UNCHANGED vars BY <1>a, <1>5, CountSame DEF CountersSame, Holders, OnPool
  <1> QED BY <1>1, <1>2, <1>3, <1>4, <1>5 DEF Next

-----------------------------------------------------------------------------
LEMMA PoolInit == Init => PoolInv
  <1>1. ASSUME Init PROVE TypeOK
    <2>1. locked \in [Objects -> SUBSET Conversations] BY <1>1 DEF Init
    <2>2. idle \in BOOLEAN /\ robbed \in BOOLEAN BY <1>1 DEF Init
    <2> QED BY <1>1, <2>1, <2>2 DEF Init, TypeOK, Refs, TurnPcs, ReaderPcs, CountedPcs, LockedPcs
  <1>2. Init => TurnRefs /\ ReaderRefs /\ ReaperInv /\ Pooled /\ LockInv
    BY DEF Init, TurnRefs, ReaderRefs, ReaperInv, Pooled, LockInv, CountedPcs, LockedPcs
  <1>3. Init => CountFollowsTurns /\ Unseen
    BY DEF Init, CountFollowsTurns, Unseen
  <1> QED BY <1>1, <1>2, <1>3 DEF PoolInv

LEMMA PoolInvariant == Spec => []PoolInv
  <1>1. PoolInv /\ [Next]_vars => PoolInv'
    BY TypeStep, RefsStep, LockStep, ReachStep, CountStep DEF PoolInv
  <1> QED BY PoolInit, <1>1, PTL DEF Spec

(* Every variable of the pool, its turns and readers keeps its type; in    *)
(* particular EndTurn never takes the count of a workspace below zero,     *)
(* although readers lower counts that they have not raised.                *)
THEOREM PoolTypeCorrect == Spec => []TypeOK
  BY PoolInvariant, PTL DEF PoolInv

(* A turn that the reaper can see is in a workspace of the pool, and has   *)
(* its Session locked there.                                               *)
LEMMA InvKeepsWorkspace == PoolInv => ActiveStaysPooled
  BY DEF PoolInv, Pooled, LockInv, TypeOK, TurnRefs, ActiveStaysPooled, CountedPcs, LockedPcs

(* The count of a workspace is the turns and readers that have begun on it *)
(* and not ended, unless a reader has taken one; and no turn that began on *)
(* the workspace and was not robbed of its count loses the workspace to    *)
(* the reaper, however the reaper's two looks fall between the steps of    *)
(* any number of turns.                                                    *)
THEOREM ReaperSeesEveryTurn == Spec => []ReaperSeesTurns
  <1>1. PoolInv => ReaperSeesTurns BY InvKeepsWorkspace DEF PoolInv, ReaperSeesTurns
  <1> QED BY PoolInvariant, <1>1, PTL
=============================================================================
