-------------------------- MODULE EventHandoffProofs --------------------------
(***************************************************************************)
(* The hand-off of an agent's event channel between the turns and the      *)
(* readers of between them, for any number of turns.                       *)
(***************************************************************************)
EXTENDS EventHandoff, TLAPS

(* A turn holds the session from Lock to Unlock; it has to do with readers *)
(* until it is through with starting its own.                              *)
LockedPcs == OwnerPcs \cup {"stop", "wait", "settle", "cleanup", "cleanwait", "unlock"}
ActivePcs == LockedPcs \cup StartPcs

LockInv ==
    /\ \A t \in Turns : tpc[t] \in LockedPcs => busy
    /\ \A t, u \in Turns : tpc[t] \in LockedPcs /\ tpc[u] \in LockedPcs => t = u

(* While no turn locks early, one turn at a time has to do with readers,   *)
(* and from its stopUnsolicitedReader on none is registered.               *)
OneAtATime ==
    ~late =>
        /\ \A t, u \in Turns : tpc[t] \in ActivePcs /\ tpc[u] \in ActivePcs => t = u
        /\ \A t \in Turns : tpc[t] \in ActivePcs \ {"stop"} => registered = NoTurn

WaitsFor(t, r) == tpc[t] \in WaitPcs /\ waits[t] = r

(* A reader that runs is the registered one, or its exit is waited for.    *)
RunnerKnown ==
    ~late /\ ~outlived =>
        \A r \in Turns : rpc[r] \in RunPcs =>
            registered = r \/ \E t \in Turns : WaitsFor(t, r)

HandoffInv ==
    /\ LockInv
    /\ OneAtATime
    /\ ReaderCanBeStopped
    /\ RunnerKnown

-----------------------------------------------------------------------------
USE NamesAssumption, MaxBackgroundAssumption

(***************************************************************************)
(* The types.                                                              *)
(***************************************************************************)

LEMMA CancelType ==
    ASSUME TypeOK, NEW t \in Turns,
           NEW wait \in WaitPcs, NEW go \in TurnPcs \ WaitPcs,
           Cancel(t, wait, go)
    PROVE  /\ registered' \in Turns \cup {NoTurn}
           /\ cancelled' \in [Turns -> BOOLEAN]
           /\ waits' \in [Turns -> Turns \cup {NoTurn}]
           /\ tpc' \in [Turns -> TurnPcs]
           /\ \A u \in Turns : tpc'[u] \in WaitPcs => waits'[u] \in Turns
<1>1. CASE registered = NoTurn
  BY <1>1 DEF TypeOK, Cancel
<1>2. CASE registered # NoTurn
  <2>1. registered \in Turns
    BY <1>2 DEF TypeOK
  <2>2. /\ registered' = NoTurn
        /\ cancelled' = [cancelled EXCEPT ![registered] = TRUE]
        /\ waits' = [waits EXCEPT ![t] = registered]
        /\ tpc' = [tpc EXCEPT ![t] = wait]
    BY <1>2 DEF Cancel
  <2>3. wait \in TurnPcs
    BY DEF TurnPcs
  <2>. QED  BY <2>1, <2>2, <2>3 DEF TypeOK
<1>. QED  BY <1>1, <1>2

LEMMA WaitedType ==
    ASSUME TypeOK, NEW t \in Turns, NEW go \in TurnPcs \ WaitPcs, Waited(t, go)
    PROVE  /\ needResync' \in BOOLEAN
           /\ outlived' \in BOOLEAN
           /\ waits' \in [Turns -> Turns \cup {NoTurn}]
           /\ tpc' \in [Turns -> TurnPcs]
           /\ \A u \in Turns : tpc'[u] \in WaitPcs => waits'[u] \in Turns
  BY DEF TypeOK, Waited

LEMMA TailType ==
    ASSUME TypeOK, channel # <<>>
    PROVE  Head(channel) \in Events /\ Tail(channel) \in Seq(Events)
  BY DEF TypeOK

LEMMA NothingType == Nothing \in Events /\ <<>> \in Seq(Events)
  BY DEF Nothing, Events, Sources, Kinds

LEMMA TypeInit == Init => TypeOK
<1> SUFFICES ASSUME Init PROVE TypeOK
  OBVIOUS
<1>1. tpc \in [Turns -> TurnPcs] /\ \A t \in Turns : tpc[t] \notin WaitPcs
  BY DEF Init, TurnPcs, WaitPcs
<1>2. held \in [Turns -> Events] /\ channel \in Seq(Events)
  BY NothingType DEF Init
<1>3. /\ rpc \in [Turns -> ReaderPcs]
      /\ cancelled \in [Turns -> BOOLEAN]
      /\ waits \in [Turns -> Turns \cup {NoTurn}]
  BY DEF Init, ReaderPcs
<1>4. /\ job \in Sources \cup {NoTurn}
      /\ jobs \in 0 .. MaxBackground
      /\ inbox \in SUBSET Turns
  BY DEF Init
<1>5. /\ busy \in BOOLEAN /\ needResync \in BOOLEAN /\ spoke \in BOOLEAN
      /\ late \in BOOLEAN /\ outlived \in BOOLEAN
      /\ registered \in Turns \cup {NoTurn}
      /\ agent \in {"live", "exited", "closing", "closed"}
  BY DEF Init
<1>. QED  BY <1>1, <1>2, <1>3, <1>4, <1>5 DEF TypeOK

LEMMA TypeStep == TypeOK /\ [Next]_vars => TypeOK'
<1> SUFFICES ASSUME TypeOK, [Next]_vars PROVE TypeOK'
  OBVIOUS
<1>. USE DEF TurnPcs, WaitPcs
<1>1. ASSUME NEW t \in Turns, Lock(t) PROVE TypeOK'
  BY <1>1 DEF TypeOK, Lock, readerVars, agentVars
<1>2. ASSUME NEW t \in Turns, Turn(t) PROVE TypeOK'
  <2>1. CASE StopReader(t)
    <3>1. Cancel(t, "wait", "sync")
      BY <2>1 DEF StopReader
    <3>. QED  BY <2>1, <3>1, CancelType DEF TypeOK, StopReader, agentVars, historyVars
  <2>2. CASE StopWaited(t)
    <3>1. Waited(t, "sync")
      BY <2>2 DEF StopWaited
    <3>. QED  BY <2>2, <3>1, WaitedType DEF TypeOK, StopWaited, agentVars, readerVars
  <2>3. CASE Sync(t)
    BY <2>3 DEF TypeOK, Sync, readerVars, agentVars, historyVars
  <2>13. CASE Unlock(t)
    BY <2>13 DEF TypeOK, Unlock, readerVars, agentVars, historyVars
  <2>14. CASE AfterTurn(t)
    BY <2>14 DEF TypeOK, AfterTurn, readerVars, agentVars, historyVars
  <2>15. CASE Capture(t)
    BY <2>15 DEF TypeOK, Capture, readerVars, agentVars, historyVars
  <2>11. CASE Drain(t)
    BY <2>11, NothingType DEF TypeOK, Drain, readerVars, agentVars, historyVars
  <2>12. CASE Send(t)
    BY <2>12 DEF TypeOK, Send, readerVars, historyVars
  <2>4. CASE Read(t)
    <3>1. /\ channel' \in Seq(Events)
          /\ needResync' \in BOOLEAN
      BY <2>4, TailType DEF TypeOK, Read
    <3>2. /\ tpc' \in [Turns -> TurnPcs]
          /\ \A u \in Turns : tpc'[u] \in WaitPcs => tpc[u] \in WaitPcs
      BY <2>4 DEF TypeOK, Read, TurnPcs, WaitPcs
    <3>. QED  BY <2>4, <3>1, <3>2 DEF TypeOK, Read, readerVars, agentVars, historyVars
  <2>5. CASE ReadClosed(t) \/ TurnTimeout(t)
    <3>1. /\ tpc' = [tpc EXCEPT ![t] = "cleanup"] /\ needResync' = TRUE
          /\ UNCHANGED <<busy, waits, registered, readerVars, channel, agent, agentVars,
                         historyVars>>
      BY <2>5 DEF ReadClosed, TurnTimeout
    <3>2. /\ tpc' \in [Turns -> TurnPcs]
          /\ \A u \in Turns : tpc'[u] \in WaitPcs => tpc[u] \in WaitPcs
      BY <3>1 DEF TypeOK, TurnPcs, WaitPcs
    <3>. QED  BY <3>1, <3>2 DEF TypeOK, readerVars, agentVars, historyVars
  <2>6. CASE Cleanup(t)
    <3>1. Cancel(t, "cleanwait", "unlock")
      BY <2>6 DEF Cleanup
    <3>. QED  BY <2>6, <3>1, CancelType DEF TypeOK, Cleanup, agentVars, historyVars
  <2>7. CASE CleanupWaited(t)
    <3>1. Waited(t, "unlock")
      BY <2>7 DEF CleanupWaited
    <3>. QED  BY <2>7, <3>1, WaitedType DEF TypeOK, CleanupWaited, agentVars, readerVars
  <2>8. CASE Restop(t)
    <3>1. Cancel(t, "rewait", "capture")
      BY <2>8 DEF Restop
    <3>. QED  BY <2>8, <3>1, CancelType DEF TypeOK, Restop, agentVars, historyVars
  <2>9. CASE RestopWaited(t)
    <3>1. Waited(t, "capture")
      BY <2>9 DEF RestopWaited
    <3>. QED  BY <2>9, <3>1, WaitedType DEF TypeOK, RestopWaited, agentVars, readerVars
  <2>10. CASE Start(t)
    BY <2>10 DEF TypeOK, Start, ReaderPcs, RunPcs, agentVars, historyVars
  <2>. QED  BY <1>2, <2>1, <2>2, <2>3, <2>4, <2>5, <2>6, <2>7, <2>8, <2>9, <2>10, <2>11, <2>12,
            <2>13, <2>14, <2>15 DEF Turn
<1>10. ASSUME NEW t \in Turns, Returns(t) PROVE TypeOK'
  <2>1. /\ tpc' \in [Turns -> TurnPcs]
        /\ \A u \in Turns : tpc'[u] \in WaitPcs => tpc[u] \in WaitPcs
    BY <1>10 DEF TypeOK, Returns, TurnPcs, WaitPcs
  <2>. QED  BY <1>10, <2>1 DEF TypeOK, Returns, readerVars, agentVars, historyVars
<1>3. ASSUME NEW r \in Turns, Reader(r) PROVE TypeOK'
  <2>. USE DEF ReaderPcs, RunPcs
  <2>1. CASE ReaderStop(r) \/ ReaderClosed(r)
    BY <2>1 DEF TypeOK, ReaderStop, ReaderClosed, turnVars, agentVars, historyVars
  <2>2. CASE ReaderTake(r)
    BY <2>2, TailType DEF TypeOK, ReaderTake, turnVars, agentVars, historyVars
  <2>3. CASE ReaderDrop(r)
    BY <2>3, NothingType DEF TypeOK, ReaderDrop, turnVars, agentVars, historyVars
  <2>4. CASE ReaderKeep(r)
    <3>1. rpc' \in [Turns -> ReaderPcs] /\ held' \in [Turns -> Events]
      BY <2>4, NothingType DEF TypeOK, ReaderKeep
    <3>. QED  BY <2>4, <3>1 DEF TypeOK, ReaderKeep, turnVars, agentVars, historyVars
  <2>. QED  BY <1>3, <2>1, <2>2, <2>3, <2>4 DEF Reader
<1>4. ASSUME NEW r \in Turns, ReaderRelayed(r) PROVE TypeOK'
  BY <1>4, NothingType DEF TypeOK, ReaderRelayed, ReaderPcs, RunPcs,
                           turnVars, agentVars, historyVars
<1>5. CASE AgentStart
  <2>1. /\ inbox' \in SUBSET Turns
        /\ job' \in Sources
        /\ jobs' \in 0 .. MaxBackground
    BY <1>5 DEF TypeOK, AgentStart, Sources
  <2>. QED  BY <1>5, <2>1 DEF TypeOK, AgentStart, turnVars, readerVars, historyVars
<1>6. CASE AgentText
  <2>1. channel' \in Seq(Events)
    BY <1>6 DEF TypeOK, AgentText, Emit, Events, Kinds
  <2>. QED  BY <1>6, <2>1 DEF TypeOK, AgentText, turnVars, readerVars, historyVars
<1>7. CASE AgentEnds
  <2>1. channel' \in Seq(Events)
    BY <1>7 DEF TypeOK, AgentEnds, Emit, Events, Kinds
  <2>. QED  BY <1>7, <2>1 DEF TypeOK, AgentEnds, turnVars, readerVars, historyVars
<1>8. CASE AgentExits
  BY <1>8 DEF TypeOK, AgentExits, turnVars, readerVars, historyVars
<1>9. CASE UNCHANGED vars
  BY <1>9 DEF TypeOK, vars, turnVars, readerVars, agentVars, historyVars
<1>. QED  BY <1>1, <1>2, <1>3, <1>4, <1>5, <1>6, <1>7, <1>8, <1>9, <1>10 DEF Next


-----------------------------------------------------------------------------
(***************************************************************************)
(* The invariant, by the kinds of step there are.                          *)
(***************************************************************************)

LEMMA ReaderSteps ==
    ASSUME HandoffInv,
           UNCHANGED <<busy, tpc, waits, registered, cancelled, late, outlived>>,
           \A r \in Turns : rpc'[r] \in RunPcs => rpc[r] \in RunPcs
    PROVE  HandoffInv'
  BY DEF HandoffInv, LockInv, OneAtATime, ReaderCanBeStopped, RunnerKnown, WaitsFor

(* A turn goes on without touching readers. *)
LEMMA MoveSteps ==
    ASSUME TypeOK, HandoffInv, NEW t \in Turns, NEW go \in TurnPcs \ WaitPcs,
           tpc[t] \in ActivePcs \ WaitPcs, tpc[t] # "stop", go # "stop",
           tpc' = [tpc EXCEPT ![t] = go],
           go \in LockedPcs => tpc[t] \in LockedPcs,
           UNCHANGED busy \/ (tpc[t] \in LockedPcs /\ go \notin LockedPcs),
           UNCHANGED <<waits, registered, rpc, cancelled, late, outlived>>
    PROVE  HandoffInv'
<1>1. /\ tpc'[t] = go
      /\ \A u \in Turns : u # t => tpc'[u] = tpc[u]
  BY DEF TypeOK
<1>2. LockInv'
  BY <1>1 DEF HandoffInv, LockInv
<1>3. OneAtATime'
  BY <1>1 DEF HandoffInv, OneAtATime
<1>4. ReaderCanBeStopped'
  BY DEF HandoffInv, ReaderCanBeStopped
<1>5. \A u, r \in Turns : WaitsFor(u, r) => WaitsFor(u, r)'
  BY <1>1 DEF WaitsFor
<1>6. RunnerKnown'
  BY <1>5 DEF HandoffInv, RunnerKnown
<1>. QED  BY <1>2, <1>3, <1>4, <1>6 DEF HandoffInv

(* stopUnsolicitedReader up to the wait. *)
LEMMA CancelSteps ==
    ASSUME TypeOK, HandoffInv, NEW t \in Turns, NEW wait \in WaitPcs,
           NEW go \in ActivePcs \ WaitPcs, go # "stop",
           tpc[t] \in ActivePcs \ WaitPcs,
           wait \in LockedPcs => tpc[t] \in LockedPcs,
           go \in LockedPcs => tpc[t] \in LockedPcs,
           Cancel(t, wait, go),
           UNCHANGED <<busy, rpc, late, outlived>>
    PROVE  HandoffInv'
<1>1. /\ registered' = NoTurn
      /\ tpc'[t] = IF registered = NoTurn THEN go ELSE wait
      /\ \A u \in Turns : u # t => tpc'[u] = tpc[u] /\ waits'[u] = waits[u]
      /\ \A r \in Turns : r = registered => WaitsFor(t, r)' /\ cancelled'[r]
  <2>1. CASE registered = NoTurn
    BY <2>1 DEF TypeOK, Cancel
  <2>2. CASE registered # NoTurn
    <3>1. registered \in Turns
      BY <2>2 DEF TypeOK
    <3>. QED  BY <2>2, <3>1 DEF TypeOK, Cancel, WaitsFor
  <2>. QED  BY <2>1, <2>2
<1>2. LockInv'
  BY <1>1 DEF HandoffInv, LockInv
<1>3. OneAtATime'
  <2>1. wait \in ActivePcs \ {"stop"}
    BY DEF WaitPcs, ActivePcs, LockedPcs, StartPcs
  <2>. QED  BY <1>1, <2>1 DEF HandoffInv, OneAtATime
<1>4. ReaderCanBeStopped'
  <2>1. \A r \in Turns : cancelled[r] => cancelled'[r]
    BY DEF TypeOK, Cancel
  <2>. QED  BY <1>1, <2>1 DEF HandoffInv, ReaderCanBeStopped
<1>5. \A u, r \in Turns : WaitsFor(u, r) => WaitsFor(u, r)'
  BY <1>1 DEF WaitsFor
<1>6. RunnerKnown'
  BY <1>1, <1>5 DEF HandoffInv, RunnerKnown
<1>. QED  BY <1>2, <1>3, <1>4, <1>6 DEF HandoffInv

(* The end of the wait: the reader has exited, or outlived it. *)
LEMMA WaitedSteps ==
    ASSUME TypeOK, HandoffInv, NEW t \in Turns, NEW go \in ActivePcs \ WaitPcs, go # "stop",
           tpc[t] \in WaitPcs,
           go \in LockedPcs => tpc[t] \in LockedPcs,
           Waited(t, go),
           UNCHANGED <<busy, registered, rpc, cancelled, late>>
    PROVE  HandoffInv'
<1>1. /\ tpc'[t] = go
      /\ \A u \in Turns : u # t => tpc'[u] = tpc[u] /\ waits'[u] = waits[u]
      /\ outlived => outlived'
      /\ ~outlived' => rpc[waits[t]] = "exited"
  BY DEF TypeOK, Waited
<1>2. tpc[t] \in ActivePcs \ {"stop"}
  BY DEF WaitPcs, ActivePcs, LockedPcs, StartPcs
<1>3. LockInv'
  BY <1>1 DEF HandoffInv, LockInv
<1>4. OneAtATime'
  BY <1>1, <1>2 DEF HandoffInv, OneAtATime
<1>5. ReaderCanBeStopped'
  BY DEF HandoffInv, ReaderCanBeStopped
<1>6. ~outlived' => \A u, r \in Turns :
            WaitsFor(u, r) /\ rpc[r] \in RunPcs => WaitsFor(u, r)'
  BY <1>1 DEF WaitsFor, RunPcs
<1>7. RunnerKnown'
  BY <1>1, <1>6 DEF HandoffInv, RunnerKnown
<1>. QED  BY <1>3, <1>4, <1>5, <1>7 DEF HandoffInv

(* The next turn locks.  When it is not early, nothing is going on. *)
LEMMA LockStep ==
    ASSUME TypeOK, HandoffInv, NEW t \in Turns, Lock(t)
    PROVE  HandoffInv'
<1>1. /\ tpc[t] = "new" /\ tpc'[t] = "stop"
      /\ \A u \in Turns : u # t => tpc'[u] = tpc[u]
      /\ busy'
      /\ ~late' => ~late /\ \A u \in Turns : tpc[u] \notin StartPcs
      /\ UNCHANGED <<waits, registered, rpc, cancelled, outlived>>
  BY DEF TypeOK, Lock, readerVars
<1>2. \A u \in Turns : tpc[u] \notin LockedPcs
  BY DEF HandoffInv, LockInv, Lock
<1>3. LockInv'
  BY <1>1, <1>2 DEF LockInv
<1>4. OneAtATime'
  BY <1>1, <1>2 DEF OneAtATime, ActivePcs
<1>5. ReaderCanBeStopped'
  BY <1>1 DEF HandoffInv, ReaderCanBeStopped
<1>6. \A u, r \in Turns : WaitsFor(u, r) => WaitsFor(u, r)'
  BY <1>1 DEF WaitsFor, WaitPcs
<1>7. RunnerKnown'
  BY <1>1, <1>6 DEF HandoffInv, RunnerKnown
<1>. QED  BY <1>3, <1>4, <1>5, <1>7 DEF HandoffInv

(* A reader starts, where the turn has left none. *)
LEMMA StartStep ==
    ASSUME TypeOK, HandoffInv, NEW t \in Turns, Start(t)
    PROVE  HandoffInv'
<1>1. /\ tpc[t] = "start" /\ tpc'[t] = "end"
      /\ \A u \in Turns : u # t => tpc'[u] = tpc[u] /\ rpc'[u] = rpc[u]
      /\ registered' = t
      /\ UNCHANGED <<busy, waits, cancelled, late, outlived>>
  BY DEF TypeOK, Start, historyVars
<1>2. tpc[t] \in ActivePcs \ {"stop"} /\ "end" \notin ActivePcs
  BY <1>1 DEF ActivePcs, LockedPcs, StartPcs, OwnerPcs
<1>3. LockInv'
  BY <1>1, <1>2 DEF HandoffInv, LockInv, ActivePcs
<1>4. ~late => /\ registered = NoTurn
               /\ \A u \in Turns : u # t => tpc[u] \notin ActivePcs
  BY <1>2 DEF HandoffInv, OneAtATime
<1>5. OneAtATime'
  BY <1>1, <1>2, <1>4 DEF OneAtATime
<1>6. ReaderCanBeStopped'
  BY <1>1, <1>4 DEF HandoffInv, ReaderCanBeStopped
<1>7. RunnerKnown'
  <2>1. \A u, r \in Turns : WaitsFor(u, r) => tpc[u] \in ActivePcs /\ u # t
    BY <1>1 DEF WaitsFor, WaitPcs, ActivePcs, LockedPcs, StartPcs
  <2>2. ~late /\ ~outlived => \A r \in Turns : r # t => rpc[r] \notin RunPcs
    BY <1>4, <2>1 DEF HandoffInv, RunnerKnown
  <2>. QED  BY <1>1, <2>2 DEF RunnerKnown
<1>. QED  BY <1>3, <1>5, <1>6, <1>7 DEF HandoffInv

-----------------------------------------------------------------------------
LEMMA HandoffInit == Init => HandoffInv
  BY DEF Init, HandoffInv, LockInv, OneAtATime, ReaderCanBeStopped, RunnerKnown,
         ActivePcs, LockedPcs, StartPcs, OwnerPcs, RunPcs

LEMMA HandoffStep == TypeOK /\ HandoffInv /\ [Next]_vars => HandoffInv'
<1> SUFFICES ASSUME TypeOK, HandoffInv, [Next]_vars PROVE HandoffInv'
  OBVIOUS
<1>1. ASSUME NEW t \in Turns, Turn(t) PROVE HandoffInv'
  <2>. USE DEF ActivePcs, LockedPcs, StartPcs, OwnerPcs, WaitPcs, TurnPcs
  <2>1. CASE StopReader(t)
    BY <2>1, CancelSteps DEF StopReader, historyVars
  <2>2. CASE Cleanup(t)
    BY <2>2, CancelSteps DEF Cleanup, historyVars
  <2>3. CASE Restop(t)
    BY <2>3, CancelSteps DEF Restop, historyVars
  <2>4. CASE StopWaited(t)
    BY <2>4, WaitedSteps DEF StopWaited, readerVars
  <2>5. CASE CleanupWaited(t)
    BY <2>5, WaitedSteps DEF CleanupWaited, readerVars
  <2>6. CASE RestopWaited(t)
    BY <2>6, WaitedSteps DEF RestopWaited, readerVars
  <2>7. CASE Sync(t)
    BY <2>7, MoveSteps DEF Sync, readerVars, historyVars
  <2>8. CASE Drain(t)
    BY <2>8, MoveSteps DEF Drain, readerVars, historyVars
  <2>9. CASE Send(t)
    BY <2>9, MoveSteps DEF Send, readerVars, historyVars
  <2>10. CASE Read(t)
    BY <2>10, MoveSteps, ReaderSteps DEF Read, readerVars, historyVars
  <2>11. CASE ReadClosed(t)
    BY <2>11, MoveSteps DEF ReadClosed, readerVars, historyVars
  <2>12. CASE TurnTimeout(t)
    BY <2>12, MoveSteps DEF TurnTimeout, readerVars, historyVars
  <2>13. CASE Unlock(t)
    BY <2>13, MoveSteps DEF Unlock, readerVars, historyVars
  <2>14. CASE AfterTurn(t)
    BY <2>14, MoveSteps DEF AfterTurn, readerVars, historyVars
  <2>15. CASE Capture(t)
    BY <2>15, MoveSteps DEF Capture, readerVars, historyVars
  <2>16. CASE Start(t)
    BY <2>16, StartStep
  <2>. QED  BY <1>1, <2>1, <2>2, <2>3, <2>4, <2>5, <2>6, <2>7, <2>8, <2>9, <2>10,
               <2>11, <2>12, <2>13, <2>14, <2>15, <2>16 DEF Turn
<1>5. ASSUME NEW t \in Turns, Returns(t) PROVE HandoffInv'
  <2>. USE DEF ActivePcs, LockedPcs, StartPcs, OwnerPcs, WaitPcs, TurnPcs
  <2>. QED  BY <1>5, MoveSteps DEF Returns, readerVars, historyVars
<1>2. ASSUME NEW r \in Turns, Reader(r) \/ ReaderRelayed(r) PROVE HandoffInv'
  <2>1. UNCHANGED <<busy, tpc, waits, registered, cancelled, late, outlived>>
    BY <1>2 DEF Reader, ReaderStop, ReaderTake, ReaderClosed, ReaderDrop, ReaderKeep,
                ReaderRelayed, turnVars, historyVars
  <2>2. \A q \in Turns : rpc'[q] \in RunPcs => rpc[q] \in RunPcs
    BY <1>2 DEF TypeOK, Reader, ReaderStop, ReaderTake, ReaderClosed, ReaderDrop, ReaderKeep,
                ReaderRelayed, RunPcs
  <2>. QED  BY <2>1, <2>2, ReaderSteps
<1>3. CASE AgentStart \/ AgentText \/ AgentEnds \/ AgentExits
  BY <1>3, ReaderSteps DEF AgentStart, AgentText, AgentEnds, AgentExits,
                           turnVars, readerVars, historyVars
<1>4. CASE UNCHANGED vars
  BY <1>4, ReaderSteps DEF vars, turnVars, readerVars, historyVars
<1>. QED  BY <1>1, <1>2, <1>3, <1>4, <1>5, LockStep DEF Next

THEOREM HandoffInvariance == Spec => [](TypeOK /\ HandoffInv)
<1>1. Init => TypeOK /\ HandoffInv
  BY TypeInit, HandoffInit
<1>2. TypeOK /\ HandoffInv /\ [Next]_vars => (TypeOK /\ HandoffInv)'
  BY TypeStep, HandoffStep
<1>. QED  BY <1>1, <1>2, PTL DEF Spec

-----------------------------------------------------------------------------
(* Every reachable state is well typed. *)
THEOREM HandoffTypeCorrect == Spec => []TypeOK
  BY HandoffInvariance, PTL

(* The engine hands the channel over exclusively: when no turn locked while *)
(* the one before was still starting its reader, and no reader outlived the *)
(* wait of stopUnsolicitedReader, at most one reader runs, and none beside  *)
(* a turn that has got past its stopUnsolicitedReader.                      *)
THEOREM HandoffIsExclusive == Spec => []HandoffExclusive
<1>1. HandoffInv => HandoffExclusive
  <2>. SUFFICES ASSUME HandoffInv, ~late, ~outlived
                PROVE  /\ \A q, r \in Turns : rpc[q] \in RunPcs /\ rpc[r] \in RunPcs => q = r
                       /\ \A t, r \in Turns : tpc[t] \in OwnerPcs => rpc[r] \notin RunPcs
    BY DEF HandoffExclusive
  <2>1. \A t, r \in Turns : WaitsFor(t, r) => tpc[t] \in ActivePcs \ {"stop"}
    BY DEF WaitsFor, WaitPcs, ActivePcs, LockedPcs, StartPcs
  <2>2. ASSUME NEW q \in Turns, NEW r \in Turns, rpc[q] \in RunPcs, rpc[r] \in RunPcs
        PROVE  q = r
    <3>1. CASE registered = q \/ registered = r
      BY <2>1, <2>2, <3>1 DEF HandoffInv, RunnerKnown, OneAtATime
    <3>2. CASE registered # q /\ registered # r
      BY <2>1, <2>2, <3>2 DEF HandoffInv, RunnerKnown, OneAtATime, WaitsFor
    <3>. QED  BY <3>1, <3>2
  <2>3. ASSUME NEW t \in Turns, NEW r \in Turns, tpc[t] \in OwnerPcs, rpc[r] \in RunPcs
        PROVE  FALSE
    <3>1. tpc[t] \in ActivePcs \ {"stop"} /\ tpc[t] \notin WaitPcs
      BY <2>3 DEF OwnerPcs, WaitPcs, ActivePcs, LockedPcs
    <3>. QED  BY <2>1, <2>3, <3>1 DEF HandoffInv, RunnerKnown, OneAtATime, WaitsFor
  <2>. QED  BY <2>2, <2>3
<1>. QED  BY <1>1, HandoffInvariance, PTL

(* A reader that runs uncancelled is the one whose handle the engine keeps, *)
(* so that the next turn or a cleanup can stop it.                          *)
THEOREM RunnersCanBeStopped == Spec => []ReaderCanBeStopped
<1>1. HandoffInv => ReaderCanBeStopped
  BY DEF HandoffInv
<1>. QED  BY <1>1, HandoffInvariance, PTL
=============================================================================
