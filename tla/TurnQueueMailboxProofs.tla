------------------------ MODULE TurnQueueMailboxProofs ------------------------
(***************************************************************************)
(* TurnQueue implements Mailbox: every step of a handler, a worker, /stop  *)
(* or an agent is a step of the mailbox or leaves it as it is.             *)
(*                                                                         *)
(* It rests on the session lock (LockInv), on what becomes of the messages *)
(* (FateInv), and on RunInv, which ties a worker's place to the state it   *)
(* runs on and to the message it serves.                                   *)
(***************************************************************************)
EXTENDS TurnQueueProofs, TurnQueueRefinement

(* A worker has a state only while it runs on it, and keeps a message it   *)
(* does not serve only after that was settled.                             *)
RunInv ==
    /\ \A w \in Msgs : wref[w] # NoState => wpc[w] \in StatePcs \cup {"unlock"}
    /\ \A w \in Msgs : wmsg[w] # NoMsg /\ wpc[w] \notin ServingPcs
                            => fate[wmsg[w]] \in FinalFates

MapInv == LockInv /\ FateInv /\ RunInv

-----------------------------------------------------------------------------
USE TimeAssumption, NullAssumption, MaxQueuedAssumption, AutoCompressAssumption,
    MaxStopsAssumption

(* The map of the entry when no worker runs on a state. *)
EntryQueue == IF cur # NoState THEN queue[cur] ELSE <<>>

(* What waits in the mailbox. *)
LEMMA WhatWaits ==
    MapInv => /\ \A w \in Msgs : wref[w] # NoState => Waiting = queue[wref[w]]
              /\ (\A w \in Msgs : wref[w] = NoState) => Waiting = EntryQueue
<1> SUFFICES ASSUME MapInv
             PROVE  /\ \A w \in Msgs : wref[w] # NoState => Waiting = queue[wref[w]]
                    /\ (\A w \in Msgs : wref[w] = NoState) => Waiting = EntryQueue
  OBVIOUS
<1>1. ASSUME NEW w \in Msgs, wref[w] # NoState
      PROVE  Waiting = queue[wref[w]]
  <2>1. \A v \in Msgs : wref[v] # NoState => InTurn(v)
    BY DEF MapInv, RunInv, InTurn, StatePcs, HoldingPcs
  <2>2. Running = {w}
    BY <1>1, <2>1 DEF MapInv, LockInv, MutualExclusion, Running
  <2> QED
    BY <2>2 DEF Waiting
<1>2. ASSUME \A w \in Msgs : wref[w] = NoState
      PROVE  Waiting = EntryQueue
  BY <1>2 DEF Waiting, Running, EntryQueue
<1> QED
  BY <1>1, <1>2

(* What the mailbox serves. *)
LEMMA WhatIsServed ==
    MapInv => /\ \A w \in Msgs : wpc[w] \in ServingPcs => Serving = {wmsg[w]}
              /\ (\A w \in Msgs : wpc[w] \notin ServingPcs) => Serving = {}
<1> SUFFICES ASSUME MapInv
             PROVE  /\ \A w \in Msgs : wpc[w] \in ServingPcs => Serving = {wmsg[w]}
                    /\ (\A w \in Msgs : wpc[w] \notin ServingPcs) => Serving = {}
  OBVIOUS
<1>0. \A w \in Msgs : wmsg[w] \in Msgs /\ fate[wmsg[w]] \in OpenFates => wpc[w] \in ServingPcs
  BY DEF MapInv, RunInv, OpenFates, FinalFates
<1>1. ASSUME NEW w \in Msgs, wpc[w] \in ServingPcs
      PROVE  Serving = {wmsg[w]}
  <2>1. wmsg[w] \in Msgs /\ fate[wmsg[w]] \in OpenFates
    BY <1>1 DEF MapInv, FateInv
  <2>2. \A v \in Msgs : wpc[v] \in ServingPcs => v = w
    BY <1>1 DEF MapInv, LockInv, MutualExclusion, InTurn, ServingPcs, HoldingPcs
  <2> QED
    BY <1>0, <2>1, <2>2 DEF Serving
<1>2. ASSUME \A w \in Msgs : wpc[w] \notin ServingPcs
      PROVE  Serving = {}
  BY <1>0, <1>2 DEF Serving
<1> QED
  BY <1>1, <1>2

(* The holder of the lock is the only worker on its way. *)
LEMMA Alone ==
    ASSUME MapInv, NEW w \in Msgs, InTurn(w)
    PROVE  /\ \A v \in Msgs : v # w => wpc[v] \notin HoldingPcs /\ wref[v] = NoState
           /\ \A v \in Msgs : v # w => wpc[v] \notin ServingPcs
           /\ busy
<1>1. \A v \in Msgs : v # w => ~InTurn(v)
  BY DEF MapInv, LockInv, MutualExclusion
<1>2. \A v \in Msgs : v # w => wpc[v] \notin HoldingPcs
  BY <1>1 DEF InTurn
<1> QED
  BY <1>2 DEF MapInv, RunInv, LockInv, BusyIsHeld, StatePcs, ServingPcs, HoldingPcs

-----------------------------------------------------------------------------
(***************************************************************************)
(* RunInv is an invariant.                                                 *)
(***************************************************************************)
LEMMA WorkerRuns ==
    ASSUME RunInv, TypeInv, TypeInv', KeepsFinal, NEW w \in Msgs,
           \A v \in Msgs : v # w => /\ wpc'[v] = wpc[v]
                                    /\ wref'[v] = wref[v]
                                    /\ wmsg'[v] = wmsg[v],
           wref'[w] # NoState => wpc'[w] \in StatePcs \cup {"unlock"},
           wmsg'[w] # NoMsg /\ wpc'[w] \notin ServingPcs => fate'[wmsg'[w]] \in FinalFates
    PROVE  RunInv'
<1>1. \A v \in Msgs : wmsg[v] # NoMsg => wmsg[v] \in Msgs
  BY DEF TypeInv, TypeOK
<1>2. \A v \in Msgs : v # w /\ wmsg[v] # NoMsg /\ wpc[v] \notin ServingPcs
                        => fate'[wmsg[v]] \in FinalFates
  BY <1>1 DEF RunInv, KeepsFinal
<1> QED
  BY <1>2 DEF RunInv

(* Settling with a final fate keeps what is final final, and makes the     *)
(* messages it settles so.                                                 *)
LEMMA SettledIsFinal ==
    ASSUME NEW f, NEW ms, NEW v \in FinalFates, NEW m \in Msgs,
           m \in ms \/ f[m] \in FinalFates
    PROVE  Settle(f, ms, v)[m] \in FinalFates
  BY DEF Settle

LEMMA WorkerRunInv ==
    ASSUME RunInv, LockInv, FateInv, TypeInv', FateInv', KeepsFinal, NEW w \in Msgs, Worker(w)
    PROVE  RunInv'
<1> USE DEF stateVars, handlerVars, workerVars, stopVars
<1>0. TypeInv /\ \A v \in {"answered", "told", "silent", "superseded"} : v \in FinalFates
  BY DEF LockInv, FinalFates
<1>1. CASE OpenState(w)
  <2>1. /\ wpc' = [wpc EXCEPT ![w] = "begin"] /\ UNCHANGED wmsg
        /\ \E s \in States : wref' = [wref EXCEPT ![w] = s]
    BY <1>0, <1>1, NewStateIsFree DEF OpenState, TypeInv, TypeOK
  <2> QED
    BY <1>0, <2>1, WorkerRuns DEF StatePcs, ServingPcs, TypeInv, TypeOK
<1>2. CASE BeginTurn(w)
  <2>1. /\ wpc[w] = "begin" /\ UNCHANGED <<wmsg, wref>> /\ wmsg[w] \in Msgs
        /\ \/ wpc' = [wpc EXCEPT ![w] = "unlock"] /\ fate' = [fate EXCEPT ![wmsg[w]] = "told"]
           \/ wpc' = [wpc EXCEPT ![w] = "wait"]
    BY <1>0, <1>2 DEF BeginTurn, TypeInv, RefsOK
  <2> QED
    BY <1>0, <2>1, WorkerRuns DEF StatePcs, ServingPcs, TypeInv, TypeOK
<1>3. CASE OrphanStart(w)
  <2>1. /\ wpc[w] = "orphan" /\ UNCHANGED wmsg
        /\ \E s \in States \cup {NoState} : wref' = [wref EXCEPT ![w] = s]
        /\ \E pc \in {"unlock", "drain"} : wpc' = [wpc EXCEPT ![w] = pc]
    BY <1>0, <1>3 DEF OrphanStart, TypeInv, TypeOK
  <2>2. wmsg[w] = NoMsg
    BY <2>1 DEF FateInv, EmptyPcs
  <2> QED
    BY <1>0, <2>1, <2>2, WorkerRuns DEF StatePcs, TypeInv, TypeOK
<1>4. CASE Turn(w)
  <2>1. wpc[w] = "wait" /\ UNCHANGED <<wref, wmsg>> /\ wmsg[w] \in Msgs
    BY <1>4 DEF Turn, TurnStopped, TurnResult, TurnError, TurnSendFailed, TurnChannelClosed,
         TurnTimeout, FateInv, ServingPcs
  <2>2. \E pc \in {"next", "command", "drain", "closing"} : wpc' = [wpc EXCEPT ![w] = pc]
    BY <1>4 DEF Turn, TurnStopped, TurnResult, TurnError, TurnSendFailed, TurnChannelClosed,
         TurnTimeout, TearDown
  <2>3. \E v \in FinalFates :
            \/ fate' = [fate EXCEPT ![wmsg[w]] = v]
            \/ fate' = Settle(fate, {wmsg[w]}, v)
            \/ \E ms : fate' = Settle(Settle(fate, {wmsg[w]}, v), ms, "told")
    BY <1>0, <1>4 DEF Turn, TurnStopped, TurnResult, TurnError, TurnSendFailed,
         TurnChannelClosed, TurnTimeout, DropQueue
  <2>4. fate'[wmsg[w]] \in FinalFates
    BY <1>0, <2>1, <2>3 DEF Settle, TypeInv, TypeOK
  <2> QED
    BY <1>0, <2>1, <2>2, <2>4, WorkerRuns DEF StatePcs, TypeInv, TypeOK
<1>5. CASE CloseDone(w) \/ Compress(w)
  <2>1. wpc[w] \in {"closing", "abandon", "compress"} /\ UNCHANGED <<wref, wmsg>>
    BY <1>5 DEF CloseDone, Compress, CompressDone, CompressAborted, CompressLost
  <2>2. \E pc \in {"drain", "abandon"} : wpc' = [wpc EXCEPT ![w] = pc]
    BY <1>5 DEF CloseDone, Compress, CompressDone, CompressAborted, CompressLost, TearDown
  <2>3. wmsg[w] # NoMsg => wmsg[w] \in Msgs /\ fate'[wmsg[w]] \in FinalFates
    BY <1>0, <2>1 DEF RunInv, KeepsFinal, ServingPcs, TypeInv, TypeOK
  <2> QED
    BY <1>0, <2>1, <2>2, <2>3, WorkerRuns DEF StatePcs, TypeInv, TypeOK
<1>6. CASE NextQueued(w)
  <2>1. /\ wpc[w] = "next" /\ UNCHANGED wref
        /\ \/ wpc' = [wpc EXCEPT ![w] = "settle"] /\ UNCHANGED wmsg
           \/ /\ wpc' = [wpc EXCEPT ![w] = "resend"]
              /\ \E x : wmsg' = [wmsg EXCEPT ![w] = x]
    BY <1>6 DEF NextQueued, TakeNext
  <2>2. wmsg[w] # NoMsg => wmsg[w] \in Msgs /\ fate'[wmsg[w]] \in FinalFates
    BY <1>0, <2>1 DEF RunInv, KeepsFinal, ServingPcs, TypeInv, TypeOK
  <2> QED
    BY <1>0, <2>1, <2>2, WorkerRuns DEF StatePcs, ServingPcs, TypeInv, TypeOK
<1>7. CASE DrainEmpty(w) \/ DeferredUnlock(w)
  <2>1. Finish(w) /\ wpc[w] \in {"drain", "unlock"} /\ again[w] = 0
    BY <1>7 DEF DrainEmpty, DeferredUnlock, LockInv, NeverCompresses
  <2>2. /\ wref' = [wref EXCEPT ![w] = NoState]
        /\ wmsg' = [wmsg EXCEPT ![w] = NoMsg]
        /\ wpc' = [wpc EXCEPT ![w] = "done"]
    BY <2>1 DEF Finish, Leave
  <2> QED
    BY <1>0, <2>2, WorkerRuns DEF TypeInv, TypeOK
<1>8. CASE DrainTake(w)
  <2>1. PICK k \in 1 .. Len(queue[wref[w]]) :
            /\ wmsg' = [wmsg EXCEPT ![w] = queue[wref[w]][k]]
            /\ \/ wpc' = [wpc EXCEPT ![w] = "wait"]
               \/ /\ wpc' = [wpc EXCEPT ![w] = "unlock"]
                  /\ \E f, ms : fate' = Settle(Settle(f, {queue[wref[w]][k]}, "told"), ms, "told")
    BY <1>8 DEF DrainTake, TakeNext
  <2>2. wpc[w] = "drain" /\ UNCHANGED wref
    BY <1>8 DEF DrainTake
  <2>3. wref[w] \in States /\ queue[wref[w]] \in Queues
    BY <1>0, <2>2 DEF TypeInv, TypeOK, RefsOK, StatePcs
  <2>4. queue[wref[w]][k] \in Msgs
    BY <2>3, RestOfQueue
  <2>5. wpc' = [wpc EXCEPT ![w] = "unlock"] => fate'[queue[wref[w]][k]] \in FinalFates
    BY <1>0, <2>1, <2>4 DEF Settle, TypeInv, TypeOK
  <2>6. wmsg'[w] = queue[wref[w]][k] /\ \A v \in Msgs : v # w => wmsg'[v] = wmsg[v]
    BY <1>0, <2>1 DEF TypeInv, TypeOK
  <2> QED
    BY <1>0, <2>1, <2>2, <2>5, <2>6, WorkerRuns DEF StatePcs, ServingPcs, TypeInv, TypeOK
<1>9. CASE Waits(w) \/ CommandFails(w)
  <2>1. /\ wpc[w] \in {"wait", "ask", "resend", "settle"}
        /\ UNCHANGED <<wref, wmsg, fate>>
        /\ \E pc \in {"wait", "ask", "drain"} :
                /\ wpc' = [wpc EXCEPT ![w] = pc]
                /\ wpc[w] = "settle" <=> pc = "drain"
    BY <1>9 DEF Waits, CommandFails, Ask, Answered, SendReturned, CompressSent,
         CompressSendFailed, PurgeDone, LockInv, NeverCompresses, CompressPcs
  <2>2. wmsg[w] # NoMsg /\ wpc[w] = "settle" => wmsg[w] \in Msgs /\ fate[wmsg[w]] \in FinalFates
    BY <1>0 DEF RunInv, ServingPcs, TypeInv, TypeOK
  <2> QED
    BY <1>0, <2>1, <2>2, WorkerRuns DEF StatePcs, ServingPcs, TypeInv, TypeOK
<1> QED
  BY <1>1, <1>2, <1>3, <1>4, <1>5, <1>6, <1>7, <1>8, <1>9, WorkerSteps

LEMMA OtherRunInv ==
    ASSUME RunInv, LockInv, FateInv, KeepsFinal,
           \/ \E m \in Msgs : Handler(m)
           \/ Stop \/ StopNotify \/ \E s \in States : AgentDies(s)
           \/ UNCHANGED vars
    PROVE  RunInv'
<1> USE DEF handlerVars, workerVars
<1>0. \A v \in Msgs : wmsg[v] # NoMsg => wmsg[v] \in Msgs
  BY DEF LockInv, TypeInv, TypeOK
<1>1. CASE UNCHANGED workerVars
  BY <1>0, <1>1 DEF RunInv, KeepsFinal
<1>2. ASSUME NEW m \in Msgs, Accept(m) \/ Recheck(m)
      PROVE  RunInv'
  <2>1. wpc[m] = "idle"
    BY <1>2 DEF Accept, Recheck, LockInv, TypeInv, RefsOK
  <2>2. wref[m] = NoState /\ wmsg[m] = NoMsg
    BY <2>1 DEF RunInv, StatePcs, FateInv, EmptyPcs
  <2>3. /\ UNCHANGED wref
        /\ \A v \in Msgs : v # m => wpc'[v] = wpc[v] /\ wmsg'[v] = wmsg[v]
        /\ wpc'[m] = "open" \/ wmsg'[m] = NoMsg
    BY <1>2, <2>2 DEF Accept, Recheck, LockInv, TypeInv, TypeOK
  <2> QED
    BY <1>0, <2>2, <2>3 DEF RunInv, KeepsFinal, ServingPcs
<1>3. CASE Stop \/ StopNotify \/ \E s \in States : AgentDies(s)
  BY <1>1, <1>3 DEF Stop, StopNotify, AgentDies
<1>4. ASSUME NEW m \in Msgs, Arrive(m) \/ TryLock(m) \/ Lookup(m) \/ Enqueue(m)
      PROVE  RunInv'
  BY <1>1, <1>4 DEF Arrive, TryLock, Lookup, Enqueue
<1> QED
  BY <1>1, <1>2, <1>3, <1>4 DEF Handler, vars

LEMMA NextMapInv ==
    ASSUME MapInv, [Next]_vars, AutoCompress = FALSE
    PROVE  MapInv' /\ KeepsFinal
<1>1. LockInv' /\ TypeInv'
  BY NextLockInv DEF MapInv, LockInv
<1>2. FateInv' /\ KeepsFinal
  BY NextFate DEF MapInv, LockInv
<1>3. RunInv'
  <2>1. ASSUME NEW w \in Msgs, Worker(w) PROVE RunInv'
    BY <1>1, <1>2, <2>1, WorkerRunInv DEF MapInv
  <2> QED
    BY <1>2, <2>1, OtherRunInv DEF MapInv, Next
<1> QED
  BY <1>1, <1>2, <1>3 DEF MapInv

LEMMA InitMapInv == Init => MapInv
<1> SUFFICES ASSUME Init PROVE MapInv
  OBVIOUS
<1>1. RunInv
  BY DEF Init, RunInv
<1> QED
  BY <1>1, InitLockInv, InitFate DEF MapInv

-----------------------------------------------------------------------------
(***************************************************************************)
(* The mailbox, seen from the holder of the lock and from an idle session. *)
(***************************************************************************)
HolderView ==
    \A w \in Msgs : InTurn(w) =>
        /\ Waiting = IF wref[w] # NoState THEN queue[wref[w]] ELSE EntryQueue
        /\ Serving = IF wpc[w] \in ServingPcs THEN {wmsg[w]} ELSE {}

IdleView == ~busy => Waiting = EntryQueue /\ Serving = {}

LEMMA HolderMap == MapInv => HolderView
<1> SUFFICES ASSUME MapInv, NEW w \in Msgs, InTurn(w)
             PROVE  /\ Waiting = IF wref[w] # NoState THEN queue[wref[w]] ELSE EntryQueue
                    /\ Serving = IF wpc[w] \in ServingPcs THEN {wmsg[w]} ELSE {}
  BY DEF HolderView
<1>1. \A v \in Msgs : v # w => wref[v] = NoState /\ wpc[v] \notin ServingPcs
  BY Alone
<1> QED
  BY <1>1, WhatWaits, WhatIsServed

LEMMA IdleMap == MapInv => IdleView
<1> SUFFICES ASSUME MapInv, ~busy PROVE Waiting = EntryQueue /\ Serving = {}
  BY DEF IdleView
<1>1. \A w \in Msgs : wpc[w] \notin HoldingPcs
  BY DEF MapInv, LockInv, BusyIsHeld, InTurn
<1>2. \A w \in Msgs : wref[w] = NoState /\ wpc[w] \notin ServingPcs
  BY <1>1 DEF MapInv, RunInv, StatePcs, ServingPcs, HoldingPcs
<1> QED
  BY <1>2, WhatWaits, WhatIsServed

(* Telling the queue that waits is the mailbox's drop.                     *)
LEMMA DropMap ==
    ASSUME NEW s, queue[s] = Waiting, NEW f, DropQueue(s, f)
    PROVE  fate' = Abstract!Dropped(f, 0)
<1>1. Abstract!Skipped(0) = {}
  BY DEF Abstract!Skipped
<1> QED
  BY <1>1 DEF DropQueue, Settle, Abstract!Dropped, Abstract!ToSet, ToSet

LEMMA TurnMap ==
    ASSUME MapInv, MapInv', NEW w \in Msgs, Turn(w)
    PROVE  Abstract!End
<1> USE DEF stateVars, handlerVars, workerVars, stopVars
<1>0. TypeInv /\ TypeInv'
  BY DEF MapInv, LockInv
<1>1. wpc[w] = "wait" /\ UNCHANGED <<hpc, wmsg, wref>>
  BY DEF Turn, TurnStopped, TurnResult, TurnError, TurnSendFailed, TurnChannelClosed,
         TurnTimeout
<1>2. PICK pc \in {"next", "command", "drain", "closing"} : wpc' = [wpc EXCEPT ![w] = pc]
  BY DEF Turn, TurnStopped, TurnResult, TurnError, TurnSendFailed, TurnChannelClosed,
         TurnTimeout, TearDown
<1>3. wref[w] \in States /\ wref[w] # NoState /\ wmsg[w] \in Msgs
  BY <1>0, <1>1 DEF TypeInv, RefsOK, StatePcs, MapInv, FateInv, ServingPcs
<1>4. InTurn(w) /\ InTurn(w)' /\ wpc[w] \in ServingPcs /\ wpc'[w] \notin ServingPcs
  BY <1>0, <1>1, <1>2 DEF InTurn, HoldingPcs, ServingPcs, TypeInv, TypeOK
<1>5. Waiting = queue[wref[w]] /\ Serving = {wmsg[w]}
  BY <1>3, <1>4, HolderMap DEF HolderView
<1>6. Waiting' = queue'[wref[w]] /\ Serving' = {}
  <2>1. HolderView'
    BY HolderMap, PTL
  <2> QED
    BY <1>1, <1>3, <1>4, <2>1 DEF HolderView
<1>7. \A v : Settle(fate, {wmsg[w]}, v) = [fate EXCEPT ![wmsg[w]] = v]
  BY <1>0 DEF Settle, TypeInv, TypeOK
<1>8. PICK v \in {"answered", "told", "silent"} :
            \/ UNCHANGED queue /\ fate' = [fate EXCEPT ![wmsg[w]] = v]
            \/ DropQueue(wref[w], [fate EXCEPT ![wmsg[w]] = v])
  <2>1. CASE TurnStopped(w)
    BY <2>1 DEF TurnStopped
  <2>2. CASE TurnResult(w)
    BY <2>2 DEF TurnResult
  <2>3. CASE TurnError(w)
    BY <1>7, <2>3 DEF TurnError
  <2>4. CASE TurnSendFailed(w)
    BY <1>7, <2>4 DEF TurnSendFailed
  <2>5. CASE TurnChannelClosed(w)
    BY <1>7, <2>5 DEF TurnChannelClosed
  <2>6. CASE TurnTimeout(w)
    BY <1>7, <2>6 DEF TurnTimeout
  <2> QED
    BY <2>1, <2>2, <2>3, <2>4, <2>5, <2>6 DEF Turn
<1>9. v \in Abstract!Final \ {"superseded"} /\ wmsg[w] \in Serving
  BY <1>5 DEF Abstract!Final
<1>10. CASE UNCHANGED queue /\ fate' = [fate EXCEPT ![wmsg[w]] = v]
  BY <1>5, <1>6, <1>9, <1>10 DEF Abstract!End
<1>11. CASE DropQueue(wref[w], [fate EXCEPT ![wmsg[w]] = v])
  <2>1. fate' = Abstract!Dropped([fate EXCEPT ![wmsg[w]] = v], 0)
    BY <1>5, <1>11, DropMap
  <2>2. Waiting' = <<>>
    BY <1>0, <1>3, <1>6, <1>11 DEF DropQueue, TypeInv, TypeOK
  <2> QED
    BY <1>6, <1>9, <2>1, <2>2 DEF Abstract!End
<1> QED
  BY <1>8, <1>10, <1>11

(* A step that leaves the mailbox as it is. *)
Stutters == UNCHANGED <<fate, Serving, Waiting>>

LEMMA StartMap ==
    ASSUME MapInv, MapInv', NEW w \in Msgs, OpenState(w) \/ BeginTurn(w) \/ OrphanStart(w)
    PROVE  Abstract!Next \/ Stutters
<1> USE DEF stateVars, handlerVars, workerVars, stopVars
<1>0. TypeInv /\ TypeInv' /\ FateInv /\ HolderView /\ HolderView'
  <2>1. HolderView'
    BY HolderMap, PTL
  <2> QED
    BY <2>1, HolderMap DEF MapInv, LockInv
<1>1. CASE OpenState(w)
  <2>1. /\ wpc[w] = "open" /\ wpc'[w] = "begin"
        /\ UNCHANGED <<wmsg, fate>>
    BY <1>0, <1>1 DEF OpenState, TypeInv, TypeOK
  <2>2. /\ InTurn(w) /\ InTurn(w)' /\ wref[w] = NoState
        /\ wpc[w] \in ServingPcs /\ wpc'[w] \in ServingPcs
    BY <2>1 DEF InTurn, HoldingPcs, ServingPcs, MapInv, RunInv, StatePcs
  <2>3. wref'[w] \in States /\ queue'[wref'[w]] = EntryQueue
    <3>1. CASE cur # NoState /\ wref' = [wref EXCEPT ![w] = cur] /\ UNCHANGED queue
      BY <1>0, <3>1 DEF EntryQueue, TypeInv, TypeOK
    <3>2. CASE /\ \E s \in States : Unreferenced(s)
               /\ \E a : Install(NewState, a, IF cur = NoState THEN <<>> ELSE queue[cur], 0)
               /\ wref' = [wref EXCEPT ![w] = NewState]
      <4>1. NewState \in States /\ Unreferenced(NewState)
        BY <3>2, NewStateIsFree
      <4>2. queue'[NewState] = IF cur = NoState THEN <<>> ELSE queue[cur]
        BY <1>0, <3>2, <4>1, Inherits DEF FateInv, TypeInv, TypeOK, StatesOK
      <4> QED
        BY <1>0, <3>2, <4>1, <4>2 DEF EntryQueue, TypeInv, TypeOK
    <3> QED
      BY <1>1, <3>1, <3>2 DEF OpenState
  <2>4. Waiting' = Waiting /\ Serving' = Serving
    BY <1>0, <2>1, <2>2, <2>3 DEF HolderView
  <2> QED
    BY <2>1, <2>4 DEF Stutters
<1>2. CASE BeginTurn(w)
  <2>1. /\ wpc[w] = "begin" /\ UNCHANGED <<wmsg, wref, queue>>
        /\ wref[w] \in States /\ wmsg[w] \in Msgs
    BY <1>0, <1>2 DEF BeginTurn, TypeInv, RefsOK, StatePcs
  <2>2. InTurn(w) /\ wpc[w] \in ServingPcs
    BY <2>1 DEF InTurn, HoldingPcs, ServingPcs
  <2>3. CASE fate' = [fate EXCEPT ![wmsg[w]] = "told"] /\ wpc' = [wpc EXCEPT ![w] = "unlock"]
    <3>1. InTurn(w)' /\ wpc'[w] \notin ServingPcs
      BY <1>0, <2>3 DEF InTurn, HoldingPcs, ServingPcs, TypeInv, TypeOK
    <3>2. Waiting' = Waiting /\ Serving = {wmsg[w]} /\ Serving' = {}
      BY <1>0, <2>1, <2>2, <3>1 DEF HolderView
    <3>3. wmsg[w] \in Serving /\ "told" \in Abstract!Final \ {"superseded"}
      BY <3>2 DEF Abstract!Final
    <3> QED
      BY <2>3, <3>2, <3>3 DEF Abstract!Next, Abstract!End
  <2>4. CASE UNCHANGED fate /\ wpc' = [wpc EXCEPT ![w] = "wait"]
    <3>1. InTurn(w)' /\ wpc'[w] \in ServingPcs
      BY <1>0, <2>4 DEF InTurn, HoldingPcs, ServingPcs, TypeInv, TypeOK
    <3> QED
      BY <1>0, <2>1, <2>2, <2>4, <3>1 DEF HolderView, Stutters
  <2> QED
    BY <1>2, <2>3, <2>4 DEF BeginTurn
<1>3. CASE OrphanStart(w)
  <2>1. /\ wpc[w] = "orphan" /\ UNCHANGED <<cur, wmsg>> /\ wref'[w] = cur
        /\ wpc'[w] \in {"unlock", "drain"}
    BY <1>0, <1>3 DEF OrphanStart, TypeInv, TypeOK
  <2>2. /\ InTurn(w) /\ InTurn(w)' /\ wref[w] = NoState
        /\ wpc[w] \notin ServingPcs /\ wpc'[w] \notin ServingPcs
    BY <2>1 DEF InTurn, HoldingPcs, ServingPcs, MapInv, RunInv, StatePcs
  <2>3. /\ Serving = {} /\ Serving' = {} /\ Waiting = EntryQueue
        /\ Waiting' = IF cur # NoState THEN queue'[cur] ELSE <<>>
    BY <1>0, <2>1, <2>2 DEF HolderView, EntryQueue
  <2>4. CASE UNCHANGED <<queue, fate>>
    BY <2>3, <2>4 DEF Stutters, EntryQueue
  <2>5. CASE cur # NoState /\ DropQueue(cur, fate)
    <3>1. queue[cur] = Waiting /\ Waiting' = <<>> /\ Waiting \in Seq(Msgs)
      BY <1>0, <2>3, <2>5 DEF DropQueue, EntryQueue, TypeInv, TypeOK, Queues
    <3>2. fate' = Abstract!Dropped(fate, 0) /\ 0 \in 0 .. Len(Waiting)
      BY <2>5, <3>1, DropMap
    <3> QED
      BY <2>3, <3>1, <3>2 DEF Abstract!Next, Abstract!Drop
  <2> QED
    BY <1>3, <2>4, <2>5 DEF OrphanStart
<1> QED
  BY <1>1, <1>2, <1>3

(* The worker takes the message at position k of the queue that waits. *)
LEMMA TakeMap ==
    ASSUME Serving = {}, NEW s, queue[s] = Waiting, NEW k \in 1 .. Len(Waiting),
           fate' = Settle(fate, StaleHeads(s, k), "superseded"),
           Serving' = {queue[s][k]},
           Waiting' = SubSeq(queue[s], k + 1, Len(queue[s]))
    PROVE  Abstract!Next
<1>1. StaleHeads(s, k) = Abstract!Skipped(k - 1)
  BY DEF StaleHeads, Abstract!Skipped
<1>2. fate' = [m \in Msgs |-> IF m \in Abstract!Skipped(k - 1) THEN "superseded" ELSE fate[m]]
  BY <1>1 DEF Settle
<1> QED
  BY <1>2 DEF Abstract!Next, Abstract!Take

(* All that waits is superseded. *)
LEMMA SupersedeMap ==
    ASSUME Serving = {}, NEW s, queue[s] = Waiting, Waiting \in Seq(Msgs),
           fate' = Settle(fate, ToSet(queue[s]), "superseded"),
           Serving' = {}, Waiting' = <<>>
    PROVE  Abstract!Next
<1>1. Abstract!Skipped(Len(Waiting)) = ToSet(queue[s])
  BY Elements DEF Abstract!Skipped, ToSet
<1>2. fate' = Abstract!Dropped(fate, Len(Waiting))
  BY <1>1 DEF Settle, Abstract!Dropped, Abstract!ToSet, ToSet
<1>3. Len(Waiting) \in 0 .. Len(Waiting)
  OBVIOUS
<1> QED
  BY <1>2, <1>3 DEF Abstract!Next, Abstract!Drop

(* All that waits is dropped: what is stale is superseded, and the others, *)
(* from position k on, are told.                                           *)
LEMMA DropBehind ==
    ASSUME OnePlace, NEW s \in States, queue[s] = Waiting, Waiting \in Seq(Msgs),
           NEW k \in 1 .. Len(queue[s]),
           fate' = Settle(Settle(Settle(fate, StaleHeads(s, k), "superseded"),
                                 {queue[s][k]}, "told"),
                          ToSet(SubSeq(queue[s], k + 1, Len(queue[s]))), "told")
    PROVE  fate' = Abstract!Dropped(fate, k - 1) /\ k - 1 \in 0 .. Len(Waiting)
<1> DEFINE q    == queue[s]
<1> DEFINE rest == ToSet(SubSeq(q, k + 1, Len(q)))
<1>1. /\ k - 1 \in 0 .. Len(q) /\ 1 .. k - 1 \subseteq DOMAIN q /\ k + 1 .. Len(q) \subseteq DOMAIN q
      /\ k \in DOMAIN q /\ q \in Seq(Msgs) /\ DOMAIN q = 1 .. Len(q) /\ Len(q) \in Nat
  OBVIOUS
<1>2. StaleHeads(s, k) = Abstract!Skipped(k - 1)
  BY DEF StaleHeads, Abstract!Skipped
<1>3. /\ \A x \in rest : \E j \in k + 1 .. Len(q) : x = q[j]
      /\ \A j \in k + 1 .. Len(q) : q[j] \in rest
  BY <1>1, Elements
<1>4. \A i, j \in DOMAIN q : q[i] = q[j] => i = j
  BY DEF OnePlace
<1>5. \A x \in StaleHeads(s, k) : x # q[k] /\ x \notin rest
  <2> SUFFICES ASSUME NEW i \in 1 .. k - 1
               PROVE  q[i] # q[k] /\ q[i] \notin rest
    BY DEF StaleHeads
  <2>1. i \in DOMAIN q /\ i # k /\ \A j \in k + 1 .. Len(q) : j \in DOMAIN q /\ i # j
    BY <1>1
  <2>2. q[i] # q[k]
    BY <1>1, <1>4, <2>1
  <2>3. \A j \in k + 1 .. Len(q) : q[i] # q[j]
    BY <1>4, <2>1
  <2> HIDE DEF q, rest
  <2> QED
    BY <1>3, <2>2, <2>3
<1>6. ToSet(q) = StaleHeads(s, k) \cup {q[k]} \cup rest
  <2>1. DOMAIN q = 1 .. k - 1 \cup {k} \cup k + 1 .. Len(q)
    BY <1>1
  <2>2. ToSet(q) = {q[j] : j \in 1 .. k - 1} \cup {q[k]} \cup {q[j] : j \in k + 1 .. Len(q)}
    BY <2>1 DEF ToSet
  <2> HIDE DEF rest, q
  <2>3. rest = {q[j] : j \in k + 1 .. Len(q)}
    BY <1>3
  <2> QED
    BY <2>2, <2>3 DEF StaleHeads, q
<1> HIDE DEF q, rest
<1>7. Abstract!ToSet(Waiting) = ToSet(q)
  BY DEF q, Abstract!ToSet, ToSet
<1>8. \A m \in Msgs : fate'[m] = IF m \in StaleHeads(s, k) THEN "superseded"
                                 ELSE IF m \in ToSet(q) THEN "told" ELSE fate[m]
  BY <1>5, <1>6 DEF q, rest, Settle
<1>9. fate' = [m \in Msgs |-> fate'[m]]
  BY DEF Settle
<1>10. fate' = [m \in Msgs |-> IF m \in StaleHeads(s, k) THEN "superseded"
                                ELSE IF m \in ToSet(q) THEN "told" ELSE fate[m]]
  BY <1>8, <1>9
<1>11. fate' = Abstract!Dropped(fate, k - 1)
  BY <1>2, <1>7, <1>10 DEF Abstract!Dropped
<1> QED
  BY <1>1, <1>11 DEF q

LEMMA LoopMap ==
    ASSUME MapInv, MapInv', NEW w \in Msgs, CloseDone(w) \/ NextQueued(w)
    PROVE  Abstract!Next \/ Stutters
<1> USE DEF stateVars, handlerVars, workerVars, stopVars
<1>0. TypeInv /\ TypeInv' /\ FateInv /\ HolderView /\ HolderView'
  <2>1. HolderView'
    BY HolderMap, PTL
  <2> QED
    BY <2>1, HolderMap DEF MapInv, LockInv
<1>1. wpc[w] \in {"closing", "next"} /\ UNCHANGED wref
  BY DEF CloseDone, NextQueued, MapInv, LockInv, NeverCompresses, CompressPcs
<1>2. wref[w] \in States /\ queue[wref[w]] \in Seq(Msgs)
  BY <1>0, <1>1 DEF TypeInv, TypeOK, RefsOK, StatePcs, Queues
<1>3. Waiting = queue[wref[w]] /\ Serving = {}
  BY <1>0, <1>1, <1>2 DEF HolderView, InTurn, HoldingPcs, ServingPcs
<1>4. \E pc \in {"drain", "settle", "resend"} : wpc' = [wpc EXCEPT ![w] = pc]
  BY DEF CloseDone, NextQueued
<1>5. /\ Waiting' = queue'[wref[w]]
      /\ Serving' = IF wpc'[w] = "resend" THEN {wmsg'[w]} ELSE {}
  BY <1>0, <1>1, <1>2, <1>4 DEF HolderView, InTurn, HoldingPcs, ServingPcs, TypeInv, TypeOK
<1>6. CASE CloseDone(w)
  <2>1. UNCHANGED <<queue, fate>> /\ wpc'[w] = "drain"
    BY <1>0, <1>1, <1>6 DEF CloseDone, TypeInv, TypeOK
  <2> QED
    BY <1>3, <1>5, <2>1 DEF Stutters
<1>7. CASE NextQueued(w)
  <2>1. PICK k \in 1 .. Len(queue[wref[w]]) + 1 :
            /\ fate' = Settle(fate, StaleHeads(wref[w], k), "superseded")
            /\ \/ /\ k > Len(queue[wref[w]])
                  /\ queue' = [queue EXCEPT ![wref[w]] = <<>>]
                  /\ wpc' = [wpc EXCEPT ![w] = "settle"]
               \/ /\ k <= Len(queue[wref[w]])
                  /\ TakeNext(w, wref[w], queue[wref[w]][k],
                              SubSeq(queue[wref[w]], k + 1, Len(queue[wref[w]])))
                  /\ wpc' = [wpc EXCEPT ![w] = "resend"]
    BY <1>7 DEF NextQueued
  <2>2. CASE k > Len(queue[wref[w]])
    <3>1. queue' = [queue EXCEPT ![wref[w]] = <<>>] /\ wpc' = [wpc EXCEPT ![w] = "settle"]
      BY <1>2, <2>1, <2>2
    <3>2. Serving' = {} /\ Waiting' = <<>>
      BY <1>0, <1>2, <1>5, <3>1 DEF TypeInv, TypeOK
    <3>3. StaleHeads(wref[w], k) = ToSet(queue[wref[w]])
      <4>1. 1 .. k - 1 = DOMAIN queue[wref[w]]
        BY <1>2, <2>2
      <4> QED
        BY <4>1 DEF StaleHeads, ToSet
    <3>4. fate' = Settle(fate, ToSet(queue[wref[w]]), "superseded")
      BY <2>1, <3>3
    <3> QED
      BY <1>2, <1>3, <3>2, <3>4, SupersedeMap
  <2>3. CASE k <= Len(queue[wref[w]])
    <3>1. k \in 1 .. Len(Waiting)
      BY <1>2, <1>3, <2>3
    <3>2. /\ TakeNext(w, wref[w], queue[wref[w]][k],
                      SubSeq(queue[wref[w]], k + 1, Len(queue[wref[w]])))
          /\ wpc' = [wpc EXCEPT ![w] = "resend"]
      BY <1>2, <2>1, <2>3
    <3>3. /\ Serving' = {queue[wref[w]][k]}
          /\ Waiting' = SubSeq(queue[wref[w]], k + 1, Len(queue[wref[w]]))
      BY <1>0, <1>2, <1>5, <3>2 DEF TakeNext, TypeInv, TypeOK
    <3> QED
      BY <1>3, <2>1, <3>1, <3>3, TakeMap
  <2> QED
    BY <1>2, <2>2, <2>3
<1> QED
  BY <1>6, <1>7

LEMMA DrainMap ==
    ASSUME MapInv, MapInv', NEW w \in Msgs, DrainEmpty(w) \/ DrainTake(w) \/ DeferredUnlock(w)
    PROVE  Abstract!Next \/ Stutters
<1> USE DEF stateVars, handlerVars, workerVars, stopVars
<1>0. TypeInv /\ TypeInv' /\ FateInv /\ HolderView /\ HolderView' /\ IdleView'
  <2>1. HolderView' /\ IdleView'
    BY HolderMap, IdleMap, PTL
  <2> QED
    BY <2>1, HolderMap DEF MapInv, LockInv
<1>1. /\ wpc[w] \in {"drain", "unlock"} /\ UNCHANGED cur
      /\ cur \in {wref[w], NoState}
  BY DEF DrainEmpty, DrainTake, DeferredUnlock, MapInv, LockInv, EntryIsServed, HoldingPcs
<1>2. /\ wpc[w] = "drain" => wref[w] \in States
      /\ wref[w] # NoState => queue[wref[w]] \in Seq(Msgs)
  BY <1>0, <1>1 DEF TypeInv, TypeOK, RefsOK, StatePcs, Queues
<1>3. /\ Waiting = IF wref[w] # NoState THEN queue[wref[w]] ELSE EntryQueue
      /\ Serving = {}
  BY <1>0, <1>1 DEF HolderView, InTurn, HoldingPcs, ServingPcs
<1>4. CASE DrainEmpty(w)
  <2>1. /\ ~busy' /\ wpc[w] = "drain"
        /\ queue' = [queue EXCEPT ![wref[w]] = <<>>]
        /\ fate' = Settle(fate, ToSet(queue[wref[w]]), "superseded")
    BY <1>4 DEF DrainEmpty, Finish
  <2>2. Waiting' = <<>> /\ Serving' = {}
    BY <1>0, <1>1, <1>2, <2>1 DEF IdleView, EntryQueue, TypeInv, TypeOK
  <2>3. queue[wref[w]] = Waiting
    BY <1>2, <1>3, <2>1
  <2> QED
    BY <1>2, <1>3, <2>1, <2>2, <2>3, SupersedeMap
<1>5. CASE DrainTake(w)
  <2>1. PICK k \in 1 .. Len(queue[wref[w]]) :
            \/ /\ TakeNext(w, wref[w], queue[wref[w]][k],
                           SubSeq(queue[wref[w]], k + 1, Len(queue[wref[w]])))
               /\ fate' = Settle(fate, StaleHeads(wref[w], k), "superseded")
               /\ wpc' = [wpc EXCEPT ![w] = "wait"]
            \/ /\ TakeNext(w, wref[w], queue[wref[w]][k], <<>>)
               /\ fate' = Settle(Settle(Settle(fate, StaleHeads(wref[w], k), "superseded"),
                                        {queue[wref[w]][k]}, "told"),
                                 ToSet(SubSeq(queue[wref[w]], k + 1,
                                              Len(queue[wref[w]]))), "told")
               /\ wpc' = [wpc EXCEPT ![w] = "unlock"]
    BY <1>5 DEF DrainTake
  <2>2. wpc[w] = "drain" /\ UNCHANGED wref
    BY <1>5 DEF DrainTake
  <2>3. wref[w] \in States /\ queue[wref[w]] = Waiting /\ Waiting \in Seq(Msgs)
    BY <1>2, <1>3, <2>2
  <2>4. /\ Waiting' = queue'[wref[w]]
        /\ Serving' = IF wpc'[w] = "wait" THEN {wmsg'[w]} ELSE {}
    BY <1>0, <2>1, <2>2, <2>3 DEF HolderView, InTurn, HoldingPcs, ServingPcs, TypeInv, TypeOK
  <2>5. CASE /\ TakeNext(w, wref[w], queue[wref[w]][k],
                         SubSeq(queue[wref[w]], k + 1, Len(queue[wref[w]])))
             /\ fate' = Settle(fate, StaleHeads(wref[w], k), "superseded")
             /\ wpc' = [wpc EXCEPT ![w] = "wait"]
    <3>1. /\ Serving' = {queue[wref[w]][k]}
          /\ Waiting' = SubSeq(queue[wref[w]], k + 1, Len(queue[wref[w]]))
      BY <1>0, <2>3, <2>4, <2>5 DEF TakeNext, TypeInv, TypeOK
    <3>2. k \in 1 .. Len(Waiting)
      BY <2>3
    <3> QED
      BY <1>3, <2>3, <2>5, <3>1, <3>2, TakeMap
  <2>6. CASE /\ TakeNext(w, wref[w], queue[wref[w]][k], <<>>)
             /\ fate' = Settle(Settle(Settle(fate, StaleHeads(wref[w], k), "superseded"),
                                      {queue[wref[w]][k]}, "told"),
                               ToSet(SubSeq(queue[wref[w]], k + 1, Len(queue[wref[w]]))), "told")
             /\ wpc' = [wpc EXCEPT ![w] = "unlock"]
    <3>1. Serving' = {} /\ Waiting' = <<>>
      BY <1>0, <2>3, <2>4, <2>6 DEF TakeNext, TypeInv, TypeOK
    <3>2. fate' = Abstract!Dropped(fate, k - 1) /\ k - 1 \in 0 .. Len(Waiting)
      BY <1>0, <2>3, <2>6, DropBehind DEF FateInv
    <3> QED
      BY <1>3, <3>1, <3>2 DEF Abstract!Next, Abstract!Drop
  <2> QED
    BY <2>1, <2>5, <2>6
<1>6. CASE DeferredUnlock(w)
  <2>1. ~busy' /\ UNCHANGED <<queue, fate>>
    BY <1>6 DEF DeferredUnlock, Finish
  <2>2. Waiting' = EntryQueue /\ Serving' = {}
    BY <1>0, <1>1, <2>1 DEF IdleView, EntryQueue
  <2>3. EntryQueue \in {Waiting, <<>>}
    BY <1>0, <1>1, <1>3 DEF EntryQueue, TypeInv, TypeOK
  <2> QED
    BY <1>3, <2>1, <2>2, <2>3 DEF Stutters, Abstract!Next, Abstract!Forget
<1> QED
  BY <1>4, <1>5, <1>6

-----------------------------------------------------------------------------
(***************************************************************************)
(* The steps of /stop and the agents, and those of the handlers.           *)
(***************************************************************************)

(* The mailbox waits in at most one queue, which moves only with the entry *)
(* and the workers' states.                                                *)
LEMMA WhereItWaits ==
    \/ /\ Waiting = <<>>
       /\ cur = NoState
       /\ UNCHANGED <<cur, wref>> => Waiting' = <<>>
    \/ \E w \in Msgs :
          /\ wref[w] # NoState
          /\ Waiting = queue[wref[w]]
          /\ UNCHANGED wref => Waiting' = queue'[wref[w]]
    \/ /\ cur # NoState
       /\ Waiting = queue[cur]
       /\ UNCHANGED <<cur, wref>> => Waiting' = queue'[cur]
       /\ UNCHANGED wref /\ cur' = NoState => Waiting' = <<>>
<1>1. CASE Running = {}
  <2>1. UNCHANGED wref => Running' = {}
    BY <1>1 DEF Running
  <2> QED
    BY <1>1, <2>1 DEF Waiting
<1>2. CASE Running # {}
  <2>1. (CHOOSE w \in Running : TRUE) \in Running
    BY <1>2
  <2>2. UNCHANGED wref => Running' = Running
    BY DEF Running
  <2>3. PICK w \in Msgs : w = (CHOOSE v \in Running : TRUE) /\ wref[w] # NoState
    BY <2>1 DEF Running
  <2>4. Waiting = queue[wref[w]]
    BY <1>2, <2>3 DEF Waiting
  <2>5. UNCHANGED wref => Waiting' = queue'[wref[w]]
    BY <1>2, <2>2, <2>3 DEF Waiting
  <2> QED
    BY <2>3, <2>4, <2>5
<1> QED
  BY <1>1, <1>2

LEMMA OutsideMap ==
    ASSUME MapInv, Stop \/ StopNotify \/ \E s \in States : AgentDies(s)
    PROVE  Abstract!Next \/ Stutters
<1> USE DEF stateVars, handlerVars, workerVars, stopVars
<1>0. TypeInv /\ FateInv
  BY DEF MapInv, LockInv
<1>1. UNCHANGED <<wref, wmsg>>
  BY DEF Stop, StopNotify, AgentDies
<1>2. CASE Stop
  <2>1. UNCHANGED <<queue, fate>> /\ cur' = NoState
    BY <1>2 DEF Stop
  <2>2. Waiting' = Waiting \/ Waiting' = <<>>
    <3>1. cur # NoState
      BY <1>2 DEF Stop
    <3> QED
      BY <1>1, <2>1, <3>1, WhereItWaits
  <2>3. Serving' = Serving
    BY <1>1, <2>1 DEF Serving
  <2> QED
    BY <2>1, <2>2, <2>3 DEF Stutters, Abstract!Next, Abstract!Forget
<1>3. CASE StopNotify
  <2>1. /\ stopRef \in States /\ DropQueue(stopRef, fate) /\ UNCHANGED cur
    BY <1>0, <1>3 DEF StopNotify, TypeInv, TypeOK
  <2>2. /\ queue' = [queue EXCEPT ![stopRef] = <<>>]
        /\ queue[stopRef] \in Seq(Msgs) /\ queue \in [States -> Queues]
    BY <1>0, <2>1 DEF DropQueue, TypeInv, TypeOK, Queues
  <2>3. \A m \in ToSet(queue[stopRef]) : m \in Msgs /\ Queued(m)
    BY <2>1, <2>2, Elements DEF Queued
  <2>4. \A m \in ToSet(queue[stopRef]) : fate[m] = "queued" /\ ~Served(m)
    BY <1>0, <2>3 DEF FateInv
  <2>5. fate' = Settle(fate, ToSet(queue[stopRef]), "told")
    BY <2>1 DEF DropQueue
  <2>6. Serving' = Serving
    <3>1. \A m \in Msgs : Served(m) => fate'[m] = fate[m]
      BY <2>4, <2>5 DEF Settle
    <3> QED
      BY <1>1, <3>1 DEF Serving, Served
  <2>7. CASE queue[stopRef] = Waiting /\ Waiting' = <<>>
    <3>2. fate' = Abstract!Dropped(fate, 0) /\ 0 \in 0 .. Len(Waiting)
      BY <2>1, <2>2, <2>7, DropMap
    <3> QED
      BY <2>6, <2>7, <3>2 DEF Abstract!Next, Abstract!Drop
  <2>8. CASE ~(queue[stopRef] = Waiting /\ Waiting' = <<>>)
    <3>1. \/ Waiting = <<>> /\ Waiting' = <<>>
          \/ \E t \in States : t # stopRef /\ Waiting = queue[t] /\ Waiting' = queue'[t]
      <4>1. queue'[stopRef] = <<>>
        BY <2>1, <2>2
      <4>2. \A t \in States \cup {NoState} : t # NoState => t \in States
        OBVIOUS
      <4>3. \A w \in Msgs : wref[w] \in States \cup {NoState}
        BY <1>0 DEF TypeInv, TypeOK
      <4>4. cur \in States \cup {NoState}
        BY <1>0 DEF TypeInv, TypeOK
      <4>5. UNCHANGED <<cur, wref>>
        BY <1>1, <2>1
      <4> QED
        BY <4>1, <4>2, <4>3, <4>4, <4>5, <2>8, WhereItWaits
    <3>2. Waiting' = Waiting
      BY <2>2, <3>1
    <3>3. ToSet(queue[stopRef]) \cap ToSet(Waiting) = {}
      <4>1. CASE Waiting = <<>>
        BY <4>1 DEF ToSet
      <4>2. ASSUME NEW t \in States, t # stopRef, Waiting = queue[t]
            PROVE  ToSet(queue[stopRef]) \cap ToSet(Waiting) = {}
        BY <1>0, <2>1, <4>2 DEF FateInv, OnePlace, ToSet
      <4> QED
        BY <3>1, <4>1, <4>2
    <3>4. ToSet(queue[stopRef]) \subseteq Abstract!Forgotten
      BY <2>3, <2>4, <3>3 DEF Abstract!Forgotten, Serving, Served, Abstract!ToSet, ToSet
    <3>5. fate' = [m \in Msgs |-> IF m \in ToSet(queue[stopRef]) THEN "told" ELSE fate[m]]
      BY <2>5 DEF Settle
    <3> QED
      BY <2>6, <3>2, <3>4, <3>5 DEF Abstract!Next, Abstract!TellForgotten
  <2> QED
    BY <2>7, <2>8
<1>4. CASE \E s \in States : AgentDies(s)
  <2>1. UNCHANGED <<queue, fate, cur>>
    BY <1>4 DEF AgentDies
  <2>2. Waiting' = Waiting /\ Serving' = Serving
    BY <1>1, <2>1 DEF Waiting, Running, Serving
  <2> QED
    BY <2>1, <2>2 DEF Stutters
<1> QED
  BY <1>2, <1>3, <1>4

LEMMA HandlerMap ==
    ASSUME MapInv, MapInv', NEW m \in Msgs, Handler(m)
    PROVE  Abstract!Next \/ Stutters
<1> USE DEF stateVars, handlerVars, workerVars, stopVars
<1>0. TypeInv /\ FateInv /\ TypeInv' /\ HolderView /\ HolderView'
  <2>1. HolderView'
    BY HolderMap, PTL
  <2> QED
    BY <2>1, HolderMap DEF MapInv, LockInv
<1>1. hpc[m] \in UnseenPcs => fate[m] = "none" /\ ~Served(m) /\ Abstract!Unseen(m)
  BY <1>0 DEF FateInv, Abstract!Unseen, Serving, Served
<1>2. UNCHANGED <<fate, queue, cur, wref, wmsg>> => Stutters
  BY DEF Stutters, Waiting, Running, Serving
<1>3. ASSUME hpc[m] \in UnseenPcs, NEW v, fate' = [fate EXCEPT ![m] = v], UNCHANGED wmsg
      PROVE  Serving' = Serving
  <2>1. \A x \in Msgs : Served(x) => fate'[x] = fate[x]
    BY <1>0, <1>1, <1>3 DEF TypeInv, TypeOK
  <2> QED
    BY <1>3, <2>1 DEF Serving, Served
<1>4. ASSUME hpc[m] \in UnseenPcs, NEW v \in {"told", "silent"}, HandlerEnds(m, v),
             UNCHANGED <<queue, cur, wref, wmsg>>
      PROVE  Abstract!Next
  <2>1. Serving' = Serving /\ fate' = [fate EXCEPT ![m] = v]
    BY <1>3, <1>4 DEF HandlerEnds
  <2>2. Waiting' = Waiting
    BY <1>4 DEF Waiting, Running
  <2> QED
    BY <1>1, <1>4, <2>1, <2>2 DEF Abstract!Next, Abstract!Refuse
<1>5. CASE Arrive(m) \/ Lookup(m)
  <2>1. hpc[m] \in UnseenPcs /\ UNCHANGED <<queue, cur, wref, wmsg>>
    BY <1>5 DEF Arrive, Lookup, UnseenPcs
  <2>2. UNCHANGED fate \/ \E v \in {"told", "silent"} : HandlerEnds(m, v)
    BY <1>5 DEF Arrive, Lookup
  <2> QED
    BY <1>2, <1>4, <2>1, <2>2
<1>6. CASE TryLock(m) \/ Recheck(m)
  BY <1>2, <1>6 DEF TryLock, Recheck
<1>7. CASE Accept(m)
  <2>1. /\ hpc[m] = "accept" /\ wpc[m] = "idle" /\ InTurn(m)
        /\ UNCHANGED <<wref, fate>> /\ wmsg'[m] = m /\ wpc'[m] = "open"
    BY <1>0, <1>7 DEF Accept, InTurn, TypeInv, TypeOK, RefsOK
  <2>2. InTurn(m)' /\ wref[m] = NoState /\ wpc[m] \notin ServingPcs /\ wpc'[m] \in ServingPcs
    BY <2>1 DEF InTurn, HoldingPcs, ServingPcs, MapInv, RunInv, StatePcs
  <2>3. Waiting = EntryQueue /\ Serving = {} /\ Waiting' = EntryQueue' /\ Serving' = {m}
    BY <1>0, <2>1, <2>2 DEF HolderView, EntryQueue
  <2>4. EntryQueue' = EntryQueue
    <3>1. CASE cur # NoState /\ UNCHANGED <<cur, queue>>
      BY <3>1 DEF EntryQueue
    <3>2. CASE /\ cur = NoState /\ \E s \in States : Unreferenced(s)
               /\ Install(NewState, "nil", <<>>, Time[m])
      <4>1. NewState \in States
        BY <3>2, NewStateIsFree
      <4> QED
        BY <3>2, <4>1 DEF Install, EntryQueue
    <3> QED
      BY <1>7, <3>1, <3>2 DEF Accept
  <2> QED
    BY <1>1, <2>1, <2>3, <2>4 DEF UnseenPcs, Abstract!Next, Abstract!Serve
<1>8. CASE Enqueue(m)
  <2>1. /\ hpc[m] = "enqueue" /\ hpc[m] \in UnseenPcs /\ href[m] \in States
        /\ UNCHANGED <<cur, wref, wmsg>>
    BY <1>0, <1>8 DEF Enqueue, UnseenPcs, TypeInv, RefsOK
  <2>2. CASE UNCHANGED queue /\ \E v \in {"told", "silent"} : HandlerEnds(m, v)
    BY <1>4, <2>1, <2>2
  <2>3. CASE /\ queue' = [queue EXCEPT ![href[m]] = Append(@, m)]
             /\ fate' = [fate EXCEPT ![m] = "queued"]
    <3>1. Serving' = Serving
      BY <1>3, <2>1, <2>3
    <3>2. \A t \in States : \/ queue'[t] = queue[t]
                             \/ queue'[t] = Append(queue[t], m)
      BY <1>0, <2>1, <2>3 DEF TypeInv, TypeOK
    <3>3. Waiting' \in {Waiting, Append(Waiting, m)}
      BY <1>0, <2>1, <3>2, WhereItWaits DEF TypeInv, TypeOK
    <3> QED
      BY <1>1, <2>1, <2>3, <3>1, <3>3 DEF Abstract!Next, Abstract!Wait
  <2> QED
    BY <1>8, <2>2, <2>3 DEF Enqueue
<1> QED
  BY <1>5, <1>6, <1>7, <1>8 DEF Handler

-----------------------------------------------------------------------------
LEMMA WorkerMap ==
    ASSUME MapInv, MapInv', NEW w \in Msgs, Worker(w)
    PROVE  Abstract!Next \/ Stutters
<1>1. ~Compress(w) /\ ~CommandFails(w)
  BY DEF MapInv, LockInv, NeverCompresses, CompressPcs, Compress, CompressDone, CompressAborted,
         CompressLost, CommandFails, CompressSendFailed, PurgeDone
<1>2. CASE OpenState(w) \/ BeginTurn(w) \/ OrphanStart(w)
  BY <1>2, StartMap
<1>3. CASE Turn(w)
  BY <1>3, TurnMap DEF Abstract!Next
<1>4. CASE CloseDone(w) \/ NextQueued(w)
  BY <1>4, LoopMap
<1>5. CASE DrainEmpty(w) \/ DrainTake(w) \/ DeferredUnlock(w)
  BY <1>5, DrainMap
<1>6. CASE Waits(w)
  <2>1. UNCHANGED <<fate, queue, cur, wref, wmsg>>
    BY <1>6 DEF Waits, Ask, Answered, SendReturned, CompressSent, stateVars
  <2> QED
    BY <2>1 DEF Stutters, Waiting, Running, Serving
<1> QED
  BY <1>1, <1>2, <1>3, <1>4, <1>5, <1>6, WorkerSteps

LEMMA NextMap ==
    ASSUME MapInv, MapInv', [Next]_vars
    PROVE  [Abstract!Next]_(Abstract!vars)
<1>1. Stutters => UNCHANGED Abstract!vars
  BY DEF Stutters, Abstract!vars
<1>2. CASE UNCHANGED vars
  <2>1. UNCHANGED <<fate, queue, cur, wref, wmsg>>
    BY <1>2 DEF vars, stateVars, workerVars
  <2> QED
    BY <1>1, <2>1 DEF Stutters, Waiting, Running, Serving
<1>3. ASSUME NEW m \in Msgs, Handler(m) \/ Worker(m)
      PROVE  Abstract!Next \/ Stutters
  BY <1>3, HandlerMap, WorkerMap
<1>4. CASE Stop \/ StopNotify \/ \E s \in States : AgentDies(s)
  BY <1>1, <1>4, OutsideMap
<1> QED
  BY <1>1, <1>2, <1>3, <1>4 DEF Next

LEMMA InitMap == Init => Abstract!Init
<1> SUFFICES ASSUME Init PROVE Abstract!Init
  OBVIOUS
<1>1. Running = {}
  BY DEF Init, Running
<1>2. Waiting = <<>>
  BY <1>1 DEF Init, Waiting
<1>3. Serving = {}
  BY DEF Init, Serving
<1> QED
  BY <1>2, <1>3 DEF Init, Abstract!Init

(* The handlers, the workers with their loops and failures, /stop and the  *)
(* dying agents together are a mailbox: one message is served at a time    *)
(* and none twice, those that wait keep their order, and one that leaves   *)
(* the queue unserved is settled, or is forgotten with its state.          *)
(* Without auto-compress, which breaks the lock the mailbox rests on.      *)
THEOREM TurnQueueIsAMailbox ==
    ASSUME AutoCompress = FALSE
    PROVE  Spec => ServesAsMailbox
<1>1. MapInv /\ [Next]_vars => MapInv'
  BY NextMapInv
<1>2. MapInv /\ MapInv' /\ [Next]_vars => [Abstract!Next]_(Abstract!vars)
  BY NextMap
<1> QED
  BY InitMapInv, InitMap, <1>1, <1>2, PTL DEF Spec, ServesAsMailbox, Abstract!Spec
=============================================================================
