--------------------------- MODULE TurnQueueProofs ---------------------------
(***************************************************************************)
(* Proofs about TurnQueue, for every set of messages and states, every     *)
(* assignment of create times and every bound.                             *)
(*                                                                         *)
(*   TypeInv    the types, and that a goroutine dereferences a state only  *)
(*              where it has one; holds whether or not turns compress      *)
(*   LockInv    one holder of the session lock, whose state is the map     *)
(*              entry; only where AutoCompress is off                      *)
(*   GuardInv   somebody comes to a queue that has a live agent, and the   *)
(*              lock has a holder; also where turns compress               *)
(*   FateInv    where a message waits, and what it was told                *)
(***************************************************************************)
EXTENDS TurnQueue, TLAPS

(* Where a worker dereferences its state. *)
StatePcs == {"begin", "wait", "ask", "next", "resend", "settle", "command", "compress",
             "closing", "abandon", "purge", "drain"}

(* A goroutine that is about to use a state or a message has one, and only *)
(* a handler that ended has started a worker.                              *)
RefsOK ==
    /\ \A m \in Msgs : hpc[m] = "enqueue" => href[m] \in States
    /\ \A m \in Msgs : hpc[m] # "done" => wpc[m] = "idle"
    /\ \A w \in Msgs : wpc[w] \in StatePcs => wref[w] \in States
    /\ \A w \in Msgs : wpc[w] \in {"open", "begin"} => wmsg[w] \in Msgs
    /\ \A w \in Msgs : wpc[w] \in {"idle", "open", "begin", "orphan"} => again[w] = 0
    /\ \A w \in Msgs : again[w] > 0 => wref[w] \in States

TypeInv == TypeOK /\ RefsOK

(* Where a worker compresses. *)
CompressPcs == {"command", "compress", "abandon", "purge"}

(* Without auto-compress no worker compresses, and none drains twice. *)
NeverCompresses ==
    \A w \in Msgs : wpc[w] \notin CompressPcs /\ again[w] = 0

LockInv ==
    /\ TypeInv
    /\ NeverCompresses
    /\ MutualExclusion
    /\ BusyIsHeld
    /\ EntryIsServed

(* A worker on its way to the deferred Unlock leaves no live agent. *)
UnlockIsAgentless ==
    \A w \in Msgs : wpc[w] = "unlock" /\ wref[w] = cur /\ cur # NoState => agent[cur] # "live"

(* The lock, when it is held, has a holder; and one that works on the      *)
(* entry, if that has a live agent.                                        *)
LockIsAttended ==
    busy => \E m \in Msgs :
        /\ InTurn(m)
        /\ cur # NoState /\ agent[cur] = "live" => Attends(m)

GuardInv ==
    /\ TypeInv
    /\ UnlockIsAgentless
    /\ LockIsAttended
    /\ NoOrphanQueue

-----------------------------------------------------------------------------
USE TimeAssumption, NullAssumption, MaxQueuedAssumption, AutoCompressAssumption,
    MaxStopsAssumption

(* The steps that begin or end a wait and change nothing else, and those   *)
(* after a compress command that could not be sent.                        *)
Waits(w) == Ask(w) \/ Answered(w) \/ SendReturned(w) \/ CompressSent(w)
CommandFails(w) == CompressSendFailed(w) \/ PurgeDone(w)

LEMMA WorkerSteps ==
    ASSUME NEW w \in Msgs, Worker(w)
    PROVE  \/ OpenState(w) \/ BeginTurn(w) \/ OrphanStart(w)
           \/ Turn(w) \/ CloseDone(w) \/ NextQueued(w) \/ Compress(w)
           \/ Waits(w) \/ CommandFails(w)
           \/ DrainEmpty(w) \/ DrainTake(w) \/ DeferredUnlock(w)
  BY DEF Worker, Goes, Returns, Waits, CommandFails

(* Where a free identity exists, NewState is one. *)
LEMMA NewStateIsFree ==
    ASSUME \E s \in States : Unreferenced(s)
    PROVE  NewState \in States /\ Unreferenced(NewState)
  BY DEF NewState

(* Taking the message at position k keeps a bounded queue of messages. *)
LEMMA RestOfQueue ==
    ASSUME NEW q \in Queues, NEW k \in 1 .. Len(q)
    PROVE  /\ q[k] \in Msgs
           /\ SubSeq(q, k + 1, Len(q)) \in Queues
  BY DEF Queues

(* The empty queue is one, and a queue with room may grow by a message. *)
LEMMA QueueGrows ==
    /\ <<>> \in Queues
    /\ \A q \in Queues, m \in Msgs : Len(q) < MaxQueued => Append(q, m) \in Queues
  BY DEF Queues

(* Settling messages with a fate keeps the fates well typed. *)
LEMMA SettleType ==
    ASSUME NEW f \in [Msgs -> Fates], NEW ms, NEW v \in Fates
    PROVE  Settle(f, ms, v) \in [Msgs -> Fates]
  BY DEF Settle

(* The places of the code and the fates named in the actions. *)
LEMMA PlacesAndFates ==
    /\ \A pc \in {"new", "trylock", "accept", "lookup", "enqueue", "recheck", "done"} :
            pc \in HandlerPcs
    /\ \A pc \in {"idle", "done", "open", "begin", "wait", "ask", "next", "resend", "settle",
                  "command", "compress", "closing", "abandon", "purge", "drain", "orphan",
                  "unlock"} : pc \in WorkerPcs
    /\ \A v \in {"none", "queued", "answered", "told", "silent", "superseded"} : v \in Fates
  BY DEF HandlerPcs, WorkerPcs, HoldingPcs, Fates, OpenFates, FinalFates

(* Installing a state keeps the types of the entry and of the states. *)
StatesOK ==
    /\ cur \in States \cup {NoState}
    /\ agent \in [States -> {"nil", "live", "dead"}]
    /\ stopped \in [States -> BOOLEAN]
    /\ queue \in [States -> Queues]
    /\ curT \in [States -> Nat]
    /\ doneT \in [States -> Nat]

LEMMA InstallType ==
    ASSUME StatesOK, NEW s \in States, NEW a \in {"nil", "live"}, NEW q \in Queues,
           NEW t \in Nat, Install(s, a, q, t)
    PROVE  StatesOK'
<1>1. queue' \in [States -> Queues]
  BY QueueGrows DEF Install, StatesOK
<1>2. agent' \in [States -> {"nil", "live", "dead"}] /\ stopped' \in [States -> BOOLEAN]
  BY DEF Install, StatesOK
<1>3. curT' \in [States -> Nat] /\ doneT' \in [States -> Nat]
  BY DEF Install, StatesOK
<1> QED
  BY <1>1, <1>2, <1>3 DEF Install, StatesOK

(* Dropping a queue keeps the types of the queues and of the fates. *)
LEMMA DropQueueType ==
    ASSUME queue \in [States -> Queues], NEW s \in States, NEW f \in [Msgs -> Fates],
           DropQueue(s, f)
    PROVE  queue' \in [States -> Queues] /\ fate' \in [Msgs -> Fates]
<1>1. queue' \in [States -> Queues]
  BY QueueGrows DEF DropQueue
<1>2. fate' \in [Msgs -> Fates]
  BY SettleType, PlacesAndFates DEF DropQueue
<1> QED
  BY <1>1, <1>2

-----------------------------------------------------------------------------
(***************************************************************************)
(* Type correctness, one lemma per part of the next-state relation.        *)
(***************************************************************************)
LEMMA InitTypeInv == Init => TypeInv
<1> SUFFICES ASSUME Init PROVE TypeInv
  OBVIOUS
<1>1. TypeOK
  <2>1. queue \in [States -> Queues]
    BY QueueGrows DEF Init
  <2>2. /\ busy \in BOOLEAN
        /\ agent \in [States -> {"nil", "live", "dead"}]
        /\ stopped \in [States -> BOOLEAN]
        /\ curT \in [States -> Nat]
        /\ doneT \in [States -> Nat]
    BY DEF Init
  <2>3. /\ hpc \in [Msgs -> HandlerPcs]
        /\ wpc \in [Msgs -> WorkerPcs]
        /\ fate \in [Msgs -> Fates]
    BY PlacesAndFates DEF Init
  <2>4. /\ href \in [Msgs -> States \cup {NoState}]
        /\ wref \in [Msgs -> States \cup {NoState}]
        /\ wmsg \in [Msgs -> Msgs \cup {NoMsg}]
        /\ again \in [Msgs -> Nat]
    BY DEF Init
  <2> QED
    BY <2>1, <2>2, <2>3, <2>4 DEF Init, TypeOK
<1>2. RefsOK
  BY DEF Init, RefsOK, StatePcs
<1> QED
  BY <1>1, <1>2 DEF TypeInv

LEMMA HandlerTypeInv ==
    ASSUME TypeInv, NEW m \in Msgs, Handler(m)
    PROVE  TypeInv'
<1> USE PlacesAndFates DEF TypeInv, TypeOK, RefsOK, StatePcs,
            stateVars, handlerVars, workerVars, stopVars
<1>1. CASE Arrive(m)
  BY <1>1 DEF Arrive, HandlerEnds
<1>2. CASE TryLock(m)
  BY <1>2 DEF TryLock
<1>3. CASE Accept(m)
  <2>1. CASE cur = NoState
    <3>1. NewState \in States
      BY <1>3, <2>1, NewStateIsFree DEF Accept
    <3>2. StatesOK'
      BY <1>3, <2>1, <3>1, QueueGrows, InstallType DEF Accept, StatesOK
    <3> QED
      BY <1>3, <3>2 DEF Accept, StatesOK
  <2>2. CASE cur # NoState
    BY <1>3, <2>2 DEF Accept
  <2> QED
    BY <2>1, <2>2
<1>4. CASE Lookup(m)
  BY <1>4 DEF Lookup, HandlerEnds
<1>5. CASE Enqueue(m)
  <2>1. href[m] \in States
    BY <1>5 DEF Enqueue, HasRoom
  <2>2. queue[href[m]] \in Queues
    BY <2>1
  <2>3. CASE queue' = queue /\ \E v \in Fates : HandlerEnds(m, v)
    BY <1>5, <2>3 DEF Enqueue, HandlerEnds
  <2>4. CASE /\ Len(queue[href[m]]) < MaxQueued
             /\ queue' = [queue EXCEPT ![href[m]] = Append(@, m)]
             /\ hpc' = [hpc EXCEPT ![m] = "recheck"]
             /\ href' = [href EXCEPT ![m] = NoState]
             /\ fate' = [fate EXCEPT ![m] = "queued"]
    <3>1. queue' \in [States -> Queues]
      BY <2>1, <2>2, <2>4, QueueGrows
    <3> QED
      BY <1>5, <2>4, <3>1 DEF Enqueue
  <2> QED
    BY <1>5, <2>3, <2>4 DEF Enqueue, HasRoom
<1>6. CASE Recheck(m)
  BY <1>6 DEF Recheck
<1> HIDE DEF TypeInv
<1> QED
  BY <1>1, <1>2, <1>3, <1>4, <1>5, <1>6 DEF Handler

LEMMA StartTypeInv ==
    ASSUME TypeInv, NEW w \in Msgs, OpenState(w) \/ BeginTurn(w) \/ OrphanStart(w)
    PROVE  TypeInv'
<1> USE PlacesAndFates DEF TypeInv, TypeOK, RefsOK, StatePcs,
            stateVars, handlerVars, workerVars, stopVars
<1>1. CASE OpenState(w)
  <2>1. CASE cur # NoState /\ wref' = [wref EXCEPT ![w] = cur] /\ UNCHANGED stateVars
    BY <1>1, <2>1 DEF OpenState
  <2>2. CASE /\ NewState \in States
             /\ wref' = [wref EXCEPT ![w] = NewState]
             /\ \E a \in {"live", "nil"}, q \in Queues : Install(NewState, a, q, 0)
    <3>1. PICK a \in {"live", "nil"}, q \in Queues : Install(NewState, a, q, 0)
      BY <2>2
    <3>2. StatesOK'
      BY <2>2, <3>1, InstallType DEF StatesOK
    <3> QED
      BY <1>1, <2>2, <3>2 DEF OpenState, StatesOK
  <2>3. (IF cur = NoState THEN <<>> ELSE queue[cur]) \in Queues
    BY QueueGrows
  <2> QED
    BY <1>1, <2>1, <2>2, <2>3, NewStateIsFree DEF OpenState
<1>2. CASE BeginTurn(w)
  <2>1. wref[w] \in States /\ wmsg[w] \in Msgs
    BY <1>2 DEF BeginTurn
  <2>2. curT' \in [States -> Nat]
    BY <1>2, <2>1 DEF BeginTurn
  <2> QED
    BY <1>2, <2>1, <2>2 DEF BeginTurn
<1>3. CASE OrphanStart(w)
  <2>1. CASE UNCHANGED <<queue, fate>>
    BY <1>3, <2>1 DEF OrphanStart
  <2>2. CASE cur # NoState /\ DropQueue(cur, fate)
    <3>1. queue' \in [States -> Queues] /\ fate' \in [Msgs -> Fates]
      BY <2>2, DropQueueType
    <3>2. /\ wpc[w] = "orphan"
          /\ wref' = [wref EXCEPT ![w] = cur]
          /\ \E pc \in {"drain", "unlock"} : wpc' = [wpc EXCEPT ![w] = pc]
          /\ cur \in States
      BY <1>3, <2>2 DEF OrphanStart
    <3> QED
      BY <1>3, <3>1, <3>2 DEF OrphanStart
  <2> QED
    BY <1>3, <2>1, <2>2 DEF OrphanStart
<1> HIDE DEF TypeInv
<1> QED
  BY <1>1, <1>2, <1>3

(* What the steps of the event loop and of a compress that drop the queue  *)
(* have in common.                                                         *)
LEMMA DroppingTypeInv ==
    ASSUME TypeInv, NEW w \in Msgs, wpc[w] \in StatePcs,
           \/ UNCHANGED queue /\ fate' \in [Msgs -> Fates]
           \/ \E f \in [Msgs -> Fates] : DropQueue(wref[w], f),
           \/ UNCHANGED <<agent, stopped>> /\ wpc' = [wpc EXCEPT ![w] = "drain"]
           \/ \E pc \in {"closing", "abandon"} : TearDown(w, pc, "drain"),
           busy' \in BOOLEAN,
           UNCHANGED <<cur, curT, doneT, handlerVars, wref, wmsg, again, stopVars>>
    PROVE  TypeInv'
<1> USE PlacesAndFates DEF TypeInv, TypeOK, RefsOK, StatePcs, handlerVars, stopVars
<1>1. queue' \in [States -> Queues] /\ fate' \in [Msgs -> Fates]
  BY DropQueueType
<1>2. /\ agent' \in [States -> {"nil", "live", "dead"}]
      /\ stopped' \in [States -> BOOLEAN]
      /\ \E pc \in {"drain", "closing", "abandon"} : wpc' = [wpc EXCEPT ![w] = pc]
  BY DEF TearDown
<1> QED
  BY <1>1, <1>2

LEMMA TurnTypeInv ==
    ASSUME TypeInv, NEW w \in Msgs, Turn(w)
    PROVE  TypeInv'
<1> USE PlacesAndFates DEF TypeInv, TypeOK, RefsOK, StatePcs,
            stateVars, handlerVars, workerVars, stopVars
<1>0. Settle(fate, {wmsg[w]}, "told") \in [Msgs -> Fates]
      /\ Settle(fate, {wmsg[w]}, "silent") \in [Msgs -> Fates]
  BY SettleType
<1>1. CASE TurnStopped(w)
  BY <1>1 DEF TurnStopped
<1>2. CASE TurnResult(w)
  <2>1. doneT' \in [States -> Nat]
    BY <1>2 DEF TurnResult
  <2>2. \E pc \in {"next", "command", "drain"} : wpc' = [wpc EXCEPT ![w] = pc]
    BY <1>2 DEF TurnResult
  <2>3. fate' \in [Msgs -> Fates]
    BY <1>2 DEF TurnResult
  <2> QED
    BY <1>2, <2>1, <2>2, <2>3 DEF TurnResult
<1> HIDE DEF TypeInv, TypeOK, RefsOK, StatePcs, stateVars, handlerVars, workerVars,
             stopVars
<1>3. CASE TurnError(w)
  <2>1. wpc[w] \in StatePcs
    BY <1>3 DEF TurnError, StatePcs
  <2>2. \/ UNCHANGED queue /\ fate' \in [Msgs -> Fates]
        \/ \E f \in [Msgs -> Fates] : DropQueue(wref[w], f)
    BY <1>0, <1>3 DEF TurnError
  <2>3. \/ /\ UNCHANGED <<agent, stopped>>
           /\ wpc' = [wpc EXCEPT ![w] = "drain"]
        \/ \E pc \in {"closing", "abandon"} : TearDown(w, pc, "drain")
    BY <1>3 DEF TurnError
  <2>4. /\ busy' \in BOOLEAN
        /\ UNCHANGED <<cur, curT, doneT, handlerVars, wref, wmsg, again, stopVars>>
    BY <1>3 DEF TurnError, TypeInv, TypeOK
  <2> QED
    BY <2>1, <2>2, <2>3, <2>4, DroppingTypeInv
<1>4. CASE TurnSendFailed(w)
  <2>1. wpc[w] \in StatePcs
    BY <1>4 DEF TurnSendFailed, StatePcs
  <2>2. \/ UNCHANGED queue /\ fate' \in [Msgs -> Fates]
        \/ \E f \in [Msgs -> Fates] : DropQueue(wref[w], f)
    BY <1>0, <1>4 DEF TurnSendFailed
  <2>3. \/ /\ UNCHANGED <<agent, stopped>>
           /\ wpc' = [wpc EXCEPT ![w] = "drain"]
        \/ \E pc \in {"closing", "abandon"} : TearDown(w, pc, "drain")
    BY <1>4 DEF TurnSendFailed
  <2>4. /\ busy' \in BOOLEAN
        /\ UNCHANGED <<cur, curT, doneT, handlerVars, wref, wmsg, again, stopVars>>
    BY <1>4 DEF TurnSendFailed, TypeInv, TypeOK
  <2> QED
    BY <2>1, <2>2, <2>3, <2>4, DroppingTypeInv
<1>5. CASE TurnChannelClosed(w)
  <2>1. wpc[w] \in StatePcs
    BY <1>5 DEF TurnChannelClosed, StatePcs
  <2>2. \/ UNCHANGED queue /\ fate' \in [Msgs -> Fates]
        \/ \E f \in [Msgs -> Fates] : DropQueue(wref[w], f)
    BY <1>0, <1>5 DEF TurnChannelClosed
  <2>3. \/ /\ UNCHANGED <<agent, stopped>>
           /\ wpc' = [wpc EXCEPT ![w] = "drain"]
        \/ \E pc \in {"closing", "abandon"} : TearDown(w, pc, "drain")
    BY <1>5 DEF TurnChannelClosed
  <2>4. /\ busy' \in BOOLEAN
        /\ UNCHANGED <<cur, curT, doneT, handlerVars, wref, wmsg, again, stopVars>>
    BY <1>5 DEF TurnChannelClosed, TypeInv, TypeOK
  <2> QED
    BY <2>1, <2>2, <2>3, <2>4, DroppingTypeInv
<1>6. CASE TurnTimeout(w)
  <2>1. wpc[w] \in StatePcs
    BY <1>6 DEF TurnTimeout, StatePcs
  <2>2. \/ UNCHANGED queue /\ fate' \in [Msgs -> Fates]
        \/ \E f \in [Msgs -> Fates] : DropQueue(wref[w], f)
    BY <1>0, <1>6 DEF TurnTimeout
  <2>3. \/ /\ UNCHANGED <<agent, stopped>>
           /\ wpc' = [wpc EXCEPT ![w] = "drain"]
        \/ \E pc \in {"closing", "abandon"} : TearDown(w, pc, "drain")
    BY <1>6 DEF TurnTimeout
  <2>4. /\ busy' \in BOOLEAN
        /\ UNCHANGED <<cur, curT, doneT, handlerVars, wref, wmsg, again, stopVars>>
    BY <1>6 DEF TurnTimeout, TypeInv, TypeOK
  <2> QED
    BY <2>1, <2>2, <2>3, <2>4, DroppingTypeInv
<1> QED
  BY <1>1, <1>2, <1>3, <1>4, <1>5, <1>6 DEF Turn

(* Taking a message from its queue, by NextQueued and by DrainTake. *)
LEMMA TakeType ==
    ASSUME TypeInv, NEW w \in Msgs, wref[w] \in States,
           NEW k \in 1 .. Len(queue[wref[w]]), NEW q \in Queues,
           TakeNext(w, wref[w], queue[wref[w]][k], q)
    PROVE  /\ queue' \in [States -> Queues]
           /\ curT' \in [States -> Nat]
           /\ wmsg' \in [Msgs -> Msgs \cup {NoMsg}]
<1>1. queue[wref[w]] \in Queues
  BY DEF TypeInv, TypeOK
<1>2. queue[wref[w]][k] \in Msgs
  BY <1>1, RestOfQueue
<1> QED
  BY <1>2 DEF TypeInv, TypeOK, TakeNext

LEMMA TakeRefs ==
    ASSUME TypeInv, NEW w \in Msgs, wref[w] \in States,
           NEW m, NEW q, TakeNext(w, wref[w], m, q),
           hpc[w] = "done",
           NEW pc \in {"wait", "resend", "unlock"}, wpc' = [wpc EXCEPT ![w] = pc],
           UNCHANGED <<hpc, href, wref, again>>
    PROVE  RefsOK'
<1>1. \A v \in Msgs : v # w => wmsg'[v] = wmsg[v]
  BY DEF TakeNext, TypeInv, TypeOK
<1>2. \A v \in Msgs : wpc'[v] = IF v = w THEN pc ELSE wpc[v]
  BY DEF TypeInv, TypeOK
<1> HIDE DEF TypeOK
<1> QED
  BY <1>1, <1>2 DEF TypeInv, RefsOK, StatePcs

(* Leaving the worker's body, or going on to the next drain. *)
LEMMA FinishType ==
    ASSUME TypeInv, NEW w \in Msgs, wpc[w] \in {"drain", "unlock"}, Finish(w),
           UNCHANGED <<hpc, href>>
    PROVE  /\ busy' \in BOOLEAN
           /\ again' \in [Msgs -> Nat]
           /\ wpc' \in [Msgs -> WorkerPcs]
           /\ wref' \in [Msgs -> States \cup {NoState}]
           /\ wmsg' \in [Msgs -> Msgs \cup {NoMsg}]
           /\ RefsOK'
<1> USE PlacesAndFates DEF TypeInv, TypeOK, RefsOK, StatePcs
<1>1. CASE again[w] > 0
  <2>1. /\ busy' = FALSE
        /\ again' = [again EXCEPT ![w] = again[w] - 1]
        /\ wpc' = [wpc EXCEPT ![w] = "drain"]
        /\ UNCHANGED <<wref, wmsg>>
    BY <1>1 DEF Finish, Leave
  <2>2. wref[w] \in States /\ again' \in [Msgs -> Nat]
    BY <1>1, <2>1
  <2>3. RefsOK'
    BY <2>1, <2>2
  <2> QED
    BY <2>1, <2>2, <2>3
<1>2. CASE again[w] = 0
  <2>1. /\ busy' = FALSE
        /\ wpc' = [wpc EXCEPT ![w] = "done"]
        /\ wref' = [wref EXCEPT ![w] = NoState]
        /\ wmsg' = [wmsg EXCEPT ![w] = NoMsg]
        /\ UNCHANGED again
    BY <1>2 DEF Finish, Leave
  <2>2. RefsOK'
    BY <1>2, <2>1
  <2> QED
    BY <2>1, <2>2
<1> QED
  BY <1>1, <1>2

LEMMA LoopTypeInv ==
    ASSUME TypeInv, NEW w \in Msgs, CloseDone(w) \/ NextQueued(w) \/ Compress(w)
    PROVE  TypeInv'
<1> USE PlacesAndFates DEF TypeInv, TypeOK, RefsOK, StatePcs,
            stateVars, handlerVars, workerVars, stopVars
<1>1. CASE CloseDone(w)
  <2>1. wref[w] \in States
    BY <1>1 DEF CloseDone
  <2>2. queue' \in [States -> Queues] /\ fate' \in [Msgs -> Fates]
    BY <1>1, <2>1, DropQueueType DEF CloseDone
  <2>3. cur' \in States \cup {NoState} /\ busy' \in BOOLEAN
    BY <1>1, <2>1 DEF CloseDone
  <2> QED
    BY <1>1, <2>2, <2>3 DEF CloseDone
<1>2. CASE NextQueued(w)
  <2>1. wref[w] \in States /\ queue[wref[w]] \in Queues
    BY <1>2 DEF NextQueued
  <2>2. fate' \in [Msgs -> Fates]
    <3>1. \E k : fate' = Settle(fate, StaleHeads(wref[w], k), "superseded")
      BY <1>2 DEF NextQueued
    <3> QED
      BY <3>1, SettleType
  <2>3. CASE /\ queue' = [queue EXCEPT ![wref[w]] = <<>>]
             /\ wpc' = [wpc EXCEPT ![w] = "settle"]
             /\ UNCHANGED <<curT, wmsg>>
    <3>1. queue' \in [States -> Queues]
      BY <2>3, QueueGrows
    <3> QED
      BY <1>2, <2>2, <2>3, <3>1 DEF NextQueued
  <2>4. ASSUME NEW k \in 1 .. Len(queue[wref[w]]),
               TakeNext(w, wref[w], queue[wref[w]][k],
                        SubSeq(queue[wref[w]], k + 1, Len(queue[wref[w]]))),
               wpc' = [wpc EXCEPT ![w] = "resend"]
        PROVE  TypeInv'
    <3>1. /\ queue' \in [States -> Queues]
          /\ curT' \in [States -> Nat]
          /\ wmsg' \in [Msgs -> Msgs \cup {NoMsg}]
      BY <2>1, <2>4, RestOfQueue, TakeType
    <3>2. RefsOK'
      <4>1. hpc[w] = "done" /\ UNCHANGED <<hpc, href, wref, again>>
        BY <1>2 DEF NextQueued
      <4> HIDE DEF TypeInv, RefsOK
      <4> QED
        BY <2>1, <2>4, <4>1, TakeRefs
    <3> QED
      BY <1>2, <2>2, <2>4, <3>1, <3>2 DEF NextQueued
  <2> HIDE DEF TypeInv
  <2>5. PICK k \in 1 .. Len(queue[wref[w]]) + 1 :
            \/ /\ k > Len(queue[wref[w]])
               /\ queue' = [queue EXCEPT ![wref[w]] = <<>>]
               /\ wpc' = [wpc EXCEPT ![w] = "settle"]
               /\ UNCHANGED <<curT, wmsg>>
            \/ /\ k <= Len(queue[wref[w]])
               /\ TakeNext(w, wref[w], queue[wref[w]][k],
                           SubSeq(queue[wref[w]], k + 1, Len(queue[wref[w]])))
               /\ wpc' = [wpc EXCEPT ![w] = "resend"]
    BY <1>2 DEF NextQueued
  <2>6. Len(queue[wref[w]]) \in Nat
    BY <2>1 DEF Queues
  <2> QED
    BY <2>3, <2>4, <2>5, <2>6
<1>3. CASE CompressDone(w)
  BY <1>3 DEF CompressDone
<1>4. CASE CompressAborted(w)
  <2>1. queue' \in [States -> Queues] /\ fate' \in [Msgs -> Fates]
    BY <1>4, DropQueueType DEF CompressAborted
  <2> QED
    BY <1>4, <2>1 DEF CompressAborted
<1> HIDE DEF TypeInv, TypeOK, RefsOK, StatePcs, stateVars, handlerVars, workerVars,
             stopVars
<1>5. CASE CompressLost(w)
  <2>1. wpc[w] \in StatePcs
    BY <1>5 DEF CompressLost, StatePcs
  <2>2. \E f \in [Msgs -> Fates] : DropQueue(wref[w], f)
    BY <1>5 DEF CompressLost, TypeInv, TypeOK
  <2>3. TearDown(w, "abandon", "drain")
    BY <1>5 DEF CompressLost
  <2>4. /\ busy' \in BOOLEAN
        /\ UNCHANGED <<cur, curT, doneT, handlerVars, wref, wmsg, again, stopVars>>
    BY <1>5 DEF CompressLost, TypeInv, TypeOK
  <2> QED
    BY <2>1, <2>2, <2>3, <2>4, DroppingTypeInv
<1> QED
  BY <1>1, <1>2, <1>3, <1>4, <1>5 DEF Compress

(* A worker begins or ends a wait, and nothing else changes. *)
LEMMA WaitTypeInv ==
    ASSUME TypeInv, NEW w \in Msgs, Waits(w)
    PROVE  TypeInv'
<1> USE PlacesAndFates DEF TypeInv, TypeOK, RefsOK, StatePcs,
            stateVars, handlerVars, workerVars, stopVars
<1>1. UNCHANGED <<busy, stateVars, handlerVars, wref, wmsg, again, stopVars, fate>>
  BY DEF Waits, Ask, Answered, SendReturned, CompressSent
<1>2. \E pc \in {"wait", "ask", "drain", "compress"} : wpc' = [wpc EXCEPT ![w] = pc]
  BY DEF Waits, Ask, Answered, SendReturned, CompressSent
<1>3. wpc[w] \in StatePcs
  BY DEF Waits, Ask, Answered, SendReturned, CompressSent
<1> QED
  BY <1>1, <1>2, <1>3

(* The clean-up after a compress command that could not be sent. *)
LEMMA CommandTypeInv ==
    ASSUME TypeInv, NEW w \in Msgs, CommandFails(w)
    PROVE  TypeInv'
<1> USE PlacesAndFates DEF TypeInv, TypeOK, RefsOK, StatePcs,
            stateVars, handlerVars, workerVars, stopVars
<1>1. queue' \in [States -> Queues] /\ fate' \in [Msgs -> Fates]
  BY DropQueueType DEF CommandFails, CompressSendFailed, PurgeDone
<1>2. /\ agent' \in [States -> {"nil", "live", "dead"}]
      /\ stopped' \in [States -> BOOLEAN]
      /\ \E pc \in {"purge", "drain"} : wpc' = [wpc EXCEPT ![w] = pc]
      /\ cur' \in States \cup {NoState} /\ busy' \in BOOLEAN
      /\ UNCHANGED <<curT, doneT, handlerVars, wref, wmsg, again, stopVars>>
  BY DEF CommandFails, CompressSendFailed, PurgeDone
<1>3. wpc[w] \in StatePcs
  BY DEF CommandFails, CompressSendFailed, PurgeDone
<1> QED
  BY <1>1, <1>2, <1>3

LEMMA DrainTypeInv ==
    ASSUME TypeInv, NEW w \in Msgs, DrainEmpty(w) \/ DrainTake(w) \/ DeferredUnlock(w)
    PROVE  TypeInv'
<1> USE PlacesAndFates DEF TypeInv, TypeOK, stateVars, handlerVars, workerVars, stopVars
<1>1. CASE DrainEmpty(w)
  <2>1. queue' \in [States -> Queues]
    BY <1>1, QueueGrows DEF DrainEmpty
  <2>2. fate' \in [Msgs -> Fates]
    BY <1>1, SettleType DEF DrainEmpty
  <2> QED
    BY <1>1, <2>1, <2>2, FinishType DEF DrainEmpty
<1>2. CASE DrainTake(w)
  <2>1. wref[w] \in States /\ queue[wref[w]] \in Queues
    BY <1>2 DEF DrainTake, RefsOK, StatePcs
  <2>2. PICK k \in 1 .. Len(queue[wref[w]]) :
            \/ /\ TakeNext(w, wref[w], queue[wref[w]][k],
                           SubSeq(queue[wref[w]], k + 1, Len(queue[wref[w]])))
               /\ fate' = Settle(fate, StaleHeads(wref[w], k), "superseded")
               /\ wpc' = [wpc EXCEPT ![w] = "wait"]
            \/ /\ TakeNext(w, wref[w], queue[wref[w]][k], <<>>)
               /\ fate' = Settle(Settle(Settle(fate, StaleHeads(wref[w], k), "superseded"),
                                        {queue[wref[w]][k]}, "told"),
                                 ToSet(SubSeq(queue[wref[w]], k + 1,
                                              Len(queue[wref[w]]))), "told")
               /\ wpc' = [wpc EXCEPT ![w] = "unlock"]
    BY <1>2 DEF DrainTake
  <2>3. fate' \in [Msgs -> Fates]
    <3>1. Settle(fate, StaleHeads(wref[w], k), "superseded") \in [Msgs -> Fates]
      BY SettleType
    <3>2. Settle(Settle(fate, StaleHeads(wref[w], k), "superseded"),
                 {queue[wref[w]][k]}, "told") \in [Msgs -> Fates]
      BY <3>1, SettleType
    <3>3. Settle(Settle(Settle(fate, StaleHeads(wref[w], k), "superseded"),
                        {queue[wref[w]][k]}, "told"),
                 ToSet(SubSeq(queue[wref[w]], k + 1, Len(queue[wref[w]]))), "told")
            \in [Msgs -> Fates]
      BY <3>2, SettleType
    <3> QED
      BY <2>2, <3>1, <3>3
  <2>4. SubSeq(queue[wref[w]], k + 1, Len(queue[wref[w]])) \in Queues
    BY <2>1, RestOfQueue
  <2>5. /\ queue' \in [States -> Queues]
        /\ curT' \in [States -> Nat]
        /\ wmsg' \in [Msgs -> Msgs \cup {NoMsg}]
    <3> HIDE DEF TypeInv
    <3> QED
      BY <2>1, <2>2, <2>4, QueueGrows, TakeType
  <2>6. wpc' \in [Msgs -> WorkerPcs]
    BY <2>2
  <2>7. RefsOK'
    <3>1. hpc[w] = "done" /\ UNCHANGED <<hpc, href, wref, again>>
      BY <1>2 DEF DrainTake, RefsOK
    <3>2. \E q : \E pc \in {"wait", "unlock"} :
            /\ TakeNext(w, wref[w], queue[wref[w]][k], q)
            /\ wpc' = [wpc EXCEPT ![w] = pc]
      BY <2>2
    <3> HIDE DEF TypeInv
    <3> QED
      BY <2>1, <3>1, <3>2, TakeRefs
  <2> QED
    BY <1>2, <2>3, <2>5, <2>6, <2>7 DEF DrainTake
<1>3. CASE DeferredUnlock(w)
  BY <1>3, FinishType DEF DeferredUnlock
<1> HIDE DEF TypeInv
<1> QED
  BY <1>1, <1>2, <1>3

LEMMA OutsideTypeInv ==
    ASSUME TypeInv, Stop \/ StopNotify \/ (\E s \in States : AgentDies(s))
    PROVE  TypeInv'
<1> USE PlacesAndFates DEF TypeInv, TypeOK, RefsOK, stateVars, handlerVars, workerVars,
                           stopVars
<1>1. CASE Stop
  BY <1>1 DEF Stop
<1>2. CASE StopNotify
  <2>1. queue' \in [States -> Queues] /\ fate' \in [Msgs -> Fates]
    BY <1>2, DropQueueType DEF StopNotify
  <2> QED
    BY <1>2, <2>1 DEF StopNotify
<1>3. CASE \E s \in States : AgentDies(s)
  BY <1>3 DEF AgentDies
<1> HIDE DEF TypeInv
<1> QED
  BY <1>1, <1>2, <1>3

LEMMA NextTypeInv ==
    ASSUME TypeInv, [Next]_vars
    PROVE  TypeInv'
<1>1. CASE UNCHANGED vars
  BY <1>1 DEF TypeInv, TypeOK, RefsOK, vars, stateVars, handlerVars, workerVars, stopVars
<1>2. ASSUME NEW m \in Msgs, Handler(m) PROVE TypeInv'
  BY <1>2, HandlerTypeInv
<1>3. ASSUME NEW w \in Msgs, Worker(w) PROVE TypeInv'
  BY <1>3, WorkerSteps, StartTypeInv, TurnTypeInv, LoopTypeInv, WaitTypeInv, CommandTypeInv,
     DrainTypeInv
<1>4. CASE Stop \/ StopNotify \/ \E s \in States : AgentDies(s)
  BY <1>4, OutsideTypeInv
<1> QED
  BY <1>1, <1>2, <1>3, <1>4 DEF Next

(* Every variable keeps its type, and a queue never holds more than        *)
(* maxQueuedMessages messages, however handlers, workers, compresses and   *)
(* /stop interleave: the test and the append of queueMessageForBusySession *)
(* are one critical section, and a replacing state takes over a queue that *)
(* was within the limit.                                                   *)
THEOREM TypeCorrect == Spec => []TypeOK
<1>1. TypeInv /\ [Next]_vars => TypeInv'
  BY NextTypeInv
<1>2. TypeInv => TypeOK
  BY DEF TypeInv
<1> QED
  BY InitTypeInv, <1>1, <1>2, PTL DEF Spec

-----------------------------------------------------------------------------
(***************************************************************************)
(* The session lock, when no turn compresses.                              *)
(***************************************************************************)

(* A step of the holder that keeps the lock: what is left to show is that  *)
(* the holder still works on the map's entry.                              *)
LEMMA HolderKeepsLock ==
    ASSUME LockInv, TypeInv', NEW w \in Msgs, wpc[w] \in HoldingPcs,
           NEW pc \in HoldingPcs \ CompressPcs,
           wpc' = [wpc EXCEPT ![w] = pc],
           UNCHANGED <<busy, hpc, again>>,
           \A v \in Msgs : v # w => wref'[v] = wref[v],
           pc \notin {"open", "orphan"} => cur' \in {wref'[w], NoState}
    PROVE  LockInv'
<1>1. \A v \in Msgs : wpc'[v] = IF v = w THEN pc ELSE wpc[v]
  BY DEF LockInv, TypeInv, TypeOK
<1>2. InTurn(w) /\ InTurn(w)' /\ busy
  BY <1>1 DEF LockInv, InTurn, BusyIsHeld
<1>3. \A v \in Msgs : v # w => ~InTurn(v) /\ ~InTurn(v)'
  BY <1>1, <1>2 DEF LockInv, MutualExclusion, InTurn
<1>4. NeverCompresses'
  BY <1>1 DEF LockInv, NeverCompresses, CompressPcs
<1>5. MutualExclusion' /\ BusyIsHeld'
  BY <1>2, <1>3 DEF MutualExclusion, BusyIsHeld
<1>6. EntryIsServed'
  BY <1>1, <1>3 DEF EntryIsServed, InTurn, HoldingPcs
<1> QED
  BY <1>4, <1>5, <1>6 DEF LockInv

(* The step of the holder that gives the lock up.                          *)
LEMMA HolderUnlocks ==
    ASSUME LockInv, TypeInv', NEW w \in Msgs, wpc[w] \in HoldingPcs,
           Finish(w), UNCHANGED <<hpc, cur>>
    PROVE  LockInv'
<1>1. /\ busy' = FALSE
      /\ again' = again
      /\ \A v \in Msgs : wpc'[v] = IF v = w THEN "done" ELSE wpc[v]
      /\ \A v \in Msgs : v # w => wref'[v] = wref[v]
  <2>1. again[w] = 0
    BY DEF LockInv, NeverCompresses
  <2>2. /\ busy' = FALSE /\ again' = again
        /\ wpc' = [wpc EXCEPT ![w] = "done"] /\ wref' = [wref EXCEPT ![w] = NoState]
    BY <2>1 DEF Finish, Leave
  <2>3. /\ wpc \in [Msgs -> WorkerPcs]
        /\ wref \in [Msgs -> States \cup {NoState}]
    BY DEF LockInv, TypeInv, TypeOK
  <2> QED
    BY <2>2, <2>3
<1>2. InTurn(w)
  BY DEF InTurn
<1>3. hpc[w] = "done"
  BY DEF LockInv, TypeInv, RefsOK, HoldingPcs
<1>4. \A v \in Msgs : v # w => ~InTurn(v)
  BY <1>2 DEF LockInv, MutualExclusion
<1>5. \A v \in Msgs : ~InTurn(v)' /\ wpc'[v] \notin HoldingPcs
  BY <1>1, <1>3, <1>4 DEF InTurn, HoldingPcs
<1>6. NeverCompresses'
  BY <1>1 DEF LockInv, NeverCompresses, CompressPcs
<1>7. MutualExclusion' /\ BusyIsHeld'
  BY <1>1, <1>5 DEF MutualExclusion, BusyIsHeld
<1>8. EntryIsServed'
  BY <1>5 DEF EntryIsServed, HoldingPcs
<1> QED
  BY <1>6, <1>7, <1>8 DEF LockInv

(* A step that leaves the lock, the workers and the entry to themselves.   *)
LEMMA LockUntouched ==
    ASSUME LockInv, TypeInv',
           UNCHANGED <<busy, wpc, wref, again>>,
           \A m \in Msgs : hpc'[m] = "accept" <=> hpc[m] = "accept",
           cur' \in {cur, NoState}
    PROVE  LockInv'
<1>1. \A m \in Msgs : InTurn(m)' <=> InTurn(m)
  BY DEF InTurn
<1>2. MutualExclusion' /\ BusyIsHeld' /\ NeverCompresses'
  BY <1>1 DEF LockInv, MutualExclusion, BusyIsHeld, NeverCompresses
<1>3. EntryIsServed'
  BY DEF LockInv, EntryIsServed
<1> QED
  BY <1>2, <1>3 DEF LockInv

LEMMA InitLockInv == Init => LockInv
<1> SUFFICES ASSUME Init PROVE LockInv
  OBVIOUS
<1>1. \A m \in Msgs : ~InTurn(m) /\ wpc[m] = "idle" /\ again[m] = 0
  BY DEF Init, InTurn, HoldingPcs
<1>2. busy = FALSE /\ cur = NoState
  BY DEF Init
<1> QED
  BY <1>1, <1>2, InitTypeInv DEF LockInv, NeverCompresses, CompressPcs, MutualExclusion, BusyIsHeld,
     EntryIsServed, HoldingPcs

(* A handler or worker takes the free lock, by TryLock or by Recheck. *)
LEMMA LockTaken ==
    ASSUME LockInv, TypeInv', NEW m \in Msgs, ~busy, busy',
           \/ UNCHANGED wpc /\ hpc' = [hpc EXCEPT ![m] = "accept"]
           \/ wpc' = [wpc EXCEPT ![m] = "orphan"] /\ hpc' = [hpc EXCEPT ![m] = "done"],
           UNCHANGED <<cur, wref, again>>
    PROVE  LockInv'
<1>1. \A v \in Msgs : ~InTurn(v)
  BY DEF LockInv, BusyIsHeld
<1>2. \A v \in Msgs : v # m => ~InTurn(v)'
  BY <1>1 DEF InTurn, LockInv, TypeInv, TypeOK
<1>3. InTurn(m)'
  BY DEF InTurn, HoldingPcs, LockInv, TypeInv, TypeOK
<1>4. \A v \in Msgs : (wpc'[v] = "orphan") \/ (wpc'[v] = wpc[v] /\ wpc[v] \notin HoldingPcs)
  BY <1>1 DEF InTurn, LockInv, TypeInv, TypeOK
<1>5. NeverCompresses' /\ EntryIsServed'
  BY <1>4 DEF LockInv, NeverCompresses, CompressPcs, EntryIsServed, HoldingPcs
<1>6. MutualExclusion' /\ BusyIsHeld'
  BY <1>2, <1>3 DEF MutualExclusion, BusyIsHeld
<1> QED
  BY <1>5, <1>6 DEF LockInv

LEMMA HandlerLockInv ==
    ASSUME LockInv, TypeInv', NEW m \in Msgs, Handler(m)
    PROVE  LockInv'
<1> USE DEF stateVars, handlerVars, workerVars, stopVars
<1>1. CASE Arrive(m) \/ Lookup(m)
  <2>1. \E pc \in HandlerPcs \ {"accept", "recheck"} : hpc' = [hpc EXCEPT ![m] = pc]
    BY <1>1, PlacesAndFates DEF Arrive, Lookup, HandlerEnds
  <2>2. /\ hpc[m] \notin {"accept", "recheck"}
        /\ UNCHANGED <<busy, stateVars, workerVars>>
    BY <1>1 DEF Arrive, Lookup
  <2> QED
    BY <2>1, <2>2, LockUntouched DEF LockInv, TypeInv, TypeOK
<1>2. CASE TryLock(m)
  <2>1. CASE busy
    <3>1. hpc' = [hpc EXCEPT ![m] = "lookup"] /\ hpc[m] = "trylock"
          /\ UNCHANGED <<busy, stateVars, workerVars>>
      BY <1>2, <2>1 DEF TryLock
    <3> QED
      BY <3>1, LockUntouched DEF LockInv, TypeInv, TypeOK
  <2>2. CASE ~busy
    BY <1>2, <2>2, LockTaken DEF TryLock
  <2> QED
    BY <2>1, <2>2
<1>3. CASE Accept(m)
  <2>1. /\ hpc[m] = "accept" /\ InTurn(m)
        /\ wpc' = [wpc EXCEPT ![m] = "open"]
        /\ hpc' = [hpc EXCEPT ![m] = "done"]
        /\ UNCHANGED <<busy, wref, again>>
    BY <1>3 DEF Accept, InTurn
  <2>2. \A v \in Msgs : v # m => ~InTurn(v)
    BY <2>1 DEF LockInv, MutualExclusion
  <2>3. InTurn(m)' /\ \A v \in Msgs : v # m => ~InTurn(v)' /\ wpc'[v] = wpc[v]
    BY <2>1, <2>2 DEF InTurn, HoldingPcs, LockInv, TypeInv, TypeOK
  <2>4. busy /\ MutualExclusion' /\ BusyIsHeld'
    BY <2>1, <2>3 DEF LockInv, MutualExclusion, BusyIsHeld
  <2>5. wpc'[m] = "open"
    BY <2>1 DEF LockInv, TypeInv, TypeOK
  <2>6. NeverCompresses' /\ EntryIsServed'
    BY <2>1, <2>3, <2>5 DEF LockInv, NeverCompresses, CompressPcs, EntryIsServed, InTurn, HoldingPcs
  <2> QED
    BY <2>4, <2>6 DEF LockInv
<1>4. CASE Enqueue(m)
  <2>1. /\ hpc[m] = "enqueue"
        /\ UNCHANGED <<busy, cur, agent, workerVars>>
        /\ \/ UNCHANGED queue /\ hpc' = [hpc EXCEPT ![m] = "done"]
           \/ hpc' = [hpc EXCEPT ![m] = "recheck"]
    BY <1>4 DEF Enqueue, HandlerEnds
  <2> QED
    BY <2>1, LockUntouched DEF LockInv, TypeInv, TypeOK
<1>5. CASE Recheck(m)
  <2>1. CASE busy
    <3>1. hpc' = [hpc EXCEPT ![m] = "done"] /\ hpc[m] = "recheck"
          /\ UNCHANGED <<busy, stateVars, workerVars>>
      BY <1>5, <2>1 DEF Recheck
    <3> QED
      BY <3>1, LockUntouched DEF LockInv, TypeInv, TypeOK
  <2>2. CASE ~busy
    BY <1>5, <2>2, LockTaken DEF Recheck
  <2> QED
    BY <2>1, <2>2
<1> QED
  BY <1>1, <1>2, <1>3, <1>4, <1>5 DEF Handler

LEMMA StartLockInv ==
    ASSUME LockInv, TypeInv', NEW w \in Msgs, OpenState(w) \/ BeginTurn(w) \/ OrphanStart(w)
    PROVE  LockInv'
<1> USE DEF stateVars, handlerVars, workerVars, stopVars
<1>0. wpc[w] \in HoldingPcs
  BY DEF OpenState, BeginTurn, OrphanStart, HoldingPcs
<1>1. CASE OpenState(w)
  <2>1. wref' = [wref EXCEPT ![w] = cur']
    BY <1>1 DEF OpenState, Install
  <2>2. wref'[w] = cur' /\ \A v \in Msgs : v # w => wref'[v] = wref[v]
    BY <2>1 DEF LockInv, TypeInv, TypeOK
  <2> QED
    BY <1>0, <1>1, <2>2, HolderKeepsLock DEF OpenState, HoldingPcs, CompressPcs
<1>2. CASE BeginTurn(w)
  <2>1. cur \in {wref[w], NoState}
    BY <1>2 DEF BeginTurn, LockInv, EntryIsServed, HoldingPcs
  <2>2. CASE agent[wref[w]] = "nil" /\ wpc' = [wpc EXCEPT ![w] = "unlock"]
    BY <1>0, <1>2, <2>1, <2>2, HolderKeepsLock DEF BeginTurn, HoldingPcs, CompressPcs
  <2>3. CASE wpc' = [wpc EXCEPT ![w] = "wait"]
    BY <1>0, <1>2, <2>1, <2>3, HolderKeepsLock DEF BeginTurn, HoldingPcs, CompressPcs
  <2> QED
    BY <1>2, <2>2, <2>3 DEF BeginTurn
<1>3. CASE OrphanStart(w)
  <2>1. wref'[w] = cur /\ \A v \in Msgs : v # w => wref'[v] = wref[v]
    BY <1>3 DEF OrphanStart, LockInv, TypeInv, TypeOK
  <2>2. /\ UNCHANGED <<busy, hpc, again, cur>>
        /\ \E pc \in {"drain", "unlock"} : wpc' = [wpc EXCEPT ![w] = pc]
    BY <1>3 DEF OrphanStart
  <2> QED
    BY <1>0, <2>1, <2>2, HolderKeepsLock DEF HoldingPcs, CompressPcs
<1> QED
  BY <1>1, <1>2, <1>3

LEMMA LoopLockInv ==
    ASSUME LockInv, TypeInv', NEW w \in Msgs, Turn(w) \/ CloseDone(w) \/ NextQueued(w),
           AutoCompress = FALSE
    PROVE  LockInv'
<1> USE DEF stateVars, handlerVars, workerVars, stopVars
<1>1. wpc[w] \in {"wait", "closing", "next"}
  BY DEF Turn, TurnStopped, TurnResult, TurnError, TurnSendFailed, TurnChannelClosed,
         TurnTimeout, CloseDone, NextQueued, LockInv, NeverCompresses, CompressPcs
<1>2. wpc[w] \in HoldingPcs /\ cur \in {wref[w], NoState}
  BY <1>1 DEF LockInv, EntryIsServed, HoldingPcs
<1>3. \E pc \in {"next", "resend", "settle", "closing", "drain"} : wpc' = [wpc EXCEPT ![w] = pc]
  BY DEF Turn, TurnStopped, TurnResult, TurnError, TurnSendFailed, TurnChannelClosed,
         TurnTimeout, TearDown, CloseDone, NextQueued
<1>4. UNCHANGED <<busy, hpc, again, wref>>
  BY <1>1 DEF Turn, TurnStopped, TurnResult, TurnError, TurnSendFailed, TurnChannelClosed,
              TurnTimeout, CloseDone, NextQueued
<1>5. cur' \in {cur, NoState}
  BY DEF Turn, TurnStopped, TurnResult, TurnError, TurnSendFailed, TurnChannelClosed,
         TurnTimeout, CloseDone, NextQueued
<1> QED
  BY <1>2, <1>3, <1>4, <1>5, HolderKeepsLock DEF HoldingPcs, CompressPcs

(* Without auto-compress a wait begins or ends with the lock held. *)
LEMMA WaitLockInv ==
    ASSUME LockInv, TypeInv', NEW w \in Msgs, Waits(w) \/ CommandFails(w)
    PROVE  LockInv'
<1> USE DEF stateVars, handlerVars, workerVars, stopVars
<1>1. wpc[w] \in {"wait", "ask", "resend", "settle"} /\ Waits(w)
  BY DEF Waits, CommandFails, Ask, Answered, SendReturned, CompressSent, CompressSendFailed,
         PurgeDone, LockInv, NeverCompresses, CompressPcs
<1>2. wpc[w] \in HoldingPcs /\ cur \in {wref[w], NoState}
  BY <1>1 DEF LockInv, EntryIsServed, HoldingPcs
<1>3. \E pc \in {"wait", "ask", "drain"} : wpc' = [wpc EXCEPT ![w] = pc]
  BY <1>1 DEF Waits, Ask, Answered, SendReturned, CompressSent
<1>4. UNCHANGED <<busy, hpc, again, wref, cur>>
  BY <1>1 DEF Waits, Ask, Answered, SendReturned, CompressSent
<1> QED
  BY <1>2, <1>3, <1>4, HolderKeepsLock DEF HoldingPcs, CompressPcs

LEMMA DrainLockInv ==
    ASSUME LockInv, TypeInv', NEW w \in Msgs, DrainEmpty(w) \/ DrainTake(w) \/ DeferredUnlock(w)
    PROVE  LockInv'
<1> USE DEF stateVars, handlerVars, workerVars, stopVars
<1>0. wpc[w] \in HoldingPcs
  BY DEF DrainEmpty, DrainTake, DeferredUnlock, HoldingPcs
<1>1. CASE DrainEmpty(w)
  BY <1>0, <1>1, HolderUnlocks DEF DrainEmpty
<1>2. CASE DrainTake(w)
  <2>1. cur \in {wref[w], NoState}
    BY <1>2 DEF DrainTake, LockInv, EntryIsServed, HoldingPcs
  <2>2. /\ UNCHANGED <<busy, hpc, again, wref, cur>>
        /\ \E pc \in {"wait", "unlock"} : wpc' = [wpc EXCEPT ![w] = pc]
    BY <1>2 DEF DrainTake
  <2> QED
    BY <1>0, <2>1, <2>2, HolderKeepsLock DEF HoldingPcs, CompressPcs
<1>3. CASE DeferredUnlock(w)
  BY <1>0, <1>3, HolderUnlocks DEF DeferredUnlock
<1> QED
  BY <1>1, <1>2, <1>3

LEMMA OutsideLockInv ==
    ASSUME LockInv, TypeInv', Stop \/ StopNotify \/ (\E s \in States : AgentDies(s))
    PROVE  LockInv'
<1> USE DEF stateVars, handlerVars, workerVars, stopVars
<1>1. CASE Stop
  BY <1>1, LockUntouched DEF Stop
<1>2. CASE StopNotify
  BY <1>2, LockUntouched DEF StopNotify
<1>3. CASE \E s \in States : AgentDies(s)
  BY <1>3, LockUntouched DEF AgentDies
<1> QED
  BY <1>1, <1>2, <1>3

LEMMA NextLockInv ==
    ASSUME LockInv, [Next]_vars, AutoCompress = FALSE
    PROVE  LockInv'
<1>0. TypeInv'
  BY NextTypeInv DEF LockInv
<1>1. CASE UNCHANGED vars
  BY <1>0, <1>1 DEF LockInv, NeverCompresses, MutualExclusion, BusyIsHeld, EntryIsServed,
     InTurn, vars, stateVars, handlerVars, workerVars
<1>2. ASSUME NEW m \in Msgs, Handler(m) PROVE LockInv'
  BY <1>0, <1>2, HandlerLockInv
<1>3. ASSUME NEW w \in Msgs, Worker(w) PROVE LockInv'
  <2>1. ~Compress(w)
    BY DEF LockInv, NeverCompresses, CompressPcs, Compress, CompressDone, CompressAborted,
           CompressLost
  <2> QED
    BY <1>0, <1>3, <2>1, WorkerSteps, StartLockInv, LoopLockInv, WaitLockInv, DrainLockInv
<1>4. CASE Stop \/ StopNotify \/ \E s \in States : AgentDies(s)
  BY <1>0, <1>4, OutsideLockInv
<1> QED
  BY <1>1, <1>2, <1>3, <1>4 DEF Next

LEMMA LockInvariant ==
    ASSUME AutoCompress = FALSE
    PROVE  Spec => []LockInv
<1>1. LockInv /\ [Next]_vars => LockInv'
  BY NextLockInv
<1> QED
  BY InitLockInv, <1>1, PTL DEF Spec

(* Two goroutines never both hold the session lock of one conversation:    *)
(* whatever handlers, drains, failing turns, cleanups, /stop commands and  *)
(* dying agents do, one turn at a time writes to the agent.  Without       *)
(* auto-compress, which breaks it.                                         *)
THEOREM OneTurnAtATime ==
    ASSUME AutoCompress = FALSE
    PROVE  Spec => []MutualExclusion
<1>1. LockInv => MutualExclusion
  BY DEF LockInv
<1> QED
  BY LockInvariant, <1>1, PTL

(* No path of the worker, through its loops, its failures and its early    *)
(* returns, leaves the busy flag up with nobody to lower it, or lowers it  *)
(* for somebody else.                                                      *)
THEOREM LockIsNeverLeaked ==
    ASSUME AutoCompress = FALSE
    PROVE  Spec => []BusyIsHeld
<1>1. LockInv => BusyIsHeld
  BY DEF LockInv
<1> QED
  BY LockInvariant, <1>1, PTL

(* A turn works on the map's entry until /stop deletes it: cleanups of     *)
(* other workers and new turns never replace it under a running turn.      *)
THEOREM TurnOwnsItsEntry ==
    ASSUME AutoCompress = FALSE
    PROVE  Spec => []EntryIsServed
<1>1. LockInv => EntryIsServed
  BY DEF LockInv
<1> QED
  BY LockInvariant, <1>1, PTL

-----------------------------------------------------------------------------
(***************************************************************************)
(* The race guard.  A compress unlocks the session of its own turn, so the *)
(* lock says little there; but whoever took it last is still at work, and  *)
(* at the entry if that can be worked on.                                  *)
(***************************************************************************)

(* A step after which a holder of the lock attends to the entry. *)
LEMMA SomeoneAttends ==
    ASSUME TypeInv', UnlockIsAgentless', NEW m \in Msgs, InTurn(m)', Attends(m)'
    PROVE  GuardInv'
  BY DEF GuardInv, LockIsAttended, NoOrphanQueue

(* A step that takes nobody away, locks nothing and fills no queue. *)
LEMMA AttendersStay ==
    ASSUME GuardInv, TypeInv', UnlockIsAgentless',
           busy' => busy,
           cur' \in {cur, NoState},
           cur' # NoState /\ agent'[cur'] = "live" => agent[cur] = "live",
           cur' # NoState /\ queue'[cur'] # <<>> => queue[cur] # <<>>,
           \A m \in Msgs : InTurn(m) => InTurn(m)',
           \A m \in Msgs : Attends(m) /\ cur' = cur => Attends(m)'
    PROVE  GuardInv'
<1>1. LockIsAttended'
  BY DEF GuardInv, LockIsAttended
<1>2. NoOrphanQueue'
  BY DEF GuardInv, NoOrphanQueue
<1> QED
  BY <1>1, <1>2 DEF GuardInv

(* A worker w that goes on in its turn, on the state that it has. *)
LEMMA WorkerGoesOn ==
    ASSUME GuardInv, TypeInv', NEW w \in Msgs, wpc[w] \in HoldingPcs \ {"open", "orphan"},
           NEW pc \in HoldingPcs, wpc' = [wpc EXCEPT ![w] = pc],
           UNCHANGED <<hpc, wref>>,
           busy' => busy,
           cur' \in {cur, NoState},
           \A s \in States : agent'[s] = "live" => agent[s] = "live",
           \A s \in States : queue[s] = <<>> => queue'[s] = <<>>,
           pc = "unlock" => agent'[wref[w]] # "live"
    PROVE  GuardInv'
<1>1. \A v \in Msgs : wpc'[v] = IF v = w THEN pc ELSE wpc[v]
  BY DEF GuardInv, TypeInv, TypeOK
<1>2. cur \in States \cup {NoState}
  BY DEF GuardInv, TypeInv, TypeOK
<1>3. \A m \in Msgs : InTurn(m) => InTurn(m)'
  BY <1>1 DEF InTurn
<1>4. \A m \in Msgs : Attends(m) /\ cur' = cur => Attends(m)'
  BY <1>1 DEF Attends
<1>5. UnlockIsAgentless'
  BY <1>1, <1>2 DEF GuardInv, UnlockIsAgentless
<1> QED
  BY <1>2, <1>3, <1>4, <1>5, AttendersStay

(* A worker that unlocks leaves the entry without a live agent, or with an *)
(* empty queue, or works on another state.                                 *)
LEMMA WorkerUnlocks ==
    ASSUME GuardInv, TypeInv', NEW w \in Msgs, wpc[w] \in {"drain", "unlock"},
           Finish(w), UNCHANGED <<hpc, cur, agent>>,
           \A s \in States : s # wref[w] => queue'[s] = queue[s],
           wpc[w] = "drain" => queue'[wref[w]] = <<>>
    PROVE  GuardInv'
<1>1. \A v \in Msgs : v # w => wpc'[v] = wpc[v] /\ wref'[v] = wref[v]
  BY DEF Finish, Leave, GuardInv, TypeInv, TypeOK
<1>2. wpc'[w] \in {"drain", "done"}
  BY DEF Finish, Leave, GuardInv, TypeInv, TypeOK
<1>3. LockIsAttended'
  BY DEF Finish, LockIsAttended
<1>4. UnlockIsAgentless'
  BY <1>1, <1>2 DEF GuardInv, UnlockIsAgentless
<1>5. NoOrphanQueue'
  <2> SUFFICES ASSUME cur # NoState, agent[cur] = "live", queue'[cur] # <<>>
               PROVE  \E m \in Msgs : Attends(m)'
    BY DEF NoOrphanQueue
  <2>1. cur \in States /\ wref[w] # cur
    BY DEF GuardInv, UnlockIsAgentless, TypeInv, TypeOK
  <2>2. PICK m \in Msgs : Attends(m)
    BY <2>1 DEF GuardInv, NoOrphanQueue
  <2>3. hpc[w] = "done"
    BY DEF GuardInv, TypeInv, RefsOK
  <2>4. m # w
    BY <2>1, <2>2, <2>3 DEF Attends
  <2> QED
    BY <1>1, <2>2, <2>4 DEF Attends
<1> QED
  BY <1>3, <1>4, <1>5 DEF GuardInv

LEMMA HandlerGuardInv ==
    ASSUME GuardInv, TypeInv', NEW m \in Msgs, Handler(m)
    PROVE  GuardInv'
<1> USE DEF stateVars, handlerVars, workerVars, stopVars
<1>1. CASE Arrive(m) \/ Lookup(m)
  <2>1. \E pc \in HandlerPcs : hpc' = [hpc EXCEPT ![m] = pc]
    BY <1>1, PlacesAndFates DEF Arrive, Lookup, HandlerEnds
  <2>2. /\ hpc[m] \notin {"accept", "recheck"}
        /\ UNCHANGED <<busy, stateVars, workerVars>>
    BY <1>1 DEF Arrive, Lookup
  <2>3. \A v \in Msgs : (InTurn(v) => InTurn(v)') /\ (Attends(v) => Attends(v)')
    BY <2>1, <2>2 DEF InTurn, Attends, GuardInv, TypeInv, TypeOK
  <2> QED
    BY <2>2, <2>3, AttendersStay DEF GuardInv, UnlockIsAgentless
<1>2. CASE TryLock(m) \/ Recheck(m)
  <2>1. CASE busy
    <3>1. /\ UNCHANGED <<busy, stateVars, workerVars>>
          /\ \E pc \in HandlerPcs : hpc' = [hpc EXCEPT ![m] = pc]
          /\ hpc[m] \in {"trylock", "recheck"}
      BY <1>2, <2>1, PlacesAndFates DEF TryLock, Recheck
    <3>2. \A v \in Msgs : InTurn(v) => InTurn(v)' /\ (Attends(v) => Attends(v)')
      BY <3>1 DEF InTurn, Attends, HoldingPcs, GuardInv, TypeInv, TypeOK, RefsOK
    <3>3. LockIsAttended' /\ NoOrphanQueue' /\ UnlockIsAgentless'
      BY <2>1, <3>1, <3>2 DEF GuardInv, LockIsAttended, NoOrphanQueue, UnlockIsAgentless
    <3> QED
      BY <3>3 DEF GuardInv
  <2>2. CASE ~busy
    <3>1. InTurn(m)' /\ Attends(m)'
      BY <1>2, <2>2 DEF TryLock, Recheck, InTurn, Attends, HoldingPcs, GuardInv, TypeInv, TypeOK
    <3>2. UnlockIsAgentless'
      BY <1>2, <2>2 DEF TryLock, Recheck, GuardInv, UnlockIsAgentless, TypeInv, TypeOK
    <3> QED
      BY <3>1, <3>2, SomeoneAttends
  <2> QED
    BY <2>1, <2>2
<1>3. CASE Accept(m)
  <2>1. InTurn(m)' /\ Attends(m)'
    BY <1>3 DEF Accept, InTurn, Attends, HoldingPcs, GuardInv, TypeInv, TypeOK
  <2>2. UnlockIsAgentless'
    BY <1>3, NewStateIsFree
    DEF Accept, Install, Unreferenced, GuardInv, UnlockIsAgentless, TypeInv, TypeOK
  <2> QED
    BY <2>1, <2>2, SomeoneAttends
<1>4. CASE Enqueue(m)
  <2>1. /\ hpc[m] = "enqueue" /\ UNCHANGED <<busy, cur, agent, workerVars>>
        /\ \/ UNCHANGED queue /\ hpc' = [hpc EXCEPT ![m] = "done"]
           \/ hpc' = [hpc EXCEPT ![m] = "recheck"]
    BY <1>4 DEF Enqueue, HandlerEnds
  <2>2. \A v \in Msgs : (InTurn(v) => InTurn(v)') /\ (Attends(v) => Attends(v)')
    BY <2>1 DEF InTurn, Attends, GuardInv, TypeInv, TypeOK
  <2>3. NoOrphanQueue'
    <3>1. CASE UNCHANGED queue
      BY <2>1, <2>2, <3>1 DEF GuardInv, NoOrphanQueue
    <3>2. CASE hpc' = [hpc EXCEPT ![m] = "recheck"]
      BY <3>2 DEF Attends, NoOrphanQueue, GuardInv, TypeInv, TypeOK
    <3> QED
      BY <2>1, <3>1, <3>2
  <2>4. LockIsAttended' /\ UnlockIsAgentless'
    BY <2>1, <2>2 DEF GuardInv, LockIsAttended, UnlockIsAgentless
  <2> QED
    BY <2>3, <2>4 DEF GuardInv
<1> QED
  BY <1>1, <1>2, <1>3, <1>4 DEF Handler

LEMMA WorkerGuardInv ==
    ASSUME GuardInv, TypeInv', NEW w \in Msgs, Worker(w)
    PROVE  GuardInv'
<1> USE DEF stateVars, handlerVars, workerVars, stopVars
<1>1. CASE OpenState(w)
  <2>1. InTurn(w)' /\ Attends(w)'
    BY <1>1 DEF OpenState, Install, InTurn, Attends, HoldingPcs, GuardInv, TypeInv, TypeOK
  <2>2. UnlockIsAgentless'
    BY <1>1, NewStateIsFree
    DEF OpenState, Install, Unreferenced, GuardInv, UnlockIsAgentless, TypeInv, TypeOK
  <2> QED
    BY <2>1, <2>2, SomeoneAttends
<1>2. CASE OrphanStart(w)
  <2>1. InTurn(w)' /\ Attends(w)'
    BY <1>2 DEF OrphanStart, InTurn, Attends, HoldingPcs, GuardInv, TypeInv, TypeOK
  <2>2. UnlockIsAgentless'
    BY <1>2 DEF OrphanStart, GuardInv, UnlockIsAgentless, TypeInv, TypeOK
  <2> QED
    BY <2>1, <2>2, SomeoneAttends
<1>3. CASE BeginTurn(w)
  <2>1. CASE agent[wref[w]] = "nil" /\ wpc' = [wpc EXCEPT ![w] = "unlock"]
    BY <1>3, <2>1, WorkerGoesOn DEF BeginTurn, HoldingPcs
  <2>2. CASE wpc' = [wpc EXCEPT ![w] = "wait"]
    BY <1>3, <2>2, WorkerGoesOn DEF BeginTurn, HoldingPcs
  <2> QED
    BY <1>3, <2>1, <2>2 DEF BeginTurn
<1>4. CASE Turn(w) \/ CloseDone(w) \/ Compress(w)
  <2>1. \E pc \in {"next", "command", "closing", "abandon", "drain"} : wpc' = [wpc EXCEPT ![w] = pc]
    BY <1>4 DEF Turn, TurnStopped, TurnResult, TurnError, TurnSendFailed, TurnChannelClosed,
         TurnTimeout, TearDown, CloseDone, Compress, CompressDone, CompressAborted, CompressLost
  <2>2. /\ wpc[w] \in {"wait", "closing", "abandon", "compress"}
        /\ UNCHANGED <<hpc, wref>>
        /\ busy' => busy
        /\ cur' \in {cur, NoState}
    BY <1>4 DEF Turn, TurnStopped, TurnResult, TurnError, TurnSendFailed, TurnChannelClosed,
         TurnTimeout, TearDown, CloseDone, Compress, CompressDone, CompressAborted, CompressLost
  <2>3. \A s \in States : agent'[s] = "live" => agent[s] = "live"
    BY <1>4 DEF Turn, TurnStopped, TurnResult, TurnError, TurnSendFailed, TurnChannelClosed,
         TurnTimeout, TearDown, CloseDone, Compress, CompressDone, CompressAborted, CompressLost,
         GuardInv, TypeInv, TypeOK
  <2>4. \A s \in States : queue[s] = <<>> => queue'[s] = <<>>
    BY <1>4 DEF Turn, TurnStopped, TurnResult, TurnError, TurnSendFailed, TurnChannelClosed,
         TurnTimeout, CloseDone, Compress, CompressDone, CompressAborted, CompressLost,
         DropQueue, GuardInv, TypeInv, TypeOK
  <2> QED
    BY <2>1, <2>2, <2>3, <2>4, WorkerGoesOn DEF HoldingPcs
<1>5. CASE NextQueued(w) \/ DrainTake(w)
  <2>1. \/ \E pc \in {"wait", "resend", "settle"} : wpc' = [wpc EXCEPT ![w] = pc]
        \/ wpc' = [wpc EXCEPT ![w] = "unlock"] /\ agent[wref[w]] # "live"
    BY <1>5 DEF NextQueued, DrainTake
  <2>2. /\ wpc[w] \in {"next", "drain"}
        /\ UNCHANGED <<hpc, wref, busy, cur, agent>>
    BY <1>5 DEF NextQueued, DrainTake
  <2>3. \A s \in States : queue[s] = <<>> => queue'[s] = <<>>
    <3>1. \A s \in States : s # wref[w] => queue'[s] = queue[s]
      BY <1>5 DEF NextQueued, DrainTake, TakeNext, GuardInv, TypeInv, TypeOK
    <3>2. queue[wref[w]] = <<>> => queue'[wref[w]] = <<>>
      <4> SUFFICES ASSUME queue[wref[w]] = <<>> PROVE queue'[wref[w]] = <<>>
        OBVIOUS
      <4>1. Len(queue[wref[w]]) = 0
        OBVIOUS
      <4>2. ~DrainTake(w)
        BY <4>1 DEF DrainTake
      <4>3. wref[w] \in States
        BY <2>2 DEF GuardInv, TypeInv, RefsOK, StatePcs
      <4> QED
        BY <1>5, <4>1, <4>2, <4>3 DEF NextQueued, GuardInv, TypeInv, TypeOK
    <3> QED
      BY <3>1, <3>2
  <2> QED
    BY <2>1, <2>2, <2>3, WorkerGoesOn DEF HoldingPcs
<1>6. CASE DrainEmpty(w)
  <2>1. wref[w] \in States
    BY <1>6 DEF DrainEmpty, GuardInv, TypeInv, RefsOK, StatePcs
  <2>2. queue'[wref[w]] = <<>> /\ \A s \in States : s # wref[w] => queue'[s] = queue[s]
    BY <1>6, <2>1 DEF DrainEmpty, GuardInv, TypeInv, TypeOK
  <2> QED
    BY <1>6, <2>2, WorkerUnlocks DEF DrainEmpty
<1>7. CASE DeferredUnlock(w)
  BY <1>7, WorkerUnlocks DEF DeferredUnlock
<1>8. CASE Waits(w)
  <2>1. \E pc \in {"wait", "ask", "drain", "compress"} : wpc' = [wpc EXCEPT ![w] = pc]
    BY <1>8 DEF Waits, Ask, Answered, SendReturned, CompressSent
  <2>2. /\ wpc[w] \in HoldingPcs \ {"open", "orphan"}
        /\ UNCHANGED <<hpc, wref, busy, cur, agent, queue>>
    BY <1>8 DEF Waits, Ask, Answered, SendReturned, CompressSent, HoldingPcs
  <2> QED
    BY <2>1, <2>2, WorkerGoesOn DEF HoldingPcs
<1>9. CASE CommandFails(w)
  <2>1. \E pc \in {"purge", "drain"} : wpc' = [wpc EXCEPT ![w] = pc]
    BY <1>9 DEF CommandFails, CompressSendFailed, PurgeDone
  <2>2. /\ wpc[w] \in HoldingPcs \ {"open", "orphan"}
        /\ UNCHANGED <<hpc, wref>>
        /\ busy' => busy
        /\ cur' \in {cur, NoState}
    BY <1>9 DEF CommandFails, CompressSendFailed, PurgeDone, HoldingPcs
  <2>3. \A s \in States : agent'[s] = "live" => agent[s] = "live"
    BY <1>9 DEF CommandFails, CompressSendFailed, PurgeDone, GuardInv, TypeInv, TypeOK
  <2>4. \A s \in States : queue[s] = <<>> => queue'[s] = <<>>
    BY <1>9 DEF CommandFails, CompressSendFailed, PurgeDone, DropQueue, GuardInv, TypeInv, TypeOK
  <2> QED
    BY <2>1, <2>2, <2>3, <2>4, WorkerGoesOn DEF HoldingPcs
<1> QED
  BY <1>1, <1>2, <1>3, <1>4, <1>5, <1>6, <1>7, <1>8, <1>9, WorkerSteps

LEMMA OutsideGuardInv ==
    ASSUME GuardInv, TypeInv', Stop \/ StopNotify \/ (\E s \in States : AgentDies(s))
    PROVE  GuardInv'
<1> USE DEF stateVars, handlerVars, workerVars, stopVars
<1>1. UNCHANGED <<busy, hpc, wpc, wref>> /\ cur' \in {cur, NoState}
  BY DEF Stop, StopNotify, AgentDies
<1>2. cur \in States \cup {NoState}
  BY DEF GuardInv, TypeInv, TypeOK
<1>3. \A s \in States : agent'[s] = "live" => agent[s] = "live"
  BY DEF Stop, StopNotify, AgentDies, GuardInv, TypeInv, TypeOK
<1>4. \A s \in States : queue[s] = <<>> => queue'[s] = <<>>
  BY DEF Stop, StopNotify, AgentDies, DropQueue, GuardInv, TypeInv, TypeOK
<1>5. UnlockIsAgentless'
  BY <1>1, <1>2, <1>3 DEF GuardInv, UnlockIsAgentless
<1> QED
  BY <1>1, <1>2, <1>3, <1>4, <1>5, AttendersStay DEF InTurn, Attends

LEMMA GuardInvariant == Spec => []GuardInv
<1>1. Init => GuardInv
  BY InitTypeInv DEF Init, GuardInv, UnlockIsAgentless, LockIsAttended, NoOrphanQueue
<1>2. ASSUME GuardInv, [Next]_vars PROVE GuardInv'
  <2>1. TypeInv'
    BY <1>2, NextTypeInv DEF GuardInv
  <2>2. CASE UNCHANGED vars
    BY <1>2, <2>1, <2>2 DEF GuardInv, UnlockIsAgentless, LockIsAttended, NoOrphanQueue, InTurn, Attends,
       vars, stateVars, handlerVars, workerVars, stopVars
  <2> QED
    BY <1>2, <2>1, <2>2, HandlerGuardInv, WorkerGuardInv, OutsideGuardInv DEF Next
<1> QED
  BY <1>1, <1>2, PTL DEF Spec

(* The second TryLock of handleMessage closes the race between an enqueue  *)
(* and the end of the turn: a message queued for a live agent always has a *)
(* worker at its queue or on the way to it, or a handler that is about to  *)
(* try the lock; also while a compress leaves the session unlocked.        *)
THEOREM RaceGuard == Spec => []NoOrphanQueue
<1>1. GuardInv => NoOrphanQueue
  BY DEF GuardInv
<1> QED
  BY GuardInvariant, <1>1, PTL

(* A session that is locked is locked by somebody who is still at work,    *)
(* although a compress unlocks what others have locked: no order of locks  *)
(* and doubled unlocks leaves a conversation busy for ever.                *)
THEOREM BusyHasHolder == Spec => [](busy => \E m \in Msgs : InTurn(m))
<1>1. GuardInv => (busy => \E m \in Msgs : InTurn(m))
  BY DEF GuardInv, LockIsAttended
<1> QED
  BY GuardInvariant, <1>1, PTL

-----------------------------------------------------------------------------
(***************************************************************************)
(* What becomes of the messages of TurnQueue: each waits in one place and  *)
(* is settled once.  None of it needs the session lock, so it also holds   *)
(* of turns that compress, where the lock fails.                           *)
(***************************************************************************)

Queued(m) == \E s \in States : m \in ToSet(queue[s])
Served(m) == \E w \in Msgs : wmsg[w] = m

(* No message is at two positions. *)
OnePlace ==
    \A s, t \in States : \A i \in DOMAIN queue[s], j \in DOMAIN queue[t] :
        queue[s][i] = queue[t][j] => s = t /\ i = j

(* Where the handler of a message has not told its fate. *)
UnseenPcs == {"new", "trylock", "accept", "lookup", "enqueue"}

(* Where a worker has a message that is not settled, and where none. *)
ServingPcs == {"open", "begin", "wait", "ask", "resend"}
EmptyPcs   == {"idle", "orphan", "done"}

FateInv ==
    /\ OnePlace
    /\ \A m \in Msgs : Queued(m) => fate[m] = "queued" /\ ~Served(m)
    /\ \A m \in Msgs : hpc[m] \in UnseenPcs => fate[m] = "none" /\ ~Served(m)
    /\ \A w \in Msgs : wpc[w] \in EmptyPcs => wmsg[w] = NoMsg
    /\ \A w \in Msgs : wpc[w] \in ServingPcs => wmsg[w] \in Msgs /\ fate[wmsg[w]] \in OpenFates
    /\ \A v, w \in Msgs : wmsg[v] = wmsg[w] /\ wmsg[v] # NoMsg => v = w

(* A step settles no message again. *)
KeepsFinal == \A m \in Msgs : fate[m] \in FinalFates => fate'[m] = fate[m]

-----------------------------------------------------------------------------
USE TimeAssumption, NullAssumption, MaxQueuedAssumption, AutoCompressAssumption,
    MaxStopsAssumption

(* Taking the first d messages off a queue leaves the others where they    *)
(* are, and those d nowhere.                                               *)
LEMMA TakeOff ==
    ASSUME queue \in [States -> Queues], OnePlace, NEW s \in States,
           NEW d \in 0 .. Len(queue[s]),
           queue' = [queue EXCEPT ![s] = SubSeq(queue[s], d + 1, Len(queue[s]))]
    PROVE  /\ OnePlace'
           /\ \A m \in Msgs : Queued(m)' => Queued(m)
           /\ \A m \in Msgs, j \in 1 .. d : m = queue[s][j] => ~Queued(m)'
<1> DEFINE q == queue[s]
<1>1. /\ q \in Seq(Msgs)
      /\ queue'[s] \in Seq(Msgs)
      /\ Len(queue'[s]) = Len(q) - d
      /\ \A i \in 1 .. Len(q) - d : queue'[s][i] = q[i + d]
  BY DEF Queues
<1>2. \A t \in States : t # s => queue'[t] = queue[t]
  OBVIOUS
<1>3. \A t \in States : queue[t] \in Seq(Msgs)
  BY DEF Queues
<1>4. ASSUME NEW t \in States, NEW i \in DOMAIN queue'[t]
      PROVE  \E k \in DOMAIN queue[t] :
                k = (IF t = s THEN i + d ELSE i) /\ queue'[t][i] = queue[t][k]
  <2>1. CASE t = s
    <3>1. i \in 1 .. Len(q) - d /\ i + d \in DOMAIN queue[t]
      BY <1>1, <1>4, <2>1
    <3> QED
      BY <1>1, <2>1, <3>1
  <2>2. CASE t # s
    BY <1>2, <1>4, <2>2
  <2> QED
    BY <2>1, <2>2
<1>5. \A t \in States : DOMAIN queue'[t] \subseteq Nat
  BY <1>1, <1>2, <1>3
<1>6. OnePlace'
  <2> SUFFICES ASSUME NEW t \in States, NEW u \in States,
                      NEW i \in DOMAIN queue'[t], NEW j \in DOMAIN queue'[u],
                      queue'[t][i] = queue'[u][j]
               PROVE  t = u /\ i = j
    BY DEF OnePlace
  <2> QED
    BY <1>4, <1>5 DEF OnePlace
<1>7. \A m \in Msgs : Queued(m)' => Queued(m)
  BY <1>4 DEF Queued, ToSet
<1>8. ASSUME NEW m \in Msgs, NEW j \in 1 .. d, m = q[j], Queued(m)' PROVE FALSE
  <2>0. PICK t \in States : m \in ToSet(queue'[t])
    BY <1>8 DEF Queued
  <2>1. PICK i \in DOMAIN queue'[t] : queue'[t][i] = m
    BY <2>0 DEF ToSet
  <2>2. PICK k \in DOMAIN queue[t] :
            k = (IF t = s THEN i + d ELSE i) /\ queue'[t][i] = queue[t][k]
    BY <1>4
  <2>3. j \in DOMAIN q
    BY <1>1
  <2>4. t = s /\ k = j
    <3>1. queue[t][k] = queue[s][j] /\ k \in DOMAIN queue[t] /\ j \in DOMAIN queue[s]
      BY <1>8, <2>1, <2>2, <2>3
    <3> HIDE DEF q
    <3> QED
      BY <3>1 DEF OnePlace
  <2>5. i \in 1 .. Len(q) - d
    BY <1>1, <2>4
  <2> QED
    BY <2>2, <2>4, <2>5
<1> QED
  BY <1>6, <1>7, <1>8

(* Dropping the whole queue of a state: the messages in it are told, and   *)
(* are nowhere, and the others are as before, with the fates f.            *)
LEMMA Drops ==
    ASSUME queue \in [States -> Queues], OnePlace, NEW s \in States, NEW f,
           DropQueue(s, f)
    PROVE  /\ OnePlace'
           /\ \A m \in Msgs : Queued(m)' => Queued(m) /\ m \notin ToSet(queue[s])
           /\ \A m \in Msgs : fate'[m] = IF m \in ToSet(queue[s]) THEN "told" ELSE f[m]
<1>1. queue[s] \in Seq(Msgs)
  BY DEF Queues
<1>2. SubSeq(queue[s], Len(queue[s]) + 1, Len(queue[s])) = <<>>
  BY <1>1
<1>3. queue' = [queue EXCEPT ![s] = SubSeq(queue[s], Len(queue[s]) + 1, Len(queue[s]))]
  BY <1>2 DEF DropQueue
<1>4. Len(queue[s]) \in 0 .. Len(queue[s])
  BY <1>1
<1>5. /\ OnePlace'
      /\ \A m \in Msgs : Queued(m)' => Queued(m)
      /\ \A m \in Msgs, j \in 1 .. Len(queue[s]) : m = queue[s][j] => ~Queued(m)'
  BY <1>3, <1>4, TakeOff
<1>6. \A m \in ToSet(queue[s]) : \E j \in 1 .. Len(queue[s]) : m = queue[s][j]
  BY <1>1 DEF ToSet
<1> QED
  BY <1>5, <1>6 DEF DropQueue, Settle

(* A message that is nowhere is appended to one queue. *)
LEMMA Appends ==
    ASSUME queue \in [States -> Queues], OnePlace, NEW s \in States, NEW m \in Msgs,
           ~Queued(m), queue' = [queue EXCEPT ![s] = Append(@, m)]
    PROVE  /\ OnePlace'
           /\ \A x \in Msgs : Queued(x)' => Queued(x) \/ x = m
<1>1. \A t \in States : queue[t] \in Seq(Msgs)
  BY DEF Queues
<1>2. /\ queue'[s] = Append(queue[s], m)
      /\ \A t \in States : t # s => queue'[t] = queue[t]
  OBVIOUS
<1>3. /\ DOMAIN queue'[s] = 1 .. Len(queue[s]) + 1
      /\ \A i \in 1 .. Len(queue[s]) : queue'[s][i] = queue[s][i]
      /\ queue'[s][Len(queue[s]) + 1] = m
      /\ DOMAIN queue[s] = 1 .. Len(queue[s]) /\ Len(queue[s]) \in Nat
  BY <1>1, <1>2
<1>4. ASSUME NEW t \in States, NEW i \in DOMAIN queue'[t]
      PROVE  \/ i \in DOMAIN queue[t] /\ queue'[t][i] = queue[t][i] /\ queue'[t][i] # m
             \/ t = s /\ i = Len(queue[s]) + 1 /\ queue'[t][i] = m
  BY <1>2, <1>3, <1>4 DEF Queued, ToSet
<1>5. OnePlace'
  <2> SUFFICES ASSUME NEW t \in States, NEW u \in States,
                      NEW i \in DOMAIN queue'[t], NEW j \in DOMAIN queue'[u],
                      queue'[t][i] = queue'[u][j]
               PROVE  t = u /\ i = j
    BY DEF OnePlace
  <2> QED
    BY <1>4 DEF OnePlace
<1>6. \A x \in Msgs : Queued(x)' => Queued(x) \/ x = m
  BY <1>4 DEF Queued, ToSet
<1> QED
  BY <1>5, <1>6

(* A new state takes over the queue of the entry, which gives it up. *)
LEMMA Inherits ==
    ASSUME StatesOK, OnePlace, NEW s \in States, Unreferenced(s), NEW a, NEW t,
           Install(s, a, IF cur = NoState THEN <<>> ELSE queue[cur], t)
    PROVE  /\ OnePlace'
           /\ \A x \in Msgs : Queued(x)' => Queued(x)
           /\ queue'[s] = IF cur = NoState THEN <<>> ELSE queue[cur]
<1>1. s # cur /\ queue[s] = <<>>
  BY DEF Unreferenced
<1>2. queue' = [x \in States |-> IF x = s THEN IF cur = NoState THEN <<>> ELSE queue[cur]
                                 ELSE IF x = cur THEN <<>> ELSE queue[x]]
  BY DEF Install
<1> DEFINE from(x) == IF x = s THEN cur ELSE x
<1>3. DOMAIN <<>> = {}
  OBVIOUS
<1>4. ASSUME NEW x \in States, NEW i \in DOMAIN queue'[x]
      PROVE  /\ from(x) \in States
             /\ queue'[x] = queue[from(x)]
             /\ x = s \/ x # cur
  BY <1>1, <1>2, <1>3, <1>4 DEF StatesOK
<1>5. OnePlace'
  <2> SUFFICES ASSUME NEW x \in States, NEW y \in States,
                      NEW i \in DOMAIN queue'[x], NEW j \in DOMAIN queue'[y],
                      queue'[x][i] = queue'[y][j]
               PROVE  x = y /\ i = j
    BY DEF OnePlace
  <2>1. from(x) = from(y) /\ i = j
    <3>1. from(x) \in States /\ from(y) \in States
          /\ queue'[x] = queue[from(x)] /\ queue'[y] = queue[from(y)]
      BY <1>4
    <3> HIDE DEF from
    <3> QED
      BY <3>1 DEF OnePlace
  <2>2. (x = s \/ x # cur) /\ (y = s \/ y # cur)
    BY <1>4
  <2> QED
    BY <2>1, <2>2
<1>6. \A x \in Msgs : Queued(x)' => Queued(x)
  BY <1>4 DEF Queued, ToSet
<1> QED
  BY <1>2, <1>5, <1>6

-----------------------------------------------------------------------------
(***************************************************************************)
(* The steps of a worker.                                                  *)
(***************************************************************************)

(* A step of worker w that only settles messages that waited or the one it *)
(* serves, and only takes one that waited.                                 *)
LEMMA WorkerSettles ==
    ASSUME FateInv, TypeInv, TypeInv', NEW w \in Msgs, wpc[w] \in HoldingPcs,
           UNCHANGED hpc,
           \A v \in Msgs : v # w => wpc'[v] = wpc[v] /\ wmsg'[v] = wmsg[v],
           OnePlace',
           \A m \in Msgs : Queued(m)' => Queued(m) /\ fate'[m] = fate[m] /\ wmsg'[w] # m,
           \A m \in Msgs : \/ fate'[m] = fate[m]
                           \/ Queued(m)
                           \/ m = wmsg[w] /\ wpc[w] \in ServingPcs,
           wmsg'[w] \in {wmsg[w], NoMsg} \/ Queued(wmsg'[w]),
           wpc'[w] \in EmptyPcs => wmsg'[w] = NoMsg,
           wpc'[w] \in ServingPcs => wmsg'[w] \in Msgs /\ fate'[wmsg'[w]] \in OpenFates
    PROVE  FateInv' /\ KeepsFinal
<1> USE DEF FateInv
<1>1. hpc[w] = "done"
  BY DEF TypeInv, RefsOK, HoldingPcs
<1>2. \A m \in Msgs : Served(m)' => Served(m) \/ (m = wmsg'[w] /\ Queued(m))
  BY DEF Served
<1>3. \A m \in Msgs : Queued(m)' => fate'[m] = "queued" /\ ~Served(m)'
  BY DEF Served
<1>4. \A m \in Msgs : hpc'[m] \in UnseenPcs => fate'[m] = "none" /\ ~Served(m)'
  <2> SUFFICES ASSUME NEW m \in Msgs, hpc[m] \in UnseenPcs
               PROVE  fate'[m] = "none" /\ ~Served(m)'
    OBVIOUS
  <2>1. fate[m] = "none" /\ ~Served(m)
    OBVIOUS
  <2>2. ~Queued(m)
    BY <2>1
  <2>3. m # wmsg[w]
    BY <2>1 DEF Served
  <2> QED
    BY <1>2, <2>1, <2>2, <2>3
<1>5. \A v \in Msgs : wpc'[v] \in EmptyPcs => wmsg'[v] = NoMsg
  OBVIOUS
<1>6. \A u, v \in Msgs : wmsg'[u] = wmsg'[v] /\ wmsg'[u] # NoMsg => u = v
  BY DEF Served, TypeInv, TypeOK
<1>7. \A v \in Msgs : wpc'[v] \in ServingPcs
                        => wmsg'[v] \in Msgs /\ fate'[wmsg'[v]] \in OpenFates
  <2> SUFFICES ASSUME NEW v \in Msgs, v # w, wpc[v] \in ServingPcs
               PROVE  wmsg'[v] \in Msgs /\ fate'[wmsg'[v]] \in OpenFates
    OBVIOUS
  <2>1. wmsg'[v] = wmsg[v] /\ wmsg[v] \in Msgs /\ fate[wmsg[v]] \in OpenFates
    OBVIOUS
  <2>2. ~Queued(wmsg[v])
    BY <2>1 DEF Served
  <2>3. wmsg[v] # wmsg[w]
    BY <2>1
  <2> QED
    BY <2>1, <2>2, <2>3
<1>8. KeepsFinal
  BY DEF KeepsFinal, OpenFates, FinalFates
<1> HIDE DEF FateInv
<1> QED
  BY <1>3, <1>4, <1>5, <1>6, <1>7, <1>8 DEF FateInv

(* A worker that keeps the message it has, with or without dropping the    *)
(* queue of its state.                                                     *)
LEMMA WorkerKeeps ==
    ASSUME FateInv, TypeInv, TypeInv', NEW w \in Msgs, wpc[w] \in HoldingPcs,
           UNCHANGED <<hpc, wmsg>>,
           NEW pc \in HoldingPcs, wpc' = [wpc EXCEPT ![w] = pc],
           pc = "orphan" => wpc[w] = "orphan",
           pc \in ServingPcs => wpc[w] \in ServingPcs /\ fate' = fate,
           NEW f, \A m \in Msgs : f[m] = fate[m] \/ (m = wmsg[w] /\ wpc[w] \in ServingPcs),
           \/ UNCHANGED queue /\ \A m \in Msgs : fate'[m] = f[m]
           \/ \E s \in States : DropQueue(s, f)
    PROVE  FateInv' /\ KeepsFinal
<1>1. /\ OnePlace'
      /\ \A m \in Msgs : Queued(m)' => Queued(m) /\ fate'[m] = f[m]
      /\ \A m \in Msgs : fate'[m] = f[m] \/ Queued(m)
  <2>1. CASE UNCHANGED queue /\ \A m \in Msgs : fate'[m] = f[m]
    BY <2>1 DEF FateInv, OnePlace, Queued
  <2>2. CASE \E s \in States : DropQueue(s, f)
    BY <2>2, Drops DEF FateInv, TypeInv, TypeOK, Queued
  <2> QED
    BY <2>1, <2>2
<1>2. \A m \in Msgs : Queued(m) => m # wmsg[w] /\ f[m] = fate[m]
  BY DEF FateInv, Served
<1>3. wpc'[w] = pc /\ \A v \in Msgs : v # w => wpc'[v] = wpc[v]
  BY DEF TypeInv, TypeOK
<1>4. wpc'[w] \in EmptyPcs => wmsg'[w] = NoMsg
  BY <1>3 DEF FateInv, EmptyPcs, HoldingPcs
<1>5. wpc'[w] \in ServingPcs => wmsg'[w] \in Msgs /\ fate'[wmsg'[w]] \in OpenFates
  BY <1>3 DEF FateInv
<1>6. \A m \in Msgs : \/ fate'[m] = fate[m]
                      \/ Queued(m)
                      \/ m = wmsg[w] /\ wpc[w] \in ServingPcs
  BY <1>1 DEF ServingPcs
<1>7. \A m \in Msgs : Queued(m)' => Queued(m) /\ fate'[m] = fate[m] /\ wmsg'[w] # m
  BY <1>1, <1>2
<1> QED
  BY <1>1, <1>3, <1>4, <1>5, <1>6, <1>7, WorkerSettles

LEMMA StartFate ==
    ASSUME FateInv, TypeInv, TypeInv', NEW w \in Msgs,
           OpenState(w) \/ BeginTurn(w) \/ OrphanStart(w)
    PROVE  FateInv' /\ KeepsFinal
<1> USE DEF stateVars, handlerVars, workerVars, stopVars
<1>1. CASE OpenState(w)
  <2>1. /\ wpc[w] = "open" /\ wpc' = [wpc EXCEPT ![w] = "begin"]
        /\ UNCHANGED <<hpc, wmsg, fate>>
    BY <1>1 DEF OpenState
  <2>2. OnePlace' /\ \A m \in Msgs : Queued(m)' => Queued(m)
    <3>1. CASE UNCHANGED queue
      BY <3>1 DEF FateInv, OnePlace, Queued
    <3>2. CASE \E s \in States : Unreferenced(s) /\ ~UNCHANGED queue
      <4>1. PICK a : Install(NewState, a, IF cur = NoState THEN <<>> ELSE queue[cur], 0)
        BY <1>1, <3>2 DEF OpenState
      <4> QED
        BY <3>2, <4>1, NewStateIsFree, Inherits DEF FateInv, TypeInv, TypeOK, StatesOK
    <3> QED
      BY <1>1, <3>1, <3>2 DEF OpenState
  <2>3. wpc[w] \in HoldingPcs /\ wpc[w] \in ServingPcs /\ "begin" \notin EmptyPcs
    BY <2>1 DEF HoldingPcs, ServingPcs, EmptyPcs
  <2>4. wpc'[w] = "begin" /\ \A v \in Msgs : v # w => wpc'[v] = wpc[v]
    BY <2>1 DEF TypeInv, TypeOK
  <2>5. \A m \in Msgs : Queued(m)' => Queued(m) /\ fate'[m] = fate[m] /\ wmsg'[w] # m
    BY <2>1, <2>2 DEF FateInv, Served
  <2>6. wmsg'[w] \in Msgs /\ fate'[wmsg'[w]] \in OpenFates
    BY <2>1, <2>3 DEF FateInv
  <2> QED
    BY <2>1, <2>2, <2>3, <2>4, <2>5, <2>6, WorkerSettles
<1>2. CASE BeginTurn(w)
  <2>1. CASE fate' = [fate EXCEPT ![wmsg[w]] = "told"] /\ wpc' = [wpc EXCEPT ![w] = "unlock"]
    <3>1. \A m \in Msgs : fate'[m] = fate[m] \/ m = wmsg[w]
      BY <2>1 DEF TypeInv, TypeOK
    <3>2. wpc[w] \in HoldingPcs /\ wpc[w] \in ServingPcs
      BY <1>2 DEF BeginTurn, HoldingPcs, ServingPcs
    <3>3. "unlock" \in HoldingPcs /\ "unlock" \notin ServingPcs
      BY DEF HoldingPcs, ServingPcs
    <3>4. UNCHANGED <<hpc, wmsg, queue>>
      BY <1>2 DEF BeginTurn
    <3> QED
      BY <2>1, <3>1, <3>2, <3>3, <3>4, WorkerKeeps
  <2>2. CASE UNCHANGED fate /\ wpc' = [wpc EXCEPT ![w] = "wait"]
    <3>1. UNCHANGED <<hpc, wmsg, queue, fate>> /\ wpc[w] = "begin"
      BY <1>2, <2>2 DEF BeginTurn
    <3>2. wpc[w] \in HoldingPcs /\ wpc[w] \in ServingPcs /\ "wait" \in HoldingPcs
      BY <3>1 DEF HoldingPcs, ServingPcs
    <3> QED
      BY <2>2, <3>1, <3>2, WorkerKeeps
  <2> QED
    BY <1>2, <2>1, <2>2 DEF BeginTurn
<1>3. CASE OrphanStart(w)
  <2>1. PICK pc \in {"drain", "unlock"} : wpc' = [wpc EXCEPT ![w] = pc]
    BY <1>3 DEF OrphanStart
  <2>2. UNCHANGED <<hpc, wmsg>> /\ wpc[w] = "orphan"
    BY <1>3 DEF OrphanStart
  <2>3. wpc[w] \in HoldingPcs /\ pc \in HoldingPcs /\ pc \notin ServingPcs /\ pc # "orphan"
    BY <2>2 DEF HoldingPcs, ServingPcs
  <2>4. \/ UNCHANGED queue /\ \A m \in Msgs : fate'[m] = fate[m]
        \/ \E s \in States : DropQueue(s, fate)
    BY <1>3 DEF OrphanStart, TypeInv, TypeOK
  <2> QED
    BY <2>1, <2>2, <2>3, <2>4, WorkerKeeps
<1> QED
  BY <1>1, <1>2, <1>3

(* The end of a turn: its message is settled, and perhaps those in the     *)
(* queue are told.                                                         *)
LEMMA TurnFate ==
    ASSUME FateInv, TypeInv, TypeInv', NEW w \in Msgs, Turn(w)
    PROVE  FateInv' /\ KeepsFinal
<1> USE DEF stateVars, handlerVars, workerVars, stopVars
<1>1. wpc[w] = "wait" /\ UNCHANGED <<hpc, wmsg>>
  BY DEF Turn, TurnStopped, TurnResult, TurnError, TurnSendFailed, TurnChannelClosed,
         TurnTimeout
<1>2. PICK pc \in {"next", "command", "drain", "closing"} : wpc' = [wpc EXCEPT ![w] = pc]
  BY DEF Turn, TurnStopped, TurnResult, TurnError, TurnSendFailed, TurnChannelClosed,
         TurnTimeout, TearDown
<1>3. /\ wpc[w] \in HoldingPcs /\ wpc[w] \in ServingPcs
      /\ pc \in HoldingPcs /\ pc \notin ServingPcs /\ pc # "orphan"
  BY <1>1 DEF HoldingPcs, ServingPcs
<1>4. wref[w] \in States /\ wmsg[w] \in Msgs /\ fate \in [Msgs -> Fates]
  BY <1>1, <1>3 DEF FateInv, TypeInv, TypeOK, RefsOK, StatePcs
<1>5. \E v : \/ /\ UNCHANGED queue
                /\ fate' = [fate EXCEPT ![wmsg[w]] = v] \/ fate' = Settle(fate, {wmsg[w]}, v)
             \/ DropQueue(wref[w], Settle(fate, {wmsg[w]}, v))
  <2>1. CASE TurnStopped(w)
    BY <2>1 DEF TurnStopped
  <2>2. CASE TurnResult(w)
    BY <2>2 DEF TurnResult
  <2>3. CASE TurnError(w)
    BY <2>3 DEF TurnError
  <2>4. CASE TurnSendFailed(w)
    BY <2>4 DEF TurnSendFailed
  <2>5. CASE TurnChannelClosed(w)
    BY <2>5 DEF TurnChannelClosed
  <2>6. CASE TurnTimeout(w)
    BY <2>6 DEF TurnTimeout
  <2> QED
    BY <2>1, <2>2, <2>3, <2>4, <2>5, <2>6 DEF Turn
<1>6. PICK v : \/ /\ UNCHANGED queue
                  /\ fate' = [fate EXCEPT ![wmsg[w]] = v] \/ fate' = Settle(fate, {wmsg[w]}, v)
               \/ DropQueue(wref[w], Settle(fate, {wmsg[w]}, v))
  BY <1>5
<1> DEFINE f == Settle(fate, {wmsg[w]}, v)
<1>7. \A m \in Msgs : f[m] = IF m = wmsg[w] THEN v ELSE fate[m]
  BY DEF Settle
<1>8. \/ UNCHANGED queue /\ \A m \in Msgs : fate'[m] = f[m]
      \/ \E s \in States : DropQueue(s, f)
  BY <1>4, <1>6, <1>7
<1> HIDE DEF f
<1> QED
  BY <1>1, <1>2, <1>3, <1>7, <1>8, WorkerKeeps

(* The messages of a queue, and of what is left of it behind position k. *)
LEMMA Elements ==
    ASSUME NEW q \in Seq(Msgs)
    PROVE  /\ Len(q) \in Nat /\ DOMAIN q = 1 .. Len(q)
           /\ \A j \in 1 .. Len(q) : q[j] \in Msgs /\ q[j] \in ToSet(q)
           /\ \A x \in ToSet(q) : \E j \in 1 .. Len(q) : x = q[j]
           /\ \A k \in 1 .. Len(q) :
                /\ \A x \in ToSet(SubSeq(q, k + 1, Len(q))) :
                        \E j \in k + 1 .. Len(q) : x = q[j]
                /\ \A j \in k + 1 .. Len(q) : q[j] \in ToSet(SubSeq(q, k + 1, Len(q)))
<1>1. ASSUME NEW k \in 1 .. Len(q)
      PROVE  /\ \A x \in ToSet(SubSeq(q, k + 1, Len(q))) :
                    \E j \in k + 1 .. Len(q) : x = q[j]
             /\ \A j \in k + 1 .. Len(q) : q[j] \in ToSet(SubSeq(q, k + 1, Len(q)))
  <2> DEFINE r == SubSeq(q, k + 1, Len(q))
  <2>1. /\ DOMAIN r = 1 .. Len(q) - k
        /\ \A i \in 1 .. Len(q) - k : r[i] = q[i + k]
    <3>1. k \in Nat /\ k + 1 \in Nat /\ Len(q) \in Nat /\ k <= Len(q)
      OBVIOUS
    <3>2. DOMAIN r = 1 .. Len(q) - (k + 1) + 1
      BY <3>1
    <3>3. \A i \in 1 .. Len(q) - (k + 1) + 1 : r[i] = q[(k + 1) + i - 1]
      BY <3>1
    <3>4. Len(q) - (k + 1) + 1 = Len(q) - k /\ \A i \in Nat : (k + 1) + i - 1 = i + k
      BY <3>1
    <3> HIDE DEF r
    <3> QED
      BY <3>2, <3>3, <3>4
  <2>2. \A x \in ToSet(r) : \E j \in k + 1 .. Len(q) : x = q[j]
    <3>1. \A i \in 1 .. Len(q) - k : i + k \in k + 1 .. Len(q)
      OBVIOUS
    <3> HIDE DEF r
    <3> QED
      BY <2>1, <3>1 DEF ToSet
  <2>3. \A j \in k + 1 .. Len(q) : q[j] \in ToSet(r)
    <3>1. \A j \in k + 1 .. Len(q) : j - k \in 1 .. Len(q) - k /\ (j - k) + k = j
      OBVIOUS
    <3>2. \A j \in k + 1 .. Len(q) : j - k \in DOMAIN r /\ r[j - k] = q[j]
      BY <2>1, <3>1
    <3> HIDE DEF r
    <3> QED
      BY <3>2 DEF ToSet
  <2> QED
    BY <2>2, <2>3
<1>2. Len(q) \in Nat /\ DOMAIN q = 1 .. Len(q) /\ \A j \in 1 .. Len(q) : q[j] \in Msgs
  OBVIOUS
<1>3. ToSet(q) = {q[j] : j \in 1 .. Len(q)}
  BY <1>2 DEF ToSet
<1>4. /\ \A j \in 1 .. Len(q) : q[j] \in ToSet(q)
      /\ \A x \in ToSet(q) : \E j \in 1 .. Len(q) : x = q[j]
  BY <1>3
<1> QED
  BY <1>1, <1>2, <1>4

(* A worker takes the message at position k and, with it, the first d off  *)
(* the queue; of those only the others are settled, or all of them when    *)
(* the agent is gone.                                                      *)
LEMMA TakesFate ==
    ASSUME FateInv, TypeInv, TypeInv', NEW w \in Msgs, wpc[w] \in {"next", "drain"},
           NEW s \in States, NEW k \in 1 .. Len(queue[s]), NEW d \in k .. Len(queue[s]),
           queue' = [queue EXCEPT ![s] = SubSeq(queue[s], d + 1, Len(queue[s]))],
           wmsg' = [wmsg EXCEPT ![w] = queue[s][k]],
           \A m \in Msgs : fate'[m] = fate[m] \/ \E j \in 1 .. d : m = queue[s][j],
           \/ /\ \E pc \in {"wait", "resend"} : wpc' = [wpc EXCEPT ![w] = pc]
              /\ fate'[queue[s][k]] = fate[queue[s][k]]
           \/ wpc' = [wpc EXCEPT ![w] = "unlock"],
           UNCHANGED hpc
    PROVE  FateInv' /\ KeepsFinal
<1>1. queue \in [States -> Queues] /\ queue[s] \in Seq(Msgs)
  BY DEF TypeInv, TypeOK, Queues
<1>2. d \in 0 .. Len(queue[s]) /\ 1 .. d \subseteq 1 .. Len(queue[s]) /\ k \in 1 .. d
  BY <1>1
<1>3. /\ OnePlace'
      /\ \A m \in Msgs : Queued(m)' => Queued(m)
      /\ \A m \in Msgs, j \in 1 .. d : m = queue[s][j] => ~Queued(m)'
  BY <1>1, <1>2, TakeOff DEF FateInv
<1>4. \A j \in 1 .. d : queue[s][j] \in Msgs /\ Queued(queue[s][j])
  <2>1. \A j \in 1 .. d : queue[s][j] \in Msgs /\ queue[s][j] \in ToSet(queue[s])
    BY <1>1, <1>2, Elements
  <2> QED
    BY <2>1 DEF Queued
<1>5. /\ wmsg'[w] = queue[s][k]
      /\ \A v \in Msgs : v # w => wpc'[v] = wpc[v] /\ wmsg'[v] = wmsg[v]
      /\ wpc'[w] = "unlock" \/ (wpc'[w] \in {"wait", "resend"} /\ fate'[queue[s][k]] = fate[queue[s][k]])
  <2>1. wpc \in [Msgs -> WorkerPcs] /\ wmsg \in [Msgs -> Msgs \cup {NoMsg}]
    BY DEF TypeInv, TypeOK
  <2>2. \E pc \in {"wait", "resend", "unlock"} : wpc' = [wpc EXCEPT ![w] = pc]
    OBVIOUS
  <2>3. wmsg'[w] = queue[s][k] /\ \A v \in Msgs : v # w => wmsg'[v] = wmsg[v]
    BY <2>1
  <2>4. \A v \in Msgs : v # w => wpc'[v] = wpc[v]
    BY <2>1, <2>2
  <2>5. wpc'[w] = "unlock" \/ (wpc'[w] \in {"wait", "resend"} /\ fate'[queue[s][k]] = fate[queue[s][k]])
    BY <2>1
  <2> QED
    BY <2>3, <2>4, <2>5
<1>6. \A m \in Msgs : Queued(m)' => Queued(m) /\ fate'[m] = fate[m] /\ wmsg'[w] # m
  BY <1>2, <1>3, <1>5
<1>7. \A m \in Msgs : fate'[m] = fate[m] \/ Queued(m)
  BY <1>4
<1>8. wpc'[w] \notin EmptyPcs
  BY <1>5 DEF EmptyPcs
<1>9. wpc'[w] \in ServingPcs => wmsg'[w] \in Msgs /\ fate'[wmsg'[w]] \in OpenFates
  BY <1>2, <1>4, <1>5 DEF FateInv, ServingPcs, OpenFates
<1>10. wpc[w] \in HoldingPcs
  BY DEF HoldingPcs
<1>11. Queued(wmsg'[w])
  BY <1>2, <1>4, <1>5
<1> QED
  BY <1>3, <1>5, <1>6, <1>7, <1>8, <1>9, <1>10, <1>11, WorkerSettles

(* The next message that is not stale is taken, the stale ones before it   *)
(* are superseded, and those behind it stay.                               *)
LEMMA TakesNext ==
    ASSUME FateInv, TypeInv, TypeInv', NEW w \in Msgs, wpc[w] \in {"next", "drain"},
           NEW s \in States, NEW k \in 1 .. Len(queue[s]),
           TakeNext(w, s, queue[s][k], SubSeq(queue[s], k + 1, Len(queue[s]))),
           fate' = Settle(fate, StaleHeads(s, k), "superseded"),
           \E pc \in {"wait", "resend"} : wpc' = [wpc EXCEPT ![w] = pc], UNCHANGED hpc
    PROVE  FateInv' /\ KeepsFinal
<1>1. queue[s] \in Seq(Msgs)
  BY DEF TypeInv, TypeOK, Queues
<1>2. /\ k \in k .. Len(queue[s]) /\ 1 .. k - 1 \subseteq 1 .. k
      /\ \A j \in 1 .. k - 1 : j \in DOMAIN queue[s] /\ j # k
      /\ k \in DOMAIN queue[s] /\ queue[s][k] \in Msgs
  <2>1. /\ Len(queue[s]) \in Nat /\ DOMAIN queue[s] = 1 .. Len(queue[s])
        /\ \A j \in 1 .. Len(queue[s]) : queue[s][j] \in Msgs
    BY <1>1
  <2>2. k \in k .. Len(queue[s]) /\ 1 .. k - 1 \subseteq 1 .. k
    BY <2>1
  <2>3. \A j \in 1 .. k - 1 : j \in 1 .. Len(queue[s]) /\ j # k
    BY <2>1
  <2> QED
    BY <2>1, <2>2, <2>3
<1>3. \A m \in Msgs : fate'[m] = fate[m] \/ \E j \in 1 .. k : m = queue[s][j]
  BY <1>2 DEF Settle, StaleHeads
<1>4. \A j \in 1 .. k - 1 : queue[s][j] # queue[s][k]
  BY <1>2 DEF FateInv, OnePlace
<1>5. fate'[queue[s][k]] = fate[queue[s][k]]
  BY <1>2, <1>4 DEF Settle, StaleHeads
<1>6. /\ queue' = [queue EXCEPT ![s] = SubSeq(queue[s], k + 1, Len(queue[s]))]
      /\ wmsg' = [wmsg EXCEPT ![w] = queue[s][k]]
  BY DEF TakeNext
<1> QED
  BY <1>2, <1>3, <1>5, <1>6, TakesFate

(* It is taken although the agent is gone: it is told, with all behind it. *)
LEMMA TakesAll ==
    ASSUME FateInv, TypeInv, TypeInv', NEW w \in Msgs, wpc[w] \in {"next", "drain"},
           NEW s \in States, NEW k \in 1 .. Len(queue[s]),
           TakeNext(w, s, queue[s][k], <<>>),
           fate' = Settle(Settle(Settle(fate, StaleHeads(s, k), "superseded"),
                                 {queue[s][k]}, "told"),
                          ToSet(SubSeq(queue[s], k + 1, Len(queue[s]))), "told"),
           wpc' = [wpc EXCEPT ![w] = "unlock"], UNCHANGED hpc
    PROVE  FateInv' /\ KeepsFinal
<1> DEFINE n == Len(queue[s])
<1>1. queue[s] \in Seq(Msgs)
  BY DEF TypeInv, TypeOK, Queues
<1>2. /\ n \in k .. n /\ 1 .. k - 1 \subseteq 1 .. n /\ k + 1 .. n \subseteq 1 .. n
      /\ SubSeq(queue[s], n + 1, n) = <<>>
  BY <1>1
<1>3. \A x \in ToSet(SubSeq(queue[s], k + 1, n)) : \E j \in k + 1 .. n : x = queue[s][j]
  BY <1>1, Elements
<1>4. \A m \in Msgs : fate'[m] = fate[m] \/ \E j \in 1 .. n : m = queue[s][j]
  <2>1. \A m \in Msgs : \/ fate'[m] = fate[m]
                        \/ m \in StaleHeads(s, k)
                        \/ m = queue[s][k]
                        \/ m \in ToSet(SubSeq(queue[s], k + 1, n))
    BY DEF Settle
  <2> QED
    BY <1>2, <1>3, <2>1 DEF StaleHeads
<1>5. /\ queue' = [queue EXCEPT ![s] = SubSeq(queue[s], n + 1, n)]
      /\ wmsg' = [wmsg EXCEPT ![w] = queue[s][k]]
  BY <1>2 DEF TakeNext
<1> QED
  BY <1>2, <1>4, <1>5, TakesFate

(* All that wait are superseded, and the worker goes on without a message, *)
(* or with the one it has.                                                 *)
LEMMA SupersedesAll ==
    ASSUME FateInv, TypeInv, TypeInv', NEW w \in Msgs, wpc[w] \in {"next", "drain"},
           NEW s \in States, queue' = [queue EXCEPT ![s] = <<>>],
           fate' = Settle(fate, ToSet(queue[s]), "superseded"),
           UNCHANGED hpc,
           \A v \in Msgs : v # w => wpc'[v] = wpc[v] /\ wmsg'[v] = wmsg[v],
           \/ wpc'[w] \in {"drain", "settle"} /\ wmsg'[w] = wmsg[w]
           \/ wpc'[w] = "done" /\ wmsg'[w] = NoMsg
    PROVE  FateInv' /\ KeepsFinal
<1>1. queue[s] \in Seq(Msgs) /\ queue \in [States -> Queues]
  BY DEF TypeInv, TypeOK, Queues
<1>2. /\ Len(queue[s]) \in 0 .. Len(queue[s])
      /\ queue' = [queue EXCEPT ![s] = SubSeq(queue[s], Len(queue[s]) + 1, Len(queue[s]))]
  <2>1. SubSeq(queue[s], Len(queue[s]) + 1, Len(queue[s])) = <<>>
    BY <1>1
  <2>2. queue' = [queue EXCEPT ![s] = SubSeq(queue[s], Len(queue[s]) + 1, Len(queue[s]))]
    BY <2>1
  <2>3. Len(queue[s]) \in 0 .. Len(queue[s])
    BY <1>1
  <2> QED
    BY <2>2, <2>3
<1>3. /\ OnePlace'
      /\ \A m \in Msgs : Queued(m)' => Queued(m)
      /\ \A m \in Msgs, j \in 1 .. Len(queue[s]) : m = queue[s][j] => ~Queued(m)'
  BY <1>1, <1>2, TakeOff DEF FateInv
<1>4. \A m \in Msgs : Queued(m)' => m \notin ToSet(queue[s])
  BY <1>1, <1>3, Elements
<1>5. \A m \in Msgs : fate'[m] = IF m \in ToSet(queue[s]) THEN "superseded" ELSE fate[m]
  BY DEF Settle
<1>6. \A m \in Msgs : fate'[m] = fate[m] \/ Queued(m)
  BY <1>5 DEF Queued
<1>7. \A m \in Msgs : Queued(m)' => Queued(m) /\ fate'[m] = fate[m] /\ wmsg'[w] # m
  BY <1>3, <1>4, <1>5 DEF FateInv, Served
<1>8. /\ wmsg'[w] \in {wmsg[w], NoMsg}
      /\ wpc'[w] \in EmptyPcs => wmsg'[w] = NoMsg
      /\ wpc'[w] \notin ServingPcs
  BY DEF EmptyPcs, ServingPcs
<1>9. wpc[w] \in HoldingPcs
  BY DEF HoldingPcs
<1> QED
  BY <1>3, <1>6, <1>7, <1>8, <1>9, WorkerSettles

LEMMA LoopFate ==
    ASSUME FateInv, TypeInv, TypeInv', NEW w \in Msgs,
           CloseDone(w) \/ NextQueued(w) \/ Compress(w)
    PROVE  FateInv' /\ KeepsFinal
<1> USE DEF stateVars, handlerVars, workerVars, stopVars
<1>1. CASE CloseDone(w) \/ Compress(w)
  <2>1. wpc[w] \in {"closing", "abandon", "compress"} /\ UNCHANGED <<hpc, wmsg>>
    BY <1>1 DEF CloseDone, Compress, CompressDone, CompressAborted, CompressLost
  <2>2. PICK pc \in {"drain", "abandon"} : wpc' = [wpc EXCEPT ![w] = pc]
    BY <1>1 DEF CloseDone, Compress, CompressDone, CompressAborted, CompressLost, TearDown
  <2>3. /\ wpc[w] \in HoldingPcs /\ wref[w] \in States
        /\ pc \in HoldingPcs /\ pc \notin ServingPcs /\ pc # "orphan"
    BY <2>1 DEF HoldingPcs, ServingPcs, TypeInv, RefsOK, StatePcs
  <2>4. UNCHANGED <<queue, fate>> \/ DropQueue(wref[w], fate)
    BY <1>1 DEF CloseDone, Compress, CompressDone, CompressAborted, CompressLost
  <2> QED
    BY <2>1, <2>2, <2>3, <2>4, WorkerKeeps
<1>2. CASE NextQueued(w)
  <2>1. PICK k \in 1 .. Len(queue[wref[w]]) + 1 :
            /\ fate' = Settle(fate, StaleHeads(wref[w], k), "superseded")
            /\ \/ /\ k > Len(queue[wref[w]])
                  /\ queue' = [queue EXCEPT ![wref[w]] = <<>>]
                  /\ wpc' = [wpc EXCEPT ![w] = "settle"]
                  /\ UNCHANGED wmsg
               \/ /\ k <= Len(queue[wref[w]])
                  /\ TakeNext(w, wref[w], queue[wref[w]][k],
                              SubSeq(queue[wref[w]], k + 1, Len(queue[wref[w]])))
                  /\ wpc' = [wpc EXCEPT ![w] = "resend"]
    BY <1>2 DEF NextQueued
  <2>2. wpc[w] = "next" /\ UNCHANGED hpc
    BY <1>2 DEF NextQueued
  <2>3. wref[w] \in States /\ wpc[w] \in HoldingPcs
    BY <2>2 DEF TypeInv, RefsOK, StatePcs, HoldingPcs
  <2>4. queue[wref[w]] \in Seq(Msgs) /\ queue \in [States -> Queues]
    BY <2>3 DEF TypeInv, TypeOK, Queues
  <2>5. CASE k <= Len(queue[wref[w]])
    <3>1. k \in 1 .. Len(queue[wref[w]])
      BY <2>4, <2>5
    <3> QED
      BY <2>1, <2>2, <2>3, <2>4, <2>5, <3>1, TakesNext
  <2>6. CASE k > Len(queue[wref[w]])
    <3>1. /\ queue' = [queue EXCEPT ![wref[w]] = <<>>]
          /\ wpc' = [wpc EXCEPT ![w] = "settle"]
          /\ UNCHANGED wmsg
      BY <2>1, <2>4, <2>6
    <3>2. k = Len(queue[wref[w]]) + 1
      BY <2>4, <2>6
    <3>3. StaleHeads(wref[w], k) = ToSet(queue[wref[w]])
      <4>1. 1 .. k - 1 = DOMAIN queue[wref[w]]
        BY <2>4, <3>2
      <4> QED
        BY <4>1 DEF StaleHeads, ToSet
    <3>4. fate' = Settle(fate, ToSet(queue[wref[w]]), "superseded")
      BY <2>1, <3>3
    <3> QED
      BY <2>2, <2>3, <3>1, <3>4, SupersedesAll DEF TypeInv, TypeOK
  <2> QED
    BY <2>4, <2>5, <2>6
<1> QED
  BY <1>1, <1>2

(* A wait leaves the messages alone; the clean-up of a compress that could *)
(* not begin drops the queue of the entry.                                 *)
LEMMA WaitFate ==
    ASSUME FateInv, TypeInv, TypeInv', NEW w \in Msgs, Waits(w) \/ CommandFails(w)
    PROVE  FateInv' /\ KeepsFinal
<1> USE DEF stateVars, handlerVars, workerVars, stopVars
<1>1. CASE Waits(w)
  <2>1. /\ wpc[w] \in HoldingPcs \ {"orphan"}
        /\ UNCHANGED <<hpc, wmsg, queue, fate>>
    BY <1>1 DEF Waits, Ask, Answered, SendReturned, CompressSent, HoldingPcs
  <2>2. PICK pc \in {"wait", "ask", "drain", "compress"} :
            /\ wpc' = [wpc EXCEPT ![w] = pc]
            /\ pc \in {"wait", "ask"} => wpc[w] \in ServingPcs
    BY <1>1 DEF Waits, Ask, Answered, SendReturned, CompressSent, ServingPcs
  <2>3. pc \in HoldingPcs /\ pc # "orphan" /\ (pc \in ServingPcs => wpc[w] \in ServingPcs)
    BY <2>2 DEF HoldingPcs, ServingPcs
  <2> QED
    BY <2>1, <2>2, <2>3, WorkerKeeps
<1>2. CASE CommandFails(w)
  <2>1. wpc[w] \in {"command", "purge"} /\ UNCHANGED <<hpc, wmsg>>
    BY <1>2 DEF CommandFails, CompressSendFailed, PurgeDone
  <2>2. PICK pc \in {"drain", "purge"} : wpc' = [wpc EXCEPT ![w] = pc]
    BY <1>2 DEF CommandFails, CompressSendFailed, PurgeDone
  <2>3. /\ wpc[w] \in HoldingPcs
        /\ pc \in HoldingPcs /\ pc \notin ServingPcs /\ pc # "orphan"
    BY <2>1 DEF HoldingPcs, ServingPcs
  <2>4. UNCHANGED <<queue, fate>> \/ \E s \in States : DropQueue(s, fate)
    BY <1>2 DEF CommandFails, CompressSendFailed, PurgeDone, TypeInv, TypeOK
  <2> QED
    BY <2>1, <2>2, <2>3, <2>4, WorkerKeeps
<1> QED
  BY <1>1, <1>2

LEMMA DrainFate ==
    ASSUME FateInv, TypeInv, TypeInv', NEW w \in Msgs,
           DrainEmpty(w) \/ DrainTake(w) \/ DeferredUnlock(w)
    PROVE  FateInv' /\ KeepsFinal
<1> USE DEF stateVars, handlerVars, workerVars, stopVars
<1>0. /\ wpc[w] \in {"drain", "unlock"} /\ wpc[w] \in HoldingPcs /\ UNCHANGED hpc
      /\ wpc[w] = "drain" => wref[w] \in States
  BY DEF DrainEmpty, DrainTake, DeferredUnlock, HoldingPcs, TypeInv, RefsOK, StatePcs
<1>1. CASE DrainEmpty(w)
  <2>1. /\ \A v \in Msgs : v # w => wpc'[v] = wpc[v] /\ wmsg'[v] = wmsg[v]
        /\ \/ wpc'[w] = "drain" /\ wmsg'[w] = wmsg[w]
           \/ wpc'[w] = "done" /\ wmsg'[w] = NoMsg
    BY <1>1 DEF DrainEmpty, Finish, Leave, TypeInv, TypeOK
  <2>2. /\ wpc[w] = "drain" /\ queue' = [queue EXCEPT ![wref[w]] = <<>>]
        /\ fate' = Settle(fate, ToSet(queue[wref[w]]), "superseded")
    BY <1>1 DEF DrainEmpty
  <2> QED
    BY <1>0, <2>1, <2>2, SupersedesAll
<1>2. CASE DrainTake(w)
  <2>1. PICK k \in 1 .. Len(queue[wref[w]]) :
            \/ /\ TakeNext(w, wref[w], queue[wref[w]][k],
                           SubSeq(queue[wref[w]], k + 1, Len(queue[wref[w]])))
               /\ fate' = Settle(fate, StaleHeads(wref[w], k), "superseded")
               /\ wpc' = [wpc EXCEPT ![w] = "wait"]
            \/ /\ TakeNext(w, wref[w], queue[wref[w]][k], <<>>)
               /\ fate' = Settle(Settle(Settle(fate, StaleHeads(wref[w], k), "superseded"),
                                        {queue[wref[w]][k]}, "told"),
                                 ToSet(SubSeq(queue[wref[w]], k + 1,
                                              Len(queue[wref[w]]))), "told")
               /\ wpc' = [wpc EXCEPT ![w] = "unlock"]
    BY <1>2 DEF DrainTake
  <2>2. wpc[w] \in {"next", "drain"} /\ wref[w] \in States
    BY <1>0, <1>2 DEF DrainTake
  <2> QED
    BY <1>0, <2>1, <2>2, TakesNext, TakesAll
<1>3. CASE DeferredUnlock(w)
  <2>1. /\ \A v \in Msgs : v # w => wpc'[v] = wpc[v] /\ wmsg'[v] = wmsg[v]
        /\ \/ wpc'[w] = "drain" /\ wmsg'[w] = wmsg[w]
           \/ wpc'[w] = "done" /\ wmsg'[w] = NoMsg
    BY <1>3 DEF DeferredUnlock, Finish, Leave, TypeInv, TypeOK
  <2>2. UNCHANGED <<queue, fate>>
    BY <1>3 DEF DeferredUnlock
  <2>3. OnePlace' /\ \A m \in Msgs : Queued(m)' => Queued(m) /\ wmsg'[w] # m
    BY <2>1, <2>2 DEF FateInv, OnePlace, Queued, Served
  <2>4. /\ wmsg'[w] \in {wmsg[w], NoMsg}
        /\ wpc'[w] \in EmptyPcs => wmsg'[w] = NoMsg
        /\ wpc'[w] \notin ServingPcs
    BY <2>1 DEF EmptyPcs, ServingPcs
  <2> QED
    BY <1>0, <2>1, <2>2, <2>3, <2>4, WorkerSettles
<1> QED
  BY <1>1, <1>2, <1>3

-----------------------------------------------------------------------------
(***************************************************************************)
(* The other steps.                                                        *)
(***************************************************************************)
LEMMA OutsideFate ==
    ASSUME FateInv, TypeInv, Stop \/ StopNotify \/ (\E s \in States : AgentDies(s))
    PROVE  FateInv' /\ KeepsFinal
<1> USE DEF handlerVars, workerVars
<1>1. UNCHANGED <<hpc, wpc, wmsg>>
  BY DEF Stop, StopNotify, AgentDies
<1>2. /\ OnePlace'
      /\ \A m \in Msgs : Queued(m)' => Queued(m) /\ fate'[m] = fate[m]
      /\ \A m \in Msgs : fate'[m] = fate[m] \/ Queued(m)
  <2>1. CASE UNCHANGED <<queue, fate>>
    BY <2>1 DEF FateInv, OnePlace, Queued
  <2>2. CASE StopNotify
    <3>1. stopRef \in States /\ DropQueue(stopRef, fate)
      BY <2>2 DEF StopNotify, TypeInv, TypeOK
    <3> QED
      BY <3>1, Drops DEF FateInv, TypeInv, TypeOK, Queued
  <2> QED
    BY <2>1, <2>2 DEF Stop, AgentDies
<1>3. \A m \in Msgs : Served(m)' <=> Served(m)
  BY <1>1 DEF Served
<1>4. \A m \in Msgs : Queued(m) => fate[m] = "queued" /\ ~Served(m)
  BY DEF FateInv
<1>5. \A w \in Msgs : wpc[w] \in ServingPcs => fate'[wmsg[w]] = fate[wmsg[w]]
  BY <1>2, <1>4 DEF FateInv, Served
<1>6. \A m \in Msgs : hpc[m] \in UnseenPcs => fate'[m] = "none"
  BY <1>2, <1>4 DEF FateInv
<1>7. KeepsFinal
  BY <1>2, <1>4 DEF KeepsFinal, FinalFates
<1> QED
  BY <1>1, <1>2, <1>3, <1>4, <1>5, <1>6, <1>7 DEF FateInv

(* The handler of m, with nothing queued, taken or served by it. *)
LEMMA HandlerMoves ==
    ASSUME FateInv, TypeInv, NEW m \in Msgs, hpc[m] \in HandlerPcs \ {"done"},
           NEW pc \in HandlerPcs, hpc' = [hpc EXCEPT ![m] = pc],
           pc \in UnseenPcs => hpc[m] \in UnseenPcs /\ UNCHANGED fate,
           \/ UNCHANGED fate
           \/ hpc[m] \in UnseenPcs /\ \E v : fate' = [fate EXCEPT ![m] = v],
           UNCHANGED <<queue, wmsg>>,
           UNCHANGED wpc \/ wpc' = [wpc EXCEPT ![m] = "orphan"]
    PROVE  FateInv' /\ KeepsFinal
<1>1. wpc[m] = "idle" /\ wmsg[m] = NoMsg
  BY DEF TypeInv, RefsOK, FateInv, EmptyPcs
<1>2. \A w \in Msgs : wpc'[w] = wpc[w] \/ (w = m /\ wpc'[w] = "orphan")
  BY DEF TypeInv, TypeOK
<1>3. OnePlace' /\ \A x \in Msgs : (Queued(x)' <=> Queued(x)) /\ (Served(x)' <=> Served(x))
  BY DEF FateInv, OnePlace, Queued, Served
<1>4. hpc[m] \in UnseenPcs => fate[m] = "none" /\ ~Served(m) /\ ~Queued(m)
  BY DEF FateInv
<1>5. \A x \in Msgs : fate'[x] = fate[x] \/ (x = m /\ hpc[m] \in UnseenPcs)
  BY DEF TypeInv, TypeOK
<1>6. \A w \in Msgs : wpc'[w] \in ServingPcs =>
                        wpc[w] \in ServingPcs /\ fate'[wmsg[w]] = fate[wmsg[w]]
  BY <1>2, <1>4, <1>5 DEF ServingPcs, FateInv, Served
<1>7. \A w \in Msgs : wpc'[w] \in EmptyPcs => wmsg'[w] = NoMsg
  BY <1>1, <1>2 DEF FateInv
<1>8. \A x \in Msgs : hpc'[x] \in UnseenPcs => fate'[x] = "none" /\ ~Served(x)'
  BY <1>3, <1>5 DEF FateInv, TypeInv, TypeOK
<1>9. KeepsFinal
  BY <1>4, <1>5 DEF KeepsFinal, FinalFates
<1> QED
  BY <1>3, <1>4, <1>5, <1>6, <1>7, <1>8, <1>9 DEF FateInv

LEMMA HandlerFate ==
    ASSUME FateInv, TypeInv, NEW m \in Msgs, Handler(m)
    PROVE  FateInv' /\ KeepsFinal
<1> USE PlacesAndFates DEF stateVars, handlerVars, workerVars, stopVars
<1>1. CASE Arrive(m)
  <2>1. hpc[m] \in UnseenPcs /\ hpc[m] \in HandlerPcs \ {"done"}
    BY <1>1 DEF Arrive, UnseenPcs
  <2>2. CASE HandlerEnds(m, "silent")
    BY <1>1, <2>1, <2>2, HandlerMoves DEF Arrive, HandlerEnds, UnseenPcs
  <2>3. CASE hpc' = [hpc EXCEPT ![m] = "trylock"] /\ UNCHANGED fate
    BY <1>1, <2>1, <2>3, HandlerMoves DEF Arrive
  <2> QED
    BY <1>1, <2>2, <2>3 DEF Arrive
<1>2. CASE TryLock(m)
  <2>1. hpc[m] \in UnseenPcs /\ hpc[m] \in HandlerPcs \ {"done"}
    BY <1>2 DEF TryLock, UnseenPcs
  <2>2. (IF busy THEN "lookup" ELSE "accept") \in HandlerPcs
    OBVIOUS
  <2> QED
    BY <1>2, <2>1, <2>2, HandlerMoves DEF TryLock
<1>3. CASE Accept(m)
  <2>1. /\ hpc[m] = "accept" /\ UNCHANGED fate
        /\ hpc' = [hpc EXCEPT ![m] = "done"]
        /\ wpc' = [wpc EXCEPT ![m] = "open"]
        /\ wmsg' = [wmsg EXCEPT ![m] = m]
    BY <1>3 DEF Accept
  <2>2. fate[m] = "none" /\ ~Served(m) /\ ~Queued(m) /\ wmsg[m] = NoMsg
    BY <2>1 DEF FateInv, UnseenPcs, EmptyPcs, TypeInv, RefsOK
  <2>3. OnePlace' /\ \A x \in Msgs : Queued(x)' => Queued(x)
    <3>1. CASE UNCHANGED queue
      BY <3>1 DEF FateInv, OnePlace, Queued
    <3>2. CASE cur = NoState
      <4>1. /\ Unreferenced(NewState) /\ NewState \in States
            /\ Install(NewState, "nil", IF cur = NoState THEN <<>> ELSE queue[cur], Time[m])
        BY <1>3, <3>2, NewStateIsFree DEF Accept
      <4> QED
        BY <4>1, Inherits DEF FateInv, TypeInv, TypeOK, StatesOK
    <3> QED
      BY <1>3, <3>1, <3>2 DEF Accept
  <2>4. \A w \in Msgs : IF w = m THEN wpc'[w] = "open" /\ wmsg'[w] = m
                        ELSE wpc'[w] = wpc[w] /\ wmsg'[w] = wmsg[w]
    BY <2>1 DEF TypeInv, TypeOK
  <2>5. \A x \in Msgs : Served(x)' => Served(x) \/ x = m
    BY <2>4 DEF Served
  <2>6. \A x \in Msgs : Queued(x)' => fate'[x] = "queued" /\ ~Served(x)'
    BY <2>1, <2>2, <2>3, <2>5 DEF FateInv
  <2>7. \A x \in Msgs : hpc'[x] \in UnseenPcs => fate'[x] = "none" /\ ~Served(x)'
    BY <2>1, <2>5 DEF FateInv, UnseenPcs, TypeInv, TypeOK
  <2>8. \A w \in Msgs : wpc'[w] \in EmptyPcs => wmsg'[w] = NoMsg
    BY <2>4 DEF FateInv, EmptyPcs
  <2>9. \A w \in Msgs : wpc'[w] \in ServingPcs
                          => wmsg'[w] \in Msgs /\ fate'[wmsg'[w]] \in OpenFates
    BY <2>1, <2>2, <2>4 DEF FateInv, OpenFates
  <2>10. \A v, w \in Msgs : wmsg'[v] = wmsg'[w] /\ wmsg'[v] # NoMsg => v = w
    BY <2>2, <2>4 DEF FateInv, Served
  <2>11. KeepsFinal
    BY <2>1 DEF KeepsFinal
  <2> QED
    BY <2>3, <2>6, <2>7, <2>8, <2>9, <2>10, <2>11 DEF FateInv
<1>4. CASE Lookup(m)
  <2>1. hpc[m] \in UnseenPcs /\ hpc[m] \in HandlerPcs \ {"done"}
    BY <1>4 DEF Lookup, UnseenPcs
  <2>2. CASE HandlerEnds(m, "told")
    BY <1>4, <2>1, <2>2, HandlerMoves DEF Lookup, HandlerEnds, UnseenPcs
  <2>3. CASE hpc' = [hpc EXCEPT ![m] = "enqueue"] /\ UNCHANGED fate
    BY <1>4, <2>1, <2>3, HandlerMoves DEF Lookup
  <2> QED
    BY <1>4, <2>2, <2>3 DEF Lookup
<1>5. CASE Enqueue(m)
  <2>1. /\ hpc[m] = "enqueue" /\ UNCHANGED <<wpc, wmsg>>
        /\ hpc[m] \in UnseenPcs /\ hpc[m] \in HandlerPcs \ {"done"}
    BY <1>5 DEF Enqueue, UnseenPcs
  <2>2. CASE UNCHANGED queue /\ \E v : HandlerEnds(m, v)
    BY <2>1, <2>2, HandlerMoves DEF HandlerEnds, UnseenPcs
  <2>3. CASE /\ queue' = [queue EXCEPT ![href[m]] = Append(@, m)]
             /\ hpc' = [hpc EXCEPT ![m] = "recheck"]
             /\ fate' = [fate EXCEPT ![m] = "queued"]
    <3>1. fate[m] = "none" /\ ~Served(m) /\ ~Queued(m) /\ href[m] \in States
      BY <2>1 DEF FateInv, UnseenPcs, TypeInv, RefsOK
    <3>2. OnePlace' /\ \A x \in Msgs : Queued(x)' => Queued(x) \/ x = m
      BY <2>3, <3>1, Appends DEF FateInv, TypeInv, TypeOK
    <3>3. \A x \in Msgs : Served(x)' <=> Served(x)
      BY <2>1 DEF Served
    <3>4. \A x \in Msgs : fate'[x] = IF x = m THEN "queued" ELSE fate[x]
      BY <2>3 DEF TypeInv, TypeOK
    <3>5. \A x \in Msgs : Queued(x)' => fate'[x] = "queued" /\ ~Served(x)'
      BY <3>1, <3>2, <3>3, <3>4 DEF FateInv
    <3>6. \A x \in Msgs : hpc'[x] \in UnseenPcs => fate'[x] = "none" /\ ~Served(x)'
      BY <2>3, <3>3, <3>4 DEF FateInv, UnseenPcs, TypeInv, TypeOK
    <3>7. \A w \in Msgs : wpc[w] \in ServingPcs => fate'[wmsg[w]] \in OpenFates
      BY <3>4 DEF FateInv, OpenFates
    <3>8. KeepsFinal
      BY <3>1, <3>4 DEF KeepsFinal, FinalFates
    <3> QED
      BY <2>1, <3>2, <3>5, <3>6, <3>7, <3>8 DEF FateInv
  <2> QED
    BY <1>5, <2>2, <2>3 DEF Enqueue
<1>6. CASE Recheck(m)
  <2>1. hpc[m] \in HandlerPcs \ {"done"} /\ "done" \notin UnseenPcs
    BY <1>6 DEF Recheck, UnseenPcs
  <2> QED
    BY <1>6, <2>1, HandlerMoves DEF Recheck
<1> QED
  BY <1>1, <1>2, <1>3, <1>4, <1>5, <1>6 DEF Handler

LEMMA InitFate == Init => FateInv
<1> SUFFICES ASSUME Init PROVE FateInv
  OBVIOUS
<1>1. \A s \in States : DOMAIN queue[s] = {}
  BY DEF Init
<1>2. OnePlace /\ \A m \in Msgs : ~Queued(m)
  BY <1>1 DEF OnePlace, Queued, ToSet
<1> QED
  BY <1>2 DEF Init, FateInv, Served, ServingPcs

LEMMA NextFate ==
    ASSUME FateInv, TypeInv, [Next]_vars
    PROVE  FateInv' /\ KeepsFinal
<1>0. TypeInv'
  BY NextTypeInv
<1>1. CASE UNCHANGED vars
  <2> USE <1>1 DEF vars, stateVars, handlerVars, workerVars
  <2>1. \A m \in Msgs : (Queued(m)' <=> Queued(m)) /\ (Served(m)' <=> Served(m))
    BY DEF Queued, Served
  <2> QED
    BY <2>1 DEF FateInv, OnePlace, KeepsFinal
<1>2. ASSUME NEW m \in Msgs, Handler(m) PROVE FateInv' /\ KeepsFinal
  BY <1>2, HandlerFate
<1>3. ASSUME NEW w \in Msgs, Worker(w) PROVE FateInv' /\ KeepsFinal
  BY <1>0, <1>3, WorkerSteps, StartFate, TurnFate, LoopFate, WaitFate, DrainFate
<1>4. CASE Stop \/ StopNotify \/ \E s \in States : AgentDies(s)
  BY <1>4, OutsideFate
<1> QED
  BY <1>1, <1>2, <1>3, <1>4 DEF Next

LEMMA FateInvariant == Spec => [](TypeInv /\ FateInv)
<1>1. TypeInv /\ FateInv /\ [Next]_vars => (TypeInv /\ FateInv)'
  BY NextTypeInv, NextFate
<1> QED
  BY InitTypeInv, InitFate, <1>1, PTL DEF Spec

(* A message waits at one position of one queue, and only while nothing    *)
(* has become of it and no worker serves it: neither the entry that takes  *)
(* over a queue, nor the worker that takes a message, nor /stop leaves a   *)
(* copy behind.  With or without auto-compress.                            *)
THEOREM OneHomeAlways == Spec => []OneHome
<1>1. TypeInv /\ FateInv => OneHome
  <2> SUFFICES ASSUME TypeInv, FateInv PROVE OneHome
    OBVIOUS
  <2>1. \A s \in States : \A m \in ToSet(queue[s]) : m \in Msgs /\ Queued(m)
    BY DEF TypeInv, TypeOK, Queues, Queued, ToSet
  <2> QED
    BY <2>1 DEF OneHome, FateInv, OnePlace, Served
<1> QED
  BY FateInvariant, <1>1, PTL

(* No message is answered and also reported as dropped, refused or stale,  *)
(* whichever of its handler, the worker that serves it, the worker that    *)
(* drops its queue and /stop comes first.  With or without auto-compress.  *)
THEOREM SettledOnce == Spec => FateSettledOnce
<1>1. TypeInv /\ FateInv /\ [Next]_vars =>
        [\A m \in Msgs : fate[m] \in FinalFates => fate'[m] = fate[m]]_vars
  BY NextFate DEF KeepsFinal
<1> QED
  BY FateInvariant, <1>1, PTL DEF Spec, FateSettledOnce
=============================================================================
