------------------------------ MODULE TurnQueue ------------------------------
(***************************************************************************)
(* How the engine serialises the turns of one conversation: the busy flag  *)
(* of a core.Session, the interactiveStates entry of its key, the queue of *)
(* messages that arrived during a turn, and the goroutines that contend    *)
(* for them (src/core/engine.go, src/core/session.go).                     *)
(*                                                                         *)
(*   handler   one per incoming message: handleMessage, from the stale     *)
(*             check on                                                    *)
(*   worker    the goroutine a handler may start, keyed by the message     *)
(*             that started it: processInteractiveMessageWith or           *)
(*             drainOrphanedQueue, with the loops they run                 *)
(*   stopper   a /stop command                                             *)
(*   agent     the process behind an interactiveState: it may die, or not  *)
(*             start                                                       *)
(*                                                                         *)
(* Go objects are kept apart from the map entry that names them: a handler *)
(* or a worker goes on using the interactiveState it looked up after the   *)
(* entry was deleted or replaced.  An action is a stretch of code between  *)
(* two points where another goroutine can run.                             *)
(***************************************************************************)
EXTENDS Integers, Sequences, SequencesExt

CONSTANTS
    Msgs,           \* user messages of this conversation
    Time,           \* UserMessageTimeMs of a message; 0 where the platform sets none
    States,         \* identities of the interactiveState objects
    NoState,        \* the nil *interactiveState
    NoMsg,          \* no message being served
    MaxQueued,      \* Engine.maxQueuedMessages
    AutoCompress,   \* whether a turn may end with an automatic compress
    MaxStops        \* bound: how many /stop commands arrive

ASSUME TimeAssumption == Time \in [Msgs -> Nat]
ASSUME NullAssumption == NoState \notin States /\ NoMsg \notin Msgs
ASSUME MaxQueuedAssumption == MaxQueued \in Nat \ {0}
ASSUME AutoCompressAssumption == AutoCompress \in BOOLEAN
ASSUME MaxStopsAssumption == MaxStops \in Nat

VARIABLES
    busy,       \* Session.busy
    cur,        \* interactiveStates[key], NoState when there is no entry
    agent,      \* state -> its agentSession: "nil", "live" or "dead"
    stopped,    \* state -> interactiveState.stopped
    queue,      \* state -> interactiveState.pendingMessages
    curT,       \* state -> currentTurnUserMessageTimeMs
    doneT,      \* state -> lastCompletedUserMessageTimeMs
    hpc,        \* message -> where its handler is
    href,       \* message -> the state its handler looked up
    wpc,        \* message -> where the worker it started is
    wref,       \* message -> the state that worker runs on
    wmsg,       \* message -> the message that worker is serving
    again,      \* message -> drains the worker's callers still have to run
    stopRef,    \* the state a running /stop took from the map, or NoState
    stops,      \* /stop commands so far
    fate        \* message -> what became of it

stateVars   == <<cur, agent, stopped, queue, curT, doneT>>
handlerVars == <<hpc, href>>
workerVars  == <<wpc, wref, wmsg, again>>
stopVars    == <<stopRef, stops>>
vars == <<busy, stateVars, handlerVars, workerVars, stopVars, fate>>

(***************************************************************************)
(* What became of a message: nothing yet; told that it waits in the queue; *)
(* answered by the agent; told that it was refused, failed or was dropped; *)
(* gone without a word, discarded as stale or with its stopped or exited   *)
(* turn; superseded, taken off the queue as stale.                         *)
(***************************************************************************)
OpenFates  == {"none", "queued"}
FinalFates == {"answered", "told", "silent", "superseded"}

HandlerPcs == {"new", "trylock", "accept", "lookup", "enqueue", "recheck", "done"}
HoldingPcs == {"open", "begin", "wait", "ask", "next", "resend", "settle",
               "command", "compress", "closing", "abandon", "purge", "drain",
               "orphan", "unlock"}
WorkerPcs  == {"idle", "done"} \cup HoldingPcs

Fates     == OpenFates \cup FinalFates
Queues    == {q \in Seq(Msgs) : Len(q) <= MaxQueued}

(* The types of the variables; a queue never grows past maxQueuedMessages. *)
TypeOK ==
    /\ busy \in BOOLEAN
    /\ cur \in States \cup {NoState}
    /\ agent \in [States -> {"nil", "live", "dead"}]
    /\ stopped \in [States -> BOOLEAN]
    /\ queue \in [States -> Queues]
    /\ curT \in [States -> Nat]
    /\ doneT \in [States -> Nat]
    /\ hpc \in [Msgs -> HandlerPcs]
    /\ href \in [Msgs -> States \cup {NoState}]
    /\ wpc \in [Msgs -> WorkerPcs]
    /\ wref \in [Msgs -> States \cup {NoState}]
    /\ wmsg \in [Msgs -> Msgs \cup {NoMsg}]
    /\ again \in [Msgs -> Nat]
    /\ stopRef \in States \cup {NoState}
    /\ stops \in 0 .. MaxStops
    /\ fate \in [Msgs -> Fates]

Init ==
    /\ busy = FALSE
    /\ cur = NoState
    /\ agent = [s \in States |-> "nil"]
    /\ stopped = [s \in States |-> FALSE]
    /\ queue = [s \in States |-> <<>>]
    /\ curT = [s \in States |-> 0]
    /\ doneT = [s \in States |-> 0]
    /\ hpc = [m \in Msgs |-> "new"]
    /\ href = [m \in Msgs |-> NoState]
    /\ wpc = [m \in Msgs |-> "idle"]
    /\ wref = [m \in Msgs |-> NoState]
    /\ wmsg = [m \in Msgs |-> NoMsg]
    /\ again = [m \in Msgs |-> 0]
    /\ stopRef = NoState
    /\ stops = 0
    /\ fate = [m \in Msgs |-> "none"]

-----------------------------------------------------------------------------
(***************************************************************************)
(* Helpers.                                                                *)
(***************************************************************************)

(* The message m is older than the watermark of state s, the largest time  *)
(* among completed, current and queued messages; of the queue, the part    *)
(* from position k on is still there.                                      *)
OlderThanWatermark(s, m, k) ==
    /\ Time[m] > 0
    /\ \/ Time[m] < doneT[s]
       \/ Time[m] < curT[s]
       \/ \E i \in k .. Len(queue[s]) : Time[m] < Time[queue[s][i]]

IsStale(s, m) == OlderThanWatermark(s, m, 1)

(* Variant with a fault, for TypeOK: the limit test is off by one. *)
RoomForOneMore(s) == Len(queue[s]) <= MaxQueued

(* queueMessageForBusySession may append: the limit is not reached. *)
HasRoom(s) == Len(queue[s]) < MaxQueued

(* Dropping stale heads leaves the queue from position k on. *)
FirstFresh(s, k) ==
    /\ \A j \in 1 .. k - 1 : OlderThanWatermark(s, queue[s][j], j)
    /\ k <= Len(queue[s]) => ~OlderThanWatermark(s, queue[s][k], k)

StaleHeads(s, k) == {queue[s][j] : j \in 1 .. k - 1}

(* The fates f, with those of the messages in ms settled as v. *)
Settle(f, ms, v) == [m \in Msgs |-> IF m \in ms THEN v ELSE f[m]]

(* No goroutine and no map entry points to s, and no message is lost in it. *)
Unreferenced(s) ==
    /\ s # cur /\ s # stopRef
    /\ queue[s] = <<>>
    /\ \A m \in Msgs : href[m] # s /\ wref[m] # s

NewState == CHOOSE s \in States : Unreferenced(s)

(* Variant with a fault, for OneHome: the queue is copied to the new state *)
(* and left in the old one.                                                *)
InstallCopyingQueue(s, a, q, t) ==
    /\ cur' = s
    /\ agent' = [agent EXCEPT ![s] = a]
    /\ stopped' = [stopped EXCEPT ![s] = FALSE]
    /\ queue' = [queue EXCEPT ![s] = q]
    /\ curT' = [curT EXCEPT ![s] = t]
    /\ doneT' = [doneT EXCEPT ![s] = 0]

(* A fresh interactiveState at s, with agent a, queue q and current time t, *)
(* becomes the map's entry; the entry it replaces gives up its queue.       *)
Install(s, a, q, t) ==
    /\ cur' = s
    /\ agent' = [agent EXCEPT ![s] = a]
    /\ stopped' = [stopped EXCEPT ![s] = FALSE]
    /\ queue' = [x \in States |-> IF x = s THEN q ELSE IF x = cur THEN <<>> ELSE queue[x]]
    /\ curT' = [curT EXCEPT ![s] = t]
    /\ doneT' = [doneT EXCEPT ![s] = 0]

(* Variant with a fault, for ServesAsMailbox: the message stays in the     *)
(* queue while it is served.                                               *)
TakeNextKept(w, s, m, q) ==
    /\ queue' = [queue EXCEPT ![s] = <<m>> \o q]
    /\ curT' = [curT EXCEPT ![s] = Time[m]]
    /\ wmsg' = [wmsg EXCEPT ![w] = m]

(* The worker w takes m as the current message of its state s, leaving the *)
(* queue q.                                                                *)
TakeNext(w, s, m, q) ==
    /\ queue' = [queue EXCEPT ![s] = q]
    /\ curT' = [curT EXCEPT ![s] = Time[m]]
    /\ wmsg' = [wmsg EXCEPT ![w] = m]

(* Worker w returns from its body, or to a caller that drains again. *)
Leave(w) ==
    IF again[w] > 0
    THEN /\ again' = [again EXCEPT ![w] = @ - 1]
         /\ wpc' = [wpc EXCEPT ![w] = "drain"]
         /\ UNCHANGED <<wref, wmsg>>
    ELSE /\ wpc' = [wpc EXCEPT ![w] = "done"]
         /\ wref' = [wref EXCEPT ![w] = NoState]
         /\ wmsg' = [wmsg EXCEPT ![w] = NoMsg]
         /\ UNCHANGED again

(* Variant with a fault, for BusyIsHeld and LockReleased: the worker ends  *)
(* without the unlock.                                                     *)
FinishWithoutUnlock(w) ==
    /\ UNCHANGED busy
    /\ Leave(w)

(* Variant with a fault, for EntryIsServed: the deferred Unlock runs after *)
(* a drain that has unlocked already.                                      *)
FinishTwice(w) ==
    /\ busy' = FALSE
    /\ wpc' = [wpc EXCEPT ![w] = "unlock"]
    /\ UNCHANGED <<wref, wmsg, again>>

(* The end of drainPendingMessages, or the deferred Unlock: the session is *)
(* unlocked.                                                               *)
Finish(w) ==
    /\ busy' = FALSE
    /\ Leave(w)

(* Variant with a fault, for FateSettledOnce: the senders are told, and    *)
(* their messages stay in the queue.                                       *)
DropKeepingQueue(s, f) ==
    /\ UNCHANGED queue
    /\ fate' = Settle(f, ToSet(queue[s]), "told")

(* notifyDroppedQueuedMessages, with the fates f of before it. *)
DropQueue(s, f) ==
    /\ queue' = [queue EXCEPT ![s] = <<>>]
    /\ fate' = Settle(f, ToSet(queue[s]), "told")

(* cleanupInteractiveState by worker w, with its own state as the expected *)
(* one, up to the close of the agent: the worker goes on at closing, or at *)
(* skip when the map has another entry.                                    *)
TearDown(w, closing, skip) ==
    IF cur = wref[w]
    THEN /\ agent' = [agent EXCEPT ![cur] = "nil"]
         /\ stopped' = [stopped EXCEPT ![cur] = TRUE]
         /\ wpc' = [wpc EXCEPT ![w] = closing]
    ELSE /\ UNCHANGED <<agent, stopped>>
         /\ wpc' = [wpc EXCEPT ![w] = skip]

-----------------------------------------------------------------------------
(***************************************************************************)
(* The handler of a message: handleMessage.                                *)
(***************************************************************************)

(* The handler of m ends with fate v. *)
HandlerEnds(m, v) ==
    /\ hpc' = [hpc EXCEPT ![m] = "done"]
    /\ href' = [href EXCEPT ![m] = NoState]
    /\ fate' = [fate EXCEPT ![m] = v]

(* discardStaleUserMessageIfNeeded. *)
Arrive(m) ==
    /\ hpc[m] = "new"
    /\ \/ /\ cur # NoState /\ IsStale(cur, m)
          /\ HandlerEnds(m, "silent")
       \/ /\ ~(cur # NoState /\ IsStale(cur, m))
          /\ hpc' = [hpc EXCEPT ![m] = "trylock"]
          /\ UNCHANGED <<href, fate>>
    /\ UNCHANGED <<busy, stateVars, workerVars, stopVars>>

TryLock(m) ==
    /\ hpc[m] = "trylock"
    /\ busy' = TRUE
    /\ hpc' = [hpc EXCEPT ![m] = IF busy THEN "lookup" ELSE "accept"]
    /\ UNCHANGED <<stateVars, href, workerVars, stopVars, fate>>

(* With the session locked: ensureInteractiveStateForQueueing puts a       *)
(* placeholder where there is no entry, noteUserMessageAccepted raises its *)
(* current time, and the worker starts.                                    *)
Accept(m) ==
    /\ hpc[m] = "accept"
    /\ \/ /\ cur = NoState
          /\ \E s \in States : Unreferenced(s)
          /\ Install(NewState, "nil", <<>>, Time[m])
       \/ /\ cur # NoState
          /\ curT' = [curT EXCEPT ![cur] = IF Time[m] > @ THEN Time[m] ELSE @]
          /\ UNCHANGED <<cur, agent, stopped, queue, doneT>>
    /\ hpc' = [hpc EXCEPT ![m] = "done"]
    /\ wpc' = [wpc EXCEPT ![m] = "open"]
    /\ wmsg' = [wmsg EXCEPT ![m] = m]
    /\ UNCHANGED <<busy, href, wref, again, stopVars, fate>>

(* queueMessageForBusySession: no state to queue on, or one whose agent    *)
(* was established and died.                                               *)
Lookup(m) ==
    /\ hpc[m] = "lookup"
    /\ \/ /\ cur = NoState \/ (cur # NoState /\ agent[cur] = "dead")
          /\ HandlerEnds(m, "told")
       \/ /\ cur # NoState /\ agent[cur] # "dead"
          /\ hpc' = [hpc EXCEPT ![m] = "enqueue"]
          /\ href' = [href EXCEPT ![m] = cur]
          /\ UNCHANGED fate
    /\ UNCHANGED <<busy, stateVars, workerVars, stopVars>>

(* The rest of it, under the mutex of the state that was looked up. *)
Enqueue(m) ==
    LET s == href[m] IN
    /\ hpc[m] = "enqueue"
    /\ \/ /\ IsStale(s, m)
          /\ HandlerEnds(m, "silent")
          /\ UNCHANGED queue
       \/ /\ ~IsStale(s, m) /\ ~HasRoom(s)
          /\ HandlerEnds(m, "told")
          /\ UNCHANGED queue
       \/ /\ ~IsStale(s, m) /\ HasRoom(s)
          /\ queue' = [queue EXCEPT ![s] = Append(@, m)]
          /\ hpc' = [hpc EXCEPT ![m] = "recheck"]
          /\ href' = [href EXCEPT ![m] = NoState]
          /\ fate' = [fate EXCEPT ![m] = "queued"]
    /\ UNCHANGED <<busy, cur, agent, stopped, curT, doneT, workerVars, stopVars>>

(* Variant with a fault, for MutualExclusion: the drain starts whether or  *)
(* not the lock was free.                                                  *)
RecheckUnlocked(m) ==
    /\ hpc[m] = "recheck"
    /\ hpc' = [hpc EXCEPT ![m] = "done"]
    /\ busy' = TRUE
    /\ wpc' = [wpc EXCEPT ![m] = "orphan"]
    /\ UNCHANGED <<stateVars, href, wref, wmsg, again, stopVars, fate>>

(* Variant with a fault, for NoOrphanQueue and QueuedIsDealtWith: no      *)
(* second TryLock.                                                         *)
RecheckOmitted(m) ==
    /\ hpc[m] = "recheck"
    /\ hpc' = [hpc EXCEPT ![m] = "done"]
    /\ UNCHANGED <<busy, stateVars, href, workerVars, stopVars, fate>>

(* The race guard: TryLock again, and start a drain if it succeeds. *)
Recheck(m) ==
    /\ hpc[m] = "recheck"
    /\ hpc' = [hpc EXCEPT ![m] = "done"]
    /\ busy' = TRUE
    /\ wpc' = IF busy THEN wpc ELSE [wpc EXCEPT ![m] = "orphan"]
    /\ UNCHANGED <<stateVars, href, wref, wmsg, again, stopVars, fate>>

Handler(m) ==
    Arrive(m) \/ TryLock(m) \/ Accept(m) \/ Lookup(m) \/ Enqueue(m) \/ Recheck(m)

-----------------------------------------------------------------------------
(***************************************************************************)
(* The worker of a message: processInteractiveMessageWith.                 *)
(***************************************************************************)

(* getOrCreateInteractiveStateWith: a live agent is reused; otherwise one  *)
(* is started, or fails to start, behind a new state that takes over the   *)
(* queue of the entry it replaces.                                         *)
OpenState(w) ==
    /\ wpc[w] = "open"
    /\ \/ /\ cur # NoState /\ agent[cur] = "live"
          /\ wref' = [wref EXCEPT ![w] = cur]
          /\ UNCHANGED stateVars
       \/ /\ cur = NoState \/ (cur # NoState /\ agent[cur] # "live")
          /\ \E s \in States : Unreferenced(s)
          /\ \E a \in {"live", "nil"} :
                Install(NewState, a, IF cur = NoState THEN <<>> ELSE queue[cur], 0)
          /\ wref' = [wref EXCEPT ![w] = NewState]
    /\ wpc' = [wpc EXCEPT ![w] = "begin"]
    /\ UNCHANGED <<busy, handlerVars, wmsg, again, stopVars, fate>>

(* The turn's fields are set; without an agent the user is told and the    *)
(* deferred Unlock is next, else the prompt is sent.                       *)
BeginTurn(w) ==
    LET s == wref[w] IN
    /\ wpc[w] = "begin"
    /\ curT' = [curT EXCEPT ![s] = Time[wmsg[w]]]
    /\ \/ /\ agent[s] = "nil"
          /\ fate' = [fate EXCEPT ![wmsg[w]] = "told"]
          /\ wpc' = [wpc EXCEPT ![w] = "unlock"]
       \/ /\ agent[s] # "nil"
          /\ wpc' = [wpc EXCEPT ![w] = "wait"]
          /\ UNCHANGED fate
    /\ UNCHANGED <<busy, cur, agent, stopped, queue, doneT, handlerVars, wref, wmsg,
                   again, stopVars>>

(* drainOrphanedQueue looks up the entry of now, and gives up when it has  *)
(* no live agent.                                                          *)
OrphanStart(w) ==
    /\ wpc[w] = "orphan"
    /\ wref' = [wref EXCEPT ![w] = cur]
    /\ \/ /\ cur = NoState
          /\ wpc' = [wpc EXCEPT ![w] = "unlock"]
          /\ UNCHANGED <<queue, fate>>
       \/ /\ cur # NoState /\ agent[cur] # "live"
          /\ DropQueue(cur, fate)
          /\ wpc' = [wpc EXCEPT ![w] = "unlock"]
       \/ /\ cur # NoState /\ agent[cur] = "live"
          /\ wpc' = [wpc EXCEPT ![w] = "drain"]
          /\ UNCHANGED <<queue, fate>>
    /\ UNCHANGED <<busy, cur, agent, stopped, curT, doneT, handlerVars, wmsg,
                   again, stopVars>>

-----------------------------------------------------------------------------
(***************************************************************************)
(* The event loop of a turn: processInteractiveEvents.                     *)
(***************************************************************************)

(* The stop signal, or an event received after it. *)
TurnStopped(w) ==
    /\ wpc[w] = "wait" /\ stopped[wref[w]]
    /\ fate' = [fate EXCEPT ![wmsg[w]] = "silent"]
    /\ wpc' = [wpc EXCEPT ![w] = "drain"]
    /\ UNCHANGED <<busy, stateVars, handlerVars, wref, wmsg, again, stopVars>>

(* A permission request goes to the user, and the loop waits for the       *)
(* answer outside its select, with the idle timer stopped.                 *)
Ask(w) ==
    /\ wpc[w] = "wait" /\ ~stopped[wref[w]] /\ agent[wref[w]] # "nil"
    /\ wpc' = [wpc EXCEPT ![w] = "ask"]
    /\ UNCHANGED <<busy, stateVars, handlerVars, wref, wmsg, again, stopVars, fate>>

(* The answer, or a clean-up that resolves the request. *)
Answered(w) ==
    /\ wpc[w] = "ask"
    /\ wpc' = [wpc EXCEPT ![w] = "wait"]
    /\ UNCHANGED <<busy, stateVars, handlerVars, wref, wmsg, again, stopVars, fate>>

(* EventResult: the turn's time is noted as completed and the reply sent;  *)
(* when the platform refuses it the loop ends.                             *)
TurnResult(w) ==
    LET s == wref[w] IN
    /\ wpc[w] = "wait" /\ ~stopped[s] /\ agent[s] # "nil"
    /\ doneT' = [doneT EXCEPT ![s] = IF curT[s] > @ THEN curT[s] ELSE @]
    /\ \/ /\ fate' = [fate EXCEPT ![wmsg[w]] = "answered"]
          /\ wpc' \in {[wpc EXCEPT ![w] = pc] : pc \in {"next"} \cup
                            (IF AutoCompress THEN {"command"} ELSE {})}
       \/ /\ fate' = [fate EXCEPT ![wmsg[w]] = "told"]
          /\ wpc' = [wpc EXCEPT ![w] = "drain"]
    /\ UNCHANGED <<busy, cur, agent, stopped, queue, curT, handlerVars, wref,
                   wmsg, again, stopVars>>

(* EventError: the queue is dropped only if the agent is dead. *)
TurnError(w) ==
    LET s == wref[w]
        failed == Settle(fate, {wmsg[w]}, "told") IN
    /\ wpc[w] = "wait" /\ ~stopped[s] /\ agent[s] # "nil"
    /\ \/ /\ agent[s] = "live"
          /\ fate' = failed
          /\ UNCHANGED queue
       \/ /\ agent[s] = "dead"
          /\ DropQueue(s, failed)
    /\ wpc' = [wpc EXCEPT ![w] = "drain"]
    /\ UNCHANGED <<busy, cur, agent, stopped, curT, doneT, handlerVars, wref,
                   wmsg, again, stopVars>>

(* Send returned an error. *)
TurnSendFailed(w) ==
    LET s == wref[w] IN
    /\ wpc[w] = "wait"
    /\ DropQueue(s, Settle(fate, {wmsg[w]}, "told"))
    /\ \/ /\ agent[s] = "live"
          /\ wpc' = [wpc EXCEPT ![w] = "drain"]
          /\ UNCHANGED <<agent, stopped>>
       \/ /\ agent[s] # "live"
          /\ TearDown(w, "closing", "drain")
    /\ UNCHANGED <<busy, cur, curT, doneT, handlerVars, wref, wmsg, again,
                   stopVars>>

(* The event channel is closed: the agent exited. *)
TurnChannelClosed(w) ==
    LET s == wref[w] IN
    /\ wpc[w] = "wait" /\ agent[s] # "live"
    /\ DropQueue(s, Settle(fate, {wmsg[w]}, "silent"))
    /\ TearDown(w, "closing", "drain")
    /\ UNCHANGED <<busy, cur, curT, doneT, handlerVars, wref, wmsg, again,
                   stopVars>>

(* The idle timer, or the turn deadline and its grace period. *)
TurnTimeout(w) ==
    LET s == wref[w]
        failed == Settle(fate, {wmsg[w]}, "told") IN
    /\ wpc[w] = "wait"
    /\ IF cur = s THEN DropQueue(s, failed) ELSE fate' = failed /\ UNCHANGED queue
    /\ TearDown(w, "closing", "drain")
    /\ UNCHANGED <<busy, cur, curT, doneT, handlerVars, wref, wmsg, again,
                   stopVars>>

(* The rest of cleanupInteractiveState, after the agent was closed: the    *)
(* entry is deleted unless it was replaced meanwhile.  Within a compress   *)
(* the queue is dropped again and the session unlocked on the way out.     *)
CloseDone(w) ==
    /\ wpc[w] \in {"closing", "abandon"}
    /\ cur' = IF cur = wref[w] THEN NoState ELSE cur
    /\ \/ /\ wpc[w] = "closing"
          /\ UNCHANGED <<busy, queue, fate>>
       \/ /\ wpc[w] = "abandon"
          /\ DropQueue(wref[w], fate)
          /\ busy' = FALSE
    /\ wpc' = [wpc EXCEPT ![w] = "drain"]
    /\ UNCHANGED <<agent, stopped, curT, doneT, handlerVars, wref, wmsg, again,
                   stopVars>>

(* After a delivered EventResult: stale heads go, and the next message is  *)
(* taken in the same loop, if there is one.  Either way the worker waits   *)
(* until the Send of the turn that ended has returned.                     *)
NextQueued(w) ==
    LET s == wref[w] IN
    /\ wpc[w] = "next"
    /\ \E k \in 1 .. Len(queue[s]) + 1 :
        /\ FirstFresh(s, k)
        /\ fate' = Settle(fate, StaleHeads(s, k), "superseded")
        /\ \/ /\ k > Len(queue[s])
              /\ queue' = [queue EXCEPT ![s] = <<>>]
              /\ wpc' = [wpc EXCEPT ![w] = "settle"]
              /\ UNCHANGED <<curT, wmsg>>
           \/ /\ k <= Len(queue[s])
              /\ TakeNext(w, s, queue[s][k], SubSeq(queue[s], k + 1, Len(queue[s])))
              /\ wpc' = [wpc EXCEPT ![w] = "resend"]
    /\ UNCHANGED <<busy, cur, agent, stopped, doneT, handlerVars, wref, again, stopVars>>

(* That Send returned, and whatever it returned: the next prompt is sent,  *)
(* or the loop ends.                                                       *)
SendReturned(w) ==
    /\ \/ /\ wpc[w] = "resend"
          /\ wpc' = [wpc EXCEPT ![w] = "wait"]
       \/ /\ wpc[w] = "settle"
          /\ wpc' = [wpc EXCEPT ![w] = "drain"]
    /\ UNCHANGED <<busy, stateVars, handlerVars, wref, wmsg, again, stopVars, fate>>

-----------------------------------------------------------------------------
(***************************************************************************)
(* drainPendingMessages, runCompress and the deferred Unlock.              *)
(***************************************************************************)

(* The queue is found empty and the session unlocked under the same mutex. *)
DrainEmpty(w) ==
    LET s == wref[w] IN
    /\ wpc[w] = "drain"
    /\ FirstFresh(s, Len(queue[s]) + 1)
    /\ fate' = Settle(fate, ToSet(queue[s]), "superseded")
    /\ queue' = [queue EXCEPT ![s] = <<>>]
    /\ Finish(w)
    /\ UNCHANGED <<cur, agent, stopped, curT, doneT, handlerVars, stopVars>>

(* The next message is taken: sent to a live agent, or told that the agent *)
(* is gone, with the rest of the queue.                                    *)
DrainTake(w) ==
    LET s == wref[w] IN
    /\ wpc[w] = "drain"
    /\ \E k \in 1 .. Len(queue[s]) :
        LET m    == queue[s][k]
            rest == SubSeq(queue[s], k + 1, Len(queue[s]))
            kept == Settle(fate, StaleHeads(s, k), "superseded") IN
        /\ FirstFresh(s, k)
        /\ \/ /\ agent[s] = "live"
              /\ TakeNext(w, s, m, rest)
              /\ fate' = kept
              /\ wpc' = [wpc EXCEPT ![w] = "wait"]
           \/ /\ agent[s] # "live"
              /\ TakeNext(w, s, m, <<>>)
              /\ fate' = Settle(Settle(kept, {m}, "told"), ToSet(rest), "told")
              /\ wpc' = [wpc EXCEPT ![w] = "unlock"]
    /\ UNCHANGED <<busy, cur, agent, stopped, doneT, handlerVars, wref, again, stopVars>>

(* The deferred Unlock, after drainPendingMessages or an early return. *)
DeferredUnlock(w) ==
    /\ wpc[w] = "unlock"
    /\ Finish(w)
    /\ UNCHANGED <<stateVars, handlerVars, stopVars, fate>>

(* The Send of the turn returned, and then that of the compress command,   *)
(* which runCompress calls itself.                                         *)
CompressSent(w) ==
    /\ wpc[w] = "command" /\ agent[wref[w]] # "nil"
    /\ wpc' = [wpc EXCEPT ![w] = "compress"]
    /\ UNCHANGED <<busy, stateVars, handlerVars, wref, wmsg, again, stopVars, fate>>

(* The Send of the compress command failed.  With a dead agent the entry   *)
(* of now is cleaned up, whichever it is.                                  *)
CompressSendFailed(w) ==
    /\ wpc[w] = "command"
    /\ \/ /\ agent[wref[w]] = "live"
          /\ busy' = FALSE
          /\ wpc' = [wpc EXCEPT ![w] = "drain"]
          /\ UNCHANGED <<agent, stopped, queue, fate>>
       \/ /\ agent[wref[w]] = "dead"
          /\ IF cur = NoState THEN UNCHANGED <<agent, stopped, queue, fate>>
             ELSE /\ agent' = [agent EXCEPT ![cur] = "nil"]
                  /\ stopped' = [stopped EXCEPT ![cur] = TRUE]
                  /\ DropQueue(cur, fate)
          /\ wpc' = [wpc EXCEPT ![w] = "purge"]
          /\ UNCHANGED busy
    /\ UNCHANGED <<cur, curT, doneT, handlerVars, wref, wmsg, again, stopVars>>

(* The rest of that cleanupInteractiveState: the entry is deleted without  *)
(* a look at whether it was replaced; runCompress unlocks on its way out.  *)
PurgeDone(w) ==
    /\ wpc[w] = "purge"
    /\ cur' = NoState
    /\ busy' = FALSE
    /\ wpc' = [wpc EXCEPT ![w] = "drain"]
    /\ UNCHANGED <<agent, stopped, queue, curT, doneT, handlerVars, wref, wmsg,
                   again, stopVars, fate>>

(* The compress command ran, or failed with the agent alive: the queue is  *)
(* drained, and the drain of the caller is still to come.                  *)
CompressDone(w) ==
    /\ wpc[w] = "compress"
    /\ ~stopped[wref[w]] /\ agent[wref[w]] = "live"
    /\ again' = [again EXCEPT ![w] = @ + 1]
    /\ wpc' = [wpc EXCEPT ![w] = "drain"]
    /\ UNCHANGED <<busy, stateVars, handlerVars, wref, wmsg, stopVars, fate>>

(* The stop signal, an error event of a dead agent, or a lost agent whose  *)
(* entry is gone: only the deferred Unlock of runCompress is left, and the *)
(* drain of the caller.                                                    *)
CompressAborted(w) ==
    LET s == wref[w] IN
    /\ wpc[w] = "compress"
    /\ \/ /\ stopped[s]
          /\ UNCHANGED <<queue, fate>>
       \/ /\ cur # s \/ (~stopped[s] /\ agent[s] = "dead")
          /\ DropQueue(s, fate)
    /\ busy' = FALSE
    /\ wpc' = [wpc EXCEPT ![w] = "drain"]
    /\ UNCHANGED <<cur, agent, stopped, curT, doneT, handlerVars, wref, wmsg,
                   again, stopVars>>

(* The agent exited, or went silent, during the compress. *)
CompressLost(w) ==
    LET s == wref[w] IN
    /\ wpc[w] = "compress" /\ cur = s
    /\ DropQueue(s, fate)
    /\ TearDown(w, "abandon", "drain")
    /\ UNCHANGED <<busy, cur, curT, doneT, handlerVars, wref, wmsg, again,
                   stopVars>>

Turn(w) ==
    \/ TurnStopped(w) \/ TurnResult(w) \/ TurnError(w) \/ TurnSendFailed(w)
    \/ TurnChannelClosed(w) \/ TurnTimeout(w)

Compress(w) == CompressDone(w) \/ CompressAborted(w) \/ CompressLost(w)

(* The steps the engine takes by itself, with its timers. *)
Goes(w) ==
    \/ BeginTurn(w) \/ OrphanStart(w)
    \/ Turn(w) \/ CloseDone(w) \/ NextQueued(w) \/ Compress(w) \/ PurgeDone(w)
    \/ DrainEmpty(w) \/ DrainTake(w) \/ DeferredUnlock(w)

(* The steps that come when a call of the agent returns, or when the user  *)
(* answers: no timer, stop signal or context ends these waits.             *)
Returns(w) ==
    \/ OpenState(w) \/ SendReturned(w) \/ CompressSent(w) \/ CompressSendFailed(w)
    \/ Answered(w)

Worker(w) == Goes(w) \/ Returns(w) \/ Ask(w)

-----------------------------------------------------------------------------
(***************************************************************************)
(* /stop and the agent process.                                            *)
(***************************************************************************)

(* stopInteractiveSession under interactiveMu: the entry is marked stopped *)
(* and deleted.                                                            *)
Stop ==
    /\ stopRef = NoState /\ stops < MaxStops
    /\ cur # NoState
    /\ stopped' = [stopped EXCEPT ![cur] = TRUE]
    /\ stopRef' = cur
    /\ cur' = NoState
    /\ stops' = stops + 1
    /\ UNCHANGED <<busy, agent, queue, curT, doneT, handlerVars, workerVars, fate>>

(* The rest of it: the senders in its queue are told. *)
StopNotify ==
    /\ stopRef # NoState
    /\ DropQueue(stopRef, fate)
    /\ stopRef' = NoState
    /\ UNCHANGED <<busy, cur, agent, stopped, curT, doneT, handlerVars, workerVars, stops>>

(* The agent process exits, by itself or because /stop closes it. *)
AgentDies(s) ==
    /\ agent[s] = "live" /\ ~Unreferenced(s)
    /\ agent' = [agent EXCEPT ![s] = "dead"]
    /\ UNCHANGED <<busy, cur, stopped, queue, curT, doneT, handlerVars,
                   workerVars, stopVars, fate>>

Next ==
    \/ \E m \in Msgs : Handler(m) \/ Worker(m)
    \/ Stop \/ StopNotify
    \/ \E s \in States : AgentDies(s)

(***************************************************************************)
(* Messages and commands need not come, and the agent need not die; the    *)
(* goroutines that were started run on.  A worker in its event loop has    *)
(* its idle timer (which the engine is taken to have on); one that is in a *)
(* call of the agent, or waits for a Send or for the user, has nothing,    *)
(* and no fairness is assumed of the steps that end these waits.           *)
(***************************************************************************)
Fairness ==
    /\ \A m \in Msgs :
        /\ WF_vars(TryLock(m) \/ Accept(m) \/ Lookup(m) \/ Enqueue(m) \/ Recheck(m))
        /\ WF_vars(Goes(m))
    /\ WF_vars(StopNotify)

Spec == Init /\ [][Next]_vars
FairSpec == Spec /\ Fairness

-----------------------------------------------------------------------------
(* The message's handler or worker holds the session lock. *)
InTurn(m) == hpc[m] = "accept" \/ wpc[m] \in HoldingPcs

(* One turn at a time: two goroutines never both start, run or drain the   *)
(* turns of this conversation.                                             *)
MutualExclusion == \A v, w \in Msgs : InTurn(v) /\ InTurn(w) => v = w

(* Session.busy is up exactly while some goroutine holds the session: no   *)
(* path forgets the unlock, and none unlocks what another one has locked.  *)
BusyIsHeld == busy <=> \E m \in Msgs : InTurn(m)

(* A turn never works on a state that another turn has replaced: the map   *)
(* entry is the state of the running worker, or /stop has deleted it.      *)
EntryIsServed ==
    \A w \in Msgs : wpc[w] \in HoldingPcs \ {"open", "orphan"} => cur \in {wref[w], NoState}

(* The goroutine of m works on the entry of the map, is about to open it,  *)
(* or is about to try the lock, whose holder it then is or meets.          *)
Attends(m) ==
    \/ hpc[m] \in {"accept", "recheck"}
    \/ wpc[m] \in {"open", "orphan"}
    \/ wpc[m] \in HoldingPcs /\ wref[m] = cur

(* The race guard of handleMessage: a message in the queue of the entry,   *)
(* with a live agent, always has a goroutine that comes to this very queue *)
(* or is at it; that some turn runs somewhere would not be enough.  This   *)
(* holds where a compress has unlocked the session for its turn, too.      *)
NoOrphanQueue ==
    cur # NoState /\ agent[cur] = "live" /\ queue[cur] # <<>> =>
        \E m \in Msgs : Attends(m)

(* A message waits in one place: at one position of one state's queue, and *)
(* only while nothing has become of it and no worker serves it.            *)
OneHome ==
    /\ \A s, t \in States : \A i \in DOMAIN queue[s], j \in DOMAIN queue[t] :
            queue[s][i] = queue[t][j] => s = t /\ i = j
    /\ \A s \in States : \A m \in ToSet(queue[s]) :
            /\ fate[m] = "queued"
            /\ \A w \in Msgs : wpc[w] # "done" => wmsg[w] # m

(* What became of a message is settled once: no message is answered and    *)
(* also reported dropped, nor handled by two goroutines.                   *)
FateSettledOnce == [][\A m \in Msgs : fate[m] \in FinalFates => fate'[m] = fate[m]]_vars

(* Worker w is in a call of the agent, or waits for one or for the user,   *)
(* with nothing that ends the wait.                                        *)
HeldUp(w) == wpc[w] \in {"open", "ask", "resend", "settle", "command"}

(* A turn ends: the session lock is always released again, unless a worker *)
(* is held up for good, or again and again by permission requests.         *)
LockReleased == busy ~> ~busy \/ \E w \in Msgs : HeldUp(w)

(* Message m sits in a queue that no worker will come back to by itself.   *)
Stranded(m) ==
    \E s \in States : m \in ToSet(queue[s]) /\ (s # cur \/ agent[s] # "live")

(* Message m is in the hands of a worker that is held up, or waits behind  *)
(* it, or one is about to open the state of the entry.                     *)
BehindHeldUp(m) ==
    \E w \in Msgs : /\ HeldUp(w)
                    /\ \/ wmsg[w] = m \/ wref[w] = NoState
                       \/ wref[w] # NoState /\ m \in ToSet(queue[wref[w]])

(* A message that was told it will be processed is dealt with, unless it   *)
(* is stranded behind an agent that is gone, or is with a worker that is   *)
(* held up for good, or again and again by permission requests.            *)
QueuedIsDealtWith ==
    \A m \in Msgs :
        fate[m] = "queued" ~> fate[m] \in FinalFates \/ Stranded(m) \/ BehindHeldUp(m)

-----------------------------------------------------------------------------
(***************************************************************************)
(* What the code's words promise and the code does not do; each is the     *)
(* property of a run that TLC finds violated.                              *)
(***************************************************************************)

(* A message that was told it will be processed is taken off the queue as  *)
(* stale only when a newer one has been served, not because of the ones    *)
(* queued behind it.                                                       *)
SupersededOnlyByServed ==
    [][\A m \in Msgs : fate[m] # "superseded" /\ fate'[m] = "superseded" =>
            \E s \in States : Time[m] < doneT[s] \/ Time[m] < curT[s]]_vars

(* An idle session leaves no message behind in the queue of its entry.     *)
NothingLeftBehind ==
    ~busy /\ cur # NoState /\ (\A m \in Msgs : hpc[m] # "recheck") => queue[cur] = <<>>
=============================================================================
