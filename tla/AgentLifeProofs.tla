---------------------------- MODULE AgentLifeProofs ----------------------------
(***************************************************************************)
(* The agent processes of a conversation, for any number of messages,      *)
(* states, processes and sessions.                                         *)
(***************************************************************************)
EXTENDS AgentLife, TLAPS

(* Where a worker has a state, and where it reads the events of a process. *)
RefPcs == {"guard"} \cup TurnPcs
UsePcs == TurnPcs \ {"start"}

WorkInv ==
    /\ \A m \in Msgs : pc[m] \notin {"new", "done"} => sess[m] \in Sessions /\ busy[sess[m]]
    /\ \A m \in Msgs : pc[m] \in RefPcs => ref[m] \in States
    /\ \A m \in Msgs : pc[m] \in UsePcs => uses[m] \in Procs
    /\ \A m \in Msgs : clean[m].pc # "off" <=> pc[m] = "clean"
    /\ \A a \in Cleaners : clean[a].pc = "stop" => clean[a].ref \in States

(* The command and the reaper are in a clean-up when they wait for one.    *)
ActorInv ==
    /\ clean[Cmd].pc # "off" <=> cmd = "clean"
    /\ clean[Reaper].pc # "off" <=> reap = "clean"

(* A state whose process a clean-up has taken out gets no other one while   *)
(* the clean-up has a pointer to it.                                        *)
TakenInv ==
    \A a \in Cleaners :
        clean[a].pc \in {"stop", "delete"} /\ clean[a].ref # 0 => agent[clean[a].ref] = 0

(* After Stop has emptied the map an entry has no process.                 *)
SweptInv == shut = "swept" => entry = 0 \/ agent[entry] = 0

Born(p) == p # 0 => life[p] # "unborn"

BornInv ==
    /\ \A s \in States : Born(agent[s])
    /\ \A x \in Sessions : Born(bound[x])
    /\ \A p \in Procs : Born(conv[p])
    /\ \A m \in Msgs : Born(uses[m])

(* The process of a worker's turn. *)
Attached(m, p) ==
    \/ pc[m] \in {"guard", "start"} /\ agent[ref[m]] = p
    \/ pc[m] \in UsePcs /\ uses[m] = p

(* The agent session c is the one of session x: its first process was       *)
(* started for x.  Or a second session was let on to it.                   *)
Owns(x, c) == starter[c] = x \/ c \in joined

OwnInv ==
    /\ \A x \in Sessions : bound[x] # 0 => Owns(x, bound[x])
    /\ \A m \in Msgs : \A p \in Procs :
          Attached(m, p) => Owns(sess[m], IF conv[p] = 0 THEN p ELSE conv[p])

(* A clean-up that was meant for a state works on that one, and no entry    *)
(* has the process it is about to close.                                   *)
CleanInv ==
    /\ \A a \in Cleaners : clean[a].pc = "off" => clean[a].exp = 0
    /\ \A a \in Cleaners : clean[a].pc = "stop" /\ clean[a].exp # 0 => clean[a].ref = clean[a].exp
    /\ \A a \in Cleaners : clean[a].pc = "stop" =>
          /\ Born(clean[a].proc)
          /\ clean[a].proc # 0 => \A s \in States : agent[s] # clean[a].proc
    /\ \A s, t \in States : agent[s] # 0 /\ agent[s] = agent[t] => s = t

LifeInv ==
    /\ TypeOK
    /\ WorkInv
    /\ ActorInv
    /\ TakenInv
    /\ LiveIsEntry
    /\ SweptInv
    /\ BornInv
    /\ OwnInv
    /\ CleanInv

-----------------------------------------------------------------------------
USE CountAssumption, EventsAssumption, ActorAssumption

LEMMA NewStateFacts == HasFree => NewState \in States /\ Free(NewState)
  BY DEF HasFree, NewState

LEMMA NumberFacts == 0 \notin States /\ 0 \notin Procs /\ 0 \notin Sessions /\ 1 \in Sessions
  BY DEF States, Procs, Sessions

(***************************************************************************)
(* The types, and what the places of a worker say of its variables.        *)
(***************************************************************************)
Sound == TypeOK /\ WorkInv

CleanRecords ==
    [pc : {"off", "capture", "stop", "delete"}, exp : States \cup {0}, ref : States \cup {0},
     proc : Procs \cup {0}]

(* The clean-ups that are going on, as far as the types say. *)
CleanType ==
    /\ clean \in [Cleaners -> CleanRecords]
    /\ \A a \in Cleaners : clean[a].pc = "stop" => clean[a].ref \in States

OneHolder ==
    \A v, w \in Msgs :
        (v # w /\ pc[v] \notin {"new", "done"} /\ pc[w] \notin {"new", "done"})
            => sess[v] # sess[w]

LEMMA NoCleanType ==
    /\ NoClean \in CleanRecords /\ NoClean.pc = "off"
    /\ \A s \in States \cup {0} :
          /\ [NoClean EXCEPT !.pc = "capture", !.exp = s] \in CleanRecords
          /\ [NoClean EXCEPT !.pc = "capture", !.exp = s].pc = "capture"
    /\ [NoClean EXCEPT !.pc = "capture"] \in CleanRecords
    /\ [NoClean EXCEPT !.pc = "capture"].pc = "capture"
  BY DEF NoClean, CleanRecords

LEMMA SoundInit == Init => Sound
<1> SUFFICES ASSUME Init PROVE Sound
  OBVIOUS
<1>1. clean \in [Cleaners -> CleanRecords] /\ \A a \in Cleaners : clean[a].pc = "off"
  BY NoCleanType DEF Init
<1>2. TypeOK
  <2>1. /\ agent \in [States -> Procs \cup {0}]
        /\ stopped \in [States -> BOOLEAN]
        /\ pend \in [States -> Msgs \cup {NoMsg}]
        /\ life \in [Procs -> {"unborn", "live", "over"}]
        /\ conv \in [Procs -> Procs \cup {0}]
        /\ bound \in [Sessions -> Procs \cup {0}]
        /\ busy \in [Sessions -> BOOLEAN]
    BY DEF Init
  <2>2. /\ pc \in [Msgs -> WorkerPcs]
        /\ sess \in [Msgs -> Sessions \cup {0}]
        /\ ref \in [Msgs -> States \cup {0}]
        /\ uses \in [Msgs -> Procs \cup {0}]
        /\ \A m \in Msgs : pc[m] = "new"
    BY DEF Init, WorkerPcs
  <2>. QED  BY <1>1, <2>1, <2>2, NumberFacts DEF Init, TypeOK, CleanRecords
<1>3. WorkInv
  BY <1>1 DEF Init, WorkInv, RefPcs, UsePcs, TurnPcs, Cleaners
<1>. QED  BY <1>2, <1>3 DEF Sound

(* A worker goes on, and nothing else of its variables changes. *)
LEMMA GotoSound ==
    ASSUME Sound, NEW m \in Msgs, NEW l \in WorkerPcs, Goto(m, l),
           pc[m] \notin {"new", "done"},
           pc[m] # "clean", l # "clean",
           l \in RefPcs => pc[m] \in RefPcs,
           l \in UsePcs => pc[m] \in UsePcs,
           UNCHANGED <<busy, sess, ref, uses, clean>>
    PROVE  /\ pc' \in [Msgs -> WorkerPcs]
           /\ OneHolder'
           /\ WorkInv'
<1>1. pc' \in [Msgs -> WorkerPcs] /\ pc'[m] = l /\ \A v \in Msgs : v # m => pc'[v] = pc[v]
  BY DEF Sound, TypeOK, Goto
<1>2. OneHolder'
  BY <1>1 DEF Sound, TypeOK, OneHolder
<1>3. WorkInv'
  BY <1>1 DEF Sound, WorkInv
<1>. QED  BY <1>1, <1>2, <1>3

(* Requests are resolved. *)
LEMMA ResolvedSound ==
    ASSUME Sound, NEW s, pc' = Resolved(s), UNCHANGED <<busy, sess, ref, uses>>
    PROVE  /\ pc' \in [Msgs -> WorkerPcs]
           /\ OneHolder'
           /\ \A m \in Msgs : pc'[m] \in RefPcs <=> pc[m] \in RefPcs
           /\ \A m \in Msgs : pc'[m] \in UsePcs <=> pc[m] \in UsePcs
           /\ \A m \in Msgs : pc'[m] = "clean" <=> pc[m] = "clean"
           /\ \A m \in Msgs : pc'[m] \in {"new", "done"} <=> pc[m] \in {"new", "done"}
<1>1. /\ pc' \in [Msgs -> WorkerPcs]
      /\ \A m \in Msgs : pc'[m] = pc[m] \/ (pc[m] = "ask" /\ pc'[m] = "turn")
  BY DEF Sound, TypeOK, Resolved, WorkerPcs, TurnPcs
<1>2. OneHolder'
  BY <1>1 DEF Sound, TypeOK, OneHolder
<1>. QED  BY <1>1, <1>2 DEF RefPcs, UsePcs, TurnPcs

LEMMA TryLockSound == ASSUME NEW m \in Msgs, Sound, TryLock(m) PROVE Sound'
<1>1. /\ pc[m] = "new" /\ ~busy[active]
      /\ busy' = [busy EXCEPT ![active] = TRUE]
      /\ sess' = [sess EXCEPT ![m] = active]
      /\ pc' = [pc EXCEPT ![m] = "open"]
      /\ UNCHANGED <<life, conv, starter, active, created, bound, ref, uses, clean, cmd, reap,
                     shut, left, lost, joined, deaf>>
  BY DEF TryLock, Lockable, Goto, procVars, ghostVars
<1>2. /\ entry' \in States \cup {0}
      /\ agent' \in [States -> Procs \cup {0}]
      /\ stopped' \in [States -> BOOLEAN]
      /\ pend' \in [States -> Msgs \cup {NoMsg}]
      /\ opened' \subseteq States
  <2>1. CASE entry # 0
    BY <2>1 DEF TryLock, stateVars, Sound, TypeOK
  <2>2. CASE entry = 0
    <3>. DEFINE s == NewState
    <3>1. Placeholder(s) /\ s \in States
      BY <2>2, NewStateFacts DEF TryLock, Placeholder
    <3>. HIDE DEF s
    <3>. QED  BY <3>1 DEF Placeholder, Sound, TypeOK
  <2>. QED  BY <2>1, <2>2
<1>3. OneHolder'
  BY <1>1 DEF Sound, TypeOK, WorkInv, OneHolder
<1>4. TypeOK'
  BY <1>1, <1>2, <1>3 DEF Sound, TypeOK, OneHolder, WorkerPcs
<1>5. WorkInv'
  BY <1>1 DEF Sound, TypeOK, WorkInv, RefPcs, UsePcs, TurnPcs
<1>. QED  BY <1>4, <1>5 DEF Sound

LEMMA ReplaceFacts ==
    ASSUME Sound, NEW m \in Msgs, NEW p \in Procs \cup {0}, NEW b \in Procs \cup {0},
           pc[m] = "open", Replace(m, p, b)
    PROVE  \E s \in States :
           /\ Free(s)
           /\ entry' = s
           /\ agent' = [agent EXCEPT ![s] = p]
           /\ stopped' \in [States -> BOOLEAN]
           /\ pend' = [pend EXCEPT ![s] = NoMsg]
           /\ opened' = {s}
           /\ life' = [q \in Procs |-> IF q = p THEN "live" ELSE RecycledLife[q]]
           /\ conv' = [q \in Procs |-> IF q = p THEN b ELSE conv[q]]
           /\ starter' = [q \in Procs |-> IF q = p THEN sess[m] ELSE starter[q]]
           /\ bound' = [bound EXCEPT ![sess[m]] = b]
           /\ ref' = [ref EXCEPT ![m] = s]
           /\ pc' = [pc EXCEPT ![m] = "guard"]
           /\ UNCHANGED <<active, created, busy, sess, uses, clean, cmd, reap, shut, left,
                          lost, joined>>
<1>. DEFINE s == NewState
<1>1. s \in States /\ Free(s)
  BY NewStateFacts DEF Replace
<1>2. /\ entry' = s
      /\ agent' = [agent EXCEPT ![s] = p]
      /\ stopped' = [i \in States |-> (i = entry /\ Live(entry)) \/ (i # s /\ stopped[i])]
      /\ pend' = [pend EXCEPT ![s] = NoMsg]
      /\ opened' = {s}
      /\ life' = [q \in Procs |-> IF q = p THEN "live" ELSE RecycledLife[q]]
      /\ conv' = [q \in Procs |-> IF q = p THEN b ELSE conv[q]]
      /\ starter' = [q \in Procs |-> IF q = p THEN sess[m] ELSE starter[q]]
      /\ bound' = [bound EXCEPT ![sess[m]] = b]
      /\ ref' = [ref EXCEPT ![m] = s]
      /\ pc' = [pc EXCEPT ![m] = "guard"]
      /\ UNCHANGED <<active, created, busy, sess, uses, clean, cmd, reap, shut, left,
                     lost, joined>>
  BY DEF Replace, Opened, Goto
<1>. HIDE DEF s
<1>3. stopped' \in [States -> BOOLEAN]
  BY <1>2 DEF Sound, TypeOK
<1>. QED  BY <1>1, <1>2, <1>3

(* Nobody is born or comes to life by a recycling or a closing. *)
LEMMA ClosingFacts ==
    ASSUME Sound, NEW P
    PROVE  /\ Closing(life, P) \in [Procs -> {"unborn", "live", "over"}]
           /\ \A q \in Procs : Closing(life, P)[q] = "live" <=> life[q] = "live" /\ q \notin P
           /\ \A q \in Procs : Closing(life, P)[q] = "unborn" <=> life[q] = "unborn"
  BY DEF Sound, TypeOK, Closing

LEMMA RecycledFacts ==
    ASSUME Sound
    PROVE  /\ RecycledLife \in [Procs -> {"unborn", "live", "over"}]
           /\ \A q \in Procs : RecycledLife[q] = "live" => life[q] = "live" /\ ~Held(q)
           /\ \A q \in Procs : RecycledLife[q] = "unborn" <=> life[q] = "unborn"
<1>1. CASE Live(entry)
  BY <1>1, ClosingFacts DEF RecycledLife, Held
<1>2. CASE ~Live(entry)
  BY <1>2, NumberFacts DEF RecycledLife, Sound, TypeOK, Live, Held
<1>. QED  BY <1>1, <1>2

LEMMA ReplaceSound ==
    ASSUME Sound, NEW m \in Msgs, NEW p \in Procs \cup {0}, NEW b \in Procs \cup {0},
           pc[m] = "open", Replace(m, p, b)
    PROVE  Sound'
<1>1. PICK s \in States :
           /\ entry' = s
           /\ agent' = [agent EXCEPT ![s] = p]
           /\ stopped' \in [States -> BOOLEAN]
           /\ pend' = [pend EXCEPT ![s] = NoMsg]
           /\ opened' = {s}
           /\ life' = [q \in Procs |-> IF q = p THEN "live" ELSE RecycledLife[q]]
           /\ conv' = [q \in Procs |-> IF q = p THEN b ELSE conv[q]]
           /\ bound' = [bound EXCEPT ![sess[m]] = b]
           /\ ref' = [ref EXCEPT ![m] = s]
           /\ pc' = [pc EXCEPT ![m] = "guard"]
           /\ UNCHANGED <<active, created, busy, sess, uses, clean, cmd, reap, shut>>
  BY ReplaceFacts
<1>2. /\ agent' \in [States -> Procs \cup {0}]
      /\ pend' \in [States -> Msgs \cup {NoMsg}]
      /\ conv' \in [Procs -> Procs \cup {0}]
      /\ bound' \in [Sessions -> Procs \cup {0}]
      /\ ref' \in [Msgs -> States \cup {0}]
      /\ pc' \in [Msgs -> WorkerPcs]
      /\ opened' \subseteq States
  BY <1>1 DEF Sound, TypeOK, WorkerPcs
<1>3. life' \in [Procs -> {"unborn", "live", "over"}]
  BY <1>1, RecycledFacts
<1>4. OneHolder'
  BY <1>1 DEF Sound, TypeOK, OneHolder
<1>5. TypeOK'
  BY <1>1, <1>2, <1>3, <1>4 DEF Sound, TypeOK, OneHolder
<1>6. WorkInv'
  BY <1>1 DEF Sound, TypeOK, WorkInv, RefPcs, UsePcs, TurnPcs
<1>. QED  BY <1>5, <1>6 DEF Sound


LEMMA PanicSound == Sound /\ Panic => Sound'
<1> SUFFICES ASSUME Sound, Panic PROVE Sound'
  OBVIOUS
<1>1. /\ shut' = "panicked" /\ entry' = 0
      /\ life' = [p \in Procs |-> "over"]
      /\ pc' = [m \in Msgs |-> "done"]
      /\ sess' = [m \in Msgs |-> 0]
      /\ ref' = [m \in Msgs |-> 0]
      /\ uses' = [m \in Msgs |-> 0]
      /\ clean' = [a \in Cleaners |-> NoClean]
      /\ cmd' = "done" /\ reap' = "done"
      /\ UNCHANGED <<agent, stopped, pend, opened, conv, active, created, bound, busy>>
  BY DEF Panic, sessionVars
<1>2. /\ clean' \in [Cleaners -> CleanRecords]
      /\ \A a \in Cleaners : clean'[a].pc = "off"
  BY <1>1, NoCleanType
<1>3. /\ life' \in [Procs -> {"unborn", "live", "over"}]
      /\ pc' \in [Msgs -> WorkerPcs]
      /\ sess' \in [Msgs -> Sessions \cup {0}]
      /\ ref' \in [Msgs -> States \cup {0}]
      /\ uses' \in [Msgs -> Procs \cup {0}]
      /\ \A m \in Msgs : pc'[m] = "done"
  BY <1>1 DEF WorkerPcs
<1>4. TypeOK'
  BY <1>1, <1>2, <1>3 DEF Sound, TypeOK, CleanRecords
<1>5. WorkInv'
  BY <1>2, <1>3 DEF WorkInv, RefPcs, UsePcs, TurnPcs, Cleaners
<1>. QED  BY <1>4, <1>5 DEF Sound

LEMMA WorkerSound == ASSUME NEW m \in Msgs, Sound, Worker(m) PROVE Sound'
<1>. USE DEF WorkerPcs, RefPcs, UsePcs, TurnPcs
<1>1. CASE TryLock(m)
  BY <1>1, TryLockSound
<1>2. CASE Skip(m)
  <2>1. pc' \in [Msgs -> WorkerPcs] /\ OneHolder' /\ WorkInv'
    BY <1>2, GotoSound DEF Skip, sessionVars
  <2>. QED  BY <1>2, <2>1 DEF Skip, Sound, TypeOK, OneHolder, stateVars, procVars, sessionVars
<1>3. CASE Reuse(m)
  <2>1. /\ pc[m] = "open" /\ entry # 0
        /\ ref' = [ref EXCEPT ![m] = entry]
        /\ pc' = [pc EXCEPT ![m] = "guard"]
        /\ opened' = {entry}
        /\ UNCHANGED <<entry, agent, stopped, pend, life, conv, active, created, bound, busy,
                       sess, uses, clean, cmd, reap, shut>>
    BY <1>3 DEF Reuse, Opened, Goto, Live, procVars, sessionVars
  <2>2. entry \in States
    BY <2>1 DEF Sound, TypeOK
  <2>3. OneHolder'
    BY <2>1 DEF Sound, TypeOK, OneHolder
  <2>4. TypeOK'
    BY <2>1, <2>2, <2>3 DEF Sound, TypeOK, OneHolder
  <2>5. WorkInv'
    BY <2>1, <2>2 DEF Sound, TypeOK, WorkInv
  <2>. QED  BY <2>4, <2>5 DEF Sound
<1>4. CASE Restart(m)
  <2>1. sess[m] \in Sessions /\ bound[sess[m]] \in Procs \cup {0}
    BY <1>4 DEF Restart, Sound, WorkInv, TypeOK
  <2>2. PICK p \in Procs \cup {0}, b \in Procs \cup {0} : Replace(m, p, b)
    BY <1>4, <2>1 DEF Restart, Unborn
  <2>. QED  BY <1>4, <2>2, ReplaceSound DEF Restart
<1>5. CASE Guard(m)
  <2>. DEFINE l == IF agent[ref[m]] = 0 THEN "unlock" ELSE "start"
  <2>1. l \in {"unlock", "start"} /\ Goto(m, l) /\ pc[m] = "guard"
    BY <1>5 DEF Guard
  <2>. HIDE DEF l
  <2>2. pc' \in [Msgs -> WorkerPcs] /\ OneHolder' /\ WorkInv'
    BY <1>5, <2>1, GotoSound DEF Guard, sessionVars
  <2>. QED  BY <1>5, <2>2 DEF Guard, Sound, TypeOK, OneHolder, stateVars, procVars, sessionVars
<1>6. CASE Start(m)
  <2>1. /\ pc[m] = "start" /\ agent[ref[m]] # 0
        /\ uses' = [uses EXCEPT ![m] = agent[ref[m]]]
        /\ pc' = [pc EXCEPT ![m] = "turn"]
        /\ UNCHANGED <<entry, agent, stopped, pend, opened, life, conv, active, created, bound,
                       busy, sess, ref, clean, cmd, reap, shut>>
    BY <1>6 DEF Start, Goto, stateVars, procVars, sessionVars
  <2>2. agent[ref[m]] \in Procs
    BY <2>1 DEF Sound, TypeOK, WorkInv
  <2>3. OneHolder'
    BY <2>1 DEF Sound, TypeOK, OneHolder
  <2>4. TypeOK'
    BY <2>1, <2>2, <2>3 DEF Sound, TypeOK, OneHolder
  <2>5. WorkInv'
    BY <2>1, <2>2 DEF Sound, TypeOK, WorkInv
  <2>. QED  BY <2>4, <2>5 DEF Sound
<1>7. CASE UsesNil(m)
  BY <1>7, PanicSound DEF UsesNil
<1>8. CASE Bind(m)
  <2>1. sess[m] \in Sessions /\ uses[m] \in Procs
    BY <1>8 DEF Bind, Sound, WorkInv
  <2>2. bound' \in [Sessions -> Procs \cup {0}]
    BY <1>8, <2>1 DEF Bind, Sound, TypeOK
  <2>3. pc' \in [Msgs -> WorkerPcs] /\ OneHolder' /\ WorkInv'
    BY <1>8, GotoSound DEF Bind
  <2>. QED  BY <1>8, <2>2, <2>3 DEF Bind, Sound, TypeOK, OneHolder, stateVars, procVars
<1>14. CASE TakeEvent(m)
  <2>1. pc' \in [Msgs -> WorkerPcs] /\ OneHolder' /\ WorkInv'
    BY <1>14, GotoSound DEF TakeEvent, sessionVars
  <2>. QED  BY <1>14, <2>1 DEF TakeEvent, Sound, TypeOK, OneHolder, stateVars, procVars, sessionVars
<1>9. CASE TurnEnds(m)
  <2>1. pc' \in [Msgs -> WorkerPcs] /\ OneHolder' /\ WorkInv'
    BY <1>9, GotoSound DEF TurnEnds, sessionVars
  <2>. QED  BY <1>9, <2>1 DEF TurnEnds, Sound, TypeOK, OneHolder, stateVars, procVars, sessionVars
<1>10. CASE TurnFails(m)
  <2>1. /\ pc[m] = "turn" /\ pc' = [pc EXCEPT ![m] = "clean"]
        /\ clean' = [clean EXCEPT ![m] = [NoClean EXCEPT !.pc = "capture", !.exp = ref[m]]]
        /\ UNCHANGED <<entry, agent, stopped, pend, opened, life, conv, active, created, bound,
                       busy, sess, ref, uses, cmd, reap, shut>>
    BY <1>10 DEF TurnFails, Goto, stateVars, procVars, sessionVars
  <2>2. /\ [NoClean EXCEPT !.pc = "capture", !.exp = ref[m]] \in CleanRecords
        /\ [NoClean EXCEPT !.pc = "capture", !.exp = ref[m]].pc = "capture"
    BY NoCleanType DEF Sound, TypeOK
  <2>3. m \in Cleaners
    BY DEF Cleaners
  <2>4. /\ clean' \in [Cleaners -> CleanRecords]
        /\ clean'[m].pc = "capture"
        /\ \A a \in Cleaners : a # m => clean'[a] = clean[a]
    BY <2>1, <2>2, <2>3 DEF Sound, TypeOK, CleanRecords
  <2>5. OneHolder'
    BY <2>1 DEF Sound, TypeOK, OneHolder
  <2>6. TypeOK'
    BY <2>1, <2>4, <2>5 DEF Sound, TypeOK, OneHolder, CleanRecords
  <2>7. WorkInv'
    BY <2>1, <2>3, <2>4 DEF Sound, TypeOK, WorkInv, Cleaners
  <2>. QED  BY <2>6, <2>7 DEF Sound
<1>11. CASE Request(m)
  <2>1. pc' \in [Msgs -> WorkerPcs] /\ OneHolder' /\ WorkInv'
    BY <1>11, GotoSound DEF Request, sessionVars
  <2>. QED  BY <1>11, <2>1 DEF Request, Sound, TypeOK, OneHolder, stateVars, procVars, sessionVars
<1>12. CASE Ask(m)
  <2>1. /\ pc[m] = "posting" /\ Goto(m, "ask")
        /\ pend' = [pend EXCEPT ![ref[m]] = m]
        /\ UNCHANGED <<entry, agent, stopped, opened, life, conv, active, created, bound, busy,
                       sess, ref, uses, clean, cmd, reap, shut>>
    BY <1>12 DEF Ask, procVars, sessionVars
  <2>2. pc' \in [Msgs -> WorkerPcs] /\ OneHolder' /\ WorkInv'
    BY <2>1, GotoSound
  <2>3. pend' \in [States -> Msgs \cup {NoMsg}]
    BY <2>1 DEF Sound, TypeOK
  <2>. QED  BY <2>1, <2>2, <2>3 DEF Sound, TypeOK, OneHolder
<1>13. CASE Unlock(m)
  <2>1. /\ pc[m] = "unlock"
        /\ busy' = [busy EXCEPT ![sess[m]] = FALSE]
        /\ pc' = [pc EXCEPT ![m] = "done"]
        /\ ref' = [ref EXCEPT ![m] = 0]
        /\ uses' = [uses EXCEPT ![m] = 0]
        /\ sess' = [sess EXCEPT ![m] = 0]
        /\ UNCHANGED <<entry, agent, stopped, pend, opened, life, conv, active, created, bound,
                       clean, cmd, reap, shut>>
    BY <1>13 DEF Unlock, stateVars, procVars
  <2>2. OneHolder'
    BY <2>1 DEF Sound, TypeOK, OneHolder
  <2>3. TypeOK'
    BY <2>1, <2>2 DEF Sound, TypeOK, OneHolder
  <2>4. \A v \in Msgs : v # m /\ pc[v] \notin {"new", "done"} => sess[v] # sess[m]
    BY <2>1 DEF Sound, TypeOK
  <2>5. WorkInv'
    BY <2>1, <2>4 DEF Sound, TypeOK, WorkInv
  <2>. QED  BY <2>3, <2>5 DEF Sound
<1>. QED  BY <1>1, <1>2, <1>3, <1>4, <1>5, <1>6, <1>7, <1>8, <1>9, <1>10, <1>11, <1>12, <1>13,
             <1>14 DEF Worker, Open, Turn


LEMMA AfterSound ==
    ASSUME Sound, NEW a \in Cleaners, clean[a].pc # "off", After(a, pc),
           UNCHANGED <<busy, sess, ref, uses>>
    PROVE  /\ pc' \in [Msgs -> WorkerPcs]
           /\ cmd' \in {"new", "clean", "clear", "create", "done"}
           /\ reap' \in {"new", "clean", "done"}
           /\ clean' \in [Cleaners -> CleanRecords]
           /\ OneHolder'
           /\ WorkInv'
<1>1. /\ pc' = [m \in Msgs |-> IF m = a THEN "unlock" ELSE pc[m]]
      /\ clean' = [clean EXCEPT ![a] = NoClean]
      /\ cmd' \in {"new", "clean", "clear", "create", "done"}
      /\ reap' \in {"new", "clean", "done"}
  BY DEF After, Sound, TypeOK
<1>2. /\ pc' \in [Msgs -> WorkerPcs]
      /\ clean' \in [Cleaners -> CleanRecords]
      /\ clean'[a].pc = "off" /\ \A b \in Cleaners : b # a => clean'[b] = clean[b]
  <2>1. pc \in [Msgs -> WorkerPcs] /\ clean \in [Cleaners -> CleanRecords]
    BY DEF Sound, TypeOK, CleanRecords
  <2>2. pc' \in [Msgs -> WorkerPcs]
    BY <1>1, <2>1 DEF WorkerPcs
  <2> QED
    BY <1>1, <2>1, <2>2, NoCleanType
<1>3. \A m \in Msgs : m = a => pc[m] = "clean"
  BY DEF Sound, WorkInv
<1>4. \A m \in Msgs : m \in Cleaners
  BY DEF Cleaners
<1>5. OneHolder'
  BY <1>1, <1>3 DEF Sound, TypeOK, OneHolder
<1>6. WorkInv'
  BY <1>1, <1>2, <1>3, <1>4 DEF Sound, WorkInv, RefPcs, UsePcs, TurnPcs
<1>. QED  BY <1>1, <1>2, <1>5, <1>6

(* The clean-up takes the entry as it is. *)
LEMMA CaptureFacts ==
    ASSUME Sound, NEW a \in Cleaners, Capture(a), ~Superseded(a)
    PROVE  \E c \in CleanRecords :
           /\ c.pc = (IF entry = 0 THEN "delete" ELSE "stop")
           /\ c.exp = clean[a].exp
           /\ c.ref = entry
           /\ c.proc = (IF entry = 0 THEN 0 ELSE agent[entry])
           /\ clean' = [clean EXCEPT ![a] = c]
           /\ agent' = (IF entry = 0 THEN agent ELSE [agent EXCEPT ![entry] = 0])
<1>. DEFINE c == [pc   |-> IF entry = 0 THEN "delete" ELSE "stop",
                  exp  |-> clean[a].exp,
                  ref  |-> entry,
                  proc |-> IF entry = 0 THEN 0 ELSE agent[entry]]
<1>1. c \in CleanRecords
  BY DEF Sound, TypeOK, CleanRecords
<1>2. /\ c.pc = (IF entry = 0 THEN "delete" ELSE "stop")
      /\ c.exp = clean[a].exp
      /\ c.ref = entry
      /\ c.proc = (IF entry = 0 THEN 0 ELSE agent[entry])
  OBVIOUS
<1>3. /\ clean' = [clean EXCEPT ![a] = c]
      /\ agent' = (IF entry = 0 THEN agent ELSE [agent EXCEPT ![entry] = 0])
  BY DEF Capture
<1>. HIDE DEF c
<1>. QED  BY <1>1, <1>2, <1>3

LEMMA CleanupSound == ASSUME NEW a \in Cleaners, Sound, Cleanup(a) PROVE Sound'
<1>1. CASE Capture(a) /\ Superseded(a)
  <2>1. /\ clean[a].pc = "capture" /\ After(a, pc)
        /\ UNCHANGED <<agent, entry, stopped, pend, opened, life, conv, active, created, bound,
                       busy, sess, ref, uses, shut>>
    BY <1>1 DEF Capture, procVars, sessionVars
  <2>. QED  BY <2>1, AfterSound DEF Sound, TypeOK, OneHolder, CleanRecords
<1>2. CASE Capture(a) /\ ~Superseded(a)
  <2>1. PICK c \in CleanRecords :
           /\ c.pc = (IF entry = 0 THEN "delete" ELSE "stop")
           /\ c.ref = entry
           /\ clean' = [clean EXCEPT ![a] = c]
           /\ agent' = (IF entry = 0 THEN agent ELSE [agent EXCEPT ![entry] = 0])
    BY <1>2, CaptureFacts
  <2>2. /\ clean[a].pc = "capture"
        /\ UNCHANGED <<pc, cmd, reap, entry, stopped, pend, opened, life, conv, active, created,
                       bound, busy, sess, ref, uses, shut>>
    BY <1>2 DEF Capture, procVars, sessionVars
  <2>3. /\ clean' \in [Cleaners -> CleanRecords]
        /\ clean'[a] = c /\ \A b \in Cleaners : b # a => clean'[b] = clean[b]
        /\ agent' \in [States -> Procs \cup {0}]
    BY <2>1 DEF Sound, TypeOK, CleanRecords
  <2>4. TypeOK'
    BY <2>2, <2>3 DEF Sound, TypeOK, CleanRecords
  <2>5. c.pc = "stop" => c.ref \in States
    BY <2>1 DEF Sound, TypeOK
  <2>6. WorkInv'
    BY <2>1, <2>2, <2>3, <2>5 DEF Sound, WorkInv, Cleaners
  <2>. QED  BY <2>4, <2>6 DEF Sound
<1>3. CASE StopAndClose(a)
  <2>1. /\ clean[a].pc = "stop" /\ clean[a].ref \in States
        /\ stopped' = [stopped EXCEPT ![clean[a].ref] = TRUE]
        /\ pend' = [pend EXCEPT ![clean[a].ref] = NoMsg]
        /\ pc' = Resolved(clean[a].ref)
        /\ life' = Closing(life, {clean[a].proc})
        /\ clean' = [clean EXCEPT ![a].pc = "delete"]
        /\ UNCHANGED <<entry, agent, opened, conv, active, created, bound, busy, sess, ref, uses,
                       cmd, reap, shut>>
    BY <1>3 DEF StopAndClose, sessionVars, Sound, WorkInv
  <2>2. /\ pc' \in [Msgs -> WorkerPcs]
        /\ OneHolder'
        /\ \A m \in Msgs : pc'[m] \in RefPcs <=> pc[m] \in RefPcs
        /\ \A m \in Msgs : pc'[m] \in UsePcs <=> pc[m] \in UsePcs
        /\ \A m \in Msgs : pc'[m] = "clean" <=> pc[m] = "clean"
        /\ \A m \in Msgs : pc'[m] \in {"new", "done"} <=> pc[m] \in {"new", "done"}
    BY <2>1, ResolvedSound
  <2>3. life' \in [Procs -> {"unborn", "live", "over"}]
    BY <2>1, ClosingFacts
  <2>4. /\ clean' \in [Cleaners -> CleanRecords]
        /\ clean'[a].pc = "delete" /\ \A b \in Cleaners : b # a => clean'[b] = clean[b]
    <3>1. clean \in [Cleaners -> CleanRecords] /\ clean[a] \in CleanRecords
      BY DEF Sound, TypeOK, CleanRecords
    <3>. DEFINE c == [clean[a] EXCEPT !.pc = "delete"]
    <3>2. c \in CleanRecords /\ c.pc = "delete"
      BY <3>1 DEF CleanRecords
    <3>3. clean' = [clean EXCEPT ![a] = c]
      BY <2>1
    <3>. HIDE DEF c
    <3>. QED  BY <3>1, <3>2, <3>3
  <2>5. /\ stopped' \in [States -> BOOLEAN]
        /\ pend' \in [States -> Msgs \cup {NoMsg}]
    BY <2>1 DEF Sound, TypeOK
  <2>6. TypeOK'
    BY <2>1, <2>2, <2>3, <2>4, <2>5 DEF Sound, TypeOK, OneHolder, CleanRecords
  <2>7. WorkInv'
    BY <2>1, <2>2, <2>4 DEF Sound, WorkInv, Cleaners
  <2>. QED  BY <2>6, <2>7 DEF Sound
<1>4. CASE Delete(a)
  <2>1. /\ clean[a].pc = "delete" /\ After(a, pc)
        /\ entry' \in {entry, 0}
        /\ UNCHANGED <<agent, stopped, pend, opened, life, conv, active, created, bound,
                       busy, sess, ref, uses, shut>>
    BY <1>4 DEF Delete, procVars, sessionVars
  <2>. QED  BY <2>1, AfterSound DEF Sound, TypeOK, OneHolder, CleanRecords
<1>. QED  BY <1>1, <1>2, <1>3, <1>4 DEF Cleanup

(* A step that touches no worker and no clean-up. *)
LEMMA RestSound ==
    ASSUME Sound, UNCHANGED <<busy, pc, sess, ref, uses, clean>>
    PROVE  WorkInv' /\ OneHolder'
  BY DEF Sound, WorkInv, TypeOK, OneHolder

LEMMA OthersSound ==
    ASSUME Sound,
           \/ Command \/ SwitchSession
           \/ ReapTargets
           \/ StopInteractiveSession \/ Answer \/ AnswerOnNil
           \/ Cancel \/ Sweep
           \/ \E p \in Procs : Report(p) \/ Exit(p)
    PROVE  Sound'
<1>. USE DEF stateVars, procVars, sessionVars, workerVars
<1>1. CASE CommandCleans
  <2>. DEFINE c == [NoClean EXCEPT !.pc = "capture"]
  <2>1. /\ c \in CleanRecords /\ c.pc = "capture"
        /\ Cmd \in Cleaners /\ Cmd \notin Msgs
    BY NoCleanType DEF Cleaners
  <2>2. clean' = [clean EXCEPT ![Cmd] = c]
    BY <1>1 DEF CommandCleans
  <2>. HIDE DEF c
  <2>3. /\ clean' \in [Cleaners -> CleanRecords]
        /\ clean'[Cmd].pc = "capture" /\ \A b \in Cleaners : b # Cmd => clean'[b] = clean[b]
    BY <2>1, <2>2 DEF Sound, TypeOK, CleanRecords
  <2>4. TypeOK'
    BY <1>1, <2>3 DEF CommandCleans, Sound, TypeOK, CleanRecords
  <2>5. WorkInv'
    BY <1>1, <2>1, <2>3 DEF CommandCleans, Sound, WorkInv, Cleaners
  <2>. QED  BY <2>4, <2>5 DEF Sound
<1>2. CASE CommandClears
  <2>1. bound' \in [Sessions -> Procs \cup {0}]
    BY <1>2 DEF CommandClears, Sound, TypeOK
  <2>. QED  BY <1>2, <2>1, RestSound DEF CommandClears, Sound, TypeOK, OneHolder
<1>3. CASE CommandEnds
  <2>1. active' \in Sessions /\ created' \in Sessions /\ active' <= created'
    BY <1>3 DEF CommandEnds, Sound, TypeOK, Sessions
  <2>. QED  BY <1>3, <2>1, RestSound DEF CommandEnds, Sound, TypeOK, OneHolder
<1>4. CASE SwitchSession
  <2>1. active' \in Sessions /\ active' <= created
    BY <1>4 DEF SwitchSession, Sound, TypeOK, Sessions
  <2>. QED  BY <1>4, <2>1, RestSound DEF SwitchSession, Sound, TypeOK, OneHolder
<1>6. CASE ReapTargets
  <2>. DEFINE c == [NoClean EXCEPT !.pc = "capture", !.exp = entry]
  <2>1. /\ c \in CleanRecords /\ c.pc = "capture"
        /\ Reaper \in Cleaners /\ Reaper \notin Msgs
    BY NoCleanType DEF Cleaners, Sound, TypeOK
  <2>2. \/ UNCHANGED clean
        \/ clean' = [clean EXCEPT ![Reaper] = c]
    BY <1>6 DEF ReapTargets
  <2>. HIDE DEF c
  <2>3. /\ clean' \in [Cleaners -> CleanRecords]
        /\ clean'[Reaper].pc = "stop" => clean[Reaper].pc = "stop" /\ UNCHANGED clean
        /\ \A b \in Cleaners : b # Reaper => clean'[b] = clean[b]
    BY <2>1, <2>2 DEF Sound, TypeOK, CleanRecords
  <2>4. TypeOK'
    BY <1>6, <2>3 DEF ReapTargets, Sound, TypeOK, CleanRecords
  <2>5. WorkInv'
    BY <1>6, <2>1, <2>3 DEF ReapTargets, Sound, WorkInv, Cleaners
  <2>. QED  BY <2>4, <2>5 DEF Sound
<1>7. ASSUME entry \in States, pc' = Resolved(entry),
             pend' = [pend EXCEPT ![entry] = NoMsg],
             UNCHANGED <<agent, opened, conv, active, created, bound, busy, sess, ref, uses, clean,
                         cmd, reap, shut>>,
             entry' \in {entry, 0},
             stopped' \in [States -> BOOLEAN],
             life' \in [Procs -> {"unborn", "live", "over"}]
      PROVE  Sound'
  <2>1. /\ pc' \in [Msgs -> WorkerPcs]
        /\ OneHolder'
        /\ \A m \in Msgs : pc'[m] \in RefPcs <=> pc[m] \in RefPcs
        /\ \A m \in Msgs : pc'[m] \in UsePcs <=> pc[m] \in UsePcs
        /\ \A m \in Msgs : pc'[m] = "clean" <=> pc[m] = "clean"
        /\ \A m \in Msgs : pc'[m] \in {"new", "done"} <=> pc[m] \in {"new", "done"}
    BY <1>7, ResolvedSound
  <2>2. pend' \in [States -> Msgs \cup {NoMsg}]
    BY <1>7 DEF Sound, TypeOK
  <2>3. TypeOK'
    BY <1>7, <2>1, <2>2 DEF Sound, TypeOK, OneHolder
  <2>4. WorkInv'
    BY <1>7, <2>1 DEF Sound, WorkInv
  <2>. QED  BY <2>3, <2>4 DEF Sound
<1>8. CASE StopInteractiveSession
  <2>1. entry \in States
    BY <1>8 DEF StopInteractiveSession, Sound, TypeOK
  <2>2. stopped' \in [States -> BOOLEAN]
    BY <1>8, <2>1 DEF StopInteractiveSession, Sound, TypeOK
  <2>3. life' \in [Procs -> {"unborn", "live", "over"}]
    BY <1>8, ClosingFacts DEF StopInteractiveSession
  <2>. QED  BY <1>7, <1>8, <2>1, <2>2, <2>3 DEF StopInteractiveSession
<1>9. CASE Answer
  <2>1. entry \in States
    BY <1>9 DEF Answer, Sound, TypeOK
  <2>. QED  BY <1>7, <1>9, <2>1 DEF Answer, Sound, TypeOK
<1>10. CASE AnswerOnNil
  BY <1>10, PanicSound DEF AnswerOnNil
<1>11. CASE Cancel
  BY <1>11, RestSound DEF Cancel, Sound, TypeOK, OneHolder
<1>12. CASE Sweep
  <2>1. life' \in [Procs -> {"unborn", "live", "over"}]
    BY <1>12, ClosingFacts DEF Sweep, Sound, TypeOK
  <2>. QED  BY <1>12, <2>1, RestSound DEF Sweep, Sound, TypeOK, OneHolder
<1>13. ASSUME NEW p \in Procs, Report(p) PROVE Sound'
  BY <1>13, RestSound DEF Report, Sound, TypeOK, OneHolder
<1>14. ASSUME NEW p \in Procs, Exit(p) PROVE Sound'
  BY <1>14, RestSound DEF Exit, Sound, TypeOK, OneHolder
<1>. QED  BY <1>1, <1>2, <1>3, <1>4, <1>6, <1>8, <1>9, <1>10, <1>11, <1>12, <1>13, <1>14
          DEF Command

LEMMA SoundStep == Sound /\ [Next]_vars => Sound'
<1> SUFFICES ASSUME Sound, [Next]_vars PROVE Sound'
  OBVIOUS
<1>1. CASE UNCHANGED vars
  <2>1. /\ UNCHANGED <<busy, pc, sess, ref, uses, clean>>
        /\ UNCHANGED <<entry, agent, stopped, pend, opened, life, conv, active, created, bound,
                       cmd, reap, shut>>
    BY <1>1 DEF vars, stateVars, procVars, sessionVars, workerVars
  <2>. QED  BY <2>1, RestSound DEF Sound, TypeOK, OneHolder
<1>. QED  BY <1>1, WorkerSound, CleanupSound, OthersSound DEF Next


-----------------------------------------------------------------------------
(***************************************************************************)
(* The command and the reaper.                                             *)
(***************************************************************************)

LEMMA ActorStep == Sound /\ ActorInv /\ [Next]_vars => ActorInv'
<1> SUFFICES ASSUME Sound, ActorInv, [Next]_vars PROVE ActorInv'
  OBVIOUS
<1>1. /\ Cmd \in Cleaners /\ Reaper \in Cleaners /\ Cmd # Reaper
      /\ \A m \in Msgs : m \in Cleaners /\ m # Cmd /\ m # Reaper
      /\ NoClean.pc = "off"
  BY NoCleanType DEF Cleaners
<1>2. CASE UNCHANGED <<cmd, reap, clean>>
  BY <1>2 DEF ActorInv
<1>3. ASSUME NEW m \in Msgs, TurnFails(m) PROVE ActorInv'
  <2>1. /\ UNCHANGED <<cmd, reap>>
        /\ clean'[Cmd] = clean[Cmd] /\ clean'[Reaper] = clean[Reaper]
    BY <1>1, <1>3 DEF TurnFails, Sound, TypeOK
  <2>. QED  BY <2>1 DEF ActorInv
<1>4. CASE Panic
  <2>1. /\ cmd' = "done" /\ reap' = "done"
        /\ clean'[Cmd] = NoClean /\ clean'[Reaper] = NoClean
    BY <1>1, <1>4 DEF Panic
  <2>. QED  BY <1>1, <2>1 DEF ActorInv
<1>5. ASSUME NEW a \in Cleaners, clean[a].pc # "off", After(a, pc) PROVE ActorInv'
  <2>1. /\ cmd' = (IF a = Cmd THEN "clear" ELSE cmd)
        /\ reap' = (IF a = Reaper THEN "done" ELSE reap)
        /\ clean'[a] = NoClean /\ \A b \in Cleaners : b # a => clean'[b] = clean[b]
    BY <1>5 DEF After, Sound, TypeOK
  <2>. QED  BY <1>1, <2>1 DEF ActorInv
<1>6. ASSUME NEW a \in Cleaners, clean[a].pc # "off", clean'[a].pc # "off",
             \A b \in Cleaners : b # a => clean'[b] = clean[b],
             UNCHANGED <<cmd, reap>>
      PROVE  ActorInv'
  BY <1>1, <1>6 DEF ActorInv
<1>7. ASSUME NEW a \in Cleaners, Cleanup(a) PROVE ActorInv'
  <2>1. CASE Capture(a) /\ Superseded(a)
    BY <1>5, <2>1 DEF Capture
  <2>2. CASE Capture(a) /\ ~Superseded(a)
    <3>1. PICK c \in CleanRecords :
             /\ c.pc = (IF entry = 0 THEN "delete" ELSE "stop")
             /\ clean' = [clean EXCEPT ![a] = c]
      BY <2>2, CaptureFacts
    <3>2. clean'[a] = c /\ \A b \in Cleaners : b # a => clean'[b] = clean[b]
      BY <3>1 DEF Sound, TypeOK
    <3>3. clean[a].pc # "off" /\ UNCHANGED <<cmd, reap>>
      BY <2>2 DEF Capture
    <3>4. clean'[a].pc # "off"
      BY <3>1, <3>2
    <3>. QED  BY <1>6, <3>2, <3>3, <3>4
  <2>3. CASE StopAndClose(a)
    <3>1. /\ clean[a].pc = "stop" /\ UNCHANGED <<cmd, reap>>
          /\ clean'[a].pc = "delete" /\ \A b \in Cleaners : b # a => clean'[b] = clean[b]
      BY <2>3 DEF StopAndClose, Sound, TypeOK
    <3>. QED  BY <1>6, <3>1
  <2>4. CASE Delete(a)
    BY <1>5, <2>4 DEF Delete
  <2>. QED  BY <1>7, <2>1, <2>2, <2>3, <2>4 DEF Cleanup
<1>8. CASE Command
  <2>1. CASE CommandCleans
    <3>1. /\ cmd' = "clean" /\ UNCHANGED reap
          /\ clean'[Cmd] = [NoClean EXCEPT !.pc = "capture"]
          /\ clean'[Reaper] = clean[Reaper]
      BY <1>1, <2>1 DEF CommandCleans, Sound, TypeOK
    <3>. QED  BY <3>1, NoCleanType DEF ActorInv
  <2>2. CASE CommandClears \/ CommandEnds
    BY <2>2 DEF CommandClears, CommandEnds, ActorInv
  <2>. QED  BY <1>8, <2>1, <2>2 DEF Command
<1>10. CASE ReapTargets
  <2>1. CASE entry \in opened
    <3>1. /\ reap' = "clean" /\ UNCHANGED cmd
          /\ clean'[Reaper] = [NoClean EXCEPT !.pc = "capture", !.exp = entry]
          /\ clean'[Cmd] = clean[Cmd]
      BY <1>1, <1>10, <2>1 DEF ReapTargets, Sound, TypeOK
    <3>2. entry \in States \cup {0}
      BY DEF Sound, TypeOK
    <3>. QED  BY <3>1, <3>2, NoCleanType DEF ActorInv
  <2>2. CASE entry \notin opened
    BY <1>10, <2>2 DEF ReapTargets, ActorInv
  <2>. QED  BY <2>1, <2>2
<1>11. ASSUME NEW m \in Msgs, Worker(m) PROVE ActorInv'
  <2>1. CASE TurnFails(m)
    BY <1>3, <2>1
  <2>2. CASE UsesNil(m)
    BY <1>4, <2>2 DEF UsesNil
  <2>3. CASE \/ TryLock(m) \/ Skip(m) \/ Reuse(m) \/ Guard(m) \/ Start(m) \/ Bind(m)
             \/ TakeEvent(m) \/ TurnEnds(m) \/ Request(m) \/ Ask(m) \/ Unlock(m)
    BY <1>2, <2>3 DEF TryLock, Skip, Reuse, Guard, Start, Bind, TakeEvent, TurnEnds, Request, Ask,
                      Unlock
  <2>4. CASE Restart(m)
    BY <1>2, <2>4 DEF Restart, Replace
  <2>. QED  BY <1>11, <2>1, <2>2, <2>3, <2>4 DEF Worker, Open, Turn
<1>12. CASE \/ SwitchSession \/ StopInteractiveSession \/ Answer \/ Cancel \/ Sweep
            \/ \E p \in Procs : Report(p) \/ Exit(p)
  BY <1>2, <1>12 DEF SwitchSession, StopInteractiveSession, Answer, Cancel, Sweep, Report, Exit
<1>13. CASE AnswerOnNil
  BY <1>4, <1>13 DEF AnswerOnNil
<1>14. CASE UNCHANGED vars
  BY <1>2, <1>14 DEF vars
<1>. QED  BY <1>7, <1>8, <1>10, <1>11, <1>12, <1>13, <1>14 DEF Next

-----------------------------------------------------------------------------
(***************************************************************************)
(* The live processes.                                                     *)
(***************************************************************************)
LiveInv == TakenInv /\ LiveIsEntry /\ SweptInv

LEMMA CapturedFacts ==
    \A p : p \in Captured <=> \E a \in Cleaners : clean[a].pc = "stop" /\ clean[a].proc = p
  BY DEF Captured

(* The entry and its process stay, and no clean-up takes or closes one. *)
LEMMA LiveKept ==
    ASSUME LiveInv, UNCHANGED <<entry, agent>>,
           lost \subseteq lost',
           shut' = "swept" => shut = "swept",
           \A p \in Procs : life'[p] = "live" => life[p] = "live",
           \A a \in Cleaners : clean'[a].pc \in {"stop", "delete"} => clean'[a] = clean[a],
           \A a \in Cleaners : clean[a].pc = "stop" => clean'[a] = clean[a]
    PROVE  LiveInv'
<1>1. TakenInv'
  BY DEF LiveInv, TakenInv
<1>2. \A p : p \in Captured => p \in Captured'
  BY CapturedFacts DEF Captured
<1>3. LiveIsEntry'
  BY <1>2 DEF LiveInv, LiveIsEntry, Held
<1>4. SweptInv'
  BY DEF LiveInv, SweptInv
<1>. QED  BY <1>1, <1>3, <1>4 DEF LiveInv

LEMMA TryLockLive == ASSUME NEW m \in Msgs, Sound, LiveInv, TryLock(m) PROVE LiveInv'
<1>1. UNCHANGED <<life, clean, shut, lost>>
  BY DEF TryLock, procVars, ghostVars
<1>2. CASE entry # 0
  <2>1. UNCHANGED <<entry, agent>>
    BY <1>2 DEF TryLock, stateVars
  <2>. QED  BY <1>1, <2>1, LiveKept
<1>3. CASE entry = 0
  <2>. DEFINE s == NewState
  <2>1. s \in States /\ entry' = s /\ agent' = [agent EXCEPT ![s] = 0]
    BY <1>3, NewStateFacts DEF TryLock, Placeholder
  <2>. HIDE DEF s
  <2>2. agent'[s] = 0 /\ \A i \in States : i # s => agent'[i] = agent[i]
    BY <2>1 DEF Sound, TypeOK
  <2>3. TakenInv'
    <3>1. \A a \in Cleaners : clean[a].ref \in States \cup {0}
      BY DEF Sound, TypeOK
    <3>. QED  BY <1>1, <2>2, <3>1 DEF LiveInv, TakenInv
  <2>4. LiveIsEntry'
    BY <1>1, <1>3 DEF LiveInv, LiveIsEntry, Held, Captured
  <2>5. SweptInv'
    BY <2>1, <2>2 DEF SweptInv
  <2>. QED  BY <2>3, <2>4, <2>5 DEF LiveInv
<1>. QED  BY <1>2, <1>3

LEMMA ReplaceLive ==
    ASSUME Sound, LiveInv,
           NEW m \in Msgs, NEW p \in Procs \cup {0}, NEW b \in Procs \cup {0},
           pc[m] = "open", p # 0 => shut = "no", Replace(m, p, b)
    PROVE  LiveInv'
<1>1. PICK s \in States :
           /\ Free(s)
           /\ entry' = s
           /\ agent' = [agent EXCEPT ![s] = p]
           /\ life' = [q \in Procs |-> IF q = p THEN "live" ELSE RecycledLife[q]]
           /\ UNCHANGED <<clean, shut, lost>>
  BY ReplaceFacts
<1>2. agent'[s] = p /\ \A i \in States : i # s => agent'[i] = agent[i]
  BY <1>1 DEF Sound, TypeOK
<1>3. TakenInv'
  <2>1. \A a \in Cleaners : clean[a].ref \in States \cup {0} /\ clean[a].ref # s
    BY <1>1 DEF Sound, TypeOK, Free
  <2>. QED  BY <1>1, <1>2, <2>1 DEF LiveInv, TakenInv
<1>4. LiveIsEntry'
  <2>. SUFFICES ASSUME NEW q \in Procs, life'[q] = "live"
                PROVE  q \in lost' \cup Captured' \/ Held(q)'
    BY DEF LiveIsEntry
  <2>1. CASE q = p
    BY <1>1, <1>2, <2>1, NumberFacts DEF Held
  <2>2. CASE q # p
    <3>1. life[q] = "live" /\ ~Held(q)
      BY <1>1, <2>2, RecycledFacts
    <3>. QED  BY <1>1, <3>1 DEF LiveInv, LiveIsEntry, Captured
  <2>. QED  BY <2>1, <2>2
<1>5. SweptInv'
  BY <1>1, <1>2 DEF SweptInv
<1>. QED  BY <1>3, <1>4, <1>5 DEF LiveInv

LEMMA PanicLive == Panic => LiveInv'
<1> SUFFICES ASSUME Panic PROVE LiveInv'
  OBVIOUS
<1>1. /\ \A a \in Cleaners : clean'[a].pc = "off"
      /\ \A p \in Procs : life'[p] = "over"
      /\ shut' = "panicked"
  BY NoCleanType DEF Panic
<1>. QED  BY <1>1 DEF LiveInv, TakenInv, LiveIsEntry, SweptInv

LEMMA WorkerLive == ASSUME NEW m \in Msgs, Sound, LiveInv, Worker(m) PROVE LiveInv'
<1>1. CASE \/ Skip(m) \/ Reuse(m) \/ Guard(m) \/ Start(m) \/ Bind(m)
           \/ TakeEvent(m) \/ TurnEnds(m) \/ Request(m) \/ Ask(m) \/ Unlock(m)
  <2>1. UNCHANGED <<entry, agent, life, clean, shut, lost>>
    BY <1>1 DEF Skip, Reuse, Guard, Start, Bind, TakeEvent, TurnEnds, Request, Ask, Unlock,
                stateVars, procVars, ghostVars
  <2>. QED  BY <2>1, LiveKept
<1>2. CASE TurnFails(m)
  <2>1. UNCHANGED <<entry, agent, life, shut, lost>>
    BY <1>2 DEF TurnFails, stateVars, procVars, ghostVars
  <2>2. m \in Cleaners /\ clean[m].pc = "off"
    BY <1>2 DEF TurnFails, Sound, WorkInv, Cleaners
  <2>3. [NoClean EXCEPT !.pc = "capture", !.exp = ref[m]].pc = "capture"
    BY NoCleanType DEF Sound, TypeOK
  <2>4. clean'[m].pc = "capture" /\ \A a \in Cleaners : a # m => clean'[a] = clean[a]
    BY <1>2, <2>2, <2>3 DEF TurnFails, Sound, TypeOK
  <2>. QED  BY <2>1, <2>2, <2>4, LiveKept
<1>3. CASE Restart(m)
  <2>1. sess[m] \in Sessions /\ bound[sess[m]] \in Procs \cup {0}
    BY <1>3 DEF Restart, Sound, WorkInv, TypeOK
  <2>2. PICK p \in Procs \cup {0}, b \in Procs \cup {0} :
            Replace(m, p, b) /\ (p # 0 => shut = "no")
    BY <1>3, <2>1 DEF Restart, Unborn, CanStart
  <2>. QED  BY <1>3, <2>2, ReplaceLive DEF Restart
<1>. QED  BY <1>1, <1>2, <1>3, TryLockLive, PanicLive DEF Worker, Open, Turn, UsesNil


LEMMA CleanupLive == ASSUME NEW a \in Cleaners, Sound, LiveInv, Cleanup(a) PROVE LiveInv'
<1>1. ASSUME clean[a].pc # "off", After(a, pc)
      PROVE  /\ clean'[a].pc = "off"
             /\ \A b \in Cleaners : b # a => clean'[b] = clean[b]
  BY <1>1, NoCleanType DEF After, Sound, TypeOK
<1>2. CASE Capture(a) /\ Superseded(a)
  <2>1. /\ clean[a].pc = "capture" /\ After(a, pc)
        /\ UNCHANGED <<entry, agent, life, shut, lost>>
    BY <1>2 DEF Capture, procVars, ghostVars
  <2>. QED  BY <1>1, <2>1, LiveKept
<1>3. CASE Capture(a) /\ ~Superseded(a)
  <2>1. PICK c \in CleanRecords :
           /\ c.pc = (IF entry = 0 THEN "delete" ELSE "stop")
           /\ c.ref = entry
           /\ c.proc = (IF entry = 0 THEN 0 ELSE agent[entry])
           /\ clean' = [clean EXCEPT ![a] = c]
           /\ agent' = (IF entry = 0 THEN agent ELSE [agent EXCEPT ![entry] = 0])
    BY <1>3, CaptureFacts
  <2>2. clean[a].pc = "capture" /\ UNCHANGED <<entry, life, shut, lost>>
    BY <1>3 DEF Capture, procVars, ghostVars
  <2>3. clean'[a] = c /\ \A b \in Cleaners : b # a => clean'[b] = clean[b]
    BY <2>1 DEF Sound, TypeOK
  <2>4. entry \in States \cup {0} /\ \A b \in Cleaners : clean[b].ref \in States \cup {0}
    BY DEF Sound, TypeOK
  <2>5. /\ entry # 0 => agent'[entry] = 0
        /\ \A s \in States : agent'[s] = agent[s] \/ (s = entry /\ agent'[s] = 0)
    BY <2>1, <2>4 DEF Sound, TypeOK
  <2>6. TakenInv'
    BY <2>1, <2>3, <2>4, <2>5 DEF LiveInv, TakenInv
  <2>7. LiveIsEntry'
    <3>. SUFFICES ASSUME NEW p \in Procs, life'[p] = "live"
                  PROVE  p \in lost' \cup Captured' \/ Held(p)'
      BY DEF LiveIsEntry
    <3>1. CASE p \in lost
      BY <2>2, <3>1
    <3>2. CASE p \in Captured
      <4>1. PICK b \in Cleaners : clean[b].pc = "stop" /\ clean[b].proc = p
        BY <3>2, CapturedFacts
      <4>2. clean'[b] = clean[b]
        BY <2>2, <2>3, <4>1
      <4>. QED  BY <4>1, <4>2 DEF Captured
    <3>3. CASE Held(p)
      <4>1. clean'[a].pc = "stop" /\ clean'[a].proc = p
        BY <2>1, <2>3, <3>3 DEF Held
      <4>. QED  BY <4>1 DEF Captured
    <3>. QED  BY <2>2, <3>1, <3>2, <3>3 DEF LiveInv, LiveIsEntry
  <2>8. SweptInv'
    BY <2>2, <2>5 DEF SweptInv
  <2>. QED  BY <2>6, <2>7, <2>8 DEF LiveInv
<1>4. CASE StopAndClose(a)
  <2>1. /\ clean[a].pc = "stop"
        /\ life' = Closing(life, {clean[a].proc})
        /\ clean' = [clean EXCEPT ![a].pc = "delete"]
        /\ UNCHANGED <<entry, agent, shut, lost>>
    BY <1>4 DEF StopAndClose, ghostVars
  <2>2. /\ clean'[a].pc = "delete" /\ clean'[a].ref = clean[a].ref
        /\ \A b \in Cleaners : b # a => clean'[b] = clean[b]
    BY <2>1 DEF Sound, TypeOK
  <2>3. \A p \in Procs : life'[p] = "live" => life[p] = "live" /\ p # clean[a].proc
    BY <2>1, ClosingFacts
  <2>4. TakenInv'
    BY <2>1, <2>2 DEF LiveInv, TakenInv
  <2>5. LiveIsEntry'
    <3>. SUFFICES ASSUME NEW p \in Procs, life'[p] = "live", p \in Captured
                  PROVE  p \in Captured'
      BY <2>1, <2>3 DEF LiveInv, LiveIsEntry, Held
    <3>1. PICK b \in Cleaners : clean[b].pc = "stop" /\ clean[b].proc = p
      BY CapturedFacts
    <3>2. clean'[b] = clean[b]
      BY <2>2, <2>3, <3>1
    <3>. QED  BY <3>1, <3>2 DEF Captured
  <2>6. SweptInv'
    BY <2>1 DEF LiveInv, SweptInv
  <2>. QED  BY <2>4, <2>5, <2>6 DEF LiveInv
<1>5. CASE Delete(a)
  <2>1. /\ clean[a].pc = "delete" /\ After(a, pc)
        /\ UNCHANGED <<agent, life, shut>>
    BY <1>5 DEF Delete, procVars
  <2>2. /\ clean'[a].pc = "off"
        /\ \A b \in Cleaners : b # a => clean'[b] = clean[b]
    BY <1>1, <2>1
  <2>3. \/ UNCHANGED entry /\ lost \subseteq lost'
        \/ /\ entry' = 0 /\ lost \subseteq lost'
           /\ entry = 0 \/ entry = clean[a].ref \/ (Live(entry) => agent[entry] \in lost')
    BY <1>5 DEF Delete
  <2>4. TakenInv'
    BY <2>1, <2>2 DEF LiveInv, TakenInv
  <2>5. \A p : p \in Captured => p \in Captured'
    BY <2>1, <2>2 DEF Captured
  <2>6. LiveIsEntry'
    <3>. SUFFICES ASSUME NEW p \in Procs, life[p] = "live", Held(p)
                  PROVE  p \in lost' \/ Held(p)'
      BY <2>1, <2>3, <2>5 DEF LiveInv, LiveIsEntry
    <3>1. Live(entry)
      BY NumberFacts DEF Held, Live
    <3>2. entry = clean[a].ref => agent[entry] = 0
      BY <2>1, <3>1 DEF LiveInv, TakenInv, Live
    <3>. QED  BY <2>1, <2>3, <3>1, <3>2 DEF Held, Live
  <2>7. SweptInv'
    BY <2>1, <2>3 DEF LiveInv, SweptInv
  <2>. QED  BY <2>4, <2>6, <2>7 DEF LiveInv
<1>. QED  BY <1>2, <1>3, <1>4, <1>5 DEF Cleanup

LEMMA OthersLive ==
    ASSUME Sound, ActorInv, LiveInv,
           \/ Command \/ SwitchSession
           \/ ReapTargets
           \/ StopInteractiveSession \/ Answer \/ AnswerOnNil
           \/ Cancel \/ Sweep
           \/ \E p \in Procs : Report(p) \/ Exit(p)
    PROVE  LiveInv'
<1>1. CASE \/ CommandClears \/ CommandEnds \/ SwitchSession \/ Answer \/ Cancel
           \/ \E p \in Procs : Report(p)
  <2>1. UNCHANGED <<entry, agent, life, clean, lost>> /\ (shut' = "swept" => shut = "swept")
    BY <1>1 DEF CommandClears, CommandEnds, SwitchSession, Answer, Cancel, Report,
                stateVars, procVars, ghostVars
  <2>. QED  BY <2>1, LiveKept
<1>2. ASSUME NEW a \in Cleaners, clean[a].pc = "off", clean'[a].pc = "capture",
             \A b \in Cleaners : b # a => clean'[b] = clean[b],
             UNCHANGED <<entry, agent, life, shut, lost>>
      PROVE  LiveInv'
  BY <1>2, LiveKept
<1>3. CASE CommandCleans
  <2>1. clean[Cmd].pc = "off" /\ Cmd \in Cleaners
    BY <1>3 DEF CommandCleans, ActorInv, Cleaners
  <2>2. /\ clean'[Cmd].pc = "capture"
        /\ \A b \in Cleaners : b # Cmd => clean'[b] = clean[b]
    BY <1>3, <2>1, NoCleanType DEF CommandCleans, Sound, TypeOK
  <2>. QED  BY <1>2, <1>3, <2>1, <2>2 DEF CommandCleans, stateVars, procVars, ghostVars
<1>4. CASE ReapTargets
  <2>1. clean[Reaper].pc = "off" /\ Reaper \in Cleaners
    BY <1>4 DEF ReapTargets, ActorInv, Cleaners
  <2>2. UNCHANGED <<entry, agent, life, shut, lost>>
    BY <1>4 DEF ReapTargets, stateVars, procVars, ghostVars
  <2>3. CASE UNCHANGED clean
    BY <2>2, <2>3, LiveKept
  <2>4. CASE clean' = [clean EXCEPT ![Reaper] = [NoClean EXCEPT !.pc = "capture", !.exp = entry]]
    <3>1. /\ clean'[Reaper].pc = "capture"
          /\ \A b \in Cleaners : b # Reaper => clean'[b] = clean[b]
      BY <2>1, <2>4, NoCleanType DEF Sound, TypeOK
    <3>. QED  BY <1>2, <2>1, <2>2, <3>1
  <2>. QED  BY <1>4, <2>3, <2>4 DEF ReapTargets
<1>5. ASSUME UNCHANGED <<agent, clean, lost>>, entry' = 0,
             \A p \in Procs : life'[p] = "live" => life[p] = "live" /\ ~Held(p)
      PROVE  LiveInv'
  <2>1. TakenInv'
    BY <1>5 DEF LiveInv, TakenInv
  <2>2. LiveIsEntry'
    BY <1>5 DEF LiveInv, LiveIsEntry, Captured
  <2>. QED  BY <1>5, <2>1, <2>2 DEF LiveInv, SweptInv
<1>6. CASE StopInteractiveSession
  <2>1. \A p \in Procs : life'[p] = "live" => life[p] = "live" /\ ~Held(p)
    BY <1>6, ClosingFacts DEF StopInteractiveSession, Held
  <2>. QED  BY <1>5, <1>6, <2>1 DEF StopInteractiveSession, ghostVars
<1>7. CASE Sweep
  <2>1. \A p \in Procs : life'[p] = "live" => life[p] = "live" /\ ~Held(p)
    BY <1>7, ClosingFacts DEF Sweep, Held
  <2>. QED  BY <1>5, <1>7, <2>1 DEF Sweep, ghostVars
<1>8. ASSUME NEW p \in Procs, Exit(p) PROVE LiveInv'
  <2>1. \A q \in Procs : life'[q] = "live" => life[q] = "live"
    BY <1>8 DEF Exit, Sound, TypeOK
  <2>. QED  BY <1>8, <2>1, LiveKept DEF Exit, stateVars, ghostVars
<1>. QED  BY <1>1, <1>3, <1>4, <1>6, <1>7, <1>8, PanicLive DEF Command, AnswerOnNil

LEMMA LiveStep == Sound /\ ActorInv /\ LiveInv /\ [Next]_vars => LiveInv'
<1> SUFFICES ASSUME Sound, ActorInv, LiveInv, [Next]_vars PROVE LiveInv'
  OBVIOUS
<1>1. CASE UNCHANGED vars
  BY <1>1, LiveKept DEF vars, stateVars, procVars, ghostVars
<1>. QED  BY <1>1, WorkerLive, CleanupLive, OthersLive DEF Next


-----------------------------------------------------------------------------
(***************************************************************************)
(* The ids of agent sessions.                                              *)
(***************************************************************************)
IdInv == BornInv /\ OwnInv

(* Nothing is bound, resumed, or attached to. *)
LEMMA IdKept ==
    ASSUME Sound, IdInv, UNCHANGED <<conv, starter>>,
           joined \subseteq joined',
           \A p \in Procs : life'[p] = "unborn" => life[p] = "unborn",
           \A s \in States : agent'[s] \in {agent[s], 0},
           \A x \in Sessions : bound'[x] \in {bound[x], 0},
           \A m \in Msgs : uses'[m] \in {uses[m], 0} \/ \E s \in States : uses'[m] = agent[s],
           \A m \in Msgs : \A p \in Procs :
               Attached(m, p)' => Attached(m, p) /\ sess'[m] = sess[m]
    PROVE  IdInv'
<1>1. BornInv'
  <2>. USE DEF IdInv, BornInv, Born
  <2>1. \A s \in States : agent'[s] # 0 => life'[agent'[s]] # "unborn"
    BY DEF Sound, TypeOK
  <2>2. \A x \in Sessions : bound'[x] # 0 => life'[bound'[x]] # "unborn"
    BY DEF Sound, TypeOK
  <2>3. \A p \in Procs : conv[p] # 0 => life'[conv[p]] # "unborn"
    BY DEF Sound, TypeOK
  <2>4. \A m \in Msgs : uses'[m] # 0 => life'[uses'[m]] # "unborn"
    BY DEF Sound, TypeOK
  <2>. QED  BY <2>1, <2>2, <2>3, <2>4
<1>2. OwnInv'
  BY DEF IdInv, OwnInv, Owns
<1>. QED  BY <1>1, <1>2 DEF IdInv


(* The same, for a step that gives no worker a state or a process. *)
LEMMA IdKeptQuiet ==
    ASSUME Sound, IdInv, UNCHANGED <<conv, starter, uses, ref>>,
           joined \subseteq joined',
           \A p \in Procs : life'[p] = "unborn" => life[p] = "unborn",
           \A s \in States : agent'[s] \in {agent[s], 0},
           \A x \in Sessions : bound'[x] \in {bound[x], 0},
           \A m \in Msgs : \/ sess'[m] = sess[m]
                           \/ pc'[m] \notin RefPcs,
           \A m \in Msgs : pc'[m] \in {"guard", "start"} => pc[m] \in {"guard", "start"},
           \A m \in Msgs : pc'[m] \in UsePcs => pc[m] \in UsePcs
    PROVE  IdInv'
<1>1. \A m \in Msgs : pc[m] \in {"guard", "start"} => ref[m] \in States
  BY DEF Sound, WorkInv, RefPcs, TurnPcs
<1>2. \A m \in Msgs : \A p \in Procs :
          Attached(m, p)' => Attached(m, p) /\ sess'[m] = sess[m]
  BY <1>1, NumberFacts DEF Attached, RefPcs, UsePcs, TurnPcs
<1>. QED  BY <1>2, IdKept

LEMMA PanicIds == Sound /\ IdInv /\ Panic => IdInv'
<1> SUFFICES ASSUME Sound, IdInv, Panic PROVE IdInv'
  OBVIOUS
<1>1. /\ life' = [p \in Procs |-> "over"]
      /\ pc' = [m \in Msgs |-> "done"]
      /\ uses' = [m \in Msgs |-> 0]
      /\ UNCHANGED <<agent, conv, starter, bound, joined>>
  BY DEF Panic, sessionVars, ghostVars
<1>2. \A m \in Msgs : \A p \in Procs : ~Attached(m, p)'
  BY <1>1 DEF Attached, UsePcs, TurnPcs
<1>. QED  BY <1>1, <1>2, IdKept

LEMMA ReplaceIds ==
    ASSUME Sound, IdInv,
           NEW m \in Msgs, NEW p \in Procs \cup {0}, NEW b \in {bound[sess[m]], 0},
           pc[m] = "open", p # 0 => life[p] = "unborn", Replace(m, p, b)
    PROVE  IdInv'
<1>1. sess[m] \in Sessions /\ b \in Procs \cup {0}
  BY DEF Sound, WorkInv, TypeOK
<1>2. PICK s \in States :
           /\ Free(s)
           /\ agent' = [agent EXCEPT ![s] = p]
           /\ life' = [q \in Procs |-> IF q = p THEN "live" ELSE RecycledLife[q]]
           /\ conv' = [q \in Procs |-> IF q = p THEN b ELSE conv[q]]
           /\ starter' = [q \in Procs |-> IF q = p THEN sess[m] ELSE starter[q]]
           /\ bound' = [bound EXCEPT ![sess[m]] = b]
           /\ ref' = [ref EXCEPT ![m] = s]
           /\ pc' = [pc EXCEPT ![m] = "guard"]
           /\ UNCHANGED <<sess, uses, joined>>
  BY <1>1, ReplaceFacts
<1>3. /\ agent'[s] = p /\ \A i \in States : i # s => agent'[i] = agent[i]
      /\ bound'[sess[m]] = b /\ \A x \in Sessions : x # sess[m] => bound'[x] = bound[x]
      /\ pc'[m] = "guard" /\ ref'[m] = s
      /\ \A v \in Msgs : v # m => pc'[v] = pc[v] /\ ref'[v] = ref[v]
      /\ \A v \in Msgs : ref[v] # s
  BY <1>1, <1>2 DEF Sound, TypeOK, Free
<1>4. \A q \in Procs : life'[q] = "unborn" => life[q] = "unborn" /\ q # p
  BY <1>2, RecycledFacts
<1>5. b # 0 => life[b] # "unborn" /\ Owns(sess[m], b)
  BY <1>1 DEF IdInv, BornInv, OwnInv, Born
<1>6. BornInv'
  <2>. USE DEF IdInv, BornInv, Born
  <2>1. \A i \in States : agent'[i] # 0 => life'[agent'[i]] # "unborn"
    BY <1>3, <1>4 DEF Sound, TypeOK
  <2>2. \A x \in Sessions : bound'[x] # 0 => life'[bound'[x]] # "unborn"
    BY <1>1, <1>3, <1>4, <1>5 DEF Sound, TypeOK
  <2>3. \A q \in Procs : conv'[q] # 0 => life'[conv'[q]] # "unborn"
    BY <1>1, <1>2, <1>4, <1>5 DEF Sound, TypeOK
  <2>4. \A v \in Msgs : uses'[v] # 0 => life'[uses'[v]] # "unborn"
    BY <1>2, <1>4 DEF Sound, TypeOK
  <2>. QED  BY <2>1, <2>2, <2>3, <2>4
<1>7. \A q \in Procs : q # p => conv'[q] = conv[q] /\ starter'[q] = starter[q]
  BY <1>2
<1>8. \A c \in Procs, x \in Sessions :
          life[c] # "unborn" /\ Owns(x, c) => Owns(x, c)'
  BY <1>2, <1>7, NumberFacts DEF Owns
<1>9. \A x \in Sessions : bound'[x] # 0 =>
          starter'[bound'[x]] = x \/ bound'[x] \in joined'
  <2>. TAKE x \in Sessions
  <2>. HAVE bound'[x] # 0
  <2>1. CASE x = sess[m]
    BY <1>1, <1>3, <1>5, <1>8, <2>1 DEF Owns
  <2>2. CASE x # sess[m]
    <3>1. bound'[x] = bound[x] /\ bound[x] \in Procs
      BY <1>3, <2>2 DEF Sound, TypeOK
    <3>2. life[bound[x]] # "unborn" /\ Owns(x, bound[x])
      BY <3>1, NumberFacts DEF IdInv, OwnInv, BornInv, Born
    <3>. QED  BY <1>8, <3>1, <3>2 DEF Owns
  <2>. QED  BY <2>1, <2>2
<1>10. ASSUME NEW v \in Msgs, NEW q \in Procs, Attached(v, q)'
       PROVE  Owns(sess[v], IF conv[q] = 0 THEN q ELSE conv[q])'
  <2>1. CASE v = m
    <3>1. q = p
      BY <1>3, <1>10, <2>1 DEF Attached, UsePcs, TurnPcs
    <3>2. conv'[q] = b /\ starter'[q] = sess[m]
      BY <1>2, <3>1
    <3>3. CASE b = 0
      BY <1>2, <2>1, <3>2, <3>3 DEF Owns
    <3>4. CASE b # 0
      <4>1. starter'[b] = sess[m] \/ b \in joined'
        BY <1>1, <1>5, <1>8, <3>4 DEF Owns
      <4>. QED  BY <1>2, <2>1, <3>2, <3>4, <4>1 DEF Owns
    <3>. QED  BY <3>3, <3>4
  <2>2. CASE v # m
    <3>1. Attached(v, q)
      <4>1. pc[v] \in {"guard", "start"} => agent'[ref[v]] = agent[ref[v]]
        BY <1>3 DEF Sound, WorkInv, RefPcs, TurnPcs
      <4>. QED  BY <1>2, <1>3, <1>10, <2>2, <4>1 DEF Attached
    <3>2. life[q] # "unborn"
      BY <3>1, NumberFacts
      DEF IdInv, BornInv, Born, Attached, Sound, WorkInv, RefPcs, TurnPcs
    <3>3. conv'[q] = conv[q] /\ sess' = sess
      BY <1>2, <1>7, <3>2, NumberFacts
    <3>. DEFINE c == IF conv[q] = 0 THEN q ELSE conv[q]
    <3>4. Owns(sess[v], c) /\ c \in Procs /\ life[c] # "unborn"
      BY <3>1, <3>2 DEF IdInv, OwnInv, BornInv, Born, Sound, TypeOK
    <3>5. sess[v] \in Sessions
      BY <1>3, <1>10, <2>2 DEF Attached, UsePcs, TurnPcs, Sound, WorkInv
    <3>6. starter'[c] = sess[v] \/ c \in joined'
      BY <1>8, <3>4, <3>5 DEF Owns
    <3>. QED  BY <3>3, <3>6 DEF Owns
  <2>. QED  BY <2>1, <2>2
<1>11. OwnInv'
  BY <1>9, <1>10 DEF OwnInv, Owns
<1>. QED  BY <1>6, <1>11 DEF IdInv


LEMMA ReuseIds == ASSUME NEW m \in Msgs, Sound, IdInv, Reuse(m) PROVE IdInv'
<1>. DEFINE r == agent[entry]
<1>1. /\ pc[m] = "open" /\ entry \in States /\ r \in Procs
      /\ ~Mismatch(sess[m])
      /\ ref' = [ref EXCEPT ![m] = entry]
      /\ pc' = [pc EXCEPT ![m] = "guard"]
      /\ joined' = joined \cup {p \in {r} : conv[p] = 0 /\ starter[p] # sess[m]}
      /\ UNCHANGED <<agent, life, conv, starter, bound, sess, uses>>
  BY DEF Reuse, Live, Opened, Goto, Sound, TypeOK, procVars, sessionVars
<1>2. /\ pc'[m] = "guard" /\ ref'[m] = entry /\ agent'[ref'[m]] = r
      /\ \A v \in Msgs : v # m => pc'[v] = pc[v] /\ ref'[v] = ref[v]
      /\ \A v \in Msgs : sess'[v] = sess[v]
      /\ conv' = conv /\ starter' = starter /\ bound' = bound /\ joined \subseteq joined'
  BY <1>1 DEF Sound, TypeOK
<1>3. /\ conv[r] = 0 => starter[r] = sess[m] \/ r \in joined'
      /\ conv[r] # 0 => bound[sess[m]] = conv[r]
  BY <1>1 DEF Mismatch
<1>. HIDE DEF r
<1>4. BornInv'
  BY <1>1 DEF IdInv, BornInv, Born
<1>5. \A x \in Sessions, c \in Procs : Owns(x, c) => starter[c] = x \/ c \in joined'
  BY <1>2 DEF Owns
<1>6. ASSUME NEW v \in Msgs, NEW q \in Procs, Attached(v, q)'
      PROVE  Owns(sess[v], IF conv[q] = 0 THEN q ELSE conv[q])'
  <2>1. CASE v = m
    <3>1. q = r
      BY <1>2, <1>6, <2>1 DEF Attached, UsePcs, TurnPcs
    <3>2. CASE conv[r] = 0
      BY <1>2, <1>3, <2>1, <3>1, <3>2 DEF Owns
    <3>3. CASE conv[r] # 0
      <4>1. sess[m] \in Sessions /\ bound[sess[m]] # 0
        BY <1>1, <1>3, <3>3 DEF Sound, WorkInv
      <4>2. Owns(sess[m], conv[r])
        BY <1>3, <3>3, <4>1 DEF IdInv, OwnInv
      <4>. QED  BY <1>2, <2>1, <3>1, <3>3, <4>2 DEF Owns
    <3>. QED  BY <3>2, <3>3
  <2>2. CASE v # m
    <3>1. Attached(v, q)
      BY <1>1, <1>2, <1>6, <2>2 DEF Attached
    <3>2. Owns(sess[v], IF conv[q] = 0 THEN q ELSE conv[q])
      BY <3>1 DEF IdInv, OwnInv
    <3>. QED  BY <1>2, <3>2 DEF Owns
  <2>. QED  BY <2>1, <2>2
<1>7. \A x \in Sessions : bound'[x] # 0 =>
          starter'[bound'[x]] = x \/ bound'[x] \in joined'
  BY <1>2 DEF IdInv, OwnInv, Owns
<1>8. OwnInv'
  BY <1>6, <1>7 DEF OwnInv, Owns
<1>. QED  BY <1>4, <1>8 DEF IdInv

LEMMA BindIds == ASSUME NEW m \in Msgs, Sound, IdInv, Bind(m) PROVE IdInv'
<1>1. /\ pc[m] \in {"bind", "result"}
      /\ sess[m] \in Sessions /\ uses[m] \in Procs
      /\ \/ bound' = bound
         \/ /\ conv[uses[m]] # 0
            /\ bound' = [bound EXCEPT ![sess[m]] = conv[uses[m]]]
      /\ UNCHANGED <<agent, life, conv, starter, sess, ref, uses, joined>>
  BY DEF Bind, Sound, WorkInv, UsePcs, TurnPcs, stateVars, procVars, ghostVars
<1>2. /\ \/ bound'[sess[m]] = bound[sess[m]]
         \/ conv[uses[m]] # 0 /\ bound'[sess[m]] = conv[uses[m]]
      /\ \A x \in Sessions : x # sess[m] => bound'[x] = bound[x]
  BY <1>1 DEF Sound, TypeOK
<1>8. \A v \in Msgs : \A q \in Procs : Attached(v, q)' => Attached(v, q)
  <2>1. \A v \in Msgs : pc'[v] = pc[v] \/ (pc[v] \in UsePcs /\ pc'[v] \in {"turn", "unlock"})
    BY DEF Bind, Goto, Sound, TypeOK, UsePcs, TurnPcs
  <2>. QED  BY <1>1, <2>1 DEF Attached, UsePcs, TurnPcs
<1>3. Attached(m, uses[m])
  BY <1>1 DEF Attached, UsePcs, TurnPcs
<1>4. conv[uses[m]] # 0 => Owns(sess[m], conv[uses[m]])
  BY <1>1, <1>3 DEF IdInv, OwnInv
<1>5. BornInv'
  <2>1. \A x \in Sessions : bound'[x] # 0 => life'[bound'[x]] # "unborn"
    BY <1>1, <1>2 DEF IdInv, BornInv, Born
  <2>. QED  BY <1>1, <2>1 DEF IdInv, BornInv, Born
<1>6. \A x \in Sessions : bound'[x] # 0 =>
          starter'[bound'[x]] = x \/ bound'[x] \in joined'
  BY <1>1, <1>2, <1>4 DEF IdInv, OwnInv, Owns
<1>7. OwnInv'
  BY <1>1, <1>6, <1>8 DEF IdInv, OwnInv, Owns
<1>. QED  BY <1>5, <1>7 DEF IdInv

LEMMA ReportIds == ASSUME NEW p \in Procs, Sound, IdInv, Report(p) PROVE IdInv'
<1>1. /\ life[p] # "unborn" /\ conv[p] = 0
      /\ conv' = [conv EXCEPT ![p] = p]
      /\ UNCHANGED <<agent, life, starter, bound, pc, sess, ref, uses, joined>>
  BY DEF Report, stateVars, sessionVars, workerVars, ghostVars
<1>2. conv'[p] = p /\ \A q \in Procs : q # p => conv'[q] = conv[q]
  BY <1>1 DEF Sound, TypeOK
<1>3. BornInv'
  <2>1. \A q \in Procs : conv'[q] # 0 => life'[conv'[q]] # "unborn"
    BY <1>1, <1>2 DEF IdInv, BornInv, Born
  <2>. QED  BY <1>1, <2>1 DEF IdInv, BornInv, Born
<1>4. ASSUME NEW v \in Msgs, NEW q \in Procs, Attached(v, q)'
      PROVE  Owns(sess[v], IF conv[q] = 0 THEN q ELSE conv[q])'
  <2>1. Attached(v, q)
    BY <1>1, <1>4 DEF Attached
  <2>2. Owns(sess[v], IF conv[q] = 0 THEN q ELSE conv[q])
    BY <2>1 DEF IdInv, OwnInv
  <2>3. (IF conv'[q] = 0 THEN q ELSE conv'[q]) = (IF conv[q] = 0 THEN q ELSE conv[q])
    BY <1>1, <1>2
  <2>. QED  BY <1>1, <2>2, <2>3 DEF Owns
<1>5. OwnInv'
  BY <1>1, <1>4 DEF IdInv, OwnInv, Owns
<1>. QED  BY <1>3, <1>5 DEF IdInv


LEMMA TryLockIds == ASSUME NEW m \in Msgs, Sound, IdInv, TryLock(m) PROVE IdInv'
<1>1. /\ sess' = [sess EXCEPT ![m] = active]
      /\ pc' = [pc EXCEPT ![m] = "open"]
      /\ UNCHANGED <<life, conv, starter, bound, ref, uses, joined>>
  BY DEF TryLock, Goto, procVars, ghostVars
<1>2. /\ pc'[m] = "open"
      /\ \A v \in Msgs : v # m => pc'[v] = pc[v] /\ sess'[v] = sess[v]
  BY <1>1 DEF Sound, TypeOK
<1>3. \A s \in States : agent'[s] \in {agent[s], 0}
  <2>1. CASE entry # 0
    BY <2>1 DEF TryLock, stateVars
  <2>2. CASE entry = 0
    <3>. DEFINE n == NewState
    <3>1. n \in States /\ agent' = [agent EXCEPT ![n] = 0]
      BY <2>2, NewStateFacts DEF TryLock, Placeholder
    <3>. HIDE DEF n
    <3>. QED  BY <3>1 DEF Sound, TypeOK
  <2>. QED  BY <2>1, <2>2
<1>. QED  BY <1>1, <1>2, <1>3, IdKeptQuiet DEF RefPcs, UsePcs, TurnPcs

LEMMA StartIds == ASSUME NEW m \in Msgs, Sound, IdInv, Start(m) PROVE IdInv'
<1>1. /\ pc[m] = "start" /\ ref[m] \in States
      /\ uses' = [uses EXCEPT ![m] = agent[ref[m]]]
      /\ pc' = [pc EXCEPT ![m] = "turn"]
      /\ UNCHANGED <<agent, life, conv, starter, bound, sess, ref, joined>>
  BY DEF Start, Goto, Sound, WorkInv, RefPcs, TurnPcs, stateVars, procVars, sessionVars, ghostVars
<1>2. /\ pc'[m] = "turn" /\ uses'[m] = agent[ref[m]]
      /\ \A v \in Msgs : v # m => pc'[v] = pc[v] /\ uses'[v] = uses[v]
  BY <1>1 DEF Sound, TypeOK
<1>3. \A v \in Msgs : \A p \in Procs :
          Attached(v, p)' => Attached(v, p) /\ sess'[v] = sess[v]
  BY <1>1, <1>2 DEF Attached
<1>. QED  BY <1>1, <1>2, <1>3, IdKept

LEMMA WorkerIds == ASSUME NEW m \in Msgs, Sound, IdInv, Worker(m) PROVE IdInv'
<1>1. CASE \/ Skip(m) \/ Guard(m) \/ TakeEvent(m) \/ TurnEnds(m) \/ TurnFails(m)
           \/ Request(m) \/ Ask(m)
  <2>1. UNCHANGED <<agent, life, conv, starter, bound, sess, ref, uses, joined>>
    BY <1>1 DEF Skip, Guard, TakeEvent, TurnEnds, TurnFails, Request, Ask,
                stateVars, procVars, sessionVars, ghostVars
  <2>2. \A v \in Msgs : \/ pc'[v] = pc[v]
                        \/ pc'[v] \notin {"guard", "start"} \cup UsePcs
                        \/ pc[v] = "guard" /\ pc'[v] = "start"
                        \/ pc[v] \in UsePcs /\ pc'[v] \in UsePcs
    BY <1>1 DEF Skip, Guard, TakeEvent, TurnEnds, TurnFails, Request, Ask, Goto, Sound, TypeOK,
                UsePcs, TurnPcs
  <2>3. /\ \A v \in Msgs : pc'[v] \in {"guard", "start"} => pc[v] \in {"guard", "start"}
        /\ \A v \in Msgs : pc'[v] \in UsePcs => pc[v] \in UsePcs
    BY <2>2 DEF UsePcs, TurnPcs
  <2>. QED  BY <2>1, <2>3, IdKeptQuiet
<1>2. CASE Unlock(m)
  <2>1. /\ pc' = [pc EXCEPT ![m] = "done"]
        /\ uses' = [uses EXCEPT ![m] = 0]
        /\ ref' = [ref EXCEPT ![m] = 0]
        /\ sess' = [sess EXCEPT ![m] = 0]
        /\ UNCHANGED <<agent, life, conv, starter, bound, joined>>
    BY <1>2 DEF Unlock, stateVars, procVars, ghostVars
  <2>2. /\ pc'[m] = "done" /\ uses'[m] = 0
        /\ \A v \in Msgs : v # m => /\ pc'[v] = pc[v] /\ uses'[v] = uses[v]
                                    /\ ref'[v] = ref[v] /\ sess'[v] = sess[v]
    BY <2>1 DEF Sound, TypeOK
  <2>3. \A v \in Msgs : \A p \in Procs :
            Attached(v, p)' => Attached(v, p) /\ sess'[v] = sess[v]
    BY <2>1, <2>2 DEF Attached, UsePcs, TurnPcs
  <2>. QED  BY <2>1, <2>2, <2>3, IdKept
<1>3. CASE Restart(m)
  <2>1. PICK p \in Procs \cup {0}, b \in {bound[sess[m]], 0} :
            Replace(m, p, b) /\ (p # 0 => life[p] = "unborn")
    BY <1>3 DEF Restart, Unborn
  <2>. QED  BY <1>3, <2>1, ReplaceIds DEF Restart
<1>. QED  BY <1>1, <1>2, <1>3, TryLockIds, ReuseIds, StartIds, BindIds, PanicIds
          DEF Worker, Open, Turn, UsesNil

(* Closings and resolutions give nobody a process. *)
LEMMA ClosedIds ==
    ASSUME Sound, IdInv, UNCHANGED <<agent, conv, starter, sess, ref, uses, joined>>,
           \A x \in Sessions : bound'[x] \in {bound[x], 0},
           \A p \in Procs : life'[p] = "unborn" => life[p] = "unborn",
           \A v \in Msgs : \/ pc'[v] = pc[v] \/ pc'[v] = "unlock"
                           \/ pc[v] = "ask" /\ pc'[v] = "turn"
    PROVE  IdInv'
<1>1. /\ \A v \in Msgs : pc'[v] \in {"guard", "start"} => pc[v] \in {"guard", "start"}
      /\ \A v \in Msgs : pc'[v] \in UsePcs => pc[v] \in UsePcs
  BY DEF UsePcs, TurnPcs
<1>. QED  BY <1>1, IdKeptQuiet

LEMMA CleanupIds == ASSUME NEW a \in Cleaners, Sound, IdInv, Cleanup(a) PROVE IdInv'
<1>1. ASSUME After(a, pc)
      PROVE  \A v \in Msgs : pc'[v] = pc[v] \/ pc'[v] = "unlock"
  BY <1>1 DEF After
<1>2. CASE Capture(a)
  <2>1. UNCHANGED <<life, conv, starter, bound, sess, ref, uses, joined>>
    BY <1>2 DEF Capture, procVars, sessionVars, ghostVars
  <2>2. CASE Superseded(a)
    <3>1. UNCHANGED agent /\ \A v \in Msgs : pc'[v] = pc[v] \/ pc'[v] = "unlock"
      BY <1>1, <1>2, <2>2 DEF Capture
    <3>. QED  BY <2>1, <3>1, ClosedIds
  <2>3. CASE ~Superseded(a)
    <3>1. UNCHANGED pc
      BY <1>2, <2>3 DEF Capture
    <3>2. agent' = (IF entry = 0 THEN agent ELSE [agent EXCEPT ![entry] = 0])
      BY <1>2, <2>3 DEF Capture
    <3>3. \A s \in States : agent'[s] \in {agent[s], 0}
      BY <3>2 DEF Sound, TypeOK
    <3>. QED  BY <2>1, <3>1, <3>3, IdKeptQuiet
  <2>. QED  BY <2>2, <2>3
<1>3. CASE StopAndClose(a)
  <2>1. /\ UNCHANGED <<agent, conv, starter, bound, sess, ref, uses, joined>>
        /\ pc' = Resolved(clean[a].ref)
        /\ life' = Closing(life, {clean[a].proc})
    BY <1>3 DEF StopAndClose, sessionVars, ghostVars
  <2>2. \A v \in Msgs : pc'[v] = pc[v] \/ (pc[v] = "ask" /\ pc'[v] = "turn")
    BY <2>1 DEF Resolved
  <2>3. \A p \in Procs : life'[p] = "unborn" => life[p] = "unborn"
    BY <2>1, ClosingFacts
  <2>. QED  BY <2>1, <2>2, <2>3, ClosedIds
<1>4. CASE Delete(a)
  <2>1. /\ UNCHANGED <<agent, life, conv, starter, bound, sess, ref, uses, joined>>
        /\ After(a, pc)
    BY <1>4 DEF Delete, procVars, sessionVars
  <2>. QED  BY <1>1, <2>1, ClosedIds
<1>. QED  BY <1>2, <1>3, <1>4 DEF Cleanup

LEMMA OthersIds ==
    ASSUME Sound, IdInv,
           \/ Command \/ SwitchSession
           \/ ReapTargets
           \/ StopInteractiveSession \/ Answer \/ AnswerOnNil
           \/ Cancel \/ Sweep
           \/ \E p \in Procs : Report(p) \/ Exit(p)
    PROVE  IdInv'
<1>1. CASE \/ CommandCleans \/ CommandEnds \/ SwitchSession \/ ReapTargets \/ Cancel
  <2>1. UNCHANGED <<agent, life, conv, starter, bound, pc, sess, ref, uses, joined>>
    BY <1>1 DEF CommandCleans, CommandEnds, SwitchSession, ReapTargets, Cancel,
                stateVars, procVars, sessionVars, workerVars, ghostVars
  <2>. QED  BY <2>1, ClosedIds
<1>2. CASE CommandClears
  <2>1. /\ bound' = [bound EXCEPT ![active] = 0]
        /\ UNCHANGED <<agent, life, conv, starter, pc, sess, ref, uses, joined>>
    BY <1>2 DEF CommandClears, stateVars, procVars, workerVars, ghostVars
  <2>2. \A x \in Sessions : bound'[x] \in {bound[x], 0}
    BY <2>1 DEF Sound, TypeOK
  <2>. QED  BY <2>1, <2>2, ClosedIds
<1>3. ASSUME UNCHANGED <<agent, conv, starter, bound, sess, ref, uses, joined>>,
             UNCHANGED pc \/ pc' = Resolved(entry),
             \A p \in Procs : life'[p] = "unborn" => life[p] = "unborn"
      PROVE  IdInv'
  <2>1. \A v \in Msgs : pc'[v] = pc[v] \/ (pc[v] = "ask" /\ pc'[v] = "turn")
    BY <1>3 DEF Resolved
  <2>. QED  BY <1>3, <2>1, ClosedIds
<1>4. CASE StopInteractiveSession
  <2>1. \A p \in Procs : life'[p] = "unborn" => life[p] = "unborn"
    BY <1>4, ClosingFacts DEF StopInteractiveSession
  <2>. QED  BY <1>3, <1>4, <2>1 DEF StopInteractiveSession, sessionVars, ghostVars
<1>5. CASE Answer
  BY <1>3, <1>5 DEF Answer, procVars, sessionVars, ghostVars
<1>6. CASE AnswerOnNil
  BY <1>6, PanicIds DEF AnswerOnNil
<1>7. CASE Sweep
  <2>1. \A p \in Procs : life'[p] = "unborn" => life[p] = "unborn"
    BY <1>7, ClosingFacts DEF Sweep
  <2>. QED  BY <1>3, <1>7, <2>1 DEF Sweep, sessionVars, workerVars, ghostVars
<1>8. ASSUME NEW p \in Procs, Exit(p) PROVE IdInv'
  <2>1. \A q \in Procs : life'[q] = "unborn" => life[q] = "unborn"
    BY <1>8 DEF Exit, Sound, TypeOK
  <2>. QED  BY <1>3, <1>8, <2>1 DEF Exit, stateVars, sessionVars, workerVars, ghostVars
<1>. QED  BY <1>1, <1>2, <1>4, <1>5, <1>6, <1>7, <1>8, ReportIds DEF Command

LEMMA IdStep == Sound /\ IdInv /\ [Next]_vars => IdInv'
<1> SUFFICES ASSUME Sound, IdInv, [Next]_vars PROVE IdInv'
  OBVIOUS
<1>1. CASE UNCHANGED vars
  <2>1. UNCHANGED <<agent, life, conv, starter, bound, pc, sess, ref, uses, joined>>
    BY <1>1 DEF vars, stateVars, procVars, sessionVars, workerVars, ghostVars
  <2>. QED  BY <2>1, ClosedIds
<1>. QED  BY <1>1, WorkerIds, CleanupIds, OthersIds DEF Next

-----------------------------------------------------------------------------
(***************************************************************************)
(* The clean-ups, and whose processes they close.                          *)
(***************************************************************************)

LEMMA NoCleanExp == NoClean.exp = 0
  BY DEF NoClean

(* Steps by which nobody that was born is unborn again. *)
LEMMA BornKept ==
    ASSUME Sound, [Next]_vars, NEW p, Born(p), p \in Procs \cup {0}
    PROVE  Born(p)'
<1>1. p # 0 => life[p] # "unborn" /\ p \in Procs
  BY DEF Born
<1>2. CASE UNCHANGED life
  BY <1>2 DEF Born
<1>3. CASE Panic
  BY <1>1, <1>3 DEF Panic, Born
<1>4. ASSUME NEW m \in Msgs, Restart(m) PROVE Born(p)'
  <2>1. sess[m] \in Sessions /\ bound[sess[m]] \in Procs \cup {0}
    BY <1>4 DEF Restart, Sound, WorkInv, TypeOK
  <2>2. PICK q \in Procs \cup {0}, b \in Procs \cup {0} : Replace(m, q, b)
    BY <1>4, <2>1 DEF Restart, Unborn
  <2>3. life' = [r \in Procs |-> IF r = q THEN "live" ELSE RecycledLife[r]]
    BY <2>2 DEF Replace
  <2>. QED  BY <1>1, <2>3, RecycledFacts DEF Born
<1>5. ASSUME NEW P, life' = Closing(life, P) PROVE Born(p)'
  BY <1>1, <1>5, ClosingFacts DEF Born
<1>6. ASSUME NEW a \in Cleaners, Cleanup(a) PROVE Born(p)'
  BY <1>2, <1>5, <1>6 DEF Cleanup, Capture, StopAndClose, Delete, procVars
<1>7. ASSUME NEW q \in Procs, Exit(q) PROVE Born(p)'
  BY <1>1, <1>7 DEF Exit, Born, Sound, TypeOK
<1>8. ASSUME NEW m \in Msgs, Worker(m) PROVE Born(p)'
  BY <1>2, <1>3, <1>4, <1>8 DEF Worker, Open, Turn, TryLock, Skip, Reuse, Guard, Start, UsesNil,
        TakeEvent, Bind, TurnEnds, TurnFails, Request, Ask, Unlock, procVars
<1>9. CASE Command \/ SwitchSession \/ ReapTargets \/ Answer \/ Cancel
           \/ \E q \in Procs : Report(q)
  BY <1>2, <1>9 DEF Command, CommandCleans, CommandClears, CommandEnds, SwitchSession, ReapTargets,
        Answer, Cancel, Report, procVars
<1>10. CASE StopInteractiveSession \/ Sweep
  BY <1>2, <1>5, <1>10 DEF StopInteractiveSession, Sweep
<1>. QED  BY <1>2, <1>3, <1>6, <1>7, <1>8, <1>9, <1>10 DEF Next, AnswerOnNil, vars, procVars

LEMMA CleanStep ==
    Sound /\ ActorInv /\ BornInv /\ CleanInv /\ [Next]_vars => CleanInv'
<1> SUFFICES ASSUME Sound, ActorInv, BornInv, CleanInv, [Next]_vars PROVE CleanInv'
  OBVIOUS
<1>1. \A a \in Cleaners : clean[a].proc \in Procs \cup {0}
  BY DEF Sound, TypeOK
<1>2. \A p \in Procs \cup {0} : Born(p) => (p # 0 => life'[p] # "unborn")
  BY BornKept DEF Born
<1>3. ASSUME \A s \in States : agent'[s] \in {agent[s], 0},
             \A a \in Cleaners : \/ clean'[a] = clean[a]
                                 \/ clean'[a].pc \in {"capture", "delete"}
                                 \/ clean'[a].pc = "off" /\ clean'[a].exp = 0
      PROVE  CleanInv'
  <2>1. \A a \in Cleaners : clean'[a].pc = "stop" => clean'[a] = clean[a]
    BY <1>3
  <2>2. \A a \in Cleaners : clean'[a].pc = "off" => clean'[a].exp = 0
    BY <1>3 DEF CleanInv
  <2>3. \A a \in Cleaners : clean'[a].pc = "stop" =>
            /\ (clean[a].proc # 0 => life'[clean[a].proc] # "unborn")
            /\ clean'[a].proc # 0 => \A s \in States : agent'[s] # clean'[a].proc
            /\ clean'[a].exp # 0 => clean'[a].ref = clean'[a].exp
    BY <1>1, <1>2, <1>3, <2>1 DEF CleanInv
  <2>4. \A s, t \in States : agent'[s] # 0 /\ agent'[s] = agent'[t] => s = t
    BY <1>3 DEF CleanInv
  <2>. QED  BY <2>1, <2>2, <2>3, <2>4 DEF CleanInv, Born
<1>4. CASE UNCHANGED <<agent, clean>>
  BY <1>3, <1>4
<1>5. CASE Panic
  <2>1. UNCHANGED agent /\ \A a \in Cleaners : clean'[a] = NoClean
    BY <1>5 DEF Panic
  <2>. QED  BY <1>3, <2>1, NoCleanType, NoCleanExp
<1>6. ASSUME NEW m \in Msgs, TryLock(m) PROVE CleanInv'
  <2>1. CASE entry # 0
    BY <1>4, <1>6, <2>1 DEF TryLock, stateVars
  <2>2. CASE entry = 0
    <3>. DEFINE n == NewState
    <3>1. n \in States /\ agent' = [agent EXCEPT ![n] = 0] /\ UNCHANGED clean
      BY <1>6, <2>2, NewStateFacts DEF TryLock, Placeholder
    <3>. HIDE DEF n
    <3>. QED  BY <1>3, <3>1 DEF Sound, TypeOK
  <2>. QED  BY <2>1, <2>2
<1>7. ASSUME NEW m \in Msgs, Restart(m) PROVE CleanInv'
  <2>1. sess[m] \in Sessions /\ bound[sess[m]] \in Procs \cup {0}
    BY <1>7 DEF Restart, Sound, WorkInv, TypeOK
  <2>2. PICK p \in Procs \cup {0}, b \in Procs \cup {0} :
            Replace(m, p, b) /\ (p # 0 => life[p] = "unborn")
    BY <1>7, <2>1 DEF Restart, Unborn
  <2>3. PICK s \in States : agent' = [agent EXCEPT ![s] = p] /\ UNCHANGED clean
    BY <1>7, <2>2, ReplaceFacts DEF Restart
  <2>4. agent'[s] = p /\ \A i \in States : i # s => agent'[i] = agent[i]
    BY <2>3 DEF Sound, TypeOK
  <2>5. p # 0 => /\ \A i \in States : agent[i] # p
                 /\ \A a \in Cleaners : clean[a].pc = "stop" => clean[a].proc # p
    BY <2>2 DEF BornInv, CleanInv, Born
  <2>6. \A i, j \in States : agent'[i] # 0 /\ agent'[i] = agent'[j] => i = j
    BY <2>4, <2>5 DEF CleanInv
  <2>7. \A a \in Cleaners : clean[a].pc = "stop" /\ clean[a].proc # 0 =>
            \A i \in States : agent'[i] # clean[a].proc
    BY <2>4, <2>5 DEF CleanInv
  <2>8. \A a \in Cleaners : clean[a].pc = "stop" => (clean[a].proc # 0 => life'[clean[a].proc] # "unborn")
    BY <1>1, <1>2 DEF CleanInv
  <2>9. UNCHANGED clean
    BY <2>3
  <2>. QED  BY <2>6, <2>7, <2>8, <2>9 DEF CleanInv, Born
<1>8. ASSUME NEW m \in Msgs, TurnFails(m) PROVE CleanInv'
  <2>1. m \in Cleaners /\ ref[m] \in States \cup {0} /\ UNCHANGED agent
    BY <1>8 DEF TurnFails, stateVars, Cleaners, Sound, TypeOK
  <2>2. [NoClean EXCEPT !.pc = "capture", !.exp = ref[m]].pc = "capture"
    BY <2>1, NoCleanType
  <2>3. clean'[m].pc = "capture" /\ \A a \in Cleaners : a # m => clean'[a] = clean[a]
    BY <1>8, <2>1, <2>2 DEF TurnFails, Sound, TypeOK
  <2>. QED  BY <1>3, <2>1, <2>3
<1>9. ASSUME NEW m \in Msgs, Worker(m) PROVE CleanInv'
  <2>1. CASE \/ Skip(m) \/ Reuse(m) \/ Guard(m) \/ Start(m) \/ Bind(m) \/ TakeEvent(m)
             \/ TurnEnds(m) \/ Request(m) \/ Ask(m) \/ Unlock(m)
    BY <1>4, <2>1 DEF Skip, Reuse, Guard, Start, Bind, TakeEvent, TurnEnds, Request, Ask, Unlock,
                      stateVars
  <2>. QED  BY <1>5, <1>6, <1>7, <1>8, <1>9, <2>1 DEF Worker, Open, Turn, UsesNil
<1>10. ASSUME NEW a \in Cleaners, After(a, pc), UNCHANGED agent PROVE CleanInv'
  <2>1. clean'[a] = NoClean /\ \A b \in Cleaners : b # a => clean'[b] = clean[b]
    BY <1>10 DEF After, Sound, TypeOK
  <2>. QED  BY <1>3, <1>10, <2>1, NoCleanType, NoCleanExp
<1>11. ASSUME NEW a \in Cleaners, Capture(a) PROVE CleanInv'
  <2>1. CASE Superseded(a)
    BY <1>10, <1>11, <2>1 DEF Capture
  <2>2. CASE ~Superseded(a)
    <3>1. PICK c \in CleanRecords :
             /\ c.pc = (IF entry = 0 THEN "delete" ELSE "stop")
             /\ c.exp = clean[a].exp
             /\ c.ref = entry
             /\ c.proc = (IF entry = 0 THEN 0 ELSE agent[entry])
             /\ clean' = [clean EXCEPT ![a] = c]
             /\ agent' = (IF entry = 0 THEN agent ELSE [agent EXCEPT ![entry] = 0])
      BY <1>11, <2>2, CaptureFacts
    <3>2. clean'[a] = c /\ \A b \in Cleaners : b # a => clean'[b] = clean[b]
      BY <3>1 DEF Sound, TypeOK
    <3>3. entry \in States \cup {0}
      BY DEF Sound, TypeOK
    <3>4. CASE entry = 0
      BY <1>3, <3>1, <3>2, <3>4
    <3>5. CASE entry # 0
      <4>1. /\ agent'[entry] = 0 /\ \A i \in States : i # entry => agent'[i] = agent[i]
            /\ c.proc = agent[entry] /\ c.proc \in Procs \cup {0}
        BY <3>1, <3>3, <3>5 DEF Sound, TypeOK
      <4>2. c.exp # 0 => c.ref = c.exp
        BY <2>2, <3>1 DEF Superseded
      <4>3. (c.proc # 0 => life'[c.proc] # "unborn") /\ (c.proc # 0 => \A i \in States : agent'[i] # c.proc)
        BY <1>2, <3>3, <3>5, <4>1 DEF BornInv, CleanInv
      <4>4. \A b \in Cleaners : b # a /\ clean[b].pc = "stop" =>
                /\ (clean[b].proc # 0 => life'[clean[b].proc] # "unborn")
                /\ clean[b].proc # 0 => \A i \in States : agent'[i] # clean[b].proc
        BY <1>1, <1>2, <4>1 DEF CleanInv
      <4>5. \A i, j \in States : agent'[i] # 0 /\ agent'[i] = agent'[j] => i = j
        BY <4>1 DEF CleanInv
      <4>6. \A b \in Cleaners : clean'[b].pc = "off" => clean'[b].exp = 0
        BY <3>1, <3>2, <3>5 DEF CleanInv
      <4>7. \A b \in Cleaners : clean'[b].pc = "stop" =>
                /\ (clean'[b].proc # 0 => life'[clean'[b].proc] # "unborn")
                /\ clean'[b].proc # 0 => \A i \in States : agent'[i] # clean'[b].proc
                /\ clean'[b].exp # 0 => clean'[b].ref = clean'[b].exp
        BY <3>2, <4>2, <4>3, <4>4 DEF CleanInv
      <4>. QED  BY <4>5, <4>6, <4>7 DEF CleanInv, Born
    <3>. QED  BY <3>4, <3>5
  <2>. QED  BY <2>1, <2>2
<1>12. ASSUME NEW a \in Cleaners, StopAndClose(a) PROVE CleanInv'
  <2>1. /\ UNCHANGED agent
        /\ clean'[a].pc = "delete" /\ \A b \in Cleaners : b # a => clean'[b] = clean[b]
    BY <1>12 DEF StopAndClose, Sound, TypeOK
  <2>. QED  BY <1>3, <2>1
<1>13. ASSUME NEW a \in Cleaners, Cleanup(a) PROVE CleanInv'
  BY <1>10, <1>11, <1>12, <1>13 DEF Cleanup, Delete
<1>14. CASE CommandCleans
  <2>1. UNCHANGED agent /\ Cmd \in Cleaners
    BY <1>14 DEF CommandCleans, stateVars, Cleaners
  <2>2. clean'[Cmd].pc = "capture" /\ \A b \in Cleaners : b # Cmd => clean'[b] = clean[b]
    BY <1>14, <2>1, NoCleanType DEF CommandCleans, Sound, TypeOK
  <2>. QED  BY <1>3, <2>1, <2>2
<1>15. CASE ReapTargets
  <2>1. UNCHANGED agent /\ Reaper \in Cleaners /\ entry \in States \cup {0}
    BY <1>15 DEF ReapTargets, stateVars, Cleaners, Sound, TypeOK
  <2>2. [NoClean EXCEPT !.pc = "capture", !.exp = entry].pc = "capture"
    BY <2>1, NoCleanType
  <2>3. \/ UNCHANGED clean
        \/ clean'[Reaper].pc = "capture" /\ \A b \in Cleaners : b # Reaper => clean'[b] = clean[b]
    BY <1>15, <2>1, <2>2 DEF ReapTargets, Sound, TypeOK
  <2>. QED  BY <1>3, <2>1, <2>3
<1>16. CASE \/ CommandClears \/ CommandEnds \/ SwitchSession \/ StopInteractiveSession
            \/ Answer \/ Cancel \/ Sweep \/ \E p \in Procs : Report(p) \/ Exit(p)
  BY <1>4, <1>16 DEF CommandClears, CommandEnds, SwitchSession, StopInteractiveSession, Answer,
                     Cancel, Sweep, Report, Exit, stateVars
<1>17. CASE UNCHANGED vars
  BY <1>4, <1>17 DEF vars, stateVars
<1>. QED  BY <1>5, <1>9, <1>13, <1>14, <1>15, <1>16, <1>17 DEF Next, Command, AnswerOnNil

(* The record of a clean-up that is going on changes by its own steps. *)
LEMMA OnlyItsOwn ==
    ASSUME Sound, ActorInv, Next, ~Panic,
           NEW a \in Cleaners, clean[a].pc # "off", clean'[a] # clean[a]
    PROVE  Cleanup(a)
<1>1. clean \in [Cleaners -> CleanRecords]
  BY DEF Sound, TypeOK, CleanRecords
<1>2. ASSUME NEW m \in Msgs, Worker(m) PROVE FALSE
  <2>1. TurnFails(m) \/ Restart(m)
    BY <1>2 DEF Worker, Open, Turn, TryLock, Skip, Reuse, Guard, Start, UsesNil, Bind, TakeEvent,
                TurnEnds, Request, Ask, Unlock
  <2>2. ~Restart(m)
    BY DEF Restart, Replace
  <2>3. clean[m].pc = "off" /\ m \in Cleaners
    BY <2>1, <2>2 DEF TurnFails, Sound, WorkInv, Cleaners
  <2>4. clean'[a] = clean[a]
    BY <1>1, <2>1, <2>2, <2>3 DEF TurnFails
  <2>. QED  BY <2>4
<1>3. ASSUME NEW b \in Cleaners, Cleanup(b) PROVE b = a
  BY <1>1, <1>3 DEF Cleanup, Capture, StopAndClose, Delete, After
<1>4. CASE CommandCleans
  BY <1>1, <1>4 DEF CommandCleans, ActorInv
<1>5. CASE ReapTargets
  BY <1>1, <1>5 DEF ReapTargets, ActorInv
<1>6. CASE \/ CommandClears \/ CommandEnds \/ SwitchSession \/ StopInteractiveSession
           \/ Answer \/ AnswerOnNil \/ Cancel \/ Sweep \/ \E p \in Procs : Report(p) \/ Exit(p)
  BY <1>6 DEF CommandClears, CommandEnds, SwitchSession, StopInteractiveSession, Answer,
              AnswerOnNil, Cancel, Sweep, Report, Exit
<1>. QED  BY <1>2, <1>3, <1>4, <1>5, <1>6 DEF Next, Command

-----------------------------------------------------------------------------
LEMMA LifeInit == Init => LifeInv
<1> SUFFICES ASSUME Init PROVE LifeInv
  OBVIOUS
<1>1. TypeOK /\ WorkInv
  BY SoundInit DEF Sound
<1>2. \A a \in Cleaners : clean[a].pc = "off"
  BY NoCleanType DEF Init
<1>3. ActorInv
  BY <1>2 DEF Init, ActorInv, Cleaners
<1>4. TakenInv /\ LiveIsEntry /\ SweptInv
  BY <1>2 DEF Init, TakenInv, LiveIsEntry, SweptInv
<1>5. BornInv /\ OwnInv
  BY DEF Init, BornInv, OwnInv, Born, Attached, UsePcs, TurnPcs
<1>6. CleanInv
  BY <1>2, NoCleanExp DEF Init, CleanInv
<1>. QED  BY <1>1, <1>3, <1>4, <1>5, <1>6 DEF LifeInv, Init

LEMMA LifeStep == LifeInv /\ [Next]_vars => LifeInv'
  BY SoundStep, ActorStep, LiveStep, IdStep, CleanStep DEF LifeInv, Sound, LiveInv, IdInv

LEMMA LifeInvariance == Spec => []LifeInv
  BY LifeInit, LifeStep, PTL DEF Spec

-----------------------------------------------------------------------------
(* Every reachable state is well typed; in particular no two turns hold one *)
(* session at a time.                                                       *)
THEOREM LifeTypeCorrect == Spec => []TypeOK
<1>1. LifeInv => TypeOK
  BY DEF LifeInv
<1>. QED  BY <1>1, LifeInvariance, PTL

(* The engine leaves no agent process running that it has no entry for: a   *)
(* live process is the entry's, about to be closed by a clean-up, or of an  *)
(* entry that a clean-up of its predecessor deleted in passing.             *)
THEOREM NoStrayProcess == Spec => []LiveIsEntry
<1>1. LifeInv => LiveIsEntry
  BY DEF LifeInv
<1>. QED  BY <1>1, LifeInvariance, PTL

(* Once Engine.Stop has emptied the map, workers that are still on their    *)
(* way to a turn start no process.                                          *)
THEOREM StopIsFinal == Spec => []NothingStartsAfterStop
<1>1. LifeInv => NothingStartsAfterStop
  <2>. SUFFICES ASSUME LifeInv, shut = "swept", NEW p \in Procs, life[p] = "live"
                PROVE  p \in lost \cup Captured
    BY DEF NothingStartsAfterStop
  <2>1. ~Held(p)
    BY NumberFacts DEF LifeInv, SweptInv, Held
  <2>. QED  BY <2>1 DEF LifeInv, LiveIsEntry
<1>. QED  BY <1>1, LifeInvariance, PTL

(* No two sessions of the conversation are bound to one agent session,      *)
(* unless a second one was let on to its process before it had an id.       *)
THEOREM SessionsKeepTheirIds == Spec => []IdsNotShared
<1>1. LifeInv => IdsNotShared
  <2>. SUFFICES ASSUME LifeInv, NEW x \in Sessions, NEW y \in Sessions, x # y,
                       bound[x] = bound[y], bound[x] # 0
                PROVE  bound[x] \in joined
    BY DEF IdsNotShared
  <2>1. Owns(x, bound[x]) /\ Owns(y, bound[x])
    BY DEF LifeInv, OwnInv
  <2>. QED  BY <2>1 DEF Owns
<1>. QED  BY <1>1, LifeInvariance, PTL

(* The clean-up a turn or the reaper asks for never touches a state that    *)
(* has replaced the one it was meant for, nor the replacement's process, in *)
(* whichever order its steps and others come.                               *)
THEOREM CleanupSparesOthers == Spec => ReplacementSurvives
<1>1. LifeInv /\ [Next]_vars =>
        [\A a \in Cleaners : \A s \in States \ {clean[a].exp} :
            (clean[a].exp # 0 /\ clean'[a] # clean[a] /\ shut' # "panicked") =>
               /\ entry = s => entry' = s
               /\ agent'[s] = agent[s] /\ stopped'[s] = stopped[s] /\ pend'[s] = pend[s]
               /\ agent[s] # 0 => life'[agent[s]] = life[agent[s]]]_vars
  <2>. SUFFICES ASSUME LifeInv, Next, NEW a \in Cleaners, NEW s \in States,
                       s # clean[a].exp,
                       clean[a].exp # 0, clean'[a] # clean[a], shut' # "panicked"
                PROVE  /\ entry = s => entry' = s
                       /\ agent'[s] = agent[s] /\ stopped'[s] = stopped[s] /\ pend'[s] = pend[s]
                       /\ agent[s] # 0 => life'[agent[s]] = life[agent[s]]
    OBVIOUS
  <2>1. clean[a].pc # "off" /\ ~Panic
    BY DEF LifeInv, CleanInv, Panic
  <2>2. Cleanup(a)
    BY <2>1, OnlyItsOwn DEF LifeInv, Sound
  <2>3. /\ agent \in [States -> Procs \cup {0}]
        /\ stopped \in [States -> BOOLEAN]
        /\ pend \in [States -> Msgs \cup {NoMsg}]
    BY DEF LifeInv, TypeOK
  <2>4. CASE Capture(a)
    BY <2>3, <2>4 DEF Capture, Superseded, procVars
  <2>5. CASE StopAndClose(a)
    <3>1. clean[a].ref = clean[a].exp /\ (agent[s] # 0 => agent[s] # clean[a].proc)
      BY <2>5 DEF StopAndClose, LifeInv, CleanInv
    <3>2. /\ UNCHANGED <<entry, agent>>
          /\ stopped' = [stopped EXCEPT ![clean[a].ref] = TRUE]
          /\ pend' = [pend EXCEPT ![clean[a].ref] = NoMsg]
          /\ life' = Closing(life, {clean[a].proc})
      BY <2>5 DEF StopAndClose
    <3>3. agent[s] # 0 => life'[agent[s]] = life[agent[s]]
      BY <2>3, <3>1, <3>2 DEF Closing
    <3>. QED  BY <2>3, <3>1, <3>2, <3>3
  <2>6. CASE Delete(a)
    BY <2>6 DEF Delete, Superseded, procVars
  <2>. QED  BY <2>2, <2>4, <2>5, <2>6 DEF Cleanup
<1>. QED  BY <1>1, LifeInvariance, PTL DEF Spec, ReplacementSurvives
=============================================================================
