---------------------------- MODULE SessionStore ----------------------------
(***************************************************************************)
(* The SessionManager of a project and its file (src/core/session.go):     *)
(* which sessions a user key has, which one is active, the agent session   *)
(* ids they carry, and what of it a restart finds.                         *)
(*                                                                         *)
(*   requests  commands, turns and the management API call the manager;    *)
(*             what changes its maps holds sm.mu and saves before it lets  *)
(*             go, what changes one Session holds only that session's      *)
(*             mutex and is saved by a later Save                          *)
(*   savers    calls of Save: several at a time, under sm.mu.RLock         *)
(*   cli       `cc-connect sessions prune`: a process of its own, with a   *)
(*             manager of its own on the same file                         *)
(*                                                                         *)
(* A save copies the sessions one by one while their fields change; every  *)
(* property below is about one session, so one step copies them all.       *)
(***************************************************************************)
EXTENDS Integers, FiniteSets, Functions

CONSTANTS
    Keys,           \* session keys: a user in a chat
    Chat,           \* key -> its base chat
    AgentIds,       \* session ids the agents hand out
    KindOf,         \* agent session id -> the type of the agent it belongs to
    NoId,           \* AgentSessionID "": the session is not bound
    Savers,         \* calls of Save that may run at a time
    Null,           \* no session, no copy
    MaxSessions,    \* bound: sessions ever created
    MaxChanges,     \* bound: changes of fields and switches together
    MaxSaves,       \* bound: calls of Save
    MaxFaults,      \* bound: failing writes, restarts and prune commands together
    FirstKind,      \* the type of the project's agent before
    Files           \* what the file may hold when the daemon is first started

Ids   == 1 .. MaxSessions
Kinds == {KindOf[a] : a \in AgentIds}

ASSUME ChatAssumption == DOMAIN Chat = Keys
ASSUME IdAssumption == NoId \notin AgentIds
ASSUME KindAssumption == DOMAIN KindOf = AgentIds /\ FirstKind \in Kinds
ASSUME BoundAssumption ==
    {MaxSessions, MaxChanges, MaxSaves, MaxFaults} \subseteq Nat

VARIABLES
    mem,        \* the manager's maps and counter
    file,       \* what the file holds
    up,         \* the daemon runs
    kind,       \* the type of the project's agent
    copy,       \* saver -> the copy it is going to write, or Null
    cli,        \* what the prune command has read, or Null
    behind,     \* history: a running daemon's file was last written by the prune, or a write failed since
    durable,    \* history: sessions unchanged since a Save that returned copied them
    seen,       \* history: saver -> sessions unchanged since its copy
    overtaken,  \* history: saver -> another save has written since its copy
    left        \* what is left of each bound

saveVars == <<copy, seen, overtaken>>
vars == <<mem, file, up, kind, copy, cli, behind, durable, seen, overtaken, left>>

Fields  == [agent : AgentIds \cup {NoId}, past : SUBSET AgentIds, hist : BOOLEAN]
Manager == [sess : [Ids -> Fields \cup {Null}], active : [Keys -> Ids \cup {0}],
            lists : [Keys -> [Ids -> Nat]], counter : 0 .. MaxSessions]
Bounds  == {"change", "save", "fault"}

ASSUME NullAssumption == Null \notin Fields \cup Manager

(* Ids are handed out in growing order and appended: the list of a key is  *)
(* in the order of its ids, and only how often each occurs is kept.        *)
ListOf(M, k) == {i \in Ids : M.lists[k][i] > 0}

Live(M)    == {i \in Ids : M.sess[i] # Null}
Listed(M)  == UNION {ListOf(M, k) : k \in Keys}

(* The chats of the keys that list session i. *)
ChatOf(M, i) == {Chat[k] : k \in {j \in Keys : i \in ListOf(M, j)}}

(* No id is in use that was not handed out. *)
Counted(M) == \A i \in Live(M) \cup Listed(M) : i <= M.counter

(* Every session is in the list of exactly one key, once. *)
Owned(M) ==
    /\ Live(M) = Listed(M)
    /\ \A k \in Keys, i \in Ids : M.lists[k][i] <= 1
    /\ \A j, k \in Keys : j # k => ListOf(M, j) \cap ListOf(M, k) = {}

(* The active session of a key exists, and is one of its chat. *)
AtHome(M) ==
    \A k \in Keys : M.active[k] # 0 =>
        Chat[k] \in ChatOf(M, M.active[k]) /\ M.active[k] \in Live(M)

(* A file that is there at the first start was written by an earlier run. *)
ASSUME FilesAssumption ==
    \A M \in Files : M \in Manager /\ Counted(M) /\ Owned(M) /\ AtHome(M)

(* The types of the variables; no id is in use that was not handed out. *)
TypeOK ==
    /\ mem \in Manager /\ file \in Manager
    /\ Counted(mem) /\ Counted(file)
    /\ up \in BOOLEAN /\ behind \in BOOLEAN
    /\ kind \in Kinds
    /\ copy \in [Savers -> Manager \cup {Null}]
    /\ cli \in Manager \cup {Null}
    /\ durable \subseteq Ids
    /\ seen \in [Savers -> SUBSET Ids]
    /\ overtaken \in [Savers -> BOOLEAN]
    /\ left \in [Bounds -> Nat]

Blank == [sess    |-> [i \in Ids |-> Null],
          active  |-> [k \in Keys |-> 0],
          lists   |-> [k \in Keys |-> [i \in Ids |-> 0]],
          counter |-> 0]

Init ==
    /\ mem = Blank
    /\ file \in Files
    /\ up = FALSE
    /\ kind = FirstKind
    /\ copy = [w \in Savers |-> Null]
    /\ cli = Null
    /\ behind = FALSE
    /\ durable = {}
    /\ seen = [w \in Savers |-> {}]
    /\ overtaken = [w \in Savers |-> FALSE]
    /\ left = [change |-> MaxChanges, save |-> MaxSaves, fault |-> MaxFaults]

Afford(b) == left[b] > 0
Less(l, b) == [l EXCEPT ![b] = @ - 1]
Spend(b)  == Afford(b) /\ left' = Less(left, b)

-----------------------------------------------------------------------------
(***************************************************************************)
(* The manager's maps.                                                     *)
(***************************************************************************)

Known(s) == ({s.agent} \cup s.past) \ {NoId}

(* nextID: the counter is saved, ids are not used again. *)
NextId(M) == M.counter + 1

(* Variant with a fault, for TypeOK: the counter is not advanced. *)
SideCreatedUncounted(M, k, a) ==
    [M EXCEPT !.sess[NextId(M)] = [agent |-> a, past |-> {}, hist |-> FALSE],
              !.lists[k][NextId(M)] = @ + 1]

(* A session is created for key k without becoming its active one. *)
SideCreated(M, k, a) ==
    [M EXCEPT !.counter  = @ + 1,
              !.sess[NextId(M)] = [agent |-> a, past |-> {}, hist |-> FALSE],
              !.lists[k][NextId(M)] = @ + 1]

(* createLocked: it becomes the active one. *)
Created(M, k, a) == [SideCreated(M, k, a) EXCEPT !.active[k] = NextId(M)]

(* A list without one occurrence of every id in S. *)
Without(l, S) == [i \in Ids |-> IF i \in S /\ l[i] > 0 THEN l[i] - 1 ELSE l[i]]

(* Variant with a fault, for ActiveInChat: only the owner lets go of it. *)
RemovedFromOwner(M, S) ==
    [M EXCEPT !.sess   = [i \in Ids |-> IF i \in S THEN Null ELSE M.sess[i]],
              !.lists  = [k \in Keys |-> Without(M.lists[k], S)],
              !.active = [k \in Keys |-> IF M.active[k] \in S \cap ListOf(M, k)
                                         THEN 0 ELSE M.active[k]]]

(* deleteByIDLocked, for every session in S: it leaves the map, the list   *)
(* of every key, once, and every key whose active one it was.              *)
Removed(M, S) ==
    [M EXCEPT !.sess   = [i \in Ids |-> IF i \in S THEN Null ELSE M.sess[i]],
              !.lists  = [k \in Keys |-> Without(M.lists[k], S)],
              !.active = [k \in Keys |-> IF M.active[k] \in S THEN 0 ELSE M.active[k]]]

(* Variant with a fault, for KnownStaysKnown: the old id is forgotten. *)
BoundForgetting(s, a) == [s EXCEPT !.agent = a]

(* SetAgentSessionID, with recordPastAgentSessionID: the id that is        *)
(* replaced or cleared stays known.                                        *)
Bound(s, a) ==
    [s EXCEPT !.agent = a,
              !.past  = @ \cup (IF s.agent \in {a, NoId} THEN {} ELSE {s.agent})]

(* Variant with a fault, for BoundToAgent: a restart invalidates nothing. *)
InvalidatedNever(M, t) == M

(* InvalidateForAgent: ids that belong to another type of agent are        *)
(* cleared.                                                                *)
Invalidated(M, t) ==
    [M EXCEPT !.sess = [i \in Ids |->
        IF i \in Live(M) /\ M.sess[i].agent # NoId /\ KindOf[M.sess[i].agent] # t
        THEN Bound(M.sess[i], NoId) ELSE M.sess[i]]]

-----------------------------------------------------------------------------
(***************************************************************************)
(* Saving.                                                                 *)
(***************************************************************************)

(* Variant with a fault, for DurableIsSaved: a field is not copied. *)
SnapshotWithoutPast(M) ==
    [M EXCEPT !.sess = [i \in Ids |->
        IF i \in Live(M) THEN [M.sess[i] EXCEPT !.past = {}] ELSE Null]]

(* What saveLocked copies: the maps, and the fields of every session. *)
Snapshot(M) ==
    [M EXCEPT !.sess = [i \in Ids |->
        IF i \in Live(M)
        THEN [agent |-> M.sess[i].agent, past |-> M.sess[i].past, hist |-> M.sess[i].hist]
        ELSE Null]]

(* Variant with a fault, for StructureIsCurrent: changes do not wait for   *)
(* the saves that are under way.                                           *)
LockedBesideReaders == up

(* sm.mu.Lock: no Save is under way. *)
Locked == up /\ \A w \in Savers : copy[w] = Null

(* A request under sm.mu turns the maps into M and saves them; it has      *)
(* touched the sessions in S, and leaves the bounds l.  A write that fails *)
(* is only logged.                                                         *)
Commit(M, S, l) ==
    /\ mem' = M
    /\ \/ /\ file' = Snapshot(M)
          /\ behind' = FALSE
          /\ durable' = Live(M)
          /\ left' = l
       \/ /\ Afford("fault") /\ left' = Less(l, "fault")
          /\ behind' = TRUE
          /\ durable' = durable \ S
          /\ UNCHANGED file
    /\ UNCHANGED <<up, kind, saveVars, cli>>

(* Save takes the read lock and copies. *)
SaveCopies(w) ==
    /\ up /\ copy[w] = Null
    /\ Spend("save")
    /\ copy' = [copy EXCEPT ![w] = Snapshot(mem)]
    /\ seen' = [seen EXCEPT ![w] = Live(mem)]
    /\ overtaken' = [overtaken EXCEPT ![w] = FALSE]
    /\ UNCHANGED <<mem, file, up, kind, cli, behind, durable>>

(* The copy replaces the file, and the read lock is given back. *)
SaveWrites(w) ==
    /\ copy[w] # Null
    /\ copy' = [copy EXCEPT ![w] = Null]
    /\ file' = copy[w]
    /\ behind' = FALSE
    /\ durable' = seen[w] \cup (IF overtaken[w] THEN {} ELSE durable)
    /\ overtaken' = [v \in Savers |-> v # w /\ (copy[v] # Null)]
    /\ seen' = [seen EXCEPT ![w] = {}]
    /\ UNCHANGED <<mem, up, kind, cli, left>>

(* The write fails; this is only logged. *)
SaveFails(w) ==
    /\ copy[w] # Null
    /\ Spend("fault")
    /\ copy' = [copy EXCEPT ![w] = Null]
    /\ overtaken' = [overtaken EXCEPT ![w] = FALSE]
    /\ seen' = [seen EXCEPT ![w] = {}]
    /\ UNCHANGED <<mem, file, up, kind, cli, behind, durable>>

-----------------------------------------------------------------------------
(***************************************************************************)
(* Requests that change the maps.                                          *)
(***************************************************************************)

(* The ids the project's agent can report or list. *)
Reported == {a \in AgentIds : KindOf[a] = kind}

HasActive(k) == mem.active[k] # 0 /\ mem.active[k] \in Live(mem)

(* The first message of a key, or the first after its active session was   *)
(* deleted.                                                                *)
GetOrCreateActive(k) ==
    /\ Locked /\ ~HasActive(k) /\ mem.counter < MaxSessions
    /\ Commit(Created(mem, k, NoId), {NextId(mem)}, left)

(* /new and the automatic reset of an idle session. *)
NewSession(k) ==
    /\ Locked /\ mem.counter < MaxSessions
    /\ Commit(Created(mem, k, NoId), {NextId(mem)}, left)

(* A cron job with a session of its own for every run. *)
NewSideSession(k) ==
    /\ Locked /\ mem.counter < MaxSessions
    /\ Commit(SideCreated(mem, k, NoId), {NextId(mem)}, left)

(* A session is found among those of the key itself. *)
SwitchSession(k, i) ==
    /\ Locked /\ Afford("change")
    /\ i \in ListOf(mem, k) \cap Live(mem)
    /\ Commit([mem EXCEPT !.active[k] = i], {}, Less(left, "change"))

(* The sessions of the key that are bound to a. *)
BoundTo(k, a) == {i \in ListOf(mem, k) \cap Live(mem) : mem.sess[i].agent = a}

(* /switch to a session of the agent: the first session bound to it        *)
(* becomes active, or a new one is bound to it.                            *)
SwitchToAgentSession(k, a) ==
    /\ Locked /\ a \in Reported
    /\ \/ \E i \in BoundTo(k, a) :
             /\ \A j \in BoundTo(k, a) : i <= j
             /\ Afford("change")
             /\ Commit([mem EXCEPT !.active[k] = i], {}, Less(left, "change"))
       \/ /\ BoundTo(k, a) = {} /\ mem.counter < MaxSessions
          /\ Commit(Created(mem, k, a), {NextId(mem)}, left)

(* The management API and the bridge delete a session. *)
DeleteByID(i) ==
    /\ Locked /\ i \in Live(mem)
    /\ Commit(Removed(mem, {i}), {i}, left)

(* /delete: every session bound to a. *)
DeleteByAgentSessionID(a) ==
    LET S == {i \in Live(mem) : mem.sess[i].agent = a} IN
    /\ Locked /\ S # {}
    /\ Commit(Removed(mem, S), S, left)

-----------------------------------------------------------------------------
(***************************************************************************)
(* Requests that change the fields of a session.                           *)
(***************************************************************************)

Edit(i, s) ==
    /\ up /\ s # mem.sess[i]
    /\ Spend("change")
    /\ mem' = [mem EXCEPT !.sess[i] = s]
    /\ durable' = durable \ {i}
    /\ seen' = [w \in Savers |-> seen[w] \ {i}]
    /\ UNCHANGED <<file, up, kind, copy, overtaken, cli, behind>>

(* A turn takes over the id its agent reports, or a command clears it. *)
SetAgentSessionID(i, a) ==
    /\ i \in Live(mem) /\ a \in Reported \cup {NoId}
    /\ Edit(i, Bound(mem.sess[i], a))

(* The relay binds a session that is not bound. *)
CompareAndSetAgentSessionID(i, a) ==
    /\ i \in Live(mem) /\ mem.sess[i].agent = NoId /\ a \in Reported
    /\ Edit(i, [mem.sess[i] EXCEPT !.agent = a])

AddHistory(i) == i \in Live(mem) /\ Edit(i, [mem.sess[i] EXCEPT !.hist = TRUE])

ClearHistory(i) == i \in Live(mem) /\ Edit(i, [mem.sess[i] EXCEPT !.hist = FALSE])

-----------------------------------------------------------------------------
(***************************************************************************)
(* Restarts, and the prune command.                                        *)
(***************************************************************************)

(* The daemon ends, whatever it is doing; it ends in order the same way,   *)
(* no save is made on shutdown.                                            *)
Crash ==
    /\ up /\ Spend("fault")
    /\ up' = FALSE
    /\ mem' = Blank
    /\ copy' = [w \in Savers |-> Null]
    /\ seen' = [w \in Savers |-> {}]
    /\ overtaken' = [w \in Savers |-> FALSE]
    /\ durable' = {} /\ behind' = FALSE
    /\ UNCHANGED <<file, kind, cli>>

(* Variant with a fault, for OneOwner: the counter is not read. *)
LoadedWithoutCounter(M) == [M EXCEPT !.counter = 0]

(* load: what the file holds. *)
Loaded(M) == M

(* The daemon starts, perhaps with another agent: load, and then           *)
(* InvalidateForAgent, which saves if it has cleared an id.                *)
Start(t) ==
    LET M == Invalidated(Loaded(file), t) IN
    /\ ~up /\ up' = TRUE
    /\ kind' = t
    /\ mem' = M
    /\ \/ M = Loaded(file) /\ behind' = FALSE /\ UNCHANGED <<file, left>>
       \/ M # Loaded(file) /\ file' = Snapshot(M) /\ behind' = FALSE /\ UNCHANGED left
       \/ M # Loaded(file) /\ Spend("fault") /\ behind' = TRUE /\ UNCHANGED file
    /\ durable' = IF behind' THEN {} ELSE Live(M)
    /\ UNCHANGED <<saveVars, cli>>

(* `cc-connect sessions prune` reads the file. *)
PruneReads ==
    /\ cli = Null /\ Spend("fault")
    /\ cli' = file
    /\ UNCHANGED <<mem, file, up, kind, saveVars, behind, durable>>

InChat(M, c) == {i \in Live(M) : c \in ChatOf(M, i)}

HasHistory(M, i) == M.sess[i].hist

(* The sessions of chat c that may be kept: the most recent one with       *)
(* history, or the most recent one; which is the most recent is left open. *)
Keepable(M, c) ==
    LET withHist == {i \in InChat(M, c) : HasHistory(M, i)}
    IN  IF withHist # {} THEN withHist ELSE InChat(M, c)

Crowded(M) == {c \in Range(Chat) : Cardinality(InChat(M, c)) > 1}

(* PruneDuplicateSessions: of every chat with several sessions one is      *)
(* kept, and those without history, or with merging all others, are        *)
(* removed; the keys that still have sessions are given the kept one.      *)
Pruned(M, keep, merge) ==
    LET gone == {i \in Live(M) : \E c \in DOMAIN keep :
                     /\ i \in InChat(M, c) /\ i # keep[c]
                     /\ merge \/ ~HasHistory(M, i)}
        N    == Removed(M, gone)
    IN  [N EXCEPT !.active = [k \in Keys |->
            IF ListOf(N, k) # {} /\ Chat[k] \in DOMAIN keep
            THEN keep[Chat[k]] ELSE N.active[k]]]

(* It writes the file if it has removed a session, whatever the daemon has *)
(* written since, and has ended.                                           *)
PruneWrites(keep, merge) ==
    LET M == Pruned(cli, keep, merge) IN
    /\ cli' = Null
    /\ IF Live(M) = Live(cli)
       THEN UNCHANGED <<file, behind, durable>>
       ELSE file' = M /\ behind' = up /\ durable' = {}
    /\ UNCHANGED <<mem, up, kind, saveVars, left>>

Prune ==
    /\ cli # Null
    /\ \E merge \in BOOLEAN, keep \in [Crowded(cli) -> Ids] :
        /\ \A c \in DOMAIN keep : keep[c] \in Keepable(cli, c)
        /\ PruneWrites(keep, merge)

-----------------------------------------------------------------------------
Request(k) ==
    \/ GetOrCreateActive(k) \/ NewSession(k) \/ NewSideSession(k)
    \/ \E i \in Ids : SwitchSession(k, i)
    \/ \E a \in AgentIds : SwitchToAgentSession(k, a)

Change(i) ==
    \/ DeleteByID(i) \/ AddHistory(i) \/ ClearHistory(i)
    \/ \E a \in AgentIds \cup {NoId} : SetAgentSessionID(i, a)
    \/ \E a \in AgentIds : CompareAndSetAgentSessionID(i, a)

Next ==
    \/ \E k \in Keys : Request(k)
    \/ \E i \in Ids : Change(i)
    \/ \E a \in AgentIds : DeleteByAgentSessionID(a)
    \/ \E w \in Savers : SaveCopies(w) \/ SaveWrites(w) \/ SaveFails(w)
    \/ Crash
    \/ \E t \in Kinds : Start(t)
    \/ PruneReads \/ Prune

Spec == Init /\ [][Next]_vars

-----------------------------------------------------------------------------
(* The file has the sessions, lists, active sessions and counter of the    *)
(* memory: no save that began earlier undoes a creation, a switch or a     *)
(* deletion.  The exceptions are a write that failed, and one of the prune *)
(* command, until the daemon saves again.                                  *)
StructureIsCurrent ==
    (up /\ ~behind) =>
        /\ Live(file) = Live(mem)
        /\ file.active = mem.active /\ file.lists = mem.lists
        /\ file.counter = mem.counter

(* What a Save had copied when it returned is in the file, as long as the  *)
(* session is not changed again.  The exceptions are a Save that another   *)
(* one overtook, whose older copy lands last, and the prune command.       *)
DurableIsSaved == \A i \in durable : file.sess[i] = mem.sess[i]

(* Every session is in the list of exactly one key, once, in the memory    *)
(* and in the file, through creations, deletions, prunes and restarts: no  *)
(* two users ever share an id.                                             *)
OneOwner == Owned(mem) /\ Owned(file)

(* The active session of a key exists and belongs to the chat of that key: *)
(* to the key itself, or, after a prune, to another key of its chat.       *)
ActiveInChat == AtHome(mem) /\ AtHome(file)

(* A running daemon has no session bound to an agent of another type, even *)
(* if it was started with another agent.                                   *)
BoundToAgent ==
    up => \A i \in Live(mem) : mem.sess[i].agent # NoId => KindOf[mem.sess[i].agent] = kind

(* An agent session id that a session has carried stays known while the    *)
(* session exists, over commands that clear it, changes of the agent and   *)
(* restarts: the filter of foreign sessions goes on showing it.            *)
KnownStaysKnown ==
    [][\A i \in Live(IF up THEN mem ELSE file) :
          (i \in Live(mem')) =>
             (Known((IF up THEN mem ELSE file).sess[i]) \subseteq Known(mem'.sess[i]))]_vars
=============================================================================
