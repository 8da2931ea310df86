------------------------- MODULE CronSchedulerProofs -------------------------
(***************************************************************************)
(* The scheduled jobs: the store, its file, the scheduler's entries and    *)
(* the library agree, whatever requests, start-up, runs and crashes do at  *)
(* the same time.                                                          *)
(***************************************************************************)
EXTENDS CronScheduler, TLAPS

Updating   == {"setExpr", "setEnabled"}
Scheduling == {"add", "enable", "start"} \cup Updating

(* What may be left of a request. *)
LeftOK(op, left) ==
    \/ left = <<>>
    \/ op \in Scheduling /\ left = <<"schedule">>
    \/ op \in Scheduling /\ left = <<"get", "schedule">>
    \/ op \in Scheduling \ {"start"} /\ left = <<"store", "get", "schedule">>
    \/ op \in Updating /\ left = <<"unschedule", "store", "get", "schedule">>
    \/ op = "disable" /\ left \in {<<"store", "unschedule">>, <<"unschedule">>}
    \/ op = "remove" /\ left \in {<<"unschedule", "store">>, <<"store">>}

TypeInv == TypeOK /\ \A c \in Clients : LeftOK(request[c].op, todo[c])

(* The file has no traces of a job that is not there. *)
FileInv ==
    /\ FileIsCurrent
    /\ \A j \in Jobs : disk[j].there \/ disk[j] = NoJob

Unhandled(j) == \A c \in Clients : ~Handling(c, j)

(* A job that is still to be added is nowhere, and only removes know its   *)
(* id, which was generated for it.                                         *)
Absent(j) == ~job[j].there /\ entries[j] = NoEntry /\ j \notin list

AddInv ==
    /\ \A j \in Jobs \ used : Absent(j) /\ ~disk[j].there /\ Unhandled(j)
    /\ \A c, d \in Clients :
            /\ At(c, "store") /\ request[c].op = "add"
            => /\ Absent(Of(c))
               /\ d # c /\ Handling(d, Of(c)) => request[d].op = "remove"

(* No two jobs share an entry, not even one that is gone from the library. *)
EntryInv ==
    /\ OneEntryPerJob
    /\ \A i, j \in Jobs : entries[i] # NoEntry /\ entries[i] = entries[j] => i = j

(* An entry with an old expression is about to be replaced, unless that was *)
(* set by reflection.                                                       *)
Outdated(j) ==
    /\ job[j].there /\ job[j].enabled /\ Scheduled(j)
    /\ lib[entries[j]].expr # job[j].expr /\ j \notin raw

StaleInv ==
    \A j \in Jobs : Outdated(j) =>
        \E c \in Clients : Of(c) = j /\ (At(c, "get") \/ At(c, "schedule"))

(* What an entry says of its job, and what start-up adds to it. *)
Sound(j)    == Scheduled(j) => job[j].there /\ job[j].enabled
Complete(j) == job[j].there /\ job[j].enabled => Scheduled(j)

(* What a request that no other overlapped has achieved so far. *)
Achieved(c) ==
    LET j == Of(c)
        op == request[c].op
    IN  /\ op \notin {"add", "remove"} => job[j].there
        /\ At(c, "store") /\ op \in {"remove"} \cup Updating => entries[j] = NoEntry
        /\ At(c, "get") /\ op = "start" => Sound(j)
        /\ At(c, "get") /\ op \in {"add", "enable"} => job[j].there /\ job[j].enabled
        /\ At(c, "get") /\ op \in Updating => entries[j] = NoEntry
        /\ At(c, "schedule") => job[j].there /\ job[j].enabled
        /\ At(c, "unschedule") /\ op = "disable" => ~job[j].enabled
        /\ op = "setEnabled" /\ At(c, "get") => job[j].enabled = request[c].enabled
        /\ op = "setEnabled" /\ At(c, "schedule") => request[c].enabled

AloneInv ==
    \A c \in Clients : alone[c] =>
        /\ Busy(c) /\ Of(c) \notin list
        /\ \A d \in Clients \ {c} : ~Handling(d, Of(c))
        /\ Achieved(c)

SettledInv ==
    /\ \A c \in Clients : Busy(c) /\ ~alone[c] => Of(c) \in unsettled
    /\ \A j \in Jobs \ unsettled : Unhandled(j) =>
            /\ Sound(j)
            /\ boot # "loaded" /\ j \notin list => Complete(j)
    /\ \A j \in list \ unsettled : job[j].there

OffInv == \A j \in off : Unhandled(j) /\ ~(job[j].there /\ job[j].enabled)

CronInv ==
    /\ TypeInv
    /\ EntryInv
    /\ FileInv
    /\ AddInv
    /\ StaleInv
    /\ AloneInv
    /\ SettledInv
    /\ OffInv

-----------------------------------------------------------------------------
USE MainAssumption, NoEntryAssumption, BoundsAssumption

(***************************************************************************)
(* What is left of a request.                                              *)
(***************************************************************************)

(* The step a request is at, the one after it, and what it belongs to. *)
LEMMA LeftStep ==
    ASSUME NEW op, NEW left, LeftOK(op, left), left # <<>>
    PROVE  /\ LeftOK(op, Tail(left))
           /\ \/ /\ Head(left) = "store" /\ op \in Scheduling \ {"start"}
                 /\ Tail(left) # <<>> /\ Head(Tail(left)) = "get"
              \/ /\ Head(left) = "store" /\ op = "disable"
                 /\ Tail(left) # <<>> /\ Head(Tail(left)) = "unschedule"
              \/ Head(left) = "store" /\ op = "remove" /\ Tail(left) = <<>>
              \/ /\ Head(left) = "get" /\ op \in Scheduling
                 /\ Tail(left) # <<>> /\ Head(Tail(left)) = "schedule"
              \/ Head(left) = "schedule" /\ op \in Scheduling /\ Tail(left) = <<>>
              \/ Head(left) = "unschedule" /\ op = "disable" /\ Tail(left) = <<>>
              \/ /\ Head(left) = "unschedule" /\ op \in {"remove"} \cup Updating
                 /\ Tail(left) # <<>> /\ Head(Tail(left)) = "store"
<1>1. /\ Tail(<<"schedule">>) = <<>>
      /\ Tail(<<"get", "schedule">>) = <<"schedule">>
      /\ Tail(<<"store", "get", "schedule">>) = <<"get", "schedule">>
      /\ Tail(<<"unschedule", "store", "get", "schedule">>) = <<"store", "get", "schedule">>
      /\ Tail(<<"store", "unschedule">>) = <<"unschedule">>
      /\ Tail(<<"unschedule">>) = <<>>
      /\ Tail(<<"unschedule", "store">>) = <<"store">>
      /\ Tail(<<"store">>) = <<>>
  OBVIOUS
<1>2. /\ Head(<<"schedule">>) = "schedule"
      /\ Head(<<"get", "schedule">>) = "get"
      /\ Head(<<"store", "get", "schedule">>) = "store"
      /\ Head(<<"unschedule", "store", "get", "schedule">>) = "unschedule"
      /\ Head(<<"store", "unschedule">>) = "store"
      /\ Head(<<"unschedule">>) = "unschedule"
      /\ Head(<<"unschedule", "store">>) = "unschedule"
      /\ Head(<<"store">>) = "store"
  OBVIOUS
<1>3. /\ <<"schedule">> # <<>>
      /\ <<"get", "schedule">> # <<>>
      /\ <<"store", "get", "schedule">> # <<>>
      /\ <<"unschedule">> # <<>>
      /\ <<"store">> # <<>>
  OBVIOUS
<1>4. CASE op \in Scheduling /\ left = <<"schedule">>
  BY <1>1, <1>2, <1>4 DEF LeftOK
<1>5. CASE op \in Scheduling /\ left = <<"get", "schedule">>
  BY <1>1, <1>2, <1>3, <1>5 DEF LeftOK
<1>6. CASE op \in Scheduling \ {"start"} /\ left = <<"store", "get", "schedule">>
  BY <1>1, <1>2, <1>3, <1>6 DEF LeftOK
<1>7. CASE op \in Updating /\ left = <<"unschedule", "store", "get", "schedule">>
  BY <1>1, <1>2, <1>3, <1>7 DEF LeftOK, Scheduling, Updating
<1>8. CASE op = "disable" /\ left \in {<<"store", "unschedule">>, <<"unschedule">>}
  BY <1>1, <1>2, <1>3, <1>8 DEF LeftOK
<1>9. CASE op = "remove" /\ left \in {<<"unschedule", "store">>, <<"store">>}
  BY <1>1, <1>2, <1>3, <1>9 DEF LeftOK
<1> QED
  BY <1>4, <1>5, <1>6, <1>7, <1>8, <1>9 DEF LeftOK

(* What is left are steps. *)
LEMMA LeftType ==
    ASSUME NEW op, NEW left, LeftOK(op, left)
    PROVE  left \in Seq({"store", "get", "schedule", "unschedule"})
<1> DEFINE S == {"store", "get", "schedule", "unschedule"}
<1>1. /\ <<>> \in Seq(S)
      /\ \A a \in S : <<a>> \in Seq(S)
      /\ \A a, b \in S : <<a, b>> \in Seq(S)
      /\ \A a, b, c \in S : <<a, b, c>> \in Seq(S)
      /\ \A a, b, c, d \in S : <<a, b, c, d>> \in Seq(S)
  <2> HIDE DEF S
  <2> QED
    OBVIOUS
<1>2. "store" \in S /\ "get" \in S /\ "schedule" \in S /\ "unschedule" \in S
  OBVIOUS
<1> HIDE DEF S
<1>3. left \in Seq(S)
  BY <1>1, <1>2 DEF LeftOK
<1> QED
  BY <1>3 DEF S

(* The steps a request begins with. *)
LEMMA StepsLeft ==
    ASSUME NEW op \in Ops
    PROVE  /\ LeftOK(op, Steps(op)) /\ Steps(op) # <<>>
           /\ op \in {"add", "enable", "disable"} => Head(Steps(op)) = "store"
           /\ op \in {"remove"} \cup Updating => Head(Steps(op)) = "unschedule"
           /\ op = "start" => Head(Steps(op)) = "get"
  BY DEF LeftOK, Steps, Ops, Scheduling, Updating

(* The values that stand for nothing. *)
LEMMA Defaults ==
    /\ NoRequest \in Requests /\ NoRequest.op = "start" /\ NoRequest.job \in Jobs
    /\ NoJob \in CronJobs /\ ~NoJob.there /\ NoJob.expr \in Exprs
  BY DEF NoRequest, Requests, NoJob, CronJobs, Ops

-----------------------------------------------------------------------------
(***************************************************************************)
(* TypeInv is an invariant.                                                *)
(***************************************************************************)

(* A client goes on, or is done: nothing of the others changes. *)
LEMMA GoesOn ==
    ASSUME TypeInv, NEW c \in Clients, NEW left, NEW fine \in BOOLEAN, Goes(c, left, fine),
           LeftOK(request[c].op, left)
    PROVE  /\ todo'[c] = left
           /\ \A d \in Clients \ {c} : /\ todo'[d] = todo[d]
                                       /\ request'[d] = request[d]
                                       /\ alone'[d] = alone[d]
           /\ left # <<>> => request'[c] = request[c]
           /\ alone'[c] = (alone[c] /\ left # <<>>)
           /\ todo' \in [Clients -> Seq({"store", "get", "schedule", "unschedule"})]
           /\ request' \in [Clients -> Requests]
           /\ alone' \in [Clients -> BOOLEAN]
           /\ unsettled' \in SUBSET Jobs /\ off' \in SUBSET Jobs
           /\ \A d \in Clients : LeftOK(request'[d].op, todo'[d])
<1>1. left \in Seq({"store", "get", "schedule", "unschedule"})
  BY LeftType
<1>2. Of(c) \in Jobs
  BY DEF TypeInv, TypeOK, Requests, Of
<1>3. /\ todo' = [todo EXCEPT ![c] = left]
      /\ request' = IF left = <<>> THEN [request EXCEPT ![c] = NoRequest] ELSE request
      /\ alone' = [alone EXCEPT ![c] = @ /\ left # <<>>]
  BY DEF Goes
<1>4. /\ todo'[c] = left
      /\ \A d \in Clients \ {c} : /\ todo'[d] = todo[d]
                                  /\ request'[d] = request[d]
                                  /\ alone'[d] = alone[d]
      /\ left # <<>> => request'[c] = request[c]
      /\ alone'[c] = (alone[c] /\ left # <<>>)
  BY <1>3 DEF TypeInv, TypeOK
<1>5. \A d \in Clients : LeftOK(request'[d].op, todo'[d])
  <2>1. left = <<>> => LeftOK(request'[c].op, todo'[c])
    BY <1>4 DEF LeftOK
  <2>2. left # <<>> => LeftOK(request'[c].op, todo'[c])
    BY <1>4
  <2>3. \A d \in Clients \ {c} : LeftOK(request'[d].op, todo'[d])
    BY <1>4 DEF TypeInv
  <2> QED
    BY <2>1, <2>2, <2>3
<1>6. unsettled' \in SUBSET Jobs /\ off' \in SUBSET Jobs
  BY <1>2 DEF Goes, TypeInv, TypeOK
<1>7. /\ todo' \in [Clients -> Seq({"store", "get", "schedule", "unschedule"})]
      /\ request' \in [Clients -> Requests]
      /\ alone' \in [Clients -> BOOLEAN]
  BY <1>1, <1>3, Defaults DEF TypeInv, TypeOK
<1> QED
  BY <1>4, <1>5, <1>6, <1>7

(* A client begins a request. *)
LEMMA BeginsWith ==
    ASSUME TypeInv, NEW c \in Clients, NEW q \in Requests, Begins(c, q)
    PROVE  /\ todo'[c] = Steps(q.op) /\ request'[c] = q
           /\ \A d \in Clients \ {c} : todo'[d] = todo[d] /\ request'[d] = request[d]
           /\ todo' \in [Clients -> Seq({"store", "get", "schedule", "unschedule"})]
           /\ request' \in [Clients -> Requests]
           /\ alone' \in [Clients -> BOOLEAN]
           /\ unsettled' \in SUBSET Jobs /\ off' \in SUBSET Jobs
           /\ \A d \in Clients : LeftOK(request'[d].op, todo'[d])
<1>1. q.op \in Ops /\ q.job \in Jobs
  BY DEF Requests
<1>2. LeftOK(q.op, Steps(q.op)) /\ Steps(q.op) \in Seq({"store", "get", "schedule", "unschedule"})
  BY <1>1, StepsLeft, LeftType
<1>3. /\ todo' = [todo EXCEPT ![c] = Steps(q.op)]
      /\ request' = [request EXCEPT ![c] = q]
  BY DEF Begins
<1>4. /\ todo'[c] = Steps(q.op) /\ request'[c] = q
      /\ \A d \in Clients \ {c} : todo'[d] = todo[d] /\ request'[d] = request[d]
  BY <1>3 DEF TypeInv, TypeOK
<1>5. \A d \in Clients : LeftOK(request'[d].op, todo'[d])
  BY <1>2, <1>4 DEF TypeInv
<1>6. alone' \in [Clients -> BOOLEAN]
  BY DEF Begins, TypeInv, TypeOK
<1>7. unsettled' \in SUBSET Jobs /\ off' \in SUBSET Jobs
  BY <1>1 DEF Begins, TypeInv, TypeOK
<1>8. /\ todo' \in [Clients -> Seq({"store", "get", "schedule", "unschedule"})]
      /\ request' \in [Clients -> Requests]
  BY <1>2, <1>3 DEF TypeInv, TypeOK
<1> QED
  BY <1>4, <1>5, <1>6, <1>7, <1>8

(* A save that succeeds or fails keeps the types, and the file in step.    *)
LEMMA SaveKeeps ==
    ASSUME TypeOK, FileInv, job' \in [Jobs -> CronJobs],
           Saves \/ SaveFails \/ UNCHANGED <<job, disk, unsaved>>
    PROVE  disk' \in [Jobs -> CronJobs] /\ unsaved' \in BOOLEAN /\ FileInv'
<1>1. CASE Saves
  BY <1>1, Defaults DEF Saves, FileInv, FileIsCurrent
<1>2. CASE SaveFails
  BY <1>2 DEF SaveFails, FileInv, FileIsCurrent, TypeOK
<1>3. CASE UNCHANGED <<job, disk, unsaved>>
  BY <1>3 DEF FileInv, FileIsCurrent, TypeOK
<1> QED
  BY <1>1, <1>2, <1>3

(* What a request stores is a job, and it is there except after a remove.  *)
LEMMA StoredIs ==
    ASSUME NEW q \in Requests, NEW j \in CronJobs, q.op # "start"
    PROVE  /\ Stored(q, j) \in CronJobs
           /\ q.op = "add" => Stored(q, j).there /\ Stored(q, j).enabled
           /\ q.op = "remove" => ~Stored(q, j).there
           /\ q.op \notin {"add", "remove"} => Stored(q, j).there = j.there
           /\ q.op = "enable" => Stored(q, j).enabled
           /\ q.op = "disable" => ~Stored(q, j).enabled
           /\ q.op = "setEnabled" => Stored(q, j).enabled = q.enabled
           /\ q.op \notin {"add", "setExpr"} => Stored(q, j).expr = j.expr
<1>1. q.op \in Ops /\ q.enabled \in BOOLEAN /\ q.expr \in Exprs
  BY DEF Requests
<1> QED
  BY <1>1 DEF Stored, CronJobs, Ops

(* A job moves to a free entry, and gives up the one it had.               *)
LEMMA MovesEntry ==
    ASSUME TypeOK, EntryInv, NEW j \in Jobs, NEW x \in Exprs, NEW e \in FreeFor(j),
           lib' = [Freed(j) EXCEPT ![e] = [job |-> j, expr |-> x]],
           entries' = [entries EXCEPT ![j] = e]
    PROVE  /\ EntryInv'
           /\ lib' \in [EntryIds -> [job : Jobs, expr : Exprs] \cup {Unused}]
           /\ entries' \in [Jobs -> EntryIds \cup {NoEntry}]
           /\ entries'[j] = e /\ lib'[e].expr = x /\ Scheduled(j)'
           /\ \A i \in Jobs \ {j} : entries'[i] = entries[i]
           /\ \A i \in Jobs \ {j} : entries[i] # NoEntry => lib'[entries[i]] = lib[entries[i]]
<1>0. e \in EntryIds /\ Freed(j)[e] = Unused /\ \A i \in Jobs \ {j} : entries[i] # e
  BY DEF FreeFor
<1>1. \A i \in EntryIds : lib'[i] = IF i = e THEN [job |-> j, expr |-> x]
                                    ELSE IF i = entries[j] THEN Unused ELSE lib[i]
  BY <1>0 DEF Freed
<1>2. \A i \in Jobs : entries'[i] = IF i = j THEN e ELSE entries[i]
  BY DEF TypeOK
<1>3. e = entries[j] \/ lib[e] = Unused
  BY <1>0 DEF Freed
<1>4. [job |-> j, expr |-> x] # Unused /\ [job |-> j, expr |-> x].job = j
  BY DEF Unused
<1>5. \A i \in Jobs \ {j} : entries[i] # NoEntry => entries[i] # entries[j]
  BY DEF EntryInv
<1>6. EntryInv'
  <2>1. ASSUME NEW i \in EntryIds, lib'[i] # Unused, NEW k \in Jobs
        PROVE  (entries'[k] = i) <=> (lib'[i].job = k)
    <3>1. lib[i] # Unused => ((entries[k] = i) <=> (lib[i].job = k))
      BY DEF EntryInv, OneEntryPerJob
    <3>2. lib[i] # Unused => ((entries[j] = i) <=> (lib[i].job = j))
      BY DEF EntryInv, OneEntryPerJob
    <3> QED
      BY <1>0, <1>1, <1>2, <1>3, <1>4, <2>1, <3>1, <3>2
  <2>2. \A i, k \in Jobs : entries'[i] # NoEntry /\ entries'[i] = entries'[k] => i = k
    BY <1>0, <1>2 DEF EntryInv
  <2> QED
    BY <2>1, <2>2 DEF EntryInv, OneEntryPerJob
<1>7. \A i \in Jobs \ {j} : entries[i] # NoEntry => lib'[entries[i]] = lib[entries[i]]
  BY <1>0, <1>1, <1>5 DEF TypeOK
<1>8. lib' \in [EntryIds -> [job : Jobs, expr : Exprs] \cup {Unused}]
  BY <1>0 DEF Freed, TypeOK
<1>9. entries' \in [Jobs -> EntryIds \cup {NoEntry}]
  BY <1>0 DEF TypeOK
<1>10. lib'[e].expr = x /\ Scheduled(j)'
  BY <1>0, <1>1, <1>2, <1>4, NoEntryAssumption DEF Scheduled
<1> QED
  BY <1>2, <1>6, <1>7, <1>8, <1>9, <1>10

(* A job gives up its entry, and may go on naming it.                      *)
LEMMA LosesEntry ==
    ASSUME TypeOK, EntryInv, NEW j \in Jobs,
           lib' = Freed(j),
           entries' = [entries EXCEPT ![j] = NoEntry] \/ UNCHANGED entries
    PROVE  /\ EntryInv'
           /\ lib' \in [EntryIds -> [job : Jobs, expr : Exprs] \cup {Unused}]
           /\ entries' \in [Jobs -> EntryIds \cup {NoEntry}]
           /\ entries'[j] \in {entries[j], NoEntry} /\ ~Scheduled(j)'
           /\ \A i \in Jobs \ {j} : entries'[i] = entries[i]
           /\ \A i \in Jobs \ {j} : entries[i] # NoEntry => lib'[entries[i]] = lib[entries[i]]
<1>1. \A i \in EntryIds : lib'[i] = IF i = entries[j] THEN Unused ELSE lib[i]
  BY DEF Freed
<1>2. /\ \A i \in Jobs \ {j} : entries'[i] = entries[i]
      /\ entries'[j] \in {entries[j], NoEntry}
      /\ entries[j] \in EntryIds \cup {NoEntry}
  BY DEF TypeOK
<1>3. \A i \in Jobs \ {j} : entries[i] # NoEntry => entries[i] # entries[j]
  BY DEF EntryInv
<1>4. EntryInv'
  <2>1. ASSUME NEW i \in EntryIds, lib'[i] # Unused, NEW k \in Jobs
        PROVE  (entries'[k] = i) <=> (lib'[i].job = k)
    <3>1. lib[i] # Unused /\ lib'[i] = lib[i] /\ i # entries[j]
      BY <1>1, <2>1
    <3>2. /\ (entries[k] = i) <=> (lib[i].job = k)
          /\ (entries[j] = i) <=> (lib[i].job = j)
      BY <3>1 DEF EntryInv, OneEntryPerJob
    <3> QED
      BY <1>2, <3>1, <3>2, NoEntryAssumption
  <2>2. \A i, k \in Jobs : entries'[i] # NoEntry /\ entries'[i] = entries'[k] => i = k
    BY <1>2 DEF EntryInv
  <2> QED
    BY <2>1, <2>2 DEF EntryInv, OneEntryPerJob
<1>5. \A i \in Jobs \ {j} : entries[i] # NoEntry => lib'[entries[i]] = lib[entries[i]]
  BY <1>1, <1>3 DEF TypeOK
<1>6. lib' \in [EntryIds -> [job : Jobs, expr : Exprs] \cup {Unused}]
  BY DEF Freed, TypeOK
<1>7. entries' \in [Jobs -> EntryIds \cup {NoEntry}]
  BY DEF TypeOK
<1>8. ~Scheduled(j)'
  BY <1>1, <1>2 DEF Scheduled
<1> QED
  BY <1>2, <1>4, <1>5, <1>6, <1>7, <1>8

-----------------------------------------------------------------------------
(***************************************************************************)
(* A step of a request: what it must do to its own job for the invariants  *)
(* of who handles which job.                                               *)
(***************************************************************************)

(* c goes on or is done with job j, and touches no other.                  *)
StepOf(c, j, left, fine) ==
    /\ Busy(c) /\ j = Of(c)
    /\ left \in {<<>>, Tail(todo[c])}
    /\ Goes(c, left, fine)
    /\ UNCHANGED <<used, boot, list>>
    /\ raw' \in {raw, raw \ {j}}
    /\ \A i \in Jobs \ {j} :
        /\ job'[i] = job[i] /\ entries'[i] = entries[i]
        /\ entries[i] # NoEntry => lib'[entries[i]] = lib[entries[i]]

LEMMA WhoHandles ==
    ASSUME TypeInv, NEW c \in Clients, NEW j \in Jobs, NEW left, NEW fine \in BOOLEAN,
           StepOf(c, j, left, fine)
    PROVE  /\ LeftOK(request[c].op, left)
           /\ Handling(c, j)
           /\ \A i \in Jobs : /\ Handling(c, i)' = (left # <<>> /\ i = j)
                              /\ \A d \in Clients \ {c} : Handling(d, i)' = Handling(d, i)
           /\ \A d \in Clients \ {c} : /\ todo'[d] = todo[d]
                                       /\ request'[d] = request[d]
                                       /\ alone'[d] = alone[d]
           /\ todo'[c] = left /\ alone'[c] = (alone[c] /\ left # <<>>)
           /\ left # <<>> => request'[c] = request[c]
<1>1. LeftOK(request[c].op, left)
  <2>1. LeftOK(request[c].op, Tail(todo[c]))
    BY LeftStep DEF TypeInv, StepOf, Busy
  <2>2. LeftOK(request[c].op, <<>>)
    BY DEF LeftOK
  <2> QED
    BY <2>1, <2>2 DEF StepOf
<1>2. /\ todo'[c] = left
      /\ \A d \in Clients \ {c} : /\ todo'[d] = todo[d]
                                  /\ request'[d] = request[d]
                                  /\ alone'[d] = alone[d]
      /\ left # <<>> => request'[c] = request[c]
      /\ alone'[c] = (alone[c] /\ left # <<>>)
  BY <1>1, GoesOn DEF StepOf
<1>3. Busy(c) /\ j = Of(c)
  BY DEF StepOf
<1>4. \A i \in Jobs : /\ Handling(c, i)' = (left # <<>> /\ i = j)
                      /\ \A d \in Clients \ {c} : Handling(d, i)' = Handling(d, i)
  BY <1>2, <1>3 DEF Handling, Busy, Of
<1> QED
  BY <1>1, <1>2, <1>3, <1>4 DEF Handling

LEMMA StepKeepsAdds ==
    ASSUME TypeInv, AddInv, NEW c \in Clients, NEW j \in Jobs, NEW left, NEW fine \in BOOLEAN,
           StepOf(c, j, left, fine),
           \A i \in Jobs : disk'[i].there => disk[i].there \/ job'[i].there,
           request[c].op = "remove" =>
                /\ ~job[j].there => ~job'[j].there
                /\ entries'[j] \in {entries[j], NoEntry}
    PROVE  AddInv'
<1>1. /\ Handling(c, j)
      /\ \A i \in Jobs : /\ Handling(c, i)' = (left # <<>> /\ i = j)
                         /\ \A d \in Clients \ {c} : Handling(d, i)' = Handling(d, i)
      /\ \A d \in Clients \ {c} : todo'[d] = todo[d] /\ request'[d] = request[d]
      /\ todo'[c] = left /\ (left # <<>> => request'[c] = request[c])
  BY WhoHandles
<1>2. /\ UNCHANGED <<used, list>> /\ j = Of(c)
      /\ \A i \in Jobs \ {j} : job'[i] = job[i] /\ entries'[i] = entries[i]
  BY DEF StepOf
<1>3. \A d \in Clients : Of(d) \in Jobs
  BY DEF TypeInv, TypeOK, Requests, Of
<1>4. \A i \in Jobs \ used : i # j
  BY <1>1 DEF AddInv, Unhandled
<1>5. \A i \in Jobs \ used' : (Absent(i) /\ ~disk[i].there /\ Unhandled(i))'
  BY <1>1, <1>2, <1>4 DEF AddInv, Absent, Unhandled
<1>6. At(c, "store")' => request'[c].op # "add"
  <2>1. left # <<>> => left = Tail(todo[c]) /\ todo[c] # <<>> /\ LeftOK(request[c].op, todo[c])
    BY DEF StepOf, TypeInv, Busy
  <2>2. ASSUME left # <<>>, Head(left) = "store"
        PROVE  request[c].op # "add"
    <3>1. request[c].op \in {"remove"} \cup Updating
      BY <2>1, <2>2, LeftStep
    <3> QED
      BY <3>1 DEF Updating
  <2> QED
    BY <1>1, <2>2 DEF At, Busy, Next1
<1>7. ASSUME NEW d \in Clients \ {c}, At(d, "store")', request'[d].op = "add",
             NEW e \in Clients
      PROVE  /\ Absent(Of(d))'
             /\ e # d /\ Handling(e, Of(d))' => request'[e].op = "remove"
  <2>1. At(d, "store") /\ request[d].op = "add" /\ Of(d)' = Of(d)
    BY <1>1, <1>7 DEF At, Busy, Next1, Of
  <2>2. /\ Absent(Of(d))
        /\ \A x \in Clients : x # d /\ Handling(x, Of(d)) => request[x].op = "remove"
    BY <2>1 DEF AddInv
  <2>3. Absent(Of(d))'
    <3>1. CASE Of(d) = j
      <4>1. request[c].op = "remove"
        BY <1>1, <1>7, <2>2, <3>1
      <4> QED
        BY <1>2, <2>1, <2>2, <3>1, <4>1 DEF Absent
    <3>2. CASE Of(d) # j
      BY <1>2, <1>3, <2>1, <2>2, <3>2 DEF Absent
    <3> QED
      BY <3>1, <3>2
  <2>4. Handling(e, Of(d))' => Handling(e, Of(d)) /\ (e = d \/ request'[e] = request[e])
    BY <1>1, <1>3, <2>1 DEF Handling, Busy, Of
  <2> QED
    BY <2>2, <2>3, <2>4
<1> QED
  BY <1>5, <1>6, <1>7 DEF AddInv

LEMMA StepSettles ==
    ASSUME TypeInv, AloneInv, SettledInv, OffInv,
           NEW c \in Clients, NEW j \in Jobs, NEW left, NEW fine \in BOOLEAN,
           StepOf(c, j, left, fine),
           alone[c] /\ left # <<>> => Achieved(c)',
           alone[c] /\ left = <<>> /\ fine => Sound(j)' /\ Complete(j)',
           alone[c] /\ left = <<>> /\ SwitchesOff(request[c]) =>
                ~(job'[j].there /\ job'[j].enabled)
    PROVE  AloneInv' /\ SettledInv' /\ OffInv'
<1>1. /\ Handling(c, j)
      /\ \A i \in Jobs : /\ Handling(c, i)' = (left # <<>> /\ i = j)
                         /\ \A d \in Clients \ {c} : Handling(d, i)' = Handling(d, i)
      /\ \A d \in Clients \ {c} : /\ todo'[d] = todo[d]
                                  /\ request'[d] = request[d]
                                  /\ alone'[d] = alone[d]
      /\ todo'[c] = left /\ alone'[c] = (alone[c] /\ left # <<>>)
      /\ left # <<>> => request'[c] = request[c]
  BY WhoHandles
<1>2. /\ UNCHANGED <<boot, list>> /\ j = Of(c)
      /\ \A i \in Jobs \ {j} : /\ job'[i] = job[i] /\ entries'[i] = entries[i]
                               /\ Scheduled(i)' = Scheduled(i)
  BY DEF StepOf, Scheduled
<1>3. \A d \in Clients : Of(d) \in Jobs
  BY DEF TypeInv, TypeOK, Requests, Of
<1>4. /\ unsettled' = IF ~fine THEN unsettled \cup {j}
                      ELSE IF left = <<>> /\ alone[c] THEN unsettled \ {j} ELSE unsettled
      /\ off' = IF left = <<>> /\ alone[c] /\ SwitchesOff(request[c])
                THEN off \cup {j} ELSE off
  BY <1>2 DEF StepOf, Goes
<1>5. \A d \in Clients : left # <<>> \/ d # c => Of(d)' = Of(d)
  BY <1>1 DEF Of
<1>6. Busy(c)' = (left # <<>>) /\ \A d \in Clients \ {c} : Busy(d)' = Busy(d)
  BY <1>1 DEF Busy
<1>7. alone[c] => j \notin list /\ \A d \in Clients \ {c} : ~Handling(d, j)
  BY <1>2 DEF AloneInv
<1>8. AloneInv'
  <2>1. ASSUME NEW d \in Clients \ {c}, alone'[d]
        PROVE  /\ Busy(d)' /\ Of(d)' \notin list'
               /\ \A e \in Clients \ {d} : ~Handling(e, Of(d))'
               /\ Achieved(d)'
    <3>1. alone[d] /\ Busy(d) /\ Of(d) \notin list /\ Achieved(d)
          /\ \A e \in Clients \ {d} : ~Handling(e, Of(d))
      BY <1>1, <2>1 DEF AloneInv
    <3>2. Of(d) # j
      BY <1>1, <3>1
    <3>3. Achieved(d)'
      <4>1. PICK i \in Jobs \ {j} : i = Of(d)
        BY <1>3, <3>2
      <4>2. Of(d)' = i /\ Sound(i)' = Sound(i)
        BY <1>2, <1>5, <4>1 DEF Sound
      <4> QED
        BY <1>1, <1>2, <3>1, <4>1, <4>2 DEF Achieved, At, Busy, Next1
    <3>4. \A e \in Clients \ {d} : ~Handling(e, Of(d))'
      BY <1>1, <1>3, <1>5, <3>1, <3>2 DEF Handling, Busy, Of
    <3> QED
      BY <1>2, <1>5, <1>6, <3>1, <3>3, <3>4
  <2>2. ASSUME alone'[c]
        PROVE  /\ Busy(c)' /\ Of(c)' \notin list'
               /\ \A e \in Clients \ {c} : ~Handling(e, Of(c))'
               /\ Achieved(c)'
    <3>1. alone[c] /\ left # <<>> /\ Of(c)' = j
      BY <1>1, <1>2, <1>5, <2>2
    <3>2. \A e \in Clients \ {c} : ~Handling(e, j)'
      BY <1>1, <1>7, <3>1
    <3> QED
      BY <1>2, <1>6, <1>7, <3>1, <3>2 DEF Handling
  <2> QED
    BY <2>1, <2>2 DEF AloneInv
<1>9. SettledInv'
  <2>1. \A d \in Clients : Busy(d)' /\ ~alone'[d] => Of(d)' \in unsettled'
    <3>1. ASSUME NEW d \in Clients \ {c}, Busy(d)', ~alone'[d]
          PROVE  Of(d)' \in unsettled'
      <4>1. Busy(d) /\ ~alone[d] /\ Of(d) \in unsettled /\ Of(d)' = Of(d)
        BY <1>1, <1>5, <1>6, <3>1 DEF SettledInv
      <4>2. alone[c] => Of(d) # j
        BY <1>7, <4>1 DEF Handling
      <4> QED
        BY <1>4, <4>1, <4>2
    <3>2. Busy(c)' /\ ~alone'[c] => Of(c)' \in unsettled'
      BY <1>1, <1>2, <1>4, <1>5, <1>6 DEF SettledInv, StepOf
    <3> QED
      BY <3>1, <3>2
  <2>2. ASSUME NEW i \in Jobs \ unsettled', Unhandled(i)'
        PROVE  Sound(i)' /\ (boot' # "loaded" /\ i \notin list' => Complete(i)')
    <3>1. CASE i # j
      <4>1. i \notin unsettled /\ Unhandled(i)
        BY <1>1, <1>2, <1>4, <2>2, <3>1 DEF Unhandled, Handling
      <4>2. Sound(i) /\ (boot # "loaded" /\ i \notin list => Complete(i))
        BY <4>1 DEF SettledInv
      <4> QED
        BY <1>2, <3>1, <4>2 DEF Sound, Complete
    <3>2. CASE i = j
      <4>1. left = <<>>
        BY <1>1, <2>2, <3>2 DEF Unhandled
      <4>2. fine
        BY <1>4, <2>2, <3>2
      <4>3. alone[c]
        BY <1>2, <1>4, <2>2, <3>2 DEF SettledInv, StepOf
      <4> QED
        BY <3>2, <4>1, <4>2, <4>3
    <3> QED
      BY <3>1, <3>2
  <2>3. \A i \in list' \ unsettled' : job'[i].there
    <3>1. ASSUME NEW i \in list' \ unsettled'
          PROVE  job'[i].there
      <4>1. i # j
        BY <1>2, <1>4, <1>7, <3>1 DEF SettledInv, StepOf
      <4>2. i \in list \ unsettled /\ i \in Jobs
        BY <1>2, <1>4, <3>1, <4>1 DEF TypeInv, TypeOK
      <4> QED
        BY <1>2, <4>1, <4>2 DEF SettledInv
    <3> QED
      BY <3>1
  <2> QED
    BY <2>1, <2>2, <2>3 DEF SettledInv
<1>10. OffInv'
  <2>1. ASSUME NEW i \in off'
        PROVE  Unhandled(i)' /\ ~(job'[i].there /\ job'[i].enabled)
    <3>1. CASE i \in off
      <4>1. i \in Jobs /\ Unhandled(i) /\ ~(job[i].there /\ job[i].enabled)
        BY <3>1 DEF OffInv, TypeInv, TypeOK
      <4>2. i # j
        BY <1>1, <4>1 DEF Unhandled
      <4> QED
        BY <1>1, <1>2, <4>1, <4>2 DEF Unhandled
    <3>2. CASE i \notin off
      <4>1. i = j /\ left = <<>> /\ alone[c] /\ SwitchesOff(request[c])
        BY <1>4, <2>1, <3>2
      <4>2. Unhandled(j)'
        BY <1>1, <1>7, <4>1 DEF Unhandled
      <4> QED
        BY <4>1, <4>2
    <3> QED
      BY <3>1, <3>2
  <2> QED
    BY <2>1 DEF OffInv
<1> QED
  BY <1>8, <1>9, <1>10

LEMMA StepKeepsStale ==
    ASSUME TypeInv, StaleInv,
           NEW c \in Clients, NEW j \in Jobs, NEW left, NEW fine \in BOOLEAN,
           StepOf(c, j, left, fine),
           Outdated(j)' => \/ At(c, "get")' \/ At(c, "schedule")'
                           \/ Outdated(j) /\ ~At(c, "get") /\ ~At(c, "schedule")
    PROVE  StaleInv'
<1>1. /\ \A d \in Clients \ {c} : todo'[d] = todo[d] /\ request'[d] = request[d]
      /\ todo'[c] = left /\ (left # <<>> => request'[c] = request[c])
  BY WhoHandles
<1>2. /\ j = Of(c)
      /\ \A i \in Jobs \ {j} :
            /\ job'[i] = job[i] /\ entries'[i] = entries[i] /\ (i \in raw' <=> i \in raw)
            /\ entries[i] # NoEntry => lib'[entries[i]] = lib[entries[i]]
  BY DEF StepOf
<1>3. ASSUME NEW i \in Jobs, Outdated(i), i = j => ~At(c, "get") /\ ~At(c, "schedule")
      PROVE  \E d \in Clients : (Of(d) = i /\ (At(d, "get") \/ At(d, "schedule")))'
  <2>1. PICK d \in Clients : Of(d) = i /\ (At(d, "get") \/ At(d, "schedule"))
    BY <1>3 DEF StaleInv
  <2>2. d # c
    BY <1>2, <1>3, <2>1
  <2>3. (Of(d) = i /\ (At(d, "get") \/ At(d, "schedule")))'
    BY <1>1, <2>1, <2>2 DEF At, Busy, Next1, Of
  <2> QED
    BY <2>3
<1>4. ASSUME NEW i \in Jobs, Outdated(i)'
      PROVE  \E d \in Clients : (Of(d) = i /\ (At(d, "get") \/ At(d, "schedule")))'
  <2>1. CASE i # j
    <3>1. Outdated(i)
      BY <1>2, <1>4, <2>1 DEF Outdated, Scheduled
    <3> QED
      BY <1>3, <2>1, <3>1
  <2>2. CASE i = j /\ (At(c, "get")' \/ At(c, "schedule")')
    <3>1. Of(c)' = j
      BY <1>1, <1>2, <2>2 DEF At, Busy, Of
    <3> QED
      BY <2>2, <3>1
  <2>3. CASE i = j /\ Outdated(j) /\ ~At(c, "get") /\ ~At(c, "schedule")
    BY <1>3, <2>3
  <2> QED
    BY <1>4, <2>1, <2>2, <2>3
<1> QED
  BY <1>4 DEF StaleInv

-----------------------------------------------------------------------------
(***************************************************************************)
(* The steps of requests keep CronInv.                                     *)
(***************************************************************************)
LEMMA StepTypes ==
    ASSUME TypeInv, NEW c \in Clients, NEW j \in Jobs, NEW left, NEW fine \in BOOLEAN,
           StepOf(c, j, left, fine),
           job' \in [Jobs -> CronJobs], disk' \in [Jobs -> CronJobs], unsaved' \in BOOLEAN,
           lib' \in [EntryIds -> [job : Jobs, expr : Exprs] \cup {Unused}],
           entries' \in [Jobs -> EntryIds \cup {NoEntry}],
           UNCHANGED runVars
    PROVE  TypeInv'
<1>1. LeftOK(request[c].op, left)
  BY WhoHandles
<1>2. Goes(c, left, fine) /\ UNCHANGED <<used, boot, list>> /\ raw' \in SUBSET raw
  BY DEF StepOf
<1> QED
  BY <1>1, <1>2, GoesOn DEF TypeInv, TypeOK, runVars

(* The step a client is at. *)
LEMMA AtStep ==
    ASSUME TypeInv, NEW c \in Clients, NEW step, At(c, step)
    PROVE  /\ Of(c) \in Jobs /\ request[c] \in Requests /\ Busy(c)
           /\ LeftOK(request[c].op, todo[c]) /\ todo[c] # <<>> /\ Head(todo[c]) = step
  BY DEF At, Busy, Next1, TypeInv, TypeOK, Requests, Of

LEMMA StoreInv ==
    ASSUME CronInv, NEW c \in Clients, Store(c)
    PROVE  CronInv'
<1> DEFINE op == request[c].op
<1>0. /\ TypeInv /\ EntryInv /\ FileInv /\ AddInv /\ StaleInv /\ AloneInv
      /\ SettledInv /\ OffInv
  BY DEF CronInv
<1>j. PICK j \in Jobs : j = Of(c)
  BY <1>0 DEF TypeInv, TypeOK, Requests, Of
<1>1. /\ At(c, "store") /\ j = Of(c) /\ request[c] \in Requests /\ Busy(c)
      /\ LeftOK(op, todo[c]) /\ todo[c] # <<>> /\ Head(todo[c]) = "store"
      /\ job[j] \in CronJobs
  <2>1. At(c, "store")
    BY DEF Store
  <2> QED
    BY <1>0, <1>j, <2>1, AtStep DEF TypeInv, TypeOK
<1>2. \/ /\ op \in Scheduling \ {"start"}
         /\ Tail(todo[c]) # <<>> /\ Head(Tail(todo[c])) = "get"
      \/ op = "disable" /\ Tail(todo[c]) # <<>> /\ Head(Tail(todo[c])) = "unschedule"
      \/ op = "remove" /\ Tail(todo[c]) = <<>>
  BY <1>1, LeftStep
<1>3. op # "start"
  BY <1>2
<1>4. UNCHANGED <<used, boot, list, lib, entries, raw>> /\ UNCHANGED runVars
  BY DEF Store, scheduleVars, bootVars
<1>5. alone[c] => Achieved(c)
  BY <1>0 DEF AloneInv
<1>6. CASE op # "add" /\ ~job[j].there /\ Goes(c, <<>>, TRUE) /\ UNCHANGED <<job, disk, unsaved>>
  <2>1. StepOf(c, j, <<>>, TRUE)
    BY <1>1, <1>4, <1>6 DEF StepOf
  <2>2. TypeInv'
    BY <1>0, <1>1, <1>4, <1>6, <2>1, StepTypes DEF TypeInv, TypeOK
  <2>3. EntryInv' /\ FileInv'
    BY <1>0, <1>4, <1>6 DEF EntryInv, OneEntryPerJob, FileInv, FileIsCurrent
  <2>4. AddInv'
    BY <1>0, <1>1, <1>4, <1>6, <2>1, StepKeepsAdds
  <2>5. StaleInv'
    <3>1. ~Outdated(j)'
      BY <1>6 DEF Outdated
    <3> QED
      BY <1>0, <1>1, <1>4, <2>1, <3>1, StepKeepsStale
  <2>6. AloneInv' /\ SettledInv' /\ OffInv'
    <3>1. alone[c] => entries[j] = NoEntry
      BY <1>1, <1>5, <1>6 DEF Achieved
    <3>2. alone[c] => Sound(j)' /\ Complete(j)'
      BY <1>4, <1>6, <3>1 DEF Sound, Complete, Scheduled
    <3>3. ~job'[j].there
      BY <1>6
    <3> QED
      BY <1>0, <1>1, <2>1, <3>2, <3>3, StepSettles
  <2> QED
    BY <2>2, <2>3, <2>4, <2>5, <2>6 DEF CronInv
<1>7. ASSUME NEW left, NEW fine \in BOOLEAN,
             op = "add" \/ job[j].there,
             job' = [job EXCEPT ![j] = Stored(request[c], job[j])],
             Goes(c, left, fine), Saves \/ SaveFails,
             \/ left = Tail(todo[c]) /\ fine
             \/ left = <<>> /\ ~fine /\ op = "add"
      PROVE  CronInv'
  <2> DEFINE new == Stored(request[c], job[j])
  <2>1. StepOf(c, j, left, fine)
    BY <1>0, <1>1, <1>4, <1>7 DEF StepOf, TypeInv, TypeOK, Of
  <2>2. /\ new \in CronJobs /\ job'[j] = new
        /\ op = "add" => new.there /\ new.enabled
        /\ op = "remove" => ~new.there
        /\ op \notin {"add", "remove"} => new.there
        /\ op = "enable" => new.enabled
        /\ op = "disable" => ~new.enabled
        /\ op = "setEnabled" => new.enabled = request[c].enabled
    BY <1>0, <1>1, <1>3, <1>7, StoredIs DEF TypeInv, TypeOK
  <2> HIDE DEF new
  <2>3. job' \in [Jobs -> CronJobs]
    BY <1>0, <1>1, <1>7, <2>2 DEF new, TypeInv, TypeOK
  <2>4. disk' \in [Jobs -> CronJobs] /\ unsaved' \in BOOLEAN /\ FileInv'
    BY <1>0, <1>7, <2>3, SaveKeeps DEF TypeInv
  <2>5. TypeInv'
    <3>1. /\ lib' \in [EntryIds -> [job : Jobs, expr : Exprs] \cup {Unused}]
          /\ entries' \in [Jobs -> EntryIds \cup {NoEntry}]
      BY <1>0, <1>4 DEF TypeInv, TypeOK
    <3> QED
      BY <1>0, <1>4, <2>1, <2>3, <2>4, <3>1, StepTypes
  <2>6. EntryInv'
    BY <1>0, <1>4 DEF EntryInv, OneEntryPerJob
  <2>7. AddInv'
    <3>1. \A i \in Jobs : disk'[i].there => disk[i].there \/ job'[i].there
      BY <1>7, Defaults DEF Saves, SaveFails
    <3> QED
      BY <1>0, <1>1, <1>4, <2>1, <2>2, <3>1, StepKeepsAdds
  <2>8. /\ todo'[c] = left /\ (left # <<>> => request'[c] = request[c])
    BY <1>0, <1>1, <2>1, WhoHandles
  <2>9. StaleInv'
    <3>1. op = "add" => entries'[j] = NoEntry
      BY <1>0, <1>1, <1>4 DEF AddInv, Absent
    <3>2. op \in Scheduling /\ op # "add" => At(c, "get")'
      BY <1>2, <1>7, <2>8 DEF At, Busy, Next1, Scheduling, Updating
    <3>3. Outdated(j)' => At(c, "get")'
      BY <1>2, <2>2, <3>1, <3>2 DEF Outdated, Scheduled
    <3> QED
      BY <1>0, <1>1, <1>4, <2>1, <3>3, StepKeepsStale
  <2>10. AloneInv' /\ SettledInv' /\ OffInv'
    <3>1. alone[c] /\ op \in {"remove"} \cup Updating => entries'[j] = NoEntry
      BY <1>1, <1>4, <1>5 DEF Achieved
    <3>2. ASSUME alone[c], left # <<>>
          PROVE  Achieved(c)'
      <4>1. Of(c)' = j /\ request'[c] = request[c] /\ left = Tail(todo[c])
        BY <1>1, <1>7, <2>8, <3>2 DEF Of
      <4>2. CASE op \in Scheduling \ {"start"} /\ Head(left) = "get"
        <5>1. /\ At(c, "get")' /\ ~At(c, "store")' /\ ~At(c, "schedule")' /\ ~At(c, "unschedule")'
          BY <2>8, <3>2, <4>2 DEF At, Busy, Next1
        <5> QED
          BY <2>2, <3>1, <3>2, <4>1, <4>2, <5>1 DEF Achieved
      <4>3. CASE op = "disable" /\ Head(left) = "unschedule"
        <5>1. /\ ~At(c, "get")' /\ ~At(c, "store")' /\ ~At(c, "schedule")'
          BY <2>8, <3>2, <4>3 DEF At, Busy, Next1
        <5> QED
          BY <2>2, <4>1, <4>3, <5>1 DEF Achieved
      <4> QED
        BY <1>2, <3>2, <4>1, <4>2, <4>3
    <3>3. left = <<>> /\ fine => op = "remove"
      BY <1>2, <1>7
    <3>4. alone[c] /\ left = <<>> /\ fine => Sound(j)' /\ Complete(j)'
      BY <2>2, <3>1, <3>3 DEF Sound, Complete, Scheduled
    <3>5. left = <<>> /\ SwitchesOff(request[c]) => ~(job'[j].there /\ job'[j].enabled)
      BY <1>7, <2>2, <3>3 DEF SwitchesOff
    <3> QED
      BY <1>0, <1>1, <2>1, <3>2, <3>4, <3>5, StepSettles
  <2> QED
    BY <2>4, <2>5, <2>6, <2>7, <2>9, <2>10 DEF CronInv
<1>8. CASE /\ op = "add" \/ job[j].there
           /\ job' = [job EXCEPT ![j] = Stored(request[c], job[j])]
           /\ \/ Saves /\ Goes(c, Tail(todo[c]), TRUE)
              \/ SaveFails /\ IF op = "add" THEN Goes(c, <<>>, FALSE)
                                            ELSE Goes(c, Tail(todo[c]), TRUE)
  BY <1>7, <1>8
<1> QED
  BY <1>1, <1>6, <1>8 DEF Store

LEMMA GetInv ==
    ASSUME CronInv, NEW c \in Clients, Get(c)
    PROVE  CronInv'
<1> DEFINE op == request[c].op
<1>0. /\ TypeInv /\ EntryInv /\ FileInv /\ AddInv /\ StaleInv /\ AloneInv
      /\ SettledInv /\ OffInv
  BY DEF CronInv
<1>j. PICK j \in Jobs : j = Of(c)
  BY <1>0 DEF TypeInv, TypeOK, Requests, Of
<1>1. /\ At(c, "get") /\ j = Of(c) /\ request[c] \in Requests /\ Busy(c)
      /\ LeftOK(op, todo[c]) /\ todo[c] # <<>> /\ Head(todo[c]) = "get"
      /\ job[j] \in CronJobs
  <2>1. At(c, "get")
    BY DEF Get
  <2> QED
    BY <1>0, <1>j, <2>1, AtStep DEF TypeInv, TypeOK
<1>2. op \in Scheduling /\ Tail(todo[c]) # <<>> /\ Head(Tail(todo[c])) = "schedule"
  BY <1>1, LeftStep
<1>3. UNCHANGED <<job, disk, unsaved, used, boot, list, lib, entries, raw>> /\ UNCHANGED runVars
  BY DEF Get, storeVars, scheduleVars, bootVars
<1>4. alone[c] => Achieved(c)
  BY <1>0 DEF AloneInv
<1>5. PICK schedules \in BOOLEAN :
            /\ Goes(c, IF schedules THEN Tail(todo[c]) ELSE <<>>, TRUE)
            /\ op \in {"add", "start"} => schedules = job[j].enabled
            /\ op = "enable" => schedules = job[j].there
            /\ op \in Updating => schedules = (job[j].there /\ job[j].enabled)
  BY <1>1, <1>2 DEF Get, Scheduling, Updating, CronJobs
<1> DEFINE left == IF schedules THEN Tail(todo[c]) ELSE <<>>
<1>6. StepOf(c, j, left, TRUE)
  BY <1>1, <1>3, <1>5 DEF StepOf
<1>7. job[j].there /\ job[j].enabled => schedules
  BY <1>2, <1>5 DEF Scheduling
<1>8. TypeInv'
  BY <1>0, <1>1, <1>3, <1>6, StepTypes DEF TypeInv, TypeOK
<1>9. EntryInv' /\ FileInv'
  BY <1>0, <1>3 DEF EntryInv, OneEntryPerJob, FileInv, FileIsCurrent
<1>10. AddInv'
  BY <1>0, <1>1, <1>3, <1>6, StepKeepsAdds
<1>11. todo'[c] = left /\ (left # <<>> => request'[c] = request[c])
  BY <1>0, <1>1, <1>6, WhoHandles
<1>12. schedules => /\ At(c, "schedule")' /\ ~At(c, "get")' /\ ~At(c, "store")'
                    /\ ~At(c, "unschedule")'
  BY <1>2, <1>11 DEF At, Busy, Next1
<1>13. StaleInv'
  <2>1. Outdated(j)' => At(c, "schedule")'
    BY <1>3, <1>7, <1>12 DEF Outdated
  <2> QED
    BY <1>0, <1>1, <1>3, <1>6, <2>1, StepKeepsStale
<1>14. AloneInv' /\ SettledInv' /\ OffInv'
  <2>1. ASSUME alone[c], schedules
        PROVE  job[j].there /\ job[j].enabled
    BY <1>1, <1>2, <1>4, <1>5, <2>1 DEF Achieved, Scheduling
  <2>2. ASSUME alone[c], left # <<>>
        PROVE  Achieved(c)'
    <3>1. schedules /\ Of(c)' = j /\ request'[c] = request[c]
      BY <1>1, <1>11, <2>2 DEF Of
    <3>2. op = "setEnabled" => request[c].enabled
      BY <1>1, <1>4, <2>1, <2>2, <3>1 DEF Achieved
    <3> QED
      BY <1>3, <1>12, <2>1, <2>2, <3>1, <3>2 DEF Achieved
  <2>3. ASSUME alone[c], left = <<>>
        PROVE  Sound(j)' /\ Complete(j)'
    <3>1. ~schedules
      BY <1>2, <2>3
    <3>2. ~Scheduled(j)
      BY <1>1, <1>2, <1>4, <1>5, <1>7, <2>3, <3>1 DEF Achieved, Scheduling, Sound, Scheduled
    <3>3. Scheduled(j)' = Scheduled(j)
      BY <1>3 DEF Scheduled
    <3> QED
      BY <1>3, <1>7, <3>1, <3>2, <3>3 DEF Sound, Complete
  <2>4. ASSUME alone[c], SwitchesOff(request[c])
        PROVE  ~(job'[j].there /\ job'[j].enabled)
    BY <1>1, <1>2, <1>3, <1>4, <2>4 DEF SwitchesOff, Achieved, Scheduling, Updating
  <2> HIDE DEF left
  <2> QED
    BY <1>0, <1>1, <1>6, <2>2, <2>3, <2>4, StepSettles
<1> QED
  BY <1>8, <1>9, <1>10, <1>13, <1>14 DEF CronInv

LEMMA ScheduleInv ==
    ASSUME CronInv, NEW c \in Clients, Schedule(c)
    PROVE  CronInv'
<1> DEFINE op == request[c].op
<1>0. /\ TypeInv /\ EntryInv /\ FileInv /\ AddInv /\ StaleInv /\ AloneInv
      /\ SettledInv /\ OffInv
  BY DEF CronInv
<1>j. PICK j \in Jobs : j = Of(c)
  BY <1>0 DEF TypeInv, TypeOK, Requests, Of
<1>1. /\ At(c, "schedule") /\ j = Of(c) /\ request[c] \in Requests /\ Busy(c)
      /\ LeftOK(op, todo[c]) /\ todo[c] # <<>> /\ Head(todo[c]) = "schedule"
      /\ job[j] \in CronJobs
  <2>1. At(c, "schedule")
    BY DEF Schedule
  <2> QED
    BY <1>0, <1>j, <2>1, AtStep DEF TypeInv, TypeOK
<1>2. op \in Scheduling /\ Tail(todo[c]) = <<>>
  BY <1>1, LeftStep
<1>3. UNCHANGED <<job, disk, unsaved, used, boot, list>> /\ UNCHANGED runVars
  BY DEF Schedule, storeVars, bootVars
<1>4. alone[c] => Achieved(c)
  BY <1>0 DEF AloneInv
<1>5. ASSUME NEW fine \in BOOLEAN, Goes(c, <<>>, fine),
             EntryInv', raw' \in {raw, raw \ {j}},
             lib' \in [EntryIds -> [job : Jobs, expr : Exprs] \cup {Unused}],
             entries' \in [Jobs -> EntryIds \cup {NoEntry}],
             Scheduled(j)' => lib'[entries'[j]].expr = job[j].expr,
             fine => Scheduled(j)',
             \A i \in Jobs \ {j} :
                /\ entries'[i] = entries[i]
                /\ entries[i] # NoEntry => lib'[entries[i]] = lib[entries[i]]
      PROVE  CronInv'
  <2>1. StepOf(c, j, <<>>, fine)
    BY <1>1, <1>3, <1>5 DEF StepOf
  <2>2. TypeInv'
    <3>1. job' \in [Jobs -> CronJobs] /\ disk' \in [Jobs -> CronJobs] /\ unsaved' \in BOOLEAN
      BY <1>0, <1>3 DEF TypeInv, TypeOK
    <3> QED
      BY <1>0, <1>3, <1>5, <2>1, <3>1, StepTypes
  <2>3. FileInv'
    BY <1>0, <1>3 DEF FileInv, FileIsCurrent
  <2>4. AddInv'
    <3>1. op # "remove"
      BY <1>2 DEF Scheduling, Updating
    <3> QED
      BY <1>0, <1>3, <2>1, <3>1, StepKeepsAdds
  <2>5. StaleInv'
    <3>1. ~Outdated(j)'
      BY <1>3, <1>5 DEF Outdated
    <3> QED
      BY <1>0, <2>1, <3>1, StepKeepsStale
  <2>6. AloneInv' /\ SettledInv' /\ OffInv'
    <3>1. ASSUME alone[c]
          PROVE  /\ fine => Sound(j)' /\ Complete(j)'
                 /\ ~SwitchesOff(request[c])
      <4>1. /\ job[j].there /\ job[j].enabled
            /\ op = "setEnabled" => request[c].enabled
        BY <1>1, <1>4, <3>1 DEF Achieved
      <4> QED
        BY <1>2, <1>3, <1>5, <4>1 DEF Sound, Complete, SwitchesOff, Scheduling, Updating
    <3> QED
      BY <1>0, <2>1, <3>1, StepSettles
  <2> QED
    BY <1>5, <2>2, <2>3, <2>4, <2>5, <2>6 DEF CronInv
<1> DEFINE x == job[j].expr
<1>6. x \in Exprs /\ TypeOK
  BY <1>0, <1>1 DEF CronJobs, TypeInv
<1>7. ASSUME NEW e \in FreeFor(j),
             lib' = [Freed(j) EXCEPT ![e] = [job |-> j, expr |-> x]],
             entries' = [entries EXCEPT ![j] = e],
             raw' = raw \ {j}, Goes(c, <<>>, TRUE)
      PROVE  CronInv'
  <2> HIDE DEF x
  <2>1. /\ EntryInv'
        /\ lib' \in [EntryIds -> [job : Jobs, expr : Exprs] \cup {Unused}]
        /\ entries' \in [Jobs -> EntryIds \cup {NoEntry}]
        /\ entries'[j] = e /\ lib'[e].expr = x /\ Scheduled(j)'
        /\ \A i \in Jobs \ {j} : entries'[i] = entries[i]
        /\ \A i \in Jobs \ {j} : entries[i] # NoEntry => lib'[entries[i]] = lib[entries[i]]
    BY <1>0, <1>6, <1>7, MovesEntry
  <2>2. lib'[entries'[j]].expr = job[j].expr
    BY <2>1 DEF x
  <2> QED
    BY <1>5, <1>7, <2>1, <2>2
<1>8. ASSUME lib' = Freed(j), UNCHANGED <<entries, raw>>, Goes(c, <<>>, FALSE)
      PROVE  CronInv'
  <2>1. /\ EntryInv'
        /\ lib' \in [EntryIds -> [job : Jobs, expr : Exprs] \cup {Unused}]
        /\ entries' \in [Jobs -> EntryIds \cup {NoEntry}]
        /\ ~Scheduled(j)'
        /\ \A i \in Jobs \ {j} : entries'[i] = entries[i]
        /\ \A i \in Jobs \ {j} : entries[i] # NoEntry => lib'[entries[i]] = lib[entries[i]]
    BY <1>0, <1>6, <1>8, LosesEntry
  <2> QED
    BY <1>5, <1>8, <2>1
<1>9. \/ \E e \in FreeFor(j) :
            /\ lib' = [Freed(j) EXCEPT ![e] = [job |-> j, expr |-> x]]
            /\ entries' = [entries EXCEPT ![j] = e]
            /\ raw' = raw \ {j} /\ Goes(c, <<>>, TRUE)
      \/ lib' = Freed(j) /\ UNCHANGED <<entries, raw>> /\ Goes(c, <<>>, FALSE)
  BY <1>1, <1>2 DEF Schedule
<1> QED
  BY <1>7, <1>8, <1>9

LEMMA UnscheduleInv ==
    ASSUME CronInv, NEW c \in Clients, Unschedule(c)
    PROVE  CronInv'
<1> DEFINE op == request[c].op
<1> DEFINE left == Tail(todo[c])
<1>0. /\ TypeInv /\ EntryInv /\ FileInv /\ AddInv /\ StaleInv /\ AloneInv
      /\ SettledInv /\ OffInv
  BY DEF CronInv
<1>j. PICK j \in Jobs : j = Of(c)
  BY <1>0 DEF TypeInv, TypeOK, Requests, Of
<1>1. /\ At(c, "unschedule") /\ j = Of(c) /\ request[c] \in Requests /\ Busy(c)
      /\ LeftOK(op, todo[c]) /\ todo[c] # <<>> /\ Head(todo[c]) = "unschedule"
  <2>1. At(c, "unschedule")
    BY DEF Unschedule
  <2> QED
    BY <1>0, <1>j, <2>1, AtStep
<1>2. \/ op = "disable" /\ left = <<>>
      \/ op \in {"remove"} \cup Updating /\ left # <<>> /\ Head(left) = "store"
  <2> DEFINE todo1 == todo[c]
  <2>2. LeftOK(op, todo1) /\ todo1 # <<>> /\ Head(todo1) = "unschedule" /\ left = Tail(todo1)
    BY <1>1
  <2> HIDE DEF todo1, op, left
  <2>3. \/ Head(todo1) = "unschedule" /\ op = "disable" /\ Tail(todo1) = <<>>
        \/ /\ Head(todo1) = "unschedule" /\ op \in {"remove"} \cup Updating
           /\ Tail(todo1) # <<>> /\ Head(Tail(todo1)) = "store"
    BY <2>2, LeftStep
  <2> QED
    BY <2>2, <2>3
<1>3. UNCHANGED <<job, disk, unsaved, used, boot, list>> /\ UNCHANGED runVars
  BY DEF Unschedule, storeVars, bootVars
<1>4. alone[c] => Achieved(c)
  BY <1>0 DEF AloneInv
<1>5. /\ EntryInv'
      /\ lib' \in [EntryIds -> [job : Jobs, expr : Exprs] \cup {Unused}]
      /\ entries' \in [Jobs -> EntryIds \cup {NoEntry}]
      /\ entries'[j] = NoEntry /\ ~Scheduled(j)'
      /\ \A i \in Jobs \ {j} : entries'[i] = entries[i]
      /\ \A i \in Jobs \ {j} : entries[i] # NoEntry => lib'[entries[i]] = lib[entries[i]]
  <2>1. lib' = Freed(j) /\ entries' = [entries EXCEPT ![j] = NoEntry] /\ TypeOK
    BY <1>0, <1>1 DEF Unschedule, TypeInv
  <2>2. entries'[j] = NoEntry
    BY <2>1 DEF TypeOK
  <2> QED
    BY <1>0, <2>1, <2>2, LosesEntry
<1>6. StepOf(c, j, left, TRUE)
  BY <1>1, <1>3, <1>5 DEF Unschedule, StepOf
<1>7. TypeInv'
  <2>1. job' \in [Jobs -> CronJobs] /\ disk' \in [Jobs -> CronJobs] /\ unsaved' \in BOOLEAN
    BY <1>0, <1>3 DEF TypeInv, TypeOK
  <2> QED
    BY <1>0, <1>3, <1>5, <1>6, <2>1, StepTypes
<1>8. FileInv'
  BY <1>0, <1>3 DEF FileInv, FileIsCurrent
<1>9. AddInv'
  BY <1>0, <1>3, <1>5, <1>6, StepKeepsAdds
<1>10. StaleInv'
  <2>1. ~Outdated(j)'
    BY <1>5 DEF Outdated
  <2> QED
    <3> HIDE DEF left
    <3> QED
      BY <1>0, <1>5, <1>6, <2>1, StepKeepsStale
<1>11. AloneInv' /\ SettledInv' /\ OffInv'
  <2>1. todo'[c] = left /\ (left # <<>> => request'[c] = request[c])
    <3> HIDE DEF left
    <3> QED
      BY <1>0, <1>1, <1>6, WhoHandles
  <2>2. ASSUME alone[c], left # <<>>
        PROVE  Achieved(c)'
    <3>1. /\ At(c, "store")' /\ ~At(c, "get")' /\ ~At(c, "schedule")' /\ ~At(c, "unschedule")'
          /\ Of(c)' = j /\ request'[c] = request[c]
      BY <1>1, <1>2, <2>1, <2>2 DEF At, Busy, Next1, Of
    <3>2. op \notin {"add", "remove"} => job[j].there
      BY <1>1, <1>4, <2>2 DEF Achieved
    <3> QED
      BY <1>2, <1>3, <1>5, <3>1, <3>2 DEF Achieved
  <2>3. ASSUME alone[c], left = <<>>
        PROVE  Sound(j)' /\ Complete(j)' /\ ~job'[j].enabled
    <3>1. ~job[j].enabled
      BY <1>1, <1>2, <1>4, <2>3 DEF Achieved
    <3> QED
      BY <1>3, <1>5, <3>1 DEF Sound, Complete
  <2> HIDE DEF left
  <2> QED
    BY <1>0, <1>6, <2>2, <2>3, StepSettles
<1> QED
  BY <1>5, <1>7, <1>8, <1>9, <1>10, <1>11 DEF CronInv

-----------------------------------------------------------------------------
(***************************************************************************)
(* Requests that begin, start-up, crashes and runs keep CronInv.           *)
(***************************************************************************)

(* A client begins a request on job j; start-up takes j off its list.      *)
StartOf(c, q, j) ==
    /\ ~Busy(c) /\ q \in Requests /\ j = q.job
    /\ Begins(c, q)
    /\ UNCHANGED <<job, entries, lib, raw, disk, unsaved, boot>>
    /\ \/ c # Main /\ UNCHANGED list
       \/ c = Main /\ list' = list \ {j} /\ q.op = "start"

LEMMA WhoBegins ==
    ASSUME TypeInv, NEW c \in Clients, NEW q, NEW j \in Jobs, StartOf(c, q, j)
    PROVE  /\ \A i \in Jobs : /\ Handling(c, i)' = (i = j)
                              /\ ~Handling(c, i)
                              /\ \A d \in Clients \ {c} : Handling(d, i)' = Handling(d, i)
           /\ \A d \in Clients \ {c} : todo'[d] = todo[d] /\ request'[d] = request[d]
           /\ todo'[c] = Steps(q.op) /\ request'[c] = q
           /\ q.op \in Ops
<1>1. /\ todo'[c] = Steps(q.op) /\ request'[c] = q
      /\ \A d \in Clients \ {c} : todo'[d] = todo[d] /\ request'[d] = request[d]
      /\ q.op \in Ops /\ j = q.job /\ ~Busy(c)
  BY BeginsWith DEF StartOf, Requests
<1>2. Steps(q.op) # <<>>
  BY <1>1, StepsLeft
<1> QED
  BY <1>1, <1>2 DEF Handling, Busy, Of

LEMMA StartSettles ==
    ASSUME TypeInv, AloneInv, SettledInv, OffInv,
           NEW c \in Clients, NEW q, NEW j \in Jobs, StartOf(c, q, j),
           alone'[c] => Achieved(c)'
    PROVE  AloneInv' /\ SettledInv' /\ OffInv'
<1>1. /\ \A i \in Jobs : /\ Handling(c, i)' = (i = j)
                         /\ ~Handling(c, i)
                         /\ \A d \in Clients \ {c} : Handling(d, i)' = Handling(d, i)
      /\ \A d \in Clients \ {c} : todo'[d] = todo[d] /\ request'[d] = request[d]
      /\ todo'[c] = Steps(q.op) /\ request'[c] = q
  BY WhoBegins
<1>2. /\ UNCHANGED <<job, entries, lib, boot>> /\ list' \subseteq list
      /\ \A i \in Jobs \ {j} : i \in list' <=> i \in list
      /\ c = Main => j \notin list'
      /\ c # Main => list' = list
      /\ j = q.job
  BY DEF StartOf
<1>3. \A d \in Clients : Of(d) \in Jobs
  BY DEF TypeInv, TypeOK, Requests, Of
<1> DEFINE others == {d \in Clients : Handling(d, j)}
<1> DEFINE solo == others = {} /\ j \notin IF c = Main THEN unsettled ELSE list
<1>4. /\ \A d \in Clients \ {c} : alone'[d] = (alone[d] /\ d \notin others)
      /\ alone'[c] = solo
      /\ unsettled' = IF solo THEN unsettled ELSE unsettled \cup {j}
      /\ off' = off \ {j}
  BY <1>2 DEF StartOf, Begins
<1>5. \A d \in Clients : d \in others <=> Handling(d, j)
  OBVIOUS
<1>6. /\ \A d \in Clients \ {c} : Of(d)' = Of(d) /\ Busy(d)' = Busy(d)
      /\ Of(c)' = j /\ Busy(c)'
  <2>1. Handling(c, j)'
    BY <1>1
  <2> QED
    BY <1>1, <2>1 DEF Of, Busy, Handling
<1>7. AloneInv'
  <2>1. ASSUME NEW d \in Clients \ {c}, alone'[d]
        PROVE  /\ Busy(d)' /\ Of(d)' \notin list'
               /\ \A e \in Clients \ {d} : ~Handling(e, Of(d))'
               /\ Achieved(d)'
    <3>1. alone[d] /\ ~Handling(d, j)
      BY <1>4, <1>5, <2>1
    <3>2. Busy(d) /\ Of(d) \notin list /\ Achieved(d)
          /\ \A e \in Clients \ {d} : ~Handling(e, Of(d))
      BY <3>1 DEF AloneInv
    <3>3. Of(d) # j
      BY <3>1, <3>2 DEF Handling
    <3>4. \A e \in Clients \ {d} : ~Handling(e, Of(d))'
      BY <1>1, <1>3, <1>6, <3>2, <3>3 DEF Handling
    <3>5. Achieved(d)'
      BY <1>1, <1>2, <3>2 DEF Achieved, At, Busy, Next1, Of, Sound, Scheduled
    <3> QED
      BY <1>2, <1>6, <3>2, <3>4, <3>5
  <2>2. ASSUME alone'[c]
        PROVE  /\ Busy(c)' /\ Of(c)' \notin list'
               /\ \A e \in Clients \ {c} : ~Handling(e, Of(c))'
               /\ Achieved(c)'
    <3>1. j \notin list' /\ \A e \in Clients \ {c} : ~Handling(e, j)'
      BY <1>1, <1>2, <1>4, <1>5, <2>2
    <3> QED
      BY <1>6, <2>2, <3>1 DEF Handling
  <2> QED
    BY <2>1, <2>2 DEF AloneInv
<1>8. SettledInv'
  <2>1. ASSUME NEW d \in Clients, Busy(d)', ~alone'[d]
        PROVE  Of(d)' \in unsettled'
    <3>1. CASE d = c
      BY <1>4, <1>6, <2>1, <3>1
    <3>2. CASE d # c /\ alone[d]
      <4>1. Handling(d, j) /\ d \in others
        BY <1>4, <2>1, <3>2
      <4>2. Of(d) = j /\ ~solo
        BY <4>1 DEF Handling
      <4> QED
        BY <1>4, <1>6, <3>2, <4>2
    <3>3. CASE d # c /\ ~alone[d]
      <4>1. Of(d) \in unsettled
        BY <1>6, <2>1, <3>3 DEF SettledInv
      <4> QED
        BY <1>4, <1>6, <3>3, <4>1
    <3> QED
      BY <3>1, <3>2, <3>3
  <2>2. ASSUME NEW i \in Jobs \ unsettled', Unhandled(i)'
        PROVE  Sound(i)' /\ (boot' # "loaded" /\ i \notin list' => Complete(i)')
    <3>1. i # j
      BY <1>1, <2>2 DEF Unhandled
    <3>2. i \notin unsettled
      BY <1>4, <2>2
    <3>3. Unhandled(i)
      BY <1>1, <2>2 DEF Unhandled
    <3>4. Sound(i) /\ (boot # "loaded" /\ i \notin list => Complete(i))
      BY <3>2, <3>3 DEF SettledInv
    <3> QED
      BY <1>2, <3>1, <3>4 DEF Sound, Complete, Scheduled
  <2>3. \A i \in list' \ unsettled' : job'[i].there
    BY <1>2, <1>4 DEF SettledInv
  <2> QED
    BY <2>1, <2>2, <2>3 DEF SettledInv
<1>9. OffInv'
  <2>1. ASSUME NEW i \in off'
        PROVE  Unhandled(i)' /\ ~(job'[i].there /\ job'[i].enabled)
    <3>1. i \in off /\ i # j /\ i \in Jobs
      BY <1>4, <2>1 DEF TypeInv, TypeOK
    <3>2. Unhandled(i) /\ ~(job[i].there /\ job[i].enabled)
      BY <3>1 DEF OffInv
    <3>3. Unhandled(i)'
      BY <1>1, <3>1, <3>2 DEF Unhandled
    <3> QED
      BY <1>2, <3>2, <3>3
  <2> QED
    BY <2>1 DEF OffInv
<1> QED
  BY <1>7, <1>8, <1>9

LEMMA StartKeepsStale ==
    ASSUME TypeInv, StaleInv, NEW c \in Clients, NEW q, NEW j \in Jobs, StartOf(c, q, j)
    PROVE  StaleInv'
<1>1. /\ \A d \in Clients \ {c} : todo'[d] = todo[d] /\ request'[d] = request[d]
      /\ ~Busy(c) /\ UNCHANGED <<job, entries, lib, raw>>
  BY WhoBegins DEF StartOf
<1>2. ASSUME NEW i \in Jobs, Outdated(i)'
      PROVE  \E d \in Clients : (Of(d) = i /\ (At(d, "get") \/ At(d, "schedule")))'
  <2>1. Outdated(i)
    BY <1>1, <1>2 DEF Outdated, Scheduled
  <2>2. PICK d \in Clients : Of(d) = i /\ (At(d, "get") \/ At(d, "schedule"))
    BY <2>1 DEF StaleInv
  <2>3. d # c
    BY <1>1, <2>2 DEF At
  <2>4. (Of(d) = i /\ (At(d, "get") \/ At(d, "schedule")))'
    BY <1>1, <2>2, <2>3 DEF At, Busy, Next1, Of
  <2> QED
    BY <2>4
<1> QED
  BY <1>2 DEF StaleInv

LEMMA StartTypes ==
    ASSUME TypeInv, NEW c \in Clients, NEW q, NEW j \in Jobs, StartOf(c, q, j),
           used' \in SUBSET Jobs, UNCHANGED runVars
    PROVE  TypeInv'
<1>1. q \in Requests /\ Begins(c, q) /\ UNCHANGED <<job, entries, lib, raw, disk, unsaved, boot>>
      /\ list' \subseteq list
  BY DEF StartOf
<1> QED
  BY <1>1, BeginsWith DEF TypeInv, TypeOK, runVars

LEMMA RequestInv ==
    ASSUME CronInv, NEW c \in Clients, Request(c)
    PROVE  CronInv'
<1>0. /\ TypeInv /\ EntryInv /\ FileInv /\ AddInv /\ StaleInv /\ AloneInv
      /\ SettledInv /\ OffInv
  BY DEF CronInv
<1>1. PICK q \in Requests :
            /\ q.op # "start"
            /\ q.op = "add" <=> q.job \notin used
            /\ q.op \notin {"add", "remove"} => job[q.job].there
            /\ used' = used \cup {q.job}
            /\ Begins(c, q)
  <2>1. PICK op \in Ops \ {"start"}, j \in Jobs :
            /\ op = "add" <=> j \notin used
            /\ op \notin {"add", "remove"} => job[j].there
            /\ used' = used \cup {j}
            /\ \E on \in IF op = "setEnabled" THEN BOOLEAN ELSE {TRUE} :
               \E x \in IF op \in {"add", "setExpr"} THEN Valid ELSE {NoJob.expr} :
                 Begins(c, [op |-> op, job |-> j, enabled |-> on, expr |-> x])
    BY DEF Request
  <2>2. PICK on \in BOOLEAN, x \in Exprs :
            Begins(c, [op |-> op, job |-> j, enabled |-> on, expr |-> x])
    BY <2>1, Defaults, BoundsAssumption
  <2> DEFINE q == [op |-> op, job |-> j, enabled |-> on, expr |-> x]
  <2>3. q \in Requests /\ q.op = op /\ q.job = j
    BY DEF Requests
  <2> QED
    BY <2>1, <2>2, <2>3
<1>2. c \in Requesters /\ ~Busy(c) /\ UNCHANGED <<job, disk, unsaved, entries, lib, raw, boot, list>>
      /\ UNCHANGED runVars
  BY DEF Request, scheduleVars, bootVars
<1>3. PICK j \in Jobs : j = q.job
  BY DEF Requests
<1>4. StartOf(c, q, j)
  BY <1>1, <1>2, <1>3 DEF StartOf
<1>5. TypeInv'
  <2>1. used' \in SUBSET Jobs
    BY <1>0, <1>1, <1>3 DEF TypeInv, TypeOK
  <2> QED
    BY <1>0, <1>2, <1>4, <2>1, StartTypes
<1>6. EntryInv' /\ FileInv'
  BY <1>0, <1>2 DEF EntryInv, OneEntryPerJob, FileInv, FileIsCurrent
<1>7. /\ \A i \in Jobs : /\ Handling(c, i)' = (i = j)
                         /\ ~Handling(c, i)
                         /\ \A d \in Clients \ {c} : Handling(d, i)' = Handling(d, i)
      /\ \A d \in Clients \ {c} : todo'[d] = todo[d] /\ request'[d] = request[d]
      /\ todo'[c] = Steps(q.op) /\ request'[c] = q /\ q.op \in Ops
  BY <1>0, <1>4, WhoBegins
<1>8. AddInv'
  <2>1. ASSUME NEW i \in Jobs \ used'
        PROVE  (Absent(i) /\ ~disk[i].there /\ Unhandled(i))'
    <3>1. i # j /\ i \notin used
      BY <1>1, <1>3, <2>1
    <3>2. Absent(i) /\ ~disk[i].there /\ Unhandled(i)
      BY <1>0, <3>1 DEF AddInv
    <3>3. Unhandled(i)'
      BY <1>7, <3>1, <3>2 DEF Unhandled
    <3> QED
      BY <1>2, <3>2, <3>3 DEF Absent
  <2>2. ASSUME NEW d \in Clients, NEW e \in Clients, At(d, "store")', request'[d].op = "add"
        PROVE  /\ Absent(Of(d))'
               /\ e # d /\ Handling(e, Of(d))' => request'[e].op = "remove"
    <3>1. CASE d = c
      <4>1. Of(d)' = j /\ j \notin used
        BY <1>1, <1>3, <1>7, <2>2, <3>1 DEF Of
      <4>2. Absent(j) /\ Unhandled(j)
        BY <1>0, <4>1 DEF AddInv
      <4>3. e # d => ~Handling(e, j)'
        BY <1>7, <3>1, <4>2 DEF Unhandled
      <4>4. Absent(j)'
        BY <1>2, <4>2 DEF Absent
      <4>5. Absent(Of(d))' /\ (Handling(e, Of(d))' <=> Handling(e, j)')
        BY <4>1, <4>4 DEF Absent, Handling
      <4> QED
        BY <4>3, <4>5
    <3>2. CASE d # c
      <4>1. At(d, "store") /\ request[d].op = "add" /\ Of(d)' = Of(d) /\ Handling(d, Of(d))
            /\ Of(d) \in Jobs
        BY <1>0, <1>7, <2>2, <3>2 DEF At, Busy, Next1, Of, Handling, TypeInv, TypeOK, Requests
      <4>2. /\ Absent(Of(d))
            /\ e # d /\ Handling(e, Of(d)) => request[e].op = "remove"
        BY <1>0, <4>1 DEF AddInv
      <4>3. Absent(Of(d))'
        BY <1>2, <4>1, <4>2 DEF Absent
      <4>4. Handling(e, Of(d))' <=> IF e = c THEN Of(d) = j ELSE Handling(e, Of(d))
        <5>1. Handling(e, Of(d))' <=> Busy(e)' /\ Of(e)' = Of(d)
          BY <4>1 DEF Handling
        <5>2. e # c => (Busy(e)' <=> Busy(e)) /\ Of(e)' = Of(e)
          BY <1>7 DEF Busy, Of
        <5>3. Busy(c)' /\ Of(c)' = j
          BY <1>3, <1>7, StepsLeft DEF Busy, Of
        <5> QED
          BY <5>1, <5>2, <5>3 DEF Handling
      <4>5. CASE e = c /\ Of(d) = j
        <5>1. ~job[j].there
          BY <4>2, <4>5 DEF Absent
        <5>2. j \in used
          BY <1>0, <4>1, <4>5 DEF AddInv, Unhandled
        <5>3. request'[e] = q /\ q.op = "remove"
          BY <1>1, <1>3, <1>7, <4>5, <5>1, <5>2
        <5> QED
          BY <4>3, <5>3
      <4> QED
        BY <1>7, <4>2, <4>3, <4>4, <4>5
    <3> QED
      BY <3>1, <3>2
  <2> QED
    BY <2>1, <2>2 DEF AddInv
<1>9. StaleInv'
  BY <1>0, <1>4, StartKeepsStale
<1>10. AloneInv' /\ SettledInv' /\ OffInv'
  <2>1. /\ ~At(c, "get")' /\ ~At(c, "schedule")'
        /\ At(c, "store")' => q.op \in {"add", "enable", "disable"}
        /\ At(c, "unschedule")' => q.op \in {"remove"} \cup Updating
        /\ Of(c)' = j
    BY <1>1, <1>3, <1>7, StepsLeft DEF At, Busy, Next1, Of, Ops, Updating
  <2>2. Achieved(c)'
    BY <1>1, <1>2, <1>3, <1>7, <2>1 DEF Achieved, Updating
  <2> QED
    BY <1>0, <1>4, <2>2, StartSettles
<1> QED
  BY <1>5, <1>6, <1>8, <1>9, <1>10 DEF CronInv

LEMMA StartNextInv ==
    ASSUME CronInv, StartNext
    PROVE  CronInv'
<1>0. /\ TypeInv /\ EntryInv /\ FileInv /\ AddInv /\ StaleInv /\ AloneInv
      /\ SettledInv /\ OffInv /\ Main \in Clients
  BY DEF CronInv, Clients
<1>1. PICK j \in list : Begins(Main, [NoRequest EXCEPT !.job = j]) /\ list' = list \ {j}
  BY DEF StartNext
<1>2. ~Busy(Main) /\ UNCHANGED <<job, disk, used, unsaved, entries, lib, raw, boot>>
      /\ UNCHANGED runVars
  BY DEF StartNext, storeVars, scheduleVars
<1>3. j \in Jobs
  BY <1>0 DEF TypeInv, TypeOK
<1> DEFINE q == [NoRequest EXCEPT !.job = j]
<1>4. q \in Requests /\ q.job = j /\ q.op = "start"
  BY <1>3, Defaults DEF Requests
<1> HIDE DEF q
<1>5. StartOf(Main, q, j)
  BY <1>1, <1>2, <1>4 DEF StartOf, q
<1>6. TypeInv'
  <2>1. used' \in SUBSET Jobs
    BY <1>0, <1>2 DEF TypeInv, TypeOK
  <2> QED
    BY <1>0, <1>2, <1>3, <1>5, <2>1, StartTypes
<1>7. EntryInv' /\ FileInv'
  BY <1>0, <1>2 DEF EntryInv, OneEntryPerJob, FileInv, FileIsCurrent
<1>8. /\ \A i \in Jobs : /\ Handling(Main, i)' = (i = j)
                         /\ ~Handling(Main, i)
                         /\ \A d \in Clients \ {Main} : Handling(d, i)' = Handling(d, i)
      /\ \A d \in Clients \ {Main} : todo'[d] = todo[d] /\ request'[d] = request[d]
      /\ todo'[Main] = Steps(q.op) /\ request'[Main] = q
  BY <1>0, <1>3, <1>5, WhoBegins
<1>9. /\ At(Main, "get")' /\ ~At(Main, "store")' /\ ~At(Main, "schedule")'
      /\ ~At(Main, "unschedule")' /\ Of(Main)' = j
  BY <1>4, <1>8, StepsLeft DEF At, Busy, Next1, Of, Ops
<1>10. AddInv'
  <2>1. ASSUME NEW i \in Jobs \ used'
        PROVE  (Absent(i) /\ ~disk[i].there /\ Unhandled(i))'
    <3>1. Absent(i) /\ ~disk[i].there /\ Unhandled(i)
      BY <1>0, <1>2, <2>1 DEF AddInv
    <3>2. i # j
      BY <1>1, <3>1 DEF Absent
    <3>3. Unhandled(i)'
      BY <1>8, <3>1, <3>2 DEF Unhandled
    <3> QED
      BY <1>1, <1>2, <3>1, <3>3 DEF Absent
  <2>2. ASSUME NEW d \in Clients, NEW e \in Clients, At(d, "store")', request'[d].op = "add"
        PROVE  /\ Absent(Of(d))'
               /\ e # d /\ Handling(e, Of(d))' => request'[e].op = "remove"
    <3>1. d # Main
      BY <1>9, <2>2
    <3>2. At(d, "store") /\ request[d].op = "add" /\ Of(d)' = Of(d) /\ Of(d) \in Jobs
      BY <1>0, <1>8, <2>2, <3>1 DEF At, Busy, Next1, Of, TypeInv, TypeOK, Requests
    <3>3. /\ Absent(Of(d))
          /\ e # d /\ Handling(e, Of(d)) => request[e].op = "remove"
      BY <1>0, <3>2 DEF AddInv
    <3>4. Absent(Of(d))' /\ Of(d) # j
      BY <1>1, <1>2, <3>2, <3>3 DEF Absent
    <3>5. Handling(e, Of(d))' => e # Main /\ Handling(e, Of(d))
      BY <1>8, <1>9, <3>2, <3>4 DEF Handling, Busy, Of
    <3> QED
      BY <1>8, <3>3, <3>4, <3>5
  <2> QED
    BY <2>1, <2>2 DEF AddInv
<1>11. StaleInv'
  BY <1>0, <1>3, <1>5, StartKeepsStale
<1>12. AloneInv' /\ SettledInv' /\ OffInv'
  <2>1. ASSUME alone'[Main]
        PROVE  Achieved(Main)'
    <3>1. j \notin unsettled /\ {d \in Clients : Handling(d, j)} = {}
      BY <1>0, <1>4, <1>5, <2>1 DEF StartOf, Begins
    <3>2. Unhandled(j)
      BY <3>1 DEF Unhandled
    <3>3. Sound(j) /\ job[j].there
      BY <1>0, <1>1, <1>3, <3>1, <3>2 DEF SettledInv
    <3>4. Sound(j)'
      BY <1>2, <3>3 DEF Sound, Scheduled
    <3> QED
      BY <1>2, <1>4, <1>8, <1>9, <3>3, <3>4 DEF Achieved, Updating, Sound
  <2> QED
    BY <1>0, <1>3, <1>5, <2>1, StartSettles
<1> QED
  BY <1>6, <1>7, <1>10, <1>11, <1>12 DEF CronInv

LEMMA BootInv ==
    ASSUME CronInv, StartList \/ Started
    PROVE  CronInv'
<1>0. /\ TypeInv /\ EntryInv /\ FileInv /\ AddInv /\ StaleInv /\ AloneInv
      /\ SettledInv /\ OffInv
  BY DEF CronInv
<1>1. UNCHANGED <<job, disk, used, unsaved, entries, lib, raw, todo, request, off>> /\ UNCHANGED runVars
  BY DEF StartList, Started, storeVars, scheduleVars, requestVars
<1> DEFINE both == {c \in Clients : Busy(c) /\ Of(c) \in list'}
<1>2. \/ /\ boot = "loaded" /\ boot' = "scheduling"
         /\ list' = {j \in Jobs : job[j].there}
         /\ alone' = [c \in Clients |-> alone[c] /\ c \notin both]
         /\ unsettled' = unsettled \cup {Of(c) : c \in both}
      \/ /\ boot = "scheduling" /\ boot' = "started" /\ list = {}
         /\ UNCHANGED <<list, alone, unsettled>>
  BY DEF StartList, Started, requestVars
<1>3. \A c \in Clients : Of(c) \in Jobs
  BY <1>0 DEF TypeInv, TypeOK, Requests, Of
<1>4. /\ \A i \in list' : i \in Jobs /\ (boot' = "scheduling" => job[i].there)
      /\ \A c \in Clients : alone'[c] => alone[c] /\ (Busy(c) => Of(c) \notin list')
      /\ \A c \in Clients : alone[c] /\ ~alone'[c] /\ Busy(c) => Of(c) \in unsettled'
      /\ unsettled \subseteq unsettled'
      /\ boot' # "loaded"
      /\ boot' = "started" => boot # "loaded" /\ list = {} /\ list' = {}
      /\ boot' \in {"scheduling", "started"}
      /\ boot' = "scheduling" => \A i \in Jobs \ list' : ~job[i].there
  BY <1>0, <1>2 DEF AloneInv
<1>5. TypeInv'
  <2>1. alone' \in [Clients -> BOOLEAN] /\ unsettled' \in SUBSET Jobs
    <3>1. alone \in [Clients -> BOOLEAN] /\ unsettled \in SUBSET Jobs
      BY <1>0 DEF TypeInv, TypeOK
    <3>2. {Of(c) : c \in both} \subseteq Jobs
      BY <1>3
    <3> HIDE DEF both
    <3>3. [c \in Clients |-> alone[c] /\ c \notin both] \in [Clients -> BOOLEAN]
      OBVIOUS
    <3> QED
      BY <1>2, <3>1, <3>2, <3>3
  <2> QED
    BY <1>0, <1>1, <1>4, <2>1 DEF TypeInv, TypeOK, runVars
<1>6. EntryInv' /\ FileInv'
  BY <1>0, <1>1 DEF EntryInv, OneEntryPerJob, FileInv, FileIsCurrent
<1>7. /\ \A c \in Clients : \A i \in Jobs : Handling(c, i)' = Handling(c, i)
      /\ \A c \in Clients : Busy(c)' = Busy(c) /\ Of(c)' = Of(c)
  BY <1>1 DEF Handling, Busy, Of
<1>8. AddInv'
  <2>1. \A i \in Jobs : Absent(i) => Absent(i)'
    BY <1>1, <1>4 DEF Absent
  <2>2. \A i \in Jobs \ used' : (Absent(i) /\ ~disk[i].there /\ Unhandled(i))'
    BY <1>0, <1>1, <1>7, <2>1 DEF AddInv, Unhandled
  <2>3. \A c \in Clients : At(c, "store")' = At(c, "store")
    BY <1>1 DEF At, Busy, Next1
  <2>4. ASSUME NEW d \in Clients, NEW e \in Clients, At(d, "store")', request'[d].op = "add"
        PROVE  /\ Absent(Of(d))'
               /\ e # d /\ Handling(e, Of(d))' => request'[e].op = "remove"
    <3>1. /\ Absent(Of(d))
          /\ e # d /\ Handling(e, Of(d)) => request[e].op = "remove"
      BY <1>0, <1>1, <2>3, <2>4 DEF AddInv
    <3>2. Handling(e, Of(d))' <=> Handling(e, Of(d))
      BY <1>7 DEF Handling
    <3>3. Absent(Of(d))'
      BY <1>1, <1>3, <1>4, <1>7, <3>1 DEF Absent
    <3> QED
      BY <1>1, <3>1, <3>2, <3>3
  <2> QED
    BY <2>2, <2>4 DEF AddInv
<1>9. StaleInv'
  BY <1>0, <1>1 DEF StaleInv, Outdated, Scheduled, At, Busy, Next1, Of
<1>10. AloneInv'
  <2>1. ASSUME NEW c \in Clients, alone'[c]
        PROVE  /\ Busy(c)' /\ Of(c)' \notin list'
               /\ \A d \in Clients \ {c} : ~Handling(d, Of(c))'
               /\ Achieved(c)'
    <3>1. alone[c] /\ Busy(c) /\ Of(c) \notin list' /\ Achieved(c)
          /\ \A d \in Clients \ {c} : ~Handling(d, Of(c))
      BY <1>0, <1>4, <2>1 DEF AloneInv
    <3>2. \A d \in Clients \ {c} : ~Handling(d, Of(c))'
      BY <1>7, <3>1 DEF Handling
    <3>3. Achieved(c)'
      BY <1>1, <3>1 DEF Achieved, At, Busy, Next1, Of, Sound, Scheduled
    <3> QED
      BY <1>7, <3>1, <3>2, <3>3
  <2> QED
    BY <2>1 DEF AloneInv
<1>11. SettledInv'
  <2>1. \A c \in Clients : Busy(c)' /\ ~alone'[c] => Of(c)' \in unsettled'
    BY <1>0, <1>4, <1>7 DEF SettledInv
  <2>2. ASSUME NEW i \in Jobs \ unsettled', Unhandled(i)'
        PROVE  Sound(i)' /\ (boot' # "loaded" /\ i \notin list' => Complete(i)')
    <3>1. i \notin unsettled /\ Unhandled(i)
      BY <1>4, <1>7, <2>2 DEF Unhandled
    <3>2. Sound(i) /\ (boot # "loaded" /\ i \notin list => Complete(i))
      BY <1>0, <3>1 DEF SettledInv
    <3> QED
      BY <1>1, <1>4, <3>2 DEF Sound, Complete, Scheduled
  <2>3. \A i \in list' \ unsettled' : job'[i].there
    BY <1>1, <1>4
  <2> QED
    BY <2>1, <2>2, <2>3 DEF SettledInv
<1>12. OffInv'
  <2>1. off \subseteq Jobs
    BY <1>0 DEF TypeInv, TypeOK
  <2> QED
    BY <1>0, <1>1, <1>7, <2>1 DEF OffInv, Unhandled
<1> QED
  BY <1>5, <1>6, <1>8, <1>9, <1>10, <1>11, <1>12 DEF CronInv

(* The program ends, and starts with what is in the file.                  *)
LEMMA CrashInv ==
    ASSUME CronInv, Crash
    PROVE  CronInv'
<1>0. TypeInv /\ FileInv /\ AddInv /\ OffInv
  BY DEF CronInv
<1>1. /\ job' = disk /\ unsaved' = FALSE /\ UNCHANGED <<disk, used>>
      /\ entries' = [j \in Jobs |-> NoEntry] /\ lib' = [e \in EntryIds |-> Unused] /\ raw' = {}
      /\ todo' = [c \in Clients |-> <<>>] /\ request' = [c \in Clients |-> NoRequest]
      /\ alone' = [c \in Clients |-> FALSE] /\ unsettled' = {}
      /\ off' = (IF unsaved THEN {} ELSE off) /\ boot' = "loaded" /\ list' = {}
      /\ rpc' = [r \in Runs |-> "idle"] /\ rjob' = [r \in Runs |-> NoRequest.job]
  BY DEF Crash, Idle
<1>2. /\ \A c \in Clients : ~Busy(c)' /\ ~alone'[c]
      /\ \A c \in Clients : \A j \in Jobs : ~Handling(c, j)'
      /\ \A c \in Clients : ~At(c, "store")'
  BY <1>1 DEF Busy, Handling, At
<1>3. TypeInv'
  <2>1. todo' \in [Clients -> Seq({"store", "get", "schedule", "unschedule"})]
    BY <1>1
  <2>2. \A c \in Clients : LeftOK(request'[c].op, todo'[c])
    BY <1>1 DEF LeftOK
  <2>3. /\ lib' \in [EntryIds -> [job : Jobs, expr : Exprs] \cup {Unused}]
        /\ entries' \in [Jobs -> EntryIds \cup {NoEntry}]
        /\ request' \in [Clients -> Requests] /\ alone' \in [Clients -> BOOLEAN]
        /\ rpc' \in [Runs -> {"idle", "fired", "found", "running", "manual"}]
        /\ rjob' \in [Runs -> Jobs]
    BY <1>1, Defaults
  <2>4. /\ job' \in [Jobs -> CronJobs] /\ disk' \in [Jobs -> CronJobs] /\ used' \in SUBSET Jobs
        /\ unsaved' \in BOOLEAN /\ unsettled' \in SUBSET Jobs /\ off' \in SUBSET Jobs
        /\ boot' = "loaded" /\ list' = {} /\ raw' \in SUBSET Jobs
    BY <1>0, <1>1 DEF TypeInv, TypeOK
  <2> QED
    BY <2>1, <2>2, <2>3, <2>4 DEF TypeInv, TypeOK
<1>4. EntryInv'
  BY <1>1 DEF EntryInv, OneEntryPerJob
<1>5. FileInv'
  BY <1>0, <1>1 DEF FileInv, FileIsCurrent
<1>6. AddInv'
  BY <1>0, <1>1, <1>2 DEF AddInv, Absent, Unhandled
<1>7. StaleInv' /\ AloneInv'
  BY <1>1, <1>2 DEF StaleInv, Outdated, Scheduled, AloneInv
<1>8. SettledInv'
  BY <1>1, <1>2 DEF SettledInv, Sound, Scheduled
<1>9. OffInv'
  <2>1. ASSUME NEW j \in off'
        PROVE  Unhandled(j)' /\ ~(job'[j].there /\ job'[j].enabled)
    <3>1. ~unsaved /\ j \in off /\ j \in Jobs
      BY <1>0, <1>1, <2>1 DEF TypeInv, TypeOK
    <3>2. disk[j] = (IF job[j].there THEN job[j] ELSE NoJob)
      BY <1>0, <3>1 DEF FileInv, FileIsCurrent
    <3>3. ~(disk[j].there /\ disk[j].enabled)
      BY <1>0, <3>1, <3>2, Defaults DEF OffInv
    <3> QED
      BY <1>1, <1>2, <3>1, <3>3 DEF Unhandled
  <2> QED
    BY <2>1 DEF OffInv
<1> QED
  BY <1>3, <1>4, <1>5, <1>6, <1>7, <1>8, <1>9 DEF CronInv

(* A run, or a change of a field, at most saves what is there, and at most  *)
(* an expression changes.                                                  *)
LEMMA QuietInv ==
    ASSUME CronInv,
           UNCHANGED <<used, entries, lib, todo, request, alone, unsettled, off, boot, list>>,
           job' \in [Jobs -> CronJobs], raw' \in SUBSET Jobs, raw \subseteq raw',
           \A i \in Jobs : /\ (job'[i].there <=> job[i].there)
                           /\ (job'[i].enabled <=> job[i].enabled)
                           /\ i \in raw' \/ job'[i].expr = job[i].expr,
           Saves \/ SaveFails \/ UNCHANGED <<job, disk, unsaved>>,
           rpc' \in [Runs -> {"idle", "fired", "found", "running", "manual"}],
           rjob' \in [Runs -> Jobs]
    PROVE  CronInv'
<1>0. /\ TypeInv /\ EntryInv /\ FileInv /\ AddInv /\ StaleInv /\ AloneInv
      /\ SettledInv /\ OffInv
  BY DEF CronInv
<1>1. disk' \in [Jobs -> CronJobs] /\ unsaved' \in BOOLEAN /\ FileInv'
  <2>1. TypeOK
    BY <1>0 DEF TypeInv
  <2> QED
    BY <1>0, <2>1, SaveKeeps
<1>2. TypeInv'
  BY <1>0, <1>1 DEF TypeInv, TypeOK
<1>3. /\ \A c \in Clients : \A i \in Jobs : Handling(c, i)' <=> Handling(c, i)
      /\ \A c \in Clients : (Busy(c)' <=> Busy(c)) /\ Of(c)' = Of(c) /\ Of(c) \in Jobs
      /\ \A c \in Clients : \A step : At(c, step)' <=> At(c, step)
      /\ \A i \in Jobs : (Absent(i)' <=> Absent(i)) /\ (Scheduled(i)' <=> Scheduled(i))
  <2>1. \A c \in Clients : (Busy(c)' <=> Busy(c)) /\ Of(c)' = Of(c) /\ Of(c) \in Jobs
    BY <1>0 DEF Busy, Of, TypeInv, TypeOK, Requests
  <2>2. \A c \in Clients : \A i \in Jobs : Handling(c, i)' <=> Handling(c, i)
    BY <2>1 DEF Handling
  <2>3. \A c \in Clients : \A step : At(c, step)' <=> At(c, step)
    BY <2>1 DEF At, Next1
  <2>4. \A i \in Jobs : (Absent(i)' <=> Absent(i)) /\ (Scheduled(i)' <=> Scheduled(i))
    BY DEF Absent, Scheduled
  <2> QED
    BY <2>1, <2>2, <2>3, <2>4
<1>4. AddInv'
  <2>1. \A i \in Jobs \ used : ~disk'[i].there
    BY <1>0, Defaults DEF Saves, SaveFails, AddInv, Absent
  <2>2. \A c \in Clients : Absent(Of(c))' = Absent(Of(c))
    BY <1>3 DEF Absent
  <2>3. \A c, d \in Clients : Handling(d, Of(c))' = Handling(d, Of(c))
    BY <1>3 DEF Handling
  <2>4. \A i \in Jobs \ used' : (Absent(i) /\ ~disk[i].there /\ Unhandled(i))'
    BY <1>0, <1>3, <2>1 DEF AddInv, Unhandled
  <2> QED
    BY <1>0, <1>3, <2>2, <2>3, <2>4 DEF AddInv
<1>5. EntryInv'
  BY <1>0 DEF EntryInv, OneEntryPerJob
<1>6. StaleInv'
  <2>1. \A i \in Jobs : Outdated(i)' => Outdated(i)
    BY <1>3 DEF Outdated
  <2> QED
    BY <1>0, <1>3, <2>1 DEF StaleInv
<1>7. AloneInv'
  <2>1. ASSUME NEW c \in Clients, Achieved(c)
        PROVE  Achieved(c)'
    <3>1. PICK j \in Jobs : j = Of(c) /\ Of(c)' = j
      BY <1>3
    <3>2. Sound(j)' <=> Sound(j)
      BY <1>3 DEF Sound
    <3>3. (job'[j].there <=> job[j].there) /\ job'[j].enabled = job[j].enabled
      <4>1. job'[j].enabled \in BOOLEAN /\ job[j].enabled \in BOOLEAN
        BY <1>0 DEF TypeInv, TypeOK, CronJobs
      <4> QED
        BY <4>1
    <3>4. UNCHANGED <<entries, request>> /\ \A step : At(c, step)' <=> At(c, step)
      BY <1>3
    <3> QED
      BY <2>1, <3>1, <3>2, <3>3, <3>4 DEF Achieved
  <2>2. \A c, d \in Clients : Handling(d, Of(c))' = Handling(d, Of(c))
    BY <1>3 DEF Handling
  <2> QED
    BY <1>0, <1>3, <2>1, <2>2 DEF AloneInv
<1>8. SettledInv'
  <2>1. \A i \in Jobs : Unhandled(i)' <=> Unhandled(i)
    BY <1>3 DEF Unhandled
  <2>2. \A i \in Jobs : (Sound(i)' <=> Sound(i)) /\ (Complete(i)' <=> Complete(i))
    BY <1>3 DEF Sound, Complete
  <2>3. list \subseteq Jobs
    BY <1>0 DEF TypeInv, TypeOK
  <2> QED
    BY <1>0, <1>3, <2>1, <2>2, <2>3 DEF SettledInv
<1>9. OffInv'
  <2>1. off \subseteq Jobs
    BY <1>0 DEF TypeInv, TypeOK
  <2> QED
    BY <1>0, <1>3, <2>1 DEF OffInv, Unhandled
<1> QED
  BY <1>1, <1>2, <1>4, <1>5, <1>6, <1>7, <1>8, <1>9 DEF CronInv

(* A job that changes its id leaves its entry behind, and settles nothing.  *)
LEMMA RenameInv ==
    ASSUME CronInv, NEW j \in Jobs, NEW k \in Jobs, Rename(j, k)
    PROVE  CronInv'
<1>0. /\ TypeInv /\ EntryInv /\ FileInv /\ AddInv /\ StaleInv /\ AloneInv
      /\ SettledInv /\ OffInv
  BY DEF CronInv
<1>1. /\ job[j].there /\ k \notin used /\ used' = used \cup {k}
      /\ job' = [job EXCEPT ![j] = NoJob, ![k] = job[j]]
      /\ request' = [c \in Clients |-> IF Of(c) = j /\ HasJob(c)
                                       THEN [request[c] EXCEPT !.job = k] ELSE request[c]]
      /\ alone' = [c \in Clients |-> alone[c] /\ ~Handling(c, j)]
      /\ unsettled' = unsettled \cup {j, k} /\ off' = off \ {j, k}
      /\ list' = IF j \in list THEN (list \ {j}) \cup {k} ELSE list
      /\ UNCHANGED <<entries, lib, raw, todo, boot, rpc>>
      /\ rjob' = [r \in Runs |-> IF rjob[r] = j /\ rpc[r] \in {"found", "running"}
                                 THEN k ELSE rjob[r]]
      /\ Saves \/ SaveFails
  BY DEF Rename, scheduleVars
<1>2. /\ j \in used /\ j # k
      /\ Absent(k) /\ Unhandled(k)
  <2>1. \A i \in Jobs \ used : Absent(i) /\ Unhandled(i)
    BY <1>0 DEF AddInv
  <2>2. j \in used
    BY <1>1, <2>1 DEF Absent
  <2> QED
    BY <1>1, <2>1, <2>2
<1>3. /\ job' \in [Jobs -> CronJobs] /\ ~job'[j].there
      /\ \A i \in Jobs \ {j, k} : job'[i] = job[i] /\ (i \in list' <=> i \in list)
      /\ j \notin list'
  BY <1>0, <1>1, <1>2, Defaults DEF TypeInv, TypeOK
<1>4. disk' \in [Jobs -> CronJobs] /\ unsaved' \in BOOLEAN /\ FileInv'
  <2>1. TypeOK
    BY <1>0 DEF TypeInv
  <2> QED
    BY <1>0, <1>1, <1>3, <2>1, SaveKeeps
<1>5. \A c \in Clients :
        /\ Of(c) \in Jobs
        /\ (Busy(c)' <=> Busy(c)) /\ \A step : At(c, step)' <=> At(c, step)
        /\ request'[c] \in Requests
        /\ request'[c].op = request[c].op /\ request'[c].enabled = request[c].enabled
        /\ Of(c)' = Of(c) \/ (Of(c) = j /\ Of(c)' = k)
        /\ At(c, "store") => Of(c)' = Of(c)
  <2> SUFFICES ASSUME NEW c \in Clients
               PROVE  /\ Of(c) \in Jobs
                      /\ (Busy(c)' <=> Busy(c)) /\ \A step : At(c, step)' <=> At(c, step)
                      /\ request'[c] \in Requests
                      /\ request'[c].op = request[c].op
                      /\ request'[c].enabled = request[c].enabled
                      /\ Of(c)' = Of(c) \/ (Of(c) = j /\ Of(c)' = k)
                      /\ At(c, "store") => Of(c)' = Of(c)
    OBVIOUS
  <2>1. /\ request[c] \in Requests
        /\ request'[c] = IF Of(c) = j /\ HasJob(c)
                         THEN [request[c] EXCEPT !.job = k] ELSE request[c]
    BY <1>0, <1>1 DEF TypeInv, TypeOK
  <2>2. (Busy(c)' <=> Busy(c)) /\ \A step : At(c, step)' <=> At(c, step)
    BY <1>1 DEF Busy, At, Next1
  <2>3. At(c, "store") => ~HasJob(c)
    BY DEF At, HasJob
  <2>4. /\ request'[c] \in Requests
        /\ request'[c].op = request[c].op /\ request'[c].enabled = request[c].enabled
        /\ request'[c].job = IF Of(c) = j /\ HasJob(c) THEN k ELSE request[c].job
        /\ request[c].job \in Jobs
    BY <2>1 DEF Requests
  <2> QED
    BY <2>2, <2>3, <2>4 DEF Of
<1>6. \A i \in Jobs \ {j, k} :
        /\ \A c \in Clients : Handling(c, i)' <=> Handling(c, i)
        /\ Unhandled(i)' <=> Unhandled(i)
        /\ Absent(i)' <=> Absent(i)
        /\ (Sound(i)' <=> Sound(i)) /\ (Complete(i)' <=> Complete(i))
        /\ Outdated(i)' <=> Outdated(i)
  <2> SUFFICES ASSUME NEW i \in Jobs \ {j, k}
               PROVE  /\ \A c \in Clients : Handling(c, i)' <=> Handling(c, i)
                      /\ Unhandled(i)' <=> Unhandled(i)
                      /\ Absent(i)' <=> Absent(i)
                      /\ (Sound(i)' <=> Sound(i)) /\ (Complete(i)' <=> Complete(i))
                      /\ Outdated(i)' <=> Outdated(i)
    OBVIOUS
  <2>1. \A c \in Clients : Handling(c, i)' <=> Handling(c, i)
    BY <1>5 DEF Handling
  <2>2. Unhandled(i)' <=> Unhandled(i)
    BY <2>1 DEF Unhandled
  <2>3. Absent(i)' <=> Absent(i)
    BY <1>1, <1>3 DEF Absent
  <2>4. Scheduled(i)' <=> Scheduled(i)
    BY <1>1 DEF Scheduled
  <2>5. (Sound(i)' <=> Sound(i)) /\ (Complete(i)' <=> Complete(i))
    BY <1>3, <2>4 DEF Sound, Complete
  <2>6. Outdated(i)' <=> Outdated(i)
    BY <1>1, <1>3, <2>4 DEF Outdated
  <2> QED
    BY <2>1, <2>2, <2>3, <2>5, <2>6
<1>7. TypeInv'
  <2>1. /\ request' \in [Clients -> Requests] /\ alone' \in [Clients -> BOOLEAN]
        /\ unsettled' \in SUBSET Jobs /\ off' \in SUBSET Jobs /\ used' \in SUBSET Jobs
        /\ list' \in SUBSET Jobs /\ (boot' # "scheduling" => list' = {})
        /\ rjob' \in [Runs -> Jobs]
    BY <1>0, <1>1, <1>5 DEF TypeInv, TypeOK
  <2>2. \A c \in Clients : LeftOK(request'[c].op, todo'[c])
    BY <1>0, <1>1, <1>5 DEF TypeInv
  <2> QED
    BY <1>0, <1>1, <1>3, <1>4, <2>1, <2>2 DEF TypeInv, TypeOK
<1>8. EntryInv'
  BY <1>0, <1>1 DEF EntryInv, OneEntryPerJob
<1>9. AddInv'
  <2>1. ASSUME NEW i \in Jobs \ used'
        PROVE  (Absent(i) /\ ~disk[i].there /\ Unhandled(i))'
    <3>1. i \in Jobs \ {j, k} /\ i \notin used
      BY <1>1, <1>2, <2>1
    <3>2. Absent(i) /\ ~disk[i].there /\ Unhandled(i)
      BY <1>0, <3>1 DEF AddInv
    <3>3. ~disk'[i].there
      BY <1>1, <1>3, <3>1, <3>2, Defaults DEF Saves, SaveFails, Absent
    <3> QED
      BY <1>6, <3>1, <3>2, <3>3
  <2>2. ASSUME NEW c \in Clients, NEW d \in Clients, At(c, "store")', request'[c].op = "add"
        PROVE  /\ Absent(Of(c))'
               /\ d # c /\ Handling(d, Of(c))' => request'[d].op = "remove"
    <3>1. At(c, "store") /\ request[c].op = "add" /\ Of(c)' = Of(c)
      BY <1>5, <2>2
    <3>2. PICK i \in Jobs : i = Of(c) /\ Of(c)' = i
      BY <1>5, <3>1
    <3>3. /\ Absent(i) /\ Handling(c, i)
          /\ d # c /\ Handling(d, i) => request[d].op = "remove"
      BY <1>0, <3>1, <3>2 DEF AddInv, Handling, At
    <3>4. i \in Jobs \ {j, k}
      BY <1>1, <1>2, <3>3 DEF Absent, Unhandled
    <3>5. Absent(i)' /\ (Handling(d, i)' <=> Handling(d, i))
      BY <1>6, <3>3, <3>4
    <3>6. (Absent(Of(c))' <=> Absent(i)') /\ (Handling(d, Of(c))' <=> Handling(d, i)')
      BY <3>2 DEF Absent, Handling
    <3> QED
      BY <1>5, <3>3, <3>5, <3>6
  <2> QED
    BY <2>1, <2>2 DEF AddInv
<1>10. StaleInv'
  <2>1. ASSUME NEW i \in Jobs, Outdated(i)'
        PROVE  \E c \in Clients : (Of(c) = i /\ (At(c, "get") \/ At(c, "schedule")))'
    <3>1. i \in Jobs \ {j, k}
      BY <1>1, <1>2, <1>3, <2>1 DEF Outdated, Scheduled, Absent
    <3>2. PICK c \in Clients : Of(c) = i /\ (At(c, "get") \/ At(c, "schedule"))
      BY <1>0, <1>6, <2>1, <3>1 DEF StaleInv
    <3>3. (Of(c) = i /\ (At(c, "get") \/ At(c, "schedule")))'
      BY <1>5, <3>1, <3>2
    <3> QED
      BY <3>3
  <2> QED
    BY <2>1 DEF StaleInv
<1>11. AloneInv'
  <2>1. ASSUME NEW c \in Clients, alone'[c]
        PROVE  /\ Busy(c)' /\ Of(c)' \notin list'
               /\ \A d \in Clients \ {c} : ~Handling(d, Of(c))'
               /\ Achieved(c)'
    <3>1. alone[c] /\ ~Handling(c, j)
      BY <1>1, <2>1
    <3>2. /\ Busy(c) /\ Of(c) \notin list /\ Achieved(c)
          /\ \A d \in Clients \ {c} : ~Handling(d, Of(c))
      BY <1>0, <3>1 DEF AloneInv
    <3>3. PICK i \in Jobs : i = Of(c)
      BY <1>5
    <3>4. Handling(c, i) /\ i \in Jobs \ {j, k} /\ Of(c)' = i
      BY <1>2, <1>5, <3>1, <3>2, <3>3 DEF Handling, Unhandled
    <3>5. \A d \in Clients \ {c} : ~Handling(d, i)'
      BY <1>6, <3>2, <3>3, <3>4
    <3>6. Achieved(c)'
      <4>1. job'[i] = job[i] /\ entries'[i] = entries[i] /\ (Sound(i)' <=> Sound(i))
        BY <1>1, <1>3, <1>6, <3>4
      <4>2. /\ request'[c].op = request[c].op /\ request'[c].enabled = request[c].enabled
            /\ \A step : At(c, step)' <=> At(c, step)
        BY <1>5
      <4> QED
        BY <3>2, <3>3, <3>4, <4>1, <4>2 DEF Achieved
    <3> QED
      BY <1>3, <1>5, <3>2, <3>3, <3>4, <3>5, <3>6 DEF Handling
  <2> QED
    BY <2>1 DEF AloneInv
<1>12. SettledInv'
  <2>1. ASSUME NEW c \in Clients, Busy(c)', ~alone'[c]
        PROVE  Of(c)' \in unsettled'
    <3>1. CASE Of(c) = j
      BY <1>1, <1>5, <3>1
    <3>2. CASE Of(c) # j
      <4>1. ~alone[c] /\ Busy(c) /\ Of(c)' = Of(c)
        BY <1>1, <1>5, <2>1, <3>2 DEF Handling
      <4> QED
        BY <1>0, <1>1, <4>1 DEF SettledInv
    <3> QED
      BY <3>1, <3>2
  <2>2. ASSUME NEW i \in Jobs \ unsettled', Unhandled(i)'
        PROVE  Sound(i)' /\ (boot' # "loaded" /\ i \notin list' => Complete(i)')
    <3>1. i \in Jobs \ {j, k} /\ i \notin unsettled
      BY <1>1, <2>2
    <3> QED
      BY <1>0, <1>1, <1>3, <1>6, <2>2, <3>1 DEF SettledInv
  <2>3. ASSUME NEW i \in list' \ unsettled'
        PROVE  job'[i].there
    <3>1. i \in Jobs \ {j, k} /\ i \notin unsettled /\ i \in list
      BY <1>0, <1>1, <1>3, <2>3 DEF TypeInv, TypeOK
    <3> QED
      BY <1>0, <1>3, <3>1 DEF SettledInv
  <2> QED
    BY <2>1, <2>2, <2>3 DEF SettledInv
<1>13. OffInv'
  <2>1. ASSUME NEW i \in off'
        PROVE  Unhandled(i)' /\ ~(job'[i].there /\ job'[i].enabled)
    <3>1. i \in off /\ i \in Jobs \ {j, k}
      BY <1>0, <1>1, <2>1 DEF TypeInv, TypeOK
    <3> QED
      BY <1>0, <1>3, <1>6, <3>1 DEF OffInv
  <2> QED
    BY <2>1 DEF OffInv
<1> QED
  BY <1>4, <1>7, <1>8, <1>9, <1>10, <1>11, <1>12, <1>13 DEF CronInv

LEMMA InitCronInv == Init => CronInv
<1> SUFFICES ASSUME Init PROVE CronInv
  OBVIOUS
<1>1. /\ \A c \in Clients : ~Busy(c) /\ ~alone[c]
      /\ \A c \in Clients : \A j \in Jobs : ~Handling(c, j)
      /\ \A c \in Clients : ~At(c, "store")
  BY DEF Init, Idle, Busy, Handling, At
<1>2. TypeInv
  <2>1. todo \in [Clients -> Seq({"store", "get", "schedule", "unschedule"})]
    BY DEF Init, Idle
  <2>2. \A c \in Clients : LeftOK(request[c].op, todo[c])
    BY DEF Init, Idle, LeftOK
  <2> QED
    BY <2>1, <2>2, Defaults DEF Init, TypeInv, TypeOK
<1>3. EntryInv /\ FileInv
  BY Defaults DEF Init, EntryInv, OneEntryPerJob, FileInv, FileIsCurrent
<1>4. AddInv /\ StaleInv /\ AloneInv
  BY <1>1, Defaults DEF Init, AddInv, Absent, Unhandled, StaleInv, Outdated, Scheduled, AloneInv
<1>5. SettledInv /\ OffInv
  BY <1>1 DEF Init, SettledInv, Sound, Scheduled, OffInv
<1> QED
  BY <1>2, <1>3, <1>4, <1>5 DEF CronInv

LEMMA NextCronInv ==
    ASSUME CronInv, [Next]_vars
    PROVE  CronInv'
<1> USE DEF storeVars, scheduleVars, requestVars, bootVars, runVars
<1>0. TypeInv
  BY DEF CronInv
<1>1. CASE UNCHANGED vars
  BY <1>0, <1>1, QuietInv DEF vars, TypeInv, TypeOK
<1>2. ASSUME NEW c \in Clients, Request(c) \/ Client(c)
      PROVE  CronInv'
  BY <1>2, RequestInv, StoreInv, GetInv, ScheduleInv, UnscheduleInv DEF Client
<1>3. ASSUME NEW j \in Jobs, SetField(j) \/ SetExprRaw(j) \/ \E k \in Jobs : Rename(j, k)
      PROVE  CronInv'
  <2>1. CASE SetField(j)
    BY <1>0, <2>1, QuietInv DEF SetField, TypeInv, TypeOK
  <2>2. CASE SetExprRaw(j)
    <3>1. PICK x \in Exprs : job' = [job EXCEPT ![j].expr = x]
      BY <2>2 DEF SetExprRaw
    <3>2. /\ job \in [Jobs -> CronJobs] /\ raw \in SUBSET Jobs
          /\ rpc \in [Runs -> {"idle", "fired", "found", "running", "manual"}]
          /\ rjob \in [Runs -> Jobs]
      BY <1>0 DEF TypeInv, TypeOK
    <3>3. job' \in [Jobs -> CronJobs]
      BY <3>1, <3>2 DEF CronJobs
    <3>4. raw' = raw \cup {j}
      BY <2>2 DEF SetExprRaw
    <3>5. \A i \in Jobs : /\ (job'[i].there <=> job[i].there)
                          /\ (job'[i].enabled <=> job[i].enabled)
                          /\ i \in raw' \/ job'[i].expr = job[i].expr
      BY <3>1, <3>2, <3>4 DEF CronJobs
    <3> QED
      BY <2>2, <3>2, <3>3, <3>4, <3>5, QuietInv DEF SetExprRaw
  <2> QED
    BY <1>3, <2>1, <2>2, RenameInv
<1>4. CASE StartList \/ StartNext \/ Started \/ Crash
  BY <1>4, BootInv, StartNextInv, CrashInv
<1>5. ASSUME NEW r \in Runs,
             Fire(r) \/ ExecuteJob(r) \/ RunJob(r) \/ RunJobNow(r) \/ MarkRun(r)
      PROVE  CronInv'
  <2> USE DEF Fire, ExecuteJob, RunJob, RunJobNow, MarkRun
  <2>1. UNCHANGED <<job, used, entries, lib, raw, todo, request, alone, unsettled, off, boot, list>>
    BY <1>5
  <2>2. Saves \/ SaveFails \/ UNCHANGED <<job, disk, unsaved>>
    BY <1>5
  <2>3. \E pc \in {"idle", "fired", "found", "running", "manual"} : rpc' = [rpc EXCEPT ![r] = pc]
    BY <1>5
  <2>4. UNCHANGED rjob \/ \E j \in Jobs : rjob' = [rjob EXCEPT ![r] = j]
    <3>1. \A e \in EntryIds : lib[e] # Unused => lib[e].job \in Jobs
      BY <1>0 DEF TypeInv, TypeOK
    <3> QED
      BY <1>5, <3>1
  <2>5. /\ rpc' \in [Runs -> {"idle", "fired", "found", "running", "manual"}]
        /\ rjob' \in [Runs -> Jobs]
    BY <1>0, <2>3, <2>4 DEF TypeInv, TypeOK
  <2>6. job' \in [Jobs -> CronJobs] /\ raw' \in SUBSET Jobs
    BY <1>0, <2>1 DEF TypeInv, TypeOK
  <2> QED
    BY <2>1, <2>2, <2>5, <2>6, QuietInv
<1> QED
  BY <1>1, <1>2, <1>3, <1>4, <1>5 DEF Next

LEMMA CronInvariant == Spec => []CronInv
<1>1. CronInv /\ [Next]_vars => CronInv'
  BY NextCronInv
<1> QED
  BY InitCronInv, <1>1, PTL DEF Spec

-----------------------------------------------------------------------------
(* The variables keep their types, and start-up has a list of jobs only    *)
(* while it schedules them.                                                *)
THEOREM CronTypeCorrect == Spec => []TypeOK
<1>1. CronInv => TypeOK
  BY DEF CronInv, TypeInv
<1> QED
  BY CronInvariant, <1>1, PTL

(* However adds, updates, enables, removes, changes of id and the start-up *)
(* interleave, an entry of the library that fires for an id is the one the *)
(* scheduler knows for it: no id fires twice, and no entry is beyond the   *)
(* reach of a disable.                                                     *)
THEOREM EntriesAreUnique == Spec => []OneEntryPerJob
<1>1. CronInv => OneEntryPerJob
  BY DEF CronInv, EntryInv
<1> QED
  BY CronInvariant, <1>1, PTL

(* A job that nobody is changing, and whose last request was alone and got  *)
(* through, has an entry that fires exactly if it is there and enabled,    *)
(* after any earlier overlaps, changes of id, expressions that do not      *)
(* parse, restarts and failed saves.                                       *)
THEOREM StoreIsScheduled == Spec => []ScheduleFollowsStore
<1>1. CronInv => ScheduleFollowsStore
  BY DEF CronInv, SettledInv, ScheduleFollowsStore, Settled, Unhandled, Sound, Complete
<1> QED
  BY CronInvariant, <1>1, PTL

(* An update of an expression is never lost to an entry that an            *)
(* overlapping request made with the old one; only one made by reflection  *)
(* waits for the next request that schedules the job.                      *)
THEOREM ExprIsCurrent == Spec => []FiresByStoredExpr
<1>1. CronInv => FiresByStoredExpr
  BY DEF CronInv, StaleInv, Outdated, FiresByStoredExpr, Handling, At
<1> QED
  BY CronInvariant, <1>1, PTL

(* Unless the last save failed, a restart finds the jobs the program had.  *)
THEOREM FileFollowsStore == Spec => []FileIsCurrent
<1>1. CronInv => FileIsCurrent
  BY DEF CronInv, FileInv
<1> QED
  BY CronInvariant, <1>1, PTL

(* After a disable or a switching-off that nobody overlapped, not even a    *)
(* run that had fired and found the job begins; after such a removal only  *)
(* one that had found it does.                                             *)
THEOREM OffIsFinal == Spec => OffStaysOff
<1> DEFINE Held == \A r \in Runs : rjob[r] \in off =>
              IF job[rjob[r]].there THEN rpc[r] = "found" => rpc'[r] # "running"
                                    ELSE rpc[r] = "fired" => rpc'[r] \notin {"found", "running"}
<1>1. CronInv /\ [Next]_vars => [Held]_vars
  <2> SUFFICES ASSUME CronInv, Next, NEW r \in Runs, rjob[r] \in off
               PROVE  IF job[rjob[r]].there
                      THEN rpc[r] = "found" => rpc'[r] # "running"
                      ELSE rpc[r] = "fired" => rpc'[r] \notin {"found", "running"}
    OBVIOUS
  <2> USE DEF runVars
  <2>1. rpc \in [Runs -> {"idle", "fired", "found", "running", "manual"}]
    BY DEF CronInv, TypeInv, TypeOK
  <2>2. ~(job[rjob[r]].there /\ job[rjob[r]].enabled)
    BY DEF CronInv, OffInv
  <2>3. ASSUME NEW s \in Runs,
               Fire(s) \/ ExecuteJob(s) \/ RunJob(s) \/ RunJobNow(s) \/ MarkRun(s)
        PROVE  IF job[rjob[r]].there
               THEN rpc[r] = "found" => rpc'[r] # "running"
               ELSE rpc[r] = "fired" => rpc'[r] \notin {"found", "running"}
    BY <2>1, <2>2, <2>3 DEF Fire, ExecuteJob, RunJob, RunJobNow, MarkRun
  <2>4. CASE Crash
    BY <2>4 DEF Crash
  <2>5. ASSUME UNCHANGED rpc
        PROVE  IF job[rjob[r]].there
               THEN rpc[r] = "found" => rpc'[r] # "running"
               ELSE rpc[r] = "fired" => rpc'[r] \notin {"found", "running"}
    BY <2>5
  <2>6. ASSUME \/ \E c \in Clients : Request(c) \/ Client(c)
               \/ \E j \in Jobs : SetField(j) \/ SetExprRaw(j) \/ \E k \in Jobs : Rename(j, k)
               \/ StartList \/ StartNext \/ Started
        PROVE  UNCHANGED rpc
    BY <2>6 DEF Request, Client, Store, Get, Schedule, Unschedule, SetField, SetExprRaw,
         Rename, StartList, StartNext, Started
  <2> QED
    BY <2>3, <2>4, <2>5, <2>6 DEF Next
<1>2. OffStaysOff <=> [][Held]_vars
  BY DEF OffStaysOff
<1> QED
  BY CronInvariant, <1>1, <1>2, PTL DEF Spec
=============================================================================
