------------------------- MODULE SessionStoreProofs -------------------------
(***************************************************************************)
(* The safety properties of SessionStore, for any keys, chats, agents,     *)
(* number of overlapping saves and bounds.                                 *)
(*                                                                         *)
(* A manager lives in four places: in the memory, in the file, in the copy *)
(* a Save is about to write and in what the prune command has read.  Every *)
(* one of them is sound (StoredInv), so each can replace the file; a copy  *)
(* has the maps of the memory as long as it is there, because changes of   *)
(* the maps wait for it, and the fields of the sessions that have not been *)
(* changed since (SaveInv).                                                *)
(***************************************************************************)
EXTENDS SessionStore, TLAPS

Sound(M) == M \in Manager /\ Counted(M) /\ Owned(M) /\ AtHome(M)

SameMaps(A, B) ==
    Live(A) = Live(B) /\ A.active = B.active /\ A.lists = B.lists /\ A.counter = B.counter

(* Every manager there is, is sound. *)
StoredInv ==
    /\ Sound(mem) /\ Sound(file)
    /\ \A w \in Savers : copy[w] # Null => Sound(copy[w])
    /\ cli # Null => Sound(cli)

(* A daemon that is down has nothing in its memory. *)
DownInv ==
    ~up => /\ mem = Blank /\ durable = {} /\ ~behind
           /\ \A w \in Savers : copy[w] = Null

(* What a Save under way may rely on, and what it will have written. *)
SaveInv ==
    \A w \in Savers :
        /\ copy[w] # Null => SameMaps(copy[w], mem)
        /\ \A i \in seen[w] : /\ i \in Live(mem) /\ copy[w] # Null
                              /\ copy[w].sess[i] = mem.sess[i]
        /\ copy[w] # Null /\ ~overtaken[w] => durable \subseteq seen[w]

StoreInv ==
    /\ TypeOK /\ StoredInv /\ DownInv /\ SaveInv
    /\ durable \subseteq Live(mem)
    /\ StructureIsCurrent /\ DurableIsSaved /\ BoundToAgent

-----------------------------------------------------------------------------
USE IdAssumption, NullAssumption, ChatAssumption, KindAssumption, BoundAssumption

(* What the parts of a manager are. *)
LEMMA Parts ==
    ASSUME NEW M \in Manager
    PROVE  /\ M.sess \in [Ids -> Fields \cup {Null}] /\ M.active \in [Keys -> Ids \cup {0}]
           /\ M.lists \in [Keys -> [Ids -> Nat]] /\ M.counter \in 0 .. MaxSessions
           /\ \A i \in Live(M) : i \in Ids /\ M.sess[i] \in Fields
           /\ M # Null
BY DEF Manager, Live

(* What a copy of a manager is: the same maps, and the same fields. *)
LEMMA SnapshotIsEqual ==
    ASSUME NEW M \in Manager
    PROVE  Snapshot(M) = M
<1> DEFINE f == [i \in Ids |->
        IF i \in Live(M)
        THEN [agent |-> M.sess[i].agent, past |-> M.sess[i].past, hist |-> M.sess[i].hist]
        ELSE Null]
<1>1. ASSUME NEW i \in Ids
      PROVE  f[i] = M.sess[i]
  <2>1. CASE i \in Live(M)
    <3>1. M.sess[i] \in Fields
      BY <2>1, Parts
    <3> QED
      BY <2>1, <3>1 DEF Fields
  <2> QED
    BY <2>1 DEF Live
<1>2. M.sess = [i \in Ids |-> M.sess[i]]
  BY Parts
<1>3. f = M.sess
  BY <1>1, <1>2
<1>4. Snapshot(M) = [M EXCEPT !.sess = f]
  BY DEF Snapshot
<1> HIDE DEF f
<1> QED
  BY <1>3, <1>4 DEF Manager

LEMMA BlankIsSound ==
    /\ Sound(Blank) /\ Live(Blank) = {} /\ \A k \in Keys : Blank.active[k] = 0
<1>1. Blank \in Manager
  <2>1. Blank.sess \in [Ids -> Fields \cup {Null}]
    BY DEF Blank
  <2>2. Blank.lists \in [Keys -> [Ids -> Nat]]
    BY DEF Blank
  <2>3. 0 \in 0 .. MaxSessions
    OBVIOUS
  <2> QED
    BY <2>1, <2>2, <2>3 DEF Blank, Manager
<1>2. Live(Blank) = {}
  BY DEF Live, Blank
<1>3. \A k \in Keys : ListOf(Blank, k) = {}
  BY DEF ListOf, Blank
<1>4. Counted(Blank) /\ Owned(Blank)
  <2>1. Listed(Blank) = {}
    BY <1>3 DEF Listed
  <2>2. \A k \in Keys, i \in Ids : Blank.lists[k][i] <= 1
    BY DEF Blank
  <2> QED
    BY <1>2, <1>3, <2>1, <2>2 DEF Counted, Owned
<1>5. \A k \in Keys : Blank.active[k] = 0
  BY DEF Blank
<1> QED
  BY <1>1, <1>2, <1>4, <1>5 DEF Sound, AtHome

(* N is M with a new session n of key k, bound to a. *)
Adds(M, k, a, N, n) ==
    /\ n \in Ids /\ n = M.counter + 1 /\ N \in Manager /\ N.counter = n
    /\ N.active = M.active
    /\ N.sess[n] = [agent |-> a, past |-> {}, hist |-> FALSE]
    /\ N.sess[n] \in Fields
    /\ \A i \in Ids : i # n => N.sess[i] = M.sess[i]
    /\ N.lists[k][n] = M.lists[k][n] + 1
    /\ \A j \in Keys, i \in Ids : j # k \/ i # n => N.lists[j][i] = M.lists[j][i]

LEMMA SideCreatedEffect ==
    ASSUME NEW M \in Manager, NEW k \in Keys, NEW a \in AgentIds \cup {NoId},
           M.counter < MaxSessions
    PROVE  Adds(M, k, a, SideCreated(M, k, a), NextId(M))
<1> DEFINE N == SideCreated(M, k, a)
           n == NextId(M)
<1> DEFINE new == [agent |-> a, past |-> {}, hist |-> FALSE]
           s == [M.sess EXCEPT ![n] = new]
           l == [M.lists EXCEPT ![k][n] = @ + 1]
<1>1. n \in Ids /\ n = M.counter + 1 /\ n \in 0 .. MaxSessions
  BY Parts DEF NextId, Ids
<1>2. new \in Fields
  BY DEF Fields
<1>3. s \in [Ids -> Fields \cup {Null}] /\ s[n] = new /\ \A i \in Ids : i # n => s[i] = M.sess[i]
  BY Parts, <1>1, <1>2
<1>4. /\ l \in [Keys -> [Ids -> Nat]] /\ l[k][n] = M.lists[k][n] + 1
      /\ \A j \in Keys, i \in Ids : j # k \/ i # n => l[j][i] = M.lists[j][i]
  BY Parts, <1>1
<1>5. SideCreated(M, k, a) = [M EXCEPT !.counter = @ + 1, !.sess = s, !.lists = l]
  BY DEF SideCreated, Manager
<1>6. N = [sess |-> s, active |-> M.active, lists |-> l, counter |-> n]
  BY <1>1, <1>5 DEF Manager
<1> HIDE DEF N, n, new, s, l
<1>7. N \in Manager
  BY <1>1, <1>3, <1>4, <1>6, Parts DEF Manager
<1>8. Adds(M, k, a, N, n)
  BY <1>1, <1>2, <1>3, <1>4, <1>6, <1>7 DEF new, Adds
<1> QED
  BY <1>8 DEF N, n

(* What it takes for a manager to be sound, in terms of its lists. *)
LEMMA Listing ==
    ASSUME NEW M \in Manager, NEW i
    PROVE  /\ i \in Listed(M) <=> i \in Ids /\ \E k \in Keys : M.lists[k][i] > 0
           /\ \A c : c \in ChatOf(M, i) <=>
                        i \in Ids /\ \E k \in Keys : c = Chat[k] /\ M.lists[k][i] > 0
<1>1. i \in Listed(M) <=> i \in Ids /\ \E k \in Keys : M.lists[k][i] > 0
  BY DEF Listed, ListOf
<1>2. \A c : c \in ChatOf(M, i) <=>
                i \in Ids /\ \E k \in Keys : c = Chat[k] /\ M.lists[k][i] > 0
  BY DEF ChatOf, ListOf
<1> QED
  BY <1>1, <1>2

LEMMA Soundness ==
    ASSUME NEW M \in Manager,
           \A i \in Ids : M.sess[i] # Null <=> \E k \in Keys : M.lists[k][i] > 0,
           \A i \in Ids : M.sess[i] # Null => i <= M.counter,
           \A k \in Keys, i \in Ids : M.lists[k][i] <= 1,
           \A j, k \in Keys, i \in Ids : M.lists[j][i] > 0 /\ M.lists[k][i] > 0 => j = k,
           \A k \in Keys : M.active[k] # 0 =>
               /\ M.sess[M.active[k]] # Null
               /\ \E j \in Keys : Chat[k] = Chat[j] /\ M.lists[j][M.active[k]] > 0
    PROVE  Sound(M)
<1>1. Live(M) = Listed(M)
  BY Listing DEF Live
<1>2. Counted(M)
  BY <1>1 DEF Counted, Live
<1>3. Owned(M)
  BY <1>1 DEF Owned, ListOf
<1>4. AtHome(M)
  <2> SUFFICES ASSUME NEW k \in Keys, M.active[k] # 0
               PROVE  Chat[k] \in ChatOf(M, M.active[k]) /\ M.active[k] \in Live(M)
    BY DEF AtHome
  <2>1. M.active[k] \in Ids
    BY Parts
  <2> QED
    BY <2>1, Listing DEF Live
<1> QED
  BY <1>2, <1>3, <1>4 DEF Sound

LEMMA SoundFacts ==
    ASSUME NEW M, Sound(M)
    PROVE  /\ M \in Manager
           /\ \A i \in Ids : M.sess[i] # Null <=> \E k \in Keys : M.lists[k][i] > 0
           /\ \A i \in Ids : M.sess[i] # Null => i <= M.counter
           /\ \A k \in Keys, i \in Ids : M.lists[k][i] <= 1
           /\ \A j, k \in Keys, i \in Ids : M.lists[j][i] > 0 /\ M.lists[k][i] > 0 => j = k
           /\ \A k \in Keys : M.active[k] # 0 =>
               /\ M.active[k] \in Ids /\ M.sess[M.active[k]] # Null
               /\ \E j \in Keys : Chat[k] = Chat[j] /\ M.lists[j][M.active[k]] > 0
<1>1. M \in Manager /\ Counted(M) /\ Owned(M) /\ AtHome(M)
  BY DEF Sound
<1>2. \A i \in Ids : M.sess[i] # Null <=> \E k \in Keys : M.lists[k][i] > 0
  BY <1>1, Listing DEF Owned, Live
<1>3. \A i \in Ids : M.sess[i] # Null => i <= M.counter
  BY <1>1 DEF Counted, Live
<1>4. \A k \in Keys, i \in Ids : M.lists[k][i] <= 1
  BY <1>1 DEF Owned
<1>5. \A j, k \in Keys, i \in Ids : M.lists[j][i] > 0 /\ M.lists[k][i] > 0 => j = k
  BY <1>1 DEF Owned, ListOf
<1>6. ASSUME NEW k \in Keys, M.active[k] # 0
      PROVE  /\ M.active[k] \in Ids /\ M.sess[M.active[k]] # Null
             /\ \E j \in Keys : Chat[k] = Chat[j] /\ M.lists[j][M.active[k]] > 0
  <2>1. Chat[k] \in ChatOf(M, M.active[k]) /\ M.active[k] \in Live(M)
    BY <1>1, <1>6 DEF AtHome
  <2> QED
    BY <1>1, <2>1, Listing DEF Live
<1> QED
  BY <1>1, <1>2, <1>3, <1>4, <1>5, <1>6

-----------------------------------------------------------------------------
(* A session that is created has an owner, and its key its active one. *)
LEMMA SideCreatedIsSound ==
    ASSUME NEW M, Sound(M), NEW k \in Keys, NEW a \in AgentIds \cup {NoId},
           M.counter < MaxSessions
    PROVE  Sound(SideCreated(M, k, a))
<1>1. M \in Manager
  BY DEF Sound
<1> DEFINE N == SideCreated(M, k, a)
           n == NextId(M)
<1>n. Adds(M, k, a, N, n)
  BY <1>1, SideCreatedEffect
<1> HIDE DEF N, n
<1>2. /\ n \in Ids /\ n = M.counter + 1 /\ N \in Manager /\ N.counter = n
      /\ N.active = M.active /\ N.sess[n] \in Fields
      /\ \A i \in Ids : i # n => N.sess[i] = M.sess[i]
      /\ N.lists[k][n] = M.lists[k][n] + 1
      /\ \A j \in Keys, i \in Ids : j # k \/ i # n => N.lists[j][i] = M.lists[j][i]
  BY <1>n DEF Adds
<1>3. /\ \A i \in Ids : M.sess[i] # Null <=> \E j \in Keys : M.lists[j][i] > 0
      /\ \A i \in Ids : M.sess[i] # Null => i <= M.counter
      /\ \A j \in Keys, i \in Ids : M.lists[j][i] <= 1
      /\ \A j, h \in Keys, i \in Ids : M.lists[j][i] > 0 /\ M.lists[h][i] > 0 => j = h
      /\ \A j \in Keys : M.active[j] # 0 =>
          /\ M.active[j] \in Ids /\ M.sess[M.active[j]] # Null
          /\ \E h \in Keys : Chat[j] = Chat[h] /\ M.lists[h][M.active[j]] > 0
  BY SoundFacts
<1>4. M.counter \in Int /\ \A i \in Ids : i \in Int
  BY <1>1, Parts DEF Ids
<1>5. M.sess[n] = Null /\ \A j \in Keys : M.lists[j][n] = 0
  <2>1. M.sess[n] = Null
    BY <1>2, <1>3, <1>4
  <2>2. \A j \in Keys : M.lists[j][n] \in Nat
    BY <1>1, <1>2, Parts
  <2> QED
    BY <1>2, <1>3, <2>1, <2>2
<1>6. N.lists[k][n] = 1 /\ N.sess[n] # Null
  BY <1>2, <1>5
<1>7. \A i \in Ids : N.sess[i] # Null <=> \E j \in Keys : N.lists[j][i] > 0
  BY <1>2, <1>3, <1>6
<1>8. \A i \in Ids : N.sess[i] # Null => i <= N.counter
  BY <1>2, <1>3, <1>4
<1>9. \A j \in Keys, i \in Ids : N.lists[j][i] <= 1
  BY <1>2, <1>3, <1>6
<1>10. \A j, h \in Keys, i \in Ids : N.lists[j][i] > 0 /\ N.lists[h][i] > 0 => j = h
  <2> SUFFICES ASSUME NEW j \in Keys, NEW h \in Keys, NEW i \in Ids,
                      N.lists[j][i] > 0, N.lists[h][i] > 0
               PROVE  j = h
    OBVIOUS
  <2>1. CASE i = n
    BY <1>2, <1>5, <2>1
  <2>2. CASE i # n
    BY <1>2, <1>3, <2>2
  <2> QED
    BY <2>1, <2>2
<1>11. ASSUME NEW j \in Keys, N.active[j] # 0
       PROVE  /\ N.sess[N.active[j]] # Null
              /\ \E h \in Keys : Chat[j] = Chat[h] /\ N.lists[h][N.active[j]] > 0
  BY <1>2, <1>3, <1>5, <1>11
<1> QED
  BY <1>2, <1>7, <1>8, <1>9, <1>10, <1>11, Soundness DEF N

(* A key may make a session active that is of its chat. *)
LEMMA SwitchedIsSound ==
    ASSUME NEW M, Sound(M), NEW k \in Keys, NEW i \in Ids, M.sess[i] # Null,
           NEW o \in Keys, Chat[o] = Chat[k], M.lists[o][i] > 0
    PROVE  /\ Sound([M EXCEPT !.active[k] = i])
           /\ Live([M EXCEPT !.active[k] = i]) = Live(M)
           /\ \A j \in Ids : [M EXCEPT !.active[k] = i].sess[j] = M.sess[j]
<1> DEFINE act == [M.active EXCEPT ![k] = i]
           N == [M EXCEPT !.active[k] = i]
<1>1. M \in Manager
  BY DEF Sound
<1>2. act \in [Keys -> Ids \cup {0}] /\ act[k] = i /\ \A j \in Keys : j # k => act[j] = M.active[j]
  BY <1>1, Parts
<1>3. N = [sess |-> M.sess, active |-> act, lists |-> M.lists, counter |-> M.counter]
  <2>1. N = [M EXCEPT !.active = act]
    BY <1>1 DEF Manager
  <2> HIDE DEF act, N
  <2> QED
    BY <1>1, <2>1 DEF Manager
<1> HIDE DEF act, N
<1>4. N \in Manager
  BY <1>1, <1>2, <1>3, Parts DEF Manager
<1>5. \A j \in Keys : M.active[j] # 0 =>
          /\ M.active[j] \in Ids /\ M.sess[M.active[j]] # Null
          /\ \E h \in Keys : Chat[j] = Chat[h] /\ M.lists[h][M.active[j]] > 0
  BY SoundFacts
<1>6. N.sess = M.sess /\ N.lists = M.lists /\ N.counter = M.counter /\ N.active = act
  BY <1>3
<1>7. ASSUME NEW j \in Keys, N.active[j] # 0
      PROVE  /\ N.sess[N.active[j]] # Null
             /\ \E h \in Keys : Chat[j] = Chat[h] /\ N.lists[h][N.active[j]] > 0
  BY <1>2, <1>5, <1>6, <1>7
<1>8. Sound(N)
  <2>1. /\ \A j \in Ids : N.sess[j] # Null <=> \E h \in Keys : N.lists[h][j] > 0
        /\ \A j \in Ids : N.sess[j] # Null => j <= N.counter
        /\ \A h \in Keys, j \in Ids : N.lists[h][j] <= 1
        /\ \A g, h \in Keys, j \in Ids : N.lists[g][j] > 0 /\ N.lists[h][j] > 0 => g = h
    BY <1>6, SoundFacts
  <2> QED
    BY <1>4, <1>7, <2>1, Soundness
<1> QED
  BY <1>6, <1>8 DEF N, Live

LEMMA CreatedIsSound ==
    ASSUME NEW M, Sound(M), NEW k \in Keys, NEW a \in AgentIds \cup {NoId},
           M.counter < MaxSessions
    PROVE  /\ Sound(Created(M, k, a))
           /\ \A i \in Ids : Created(M, k, a).sess[i] = SideCreated(M, k, a).sess[i]
<1> DEFINE N == SideCreated(M, k, a)
           n == NextId(M)
<1>1. M \in Manager /\ Sound(N)
  BY SideCreatedIsSound DEF Sound
<1>2. Adds(M, k, a, N, n)
  BY <1>1, SideCreatedEffect
<1>3. Created(M, k, a) = [N EXCEPT !.active[k] = n]
  BY DEF Created
<1> HIDE DEF N, n
<1>4. n \in Ids /\ N.sess[n] # Null
  BY <1>2 DEF Adds
<1>5. M.lists[k][n] \in Nat
  BY <1>1, <1>4, Parts
<1>6. N.lists[k][n] > 0
  BY <1>2, <1>5 DEF Adds
<1>7. Sound([N EXCEPT !.active[k] = n]) /\ \A j \in Ids : [N EXCEPT !.active[k] = n].sess[j] = N.sess[j]
  BY <1>1, <1>4, <1>6, SwitchedIsSound
<1> QED
  BY <1>3, <1>7 DEF N

(* Which sessions there are after a creation, and what they are. *)
LEMMA CreatedSessions ==
    ASSUME NEW M, Sound(M), NEW k \in Keys, NEW a \in AgentIds \cup {NoId},
           M.counter < MaxSessions,
           NEW N \in {SideCreated(M, k, a), Created(M, k, a)}
    PROVE  /\ Sound(N)
           /\ NextId(M) \notin Live(M)
           /\ N.sess[NextId(M)] = [agent |-> a, past |-> {}, hist |-> FALSE]
           /\ Live(N) = Live(M) \cup {NextId(M)}
           /\ \A i \in Live(M) : N.sess[i] = M.sess[i]
<1>1. M \in Manager /\ Sound(N)
  BY SideCreatedIsSound, CreatedIsSound DEF Sound
<1> DEFINE n == NextId(M)
           P == SideCreated(M, k, a)
<1>2. Adds(M, k, a, P, n)
  BY <1>1, SideCreatedEffect
<1>3. \A i \in Ids : N.sess[i] = P.sess[i]
  BY CreatedIsSound
<1>4. \A i \in Ids : M.sess[i] # Null => i <= M.counter
  BY SoundFacts
<1> HIDE DEF n, P
<1>5. n \in Ids /\ n = M.counter + 1 /\ M.counter \in Int
  BY <1>1, <1>2, Parts DEF Adds
<1>6. n \notin Live(M)
  BY <1>4, <1>5 DEF Live, Ids
<1>7. /\ N.sess[n] = [agent |-> a, past |-> {}, hist |-> FALSE] /\ N.sess[n] # Null
      /\ \A i \in Ids : i # n => N.sess[i] = M.sess[i]
  BY <1>2, <1>3 DEF Adds
<1>8. Live(N) = Live(M) \cup {n} /\ \A i \in Live(M) : N.sess[i] = M.sess[i]
  BY <1>5, <1>6, <1>7 DEF Live
<1> QED
  BY <1>1, <1>6, <1>7, <1>8 DEF n

-----------------------------------------------------------------------------
(* What is removed leaves the sessions, its list and its active keys. *)
Drops(M, S, N) ==
    /\ N \in Manager /\ N.counter = M.counter
    /\ \A i \in Ids : N.sess[i] = IF i \in S THEN Null ELSE M.sess[i]
    /\ \A k \in Keys, i \in Ids :
          N.lists[k][i] = IF i \in S /\ M.lists[k][i] > 0 THEN M.lists[k][i] - 1 ELSE M.lists[k][i]
    /\ \A k \in Keys : N.active[k] = IF M.active[k] \in S THEN 0 ELSE M.active[k]

LEMMA RemovedEffect ==
    ASSUME NEW M \in Manager, NEW S
    PROVE  Drops(M, S, Removed(M, S))
<1> DEFINE N == Removed(M, S)
           s == [i \in Ids |-> IF i \in S THEN Null ELSE M.sess[i]]
           l == [k \in Keys |-> Without(M.lists[k], S)]
           act == [k \in Keys |-> IF M.active[k] \in S THEN 0 ELSE M.active[k]]
<1>1. s \in [Ids -> Fields \cup {Null}]
  BY Parts
<1>2. act \in [Keys -> Ids \cup {0}]
  BY Parts
<1>3. /\ l \in [Keys -> [Ids -> Nat]]
      /\ \A k \in Keys, i \in Ids :
            l[k][i] = IF i \in S /\ M.lists[k][i] > 0 THEN M.lists[k][i] - 1 ELSE M.lists[k][i]
  <2>1. ASSUME NEW k \in Keys
        PROVE  /\ l[k] \in [Ids -> Nat]
               /\ \A i \in Ids :
                    l[k][i] = IF i \in S /\ M.lists[k][i] > 0 THEN M.lists[k][i] - 1 ELSE M.lists[k][i]
    <3>1. M.lists[k] \in [Ids -> Nat]
      BY <2>1, Parts
    <3>2. \A i \in Ids : (IF i \in S /\ M.lists[k][i] > 0 THEN M.lists[k][i] - 1 ELSE M.lists[k][i]) \in Nat
      BY <3>1
    <3> QED
      BY <2>1, <3>2 DEF Without
  <2> HIDE DEF l
  <2>2. l = [k \in Keys |-> l[k]]
    BY DEF l
  <2> QED
    BY <2>1, <2>2
<1>4. N = [M EXCEPT !.sess = s, !.lists = l, !.active = act]
  BY DEF Removed
<1>5. \A i \in Ids : s[i] = IF i \in S THEN Null ELSE M.sess[i]
  OBVIOUS
<1>6. \A k \in Keys : act[k] = IF M.active[k] \in S THEN 0 ELSE M.active[k]
  OBVIOUS
<1> HIDE DEF N, s, l, act
<1>7. N = [sess |-> s, active |-> act, lists |-> l, counter |-> M.counter]
  BY <1>4 DEF Manager
<1>8. Drops(M, S, N)
  BY <1>1, <1>2, <1>3, <1>5, <1>6, <1>7, Parts DEF Manager, Drops
<1> QED
  BY <1>8 DEF N

LEMMA RemovedIsSound ==
    ASSUME NEW M, Sound(M), NEW S \in SUBSET Ids
    PROVE  /\ Sound(Removed(M, S))
           /\ Live(Removed(M, S)) = Live(M) \ S
           /\ \A i \in Ids \ S : Removed(M, S).sess[i] = M.sess[i]
<1> DEFINE N == Removed(M, S)
<1>1. M \in Manager
  BY DEF Sound
<1>2. Drops(M, S, N)
  BY <1>1, RemovedEffect
<1> HIDE DEF N
<1>3. N \in Manager
  BY <1>2 DEF Drops
<1>4. /\ \A i \in Ids : M.sess[i] # Null <=> \E j \in Keys : M.lists[j][i] > 0
      /\ \A i \in Ids : M.sess[i] # Null => i <= M.counter
      /\ \A j \in Keys, i \in Ids : M.lists[j][i] <= 1
      /\ \A j, h \in Keys, i \in Ids : M.lists[j][i] > 0 /\ M.lists[h][i] > 0 => j = h
      /\ \A j \in Keys : M.active[j] # 0 =>
          /\ M.active[j] \in Ids /\ M.sess[M.active[j]] # Null
          /\ \E h \in Keys : Chat[j] = Chat[h] /\ M.lists[h][M.active[j]] > 0
  BY SoundFacts
<1>5. ASSUME NEW k \in Keys, NEW i \in Ids
      PROVE  N.lists[k][i] = IF i \in S THEN 0 ELSE M.lists[k][i]
  <2>1. M.lists[k][i] \in Nat /\ M.lists[k][i] <= 1
    BY <1>1, <1>4, <1>5, Parts
  <2>2. N.lists[k][i] = IF i \in S /\ M.lists[k][i] > 0 THEN M.lists[k][i] - 1 ELSE M.lists[k][i]
    BY <1>2, <1>5 DEF Drops
  <2> QED
    BY <2>1, <2>2
<1>6. /\ \A i \in Ids : N.sess[i] = IF i \in S THEN Null ELSE M.sess[i]
      /\ \A k \in Keys : N.active[k] = IF M.active[k] \in S THEN 0 ELSE M.active[k]
      /\ N.counter = M.counter
  BY <1>2 DEF Drops
<1>7. \A i \in Ids : N.sess[i] # Null <=> \E j \in Keys : N.lists[j][i] > 0
  BY <1>4, <1>5, <1>6
<1>8. \A i \in Ids : N.sess[i] # Null => i <= N.counter
  BY <1>4, <1>6
<1>9. \A j \in Keys, i \in Ids : N.lists[j][i] <= 1
  BY <1>4, <1>5
<1>10. \A j, h \in Keys, i \in Ids : N.lists[j][i] > 0 /\ N.lists[h][i] > 0 => j = h
  BY <1>4, <1>5
<1>11. ASSUME NEW j \in Keys, N.active[j] # 0
       PROVE  /\ N.sess[N.active[j]] # Null
              /\ \E h \in Keys : Chat[j] = Chat[h] /\ N.lists[h][N.active[j]] > 0
  <2>1. N.active[j] = M.active[j] /\ M.active[j] \notin S /\ M.active[j] # 0
    BY <1>6, <1>11
  <2> QED
    BY <1>4, <1>5, <1>6, <2>1
<1>12. Sound(N)
  BY <1>3, <1>7, <1>8, <1>9, <1>10, <1>11, Soundness
<1>13. Live(N) = Live(M) \ S
  BY <1>6 DEF Live
<1> QED
  BY <1>6, <1>12, <1>13 DEF N

-----------------------------------------------------------------------------
(* Changes of the fields leave the maps as they are. *)
LEMMA SameMapsAreSound ==
    ASSUME NEW M, Sound(M), NEW N \in Manager, SameMaps(N, M)
    PROVE  Sound(N)
<1>1. \A k \in Keys : ListOf(N, k) = ListOf(M, k)
  BY DEF SameMaps, ListOf
<1>2. Listed(N) = Listed(M)
  BY <1>1 DEF Listed
<1>3. Owned(N) /\ Counted(N)
  BY <1>1, <1>2 DEF Sound, Owned, Counted, SameMaps
<1>4. \A i : ChatOf(N, i) = ChatOf(M, i)
  BY <1>1 DEF ChatOf
<1>5. AtHome(N)
  BY <1>4 DEF Sound, AtHome, SameMaps
<1> QED
  BY <1>3, <1>5 DEF Sound

LEMMA EditedIsSound ==
    ASSUME NEW M, Sound(M), NEW i \in Live(M), NEW s \in Fields
    PROVE  /\ Sound([M EXCEPT !.sess[i] = s])
           /\ SameMaps([M EXCEPT !.sess[i] = s], M)
           /\ [M EXCEPT !.sess[i] = s].sess[i] = s
           /\ \A j \in Ids \ {i} : [M EXCEPT !.sess[i] = s].sess[j] = M.sess[j]
<1> DEFINE N == [M EXCEPT !.sess[i] = s]
           f == [M.sess EXCEPT ![i] = s]
<1>1. M \in Manager /\ i \in Ids /\ M.sess[i] # Null
  BY DEF Sound, Live
<1>2. /\ f \in [Ids -> Fields \cup {Null}] /\ f[i] = s
      /\ \A j \in Ids \ {i} : f[j] = M.sess[j]
  BY <1>1, Parts
<1>3. N = [M EXCEPT !.sess = f]
  BY <1>1 DEF Manager
<1> HIDE DEF N, f
<1>4. N = [sess |-> f, active |-> M.active, lists |-> M.lists, counter |-> M.counter]
  BY <1>1, <1>3 DEF Manager
<1>5. N \in Manager
  BY <1>1, <1>2, <1>4, Parts DEF Manager
<1>6. N.sess = f /\ N.active = M.active /\ N.lists = M.lists /\ N.counter = M.counter
  BY <1>4
<1>7. Live(N) = Live(M)
  BY <1>1, <1>2, <1>6 DEF Live
<1>8. SameMaps(N, M)
  BY <1>6, <1>7 DEF SameMaps
<1>9. Sound(N)
  BY <1>5, <1>8, SameMapsAreSound
<1>10. N.sess[i] = s /\ \A j \in Ids \ {i} : N.sess[j] = M.sess[j]
  BY <1>2, <1>6
<1> QED
  BY <1>8, <1>9, <1>10 DEF N

(* Binding a session forgets no id it has carried. *)
LEMMA BoundKeepsKnown ==
    ASSUME NEW s \in Fields, NEW a \in AgentIds \cup {NoId}
    PROVE  /\ Bound(s, a) \in Fields /\ Bound(s, a).agent = a
           /\ Known(s) \subseteq Known(Bound(s, a))
<1> DEFINE p == s.past \cup (IF s.agent \in {a, NoId} THEN {} ELSE {s.agent})
<1>1. p \in SUBSET AgentIds
  BY DEF Fields
<1>2. Bound(s, a) = [agent |-> a, past |-> p, hist |-> s.hist]
  <2>1. Bound(s, a) = [s EXCEPT !.agent = a, !.past = p]
    BY DEF Bound, Fields
  <2> HIDE DEF p
  <2> QED
    BY <2>1 DEF Fields
<1>3. s.hist \in BOOLEAN
  BY DEF Fields
<1>4. Bound(s, a) \in Fields
  BY <1>1, <1>2, <1>3 DEF Fields
<1>5. Known(Bound(s, a)) = ({a} \cup p) \ {NoId}
  BY <1>2 DEF Known
<1> QED
  BY <1>2, <1>4, <1>5 DEF Known

(* No session stays bound to an agent of another type. *)
LEMMA InvalidatedIsSound ==
    ASSUME NEW M, Sound(M), NEW t
    PROVE  /\ Sound(Invalidated(M, t)) /\ SameMaps(Invalidated(M, t), M)
           /\ \A i \in Live(M) :
                /\ Invalidated(M, t).sess[i].agent # NoId
                                 => KindOf[Invalidated(M, t).sess[i].agent] = t
                /\ Known(M.sess[i]) \subseteq Known(Invalidated(M, t).sess[i])
<1> DEFINE N == Invalidated(M, t)
           f == [i \in Ids |->
                   IF i \in Live(M) /\ M.sess[i].agent # NoId /\ KindOf[M.sess[i].agent] # t
                   THEN Bound(M.sess[i], NoId) ELSE M.sess[i]]
<1>1. M \in Manager
  BY DEF Sound
<1>2. ASSUME NEW i \in Live(M)
      PROVE  /\ f[i] \in Fields
             /\ f[i].agent # NoId => KindOf[f[i].agent] = t
             /\ Known(M.sess[i]) \subseteq Known(f[i])
  <2>1. i \in Ids /\ M.sess[i] \in Fields
    BY <1>1, <1>2, Parts
  <2>2. CASE M.sess[i].agent # NoId /\ KindOf[M.sess[i].agent] # t
    <3>1. f[i] = Bound(M.sess[i], NoId)
      BY <2>1, <2>2
    <3> HIDE DEF f
    <3> QED
      BY <2>1, <3>1, BoundKeepsKnown
  <2>3. CASE ~(M.sess[i].agent # NoId /\ KindOf[M.sess[i].agent] # t)
    <3>1. f[i] = M.sess[i]
      BY <2>1, <2>3
    <3> HIDE DEF f
    <3> QED
      BY <2>1, <2>3, <3>1
  <2> QED
    BY <2>2, <2>3
<1>3. \A i \in Ids : i \notin Live(M) => f[i] = Null
  BY DEF Live
<1>4. N = [M EXCEPT !.sess = f]
  BY DEF Invalidated
<1>5. f = [i \in Ids |-> f[i]]
  OBVIOUS
<1> HIDE DEF N, f
<1>6. f \in [Ids -> Fields \cup {Null}]
  BY <1>2, <1>3, <1>5
<1>7. N = [sess |-> f, active |-> M.active, lists |-> M.lists, counter |-> M.counter]
  BY <1>1, <1>4 DEF Manager
<1>8. N.sess = f /\ N.active = M.active /\ N.lists = M.lists /\ N.counter = M.counter
  BY <1>7
<1>9. N \in Manager
  BY <1>1, <1>6, <1>7, Parts DEF Manager
<1>10. Live(N) = Live(M)
  BY <1>2, <1>3, <1>8 DEF Live
<1>11. SameMaps(N, M)
  BY <1>8, <1>10 DEF SameMaps
<1>12. Sound(N)
  BY <1>9, <1>11, SameMapsAreSound
<1>13. \A i \in Live(M) : /\ N.sess[i].agent # NoId => KindOf[N.sess[i].agent] = t
                         /\ Known(M.sess[i]) \subseteq Known(N.sess[i])
  BY <1>2, <1>8
<1> QED
  BY <1>11, <1>12, <1>13 DEF N

(* What the prune command keeps of a chat is not what it removes, and has  *)
(* an owner in that chat.                                                  *)
LEMMA PrunedIsSound ==
    ASSUME NEW M, Sound(M), NEW merge \in BOOLEAN, NEW keep \in [Crowded(M) -> Ids],
           \A c \in Crowded(M) : keep[c] \in Keepable(M, c)
    PROVE  Sound(Pruned(M, keep, merge)) /\ Live(Pruned(M, keep, merge)) \subseteq Live(M)
<1> DEFINE gone == {i \in Live(M) : \E c \in DOMAIN keep :
                     /\ i \in InChat(M, c) /\ i # keep[c]
                     /\ merge \/ ~HasHistory(M, i)}
           N == Removed(M, gone)
           act == [k \in Keys |-> IF ListOf(N, k) # {} /\ Chat[k] \in DOMAIN keep
                                  THEN keep[Chat[k]] ELSE N.active[k]]
           P == [N EXCEPT !.active = act]
<1>1. M \in Manager /\ gone \in SUBSET Ids
  BY DEF Sound, Live
<1>2. Pruned(M, keep, merge) = P
  BY DEF Pruned
<1>3. \A c \in DOMAIN keep : keep[c] \in InChat(M, c)
  BY DEF Keepable
<1>4. /\ \A j, h \in Keys, i \in Ids : M.lists[j][i] > 0 /\ M.lists[h][i] > 0 => j = h
  BY SoundFacts
<1>5. \A c \in DOMAIN keep : keep[c] \notin gone
  <2> SUFFICES ASSUME NEW c \in DOMAIN keep, NEW d \in DOMAIN keep,
                      keep[c] \in InChat(M, d), keep[c] # keep[d]
               PROVE  FALSE
    OBVIOUS
  <2>1. keep[c] \in Ids /\ c \in ChatOf(M, keep[c]) /\ d \in ChatOf(M, keep[c])
    BY <1>3 DEF InChat
  <2> QED
    BY <1>1, <1>4, <2>1, Listing
<1> HIDE DEF gone
<1>6. /\ Sound(N) /\ Live(N) = Live(M) \ gone
      /\ Drops(M, gone, N)
  BY <1>1, RemovedIsSound, RemovedEffect
<1> HIDE DEF N
<1>7. N \in Manager
  BY <1>6 DEF Sound
<1>8. act \in [Keys -> Ids \cup {0}]
  BY <1>7, Parts
<1>9. \A k \in Keys : act[k] = IF ListOf(N, k) # {} /\ Chat[k] \in DOMAIN keep
                              THEN keep[Chat[k]] ELSE N.active[k]
  OBVIOUS
<1> HIDE DEF act
<1>10. P = [sess |-> N.sess, active |-> act, lists |-> N.lists, counter |-> N.counter]
  BY <1>7 DEF Manager
<1> HIDE DEF P
<1>11. P \in Manager
  BY <1>7, <1>8, <1>10, Parts DEF Manager
<1>12. P.sess = N.sess /\ P.lists = N.lists /\ P.counter = N.counter /\ P.active = act
  BY <1>10
<1>13. /\ \A i \in Ids : N.sess[i] # Null <=> \E j \in Keys : N.lists[j][i] > 0
       /\ \A i \in Ids : N.sess[i] # Null => i <= N.counter
       /\ \A j \in Keys, i \in Ids : N.lists[j][i] <= 1
       /\ \A j, h \in Keys, i \in Ids : N.lists[j][i] > 0 /\ N.lists[h][i] > 0 => j = h
       /\ \A j \in Keys : N.active[j] # 0 =>
           /\ N.active[j] \in Ids /\ N.sess[N.active[j]] # Null
           /\ \E h \in Keys : Chat[j] = Chat[h] /\ N.lists[h][N.active[j]] > 0
  BY <1>6, SoundFacts
<1>14. ASSUME NEW k \in Keys, P.active[k] # 0
       PROVE  /\ P.sess[P.active[k]] # Null
              /\ \E h \in Keys : Chat[k] = Chat[h] /\ P.lists[h][P.active[k]] > 0
  <2>1. CASE ListOf(N, k) # {} /\ Chat[k] \in DOMAIN keep
    <3> DEFINE i == keep[Chat[k]]
    <3>1. P.active[k] = i
      BY <1>9, <1>12, <1>14, <2>1
    <3>2. i \in Ids /\ i \in Live(M) /\ Chat[k] \in ChatOf(M, i) /\ i \notin gone
      BY <1>3, <1>5, <2>1 DEF InChat
    <3>3. PICK h \in Keys : Chat[k] = Chat[h] /\ M.lists[h][i] > 0
      BY <1>1, <3>2, Listing
    <3> HIDE DEF i
    <3>4. N.lists[h][i] > 0 /\ N.sess[i] # Null
      BY <1>6, <3>2, <3>3 DEF Drops, Live
    <3> QED
      BY <1>12, <3>1, <3>3, <3>4
  <2>2. CASE ~(ListOf(N, k) # {} /\ Chat[k] \in DOMAIN keep)
    <3>1. P.active[k] = N.active[k]
      BY <1>9, <1>12, <1>14, <2>2
    <3> QED
      BY <1>12, <1>13, <1>14, <3>1
  <2> QED
    BY <2>1, <2>2
<1>15. Sound(P)
  BY <1>11, <1>12, <1>13, <1>14, Soundness
<1>16. Live(P) \subseteq Live(M)
  BY <1>6, <1>12 DEF Live
<1> QED
  BY <1>2, <1>15, <1>16

-----------------------------------------------------------------------------
(* The invariant holds at the first start. *)
LEMMA StoreStarts == Init => StoreInv
<1> SUFFICES ASSUME Init PROVE StoreInv
  OBVIOUS
<1>1. mem = Blank /\ Sound(mem) /\ Live(mem) = {}
  BY BlankIsSound DEF Init
<1>2. Sound(file)
  BY FilesAssumption DEF Init, Sound
<1>3. copy = [w \in Savers |-> Null] /\ cli = Null /\ up = FALSE /\ behind = FALSE /\ durable = {}
  BY DEF Init
<1>4. left \in [Bounds -> Nat]
  BY DEF Init, Bounds
<1>5. seen = [w \in Savers |-> {}] /\ overtaken = [w \in Savers |-> FALSE]
  BY DEF Init
<1>6. kind \in Kinds
  BY DEF Init
<1>7. TypeOK
  <2>1. copy \in [Savers -> Manager \cup {Null}] /\ cli \in Manager \cup {Null}
    BY <1>3
  <2>2. seen \in [Savers -> SUBSET Ids] /\ overtaken \in [Savers -> BOOLEAN]
    BY <1>5
  <2> QED
    BY <1>1, <1>2, <1>3, <1>4, <1>6, <2>1, <2>2 DEF TypeOK, Sound
<1>8. StoredInv
  BY <1>1, <1>2, <1>3 DEF StoredInv
<1>9. DownInv
  BY <1>1, <1>3 DEF DownInv
<1>10. SaveInv
  BY <1>3, <1>5 DEF SaveInv
<1>11. StructureIsCurrent /\ DurableIsSaved /\ BoundToAgent /\ durable \subseteq Live(mem)
  BY <1>3 DEF StructureIsCurrent, DurableIsSaved, BoundToAgent
<1> QED
  BY <1>7, <1>8, <1>9, <1>10, <1>11 DEF StoreInv

LEMMA LessIsNat ==
    ASSUME NEW l \in [Bounds -> Nat], NEW b \in Bounds, l[b] > 0
    PROVE  /\ Less(l, b) \in [Bounds -> Nat]
           /\ \A c \in Bounds \ {b} : Less(l, b)[c] = l[c]
BY DEF Less

(* A step that leaves the bounds as they are or spends one. *)
LEMMA SpendIsNat ==
    ASSUME left \in [Bounds -> Nat], NEW b \in Bounds, Spend(b)
    PROVE  left' \in [Bounds -> Nat]
BY LessIsNat DEF Spend, Afford

-----------------------------------------------------------------------------
(***************************************************************************)
(* Requests that change the maps: what they turn the manager into.         *)
(***************************************************************************)

(* M keeps the sessions of the memory as they are, all but those in S, and *)
(* what is new in it is bound to the agent of the project, if at all.      *)
Follows(M, S) ==
    /\ Sound(M)
    /\ \A i \in Live(M) \cap Live(mem) : M.sess[i] = mem.sess[i]
    /\ Live(mem) \ S \subseteq Live(M)
    /\ \A i \in Live(M) \ Live(mem) : M.sess[i].agent \in Reported \cup {NoId}

LEMMA CreatedFollows ==
    ASSUME StoreInv, NEW k \in Keys, NEW a \in Reported \cup {NoId},
           mem.counter < MaxSessions,
           NEW N \in {SideCreated(mem, k, a), Created(mem, k, a)}, NEW S
    PROVE  Follows(N, S)
<1>1. Sound(mem) /\ a \in AgentIds \cup {NoId}
  BY DEF StoreInv, StoredInv, Reported
<1>2. /\ Sound(N) /\ NextId(mem) \notin Live(mem)
      /\ N.sess[NextId(mem)] = [agent |-> a, past |-> {}, hist |-> FALSE]
      /\ Live(N) = Live(mem) \cup {NextId(mem)}
      /\ \A i \in Live(mem) : N.sess[i] = mem.sess[i]
  BY <1>1, CreatedSessions
<1>3. N.sess[NextId(mem)].agent = a
  BY <1>2
<1> QED
  BY <1>2, <1>3 DEF Follows

LEMMA SwitchedFollows ==
    ASSUME StoreInv, NEW k \in Keys, NEW i \in ListOf(mem, k) \cap Live(mem), NEW S
    PROVE  Follows([mem EXCEPT !.active[k] = i], S)
<1>1. Sound(mem) /\ i \in Ids /\ mem.sess[i] # Null /\ mem.lists[k][i] > 0
  BY DEF StoreInv, StoredInv, ListOf, Live
<1> DEFINE N == [mem EXCEPT !.active[k] = i]
<1>2. Sound(N) /\ Live(N) = Live(mem) /\ \A j \in Ids : N.sess[j] = mem.sess[j]
  BY <1>1, SwitchedIsSound
<1> HIDE DEF N
<1>3. Follows(N, S)
  BY <1>2 DEF Follows, Live
<1> QED
  BY <1>3 DEF N

LEMMA RemovedFollows ==
    ASSUME StoreInv, NEW S \in SUBSET Ids
    PROVE  Follows(Removed(mem, S), S)
<1>1. Sound(mem)
  BY DEF StoreInv, StoredInv
<1>2. /\ Sound(Removed(mem, S)) /\ Live(Removed(mem, S)) = Live(mem) \ S
      /\ \A i \in Ids \ S : Removed(mem, S).sess[i] = mem.sess[i]
  BY <1>1, RemovedIsSound
<1> QED
  BY <1>2 DEF Follows, Live

(* What a request leaves of the bounds; a write that fails takes one more. *)
Budgets == {l \in [Bounds -> Nat] : l["fault"] = left["fault"]}

(* Every request that changes the maps commits such a manager. *)
MapsChange ==
    \/ \E k \in Keys : Request(k)
    \/ \E i \in Ids : DeleteByID(i)
    \/ \E a \in AgentIds : DeleteByAgentSessionID(a)

LEMMA MapsChangeCommits ==
    ASSUME StoreInv, MapsChange
    PROVE  /\ Locked
           /\ \E M, S, l : Follows(M, S) /\ l \in Budgets /\ Commit(M, S, l)
<1>1. left \in [Bounds -> Nat] /\ left \in Budgets
  BY DEF StoreInv, TypeOK, Budgets
<1>2. Afford("change") => Less(left, "change") \in Budgets
  BY <1>1, LessIsNat DEF Afford, Bounds, Budgets
<1>3. NoId \in Reported \cup {NoId}
  OBVIOUS
<1>4. ASSUME NEW k \in Keys, GetOrCreateActive(k) \/ NewSession(k)
      PROVE  Locked /\ \E M, S, l : Follows(M, S) /\ l \in Budgets /\ Commit(M, S, l)
  <2>1. /\ Locked /\ mem.counter < MaxSessions
        /\ Commit(Created(mem, k, NoId), {NextId(mem)}, left)
    BY <1>4 DEF GetOrCreateActive, NewSession
  <2>2. Follows(Created(mem, k, NoId), {NextId(mem)})
    BY <1>3, <2>1, CreatedFollows
  <2> QED
    BY <1>1, <2>1, <2>2
<1>5. ASSUME NEW k \in Keys, NewSideSession(k)
      PROVE  Locked /\ \E M, S, l : Follows(M, S) /\ l \in Budgets /\ Commit(M, S, l)
  <2>1. /\ Locked /\ mem.counter < MaxSessions
        /\ Commit(SideCreated(mem, k, NoId), {NextId(mem)}, left)
    BY <1>5 DEF NewSideSession
  <2>2. Follows(SideCreated(mem, k, NoId), {NextId(mem)})
    BY <1>3, <2>1, CreatedFollows
  <2> QED
    BY <1>1, <2>1, <2>2
<1>6. ASSUME NEW k \in Keys, NEW i \in ListOf(mem, k) \cap Live(mem), Locked, Afford("change"),
             Commit([mem EXCEPT !.active[k] = i], {}, Less(left, "change"))
      PROVE  Locked /\ \E M, S, l : Follows(M, S) /\ l \in Budgets /\ Commit(M, S, l)
  <2>1. Follows([mem EXCEPT !.active[k] = i], {})
    BY <1>6, SwitchedFollows
  <2> QED
    BY <1>2, <1>6, <2>1
<1>7. ASSUME NEW k \in Keys, NEW i \in Ids, SwitchSession(k, i)
      PROVE  Locked /\ \E M, S, l : Follows(M, S) /\ l \in Budgets /\ Commit(M, S, l)
  BY <1>6, <1>7 DEF SwitchSession
<1>8. ASSUME NEW k \in Keys, NEW a \in AgentIds, SwitchToAgentSession(k, a)
      PROVE  Locked /\ \E M, S, l : Follows(M, S) /\ l \in Budgets /\ Commit(M, S, l)
  <2>1. CASE \E i \in BoundTo(k, a) :
               /\ Afford("change")
               /\ Commit([mem EXCEPT !.active[k] = i], {}, Less(left, "change"))
    BY <1>6, <1>8, <2>1 DEF SwitchToAgentSession, BoundTo
  <2>2. CASE mem.counter < MaxSessions /\ Commit(Created(mem, k, a), {NextId(mem)}, left)
    <3>1. Locked /\ a \in Reported
      BY <1>8 DEF SwitchToAgentSession
    <3>2. Follows(Created(mem, k, a), {NextId(mem)})
      BY <2>2, <3>1, CreatedFollows
    <3> QED
      BY <1>1, <2>2, <3>1, <3>2
  <2> QED
    BY <1>8, <2>1, <2>2 DEF SwitchToAgentSession
<1>9. ASSUME NEW i \in Ids, DeleteByID(i)
      PROVE  Locked /\ \E M, S, l : Follows(M, S) /\ l \in Budgets /\ Commit(M, S, l)
  <2>1. Follows(Removed(mem, {i}), {i})
    BY <1>9, RemovedFollows
  <2> QED
    BY <1>1, <1>9, <2>1 DEF DeleteByID
<1>10. ASSUME NEW a \in AgentIds, DeleteByAgentSessionID(a)
       PROVE  Locked /\ \E M, S, l : Follows(M, S) /\ l \in Budgets /\ Commit(M, S, l)
  <2> DEFINE S == {i \in Live(mem) : mem.sess[i].agent = a}
  <2>1. Locked /\ Commit(Removed(mem, S), S, left)
    BY <1>10 DEF DeleteByAgentSessionID
  <2>2. S \in SUBSET Ids
    BY DEF Live
  <2> HIDE DEF S
  <2>3. Follows(Removed(mem, S), S)
    BY <2>2, RemovedFollows
  <2> QED
    BY <1>1, <2>1, <2>3
<1> QED
  BY <1>4, <1>5, <1>7, <1>8, <1>9, <1>10 DEF MapsChange, Request

-----------------------------------------------------------------------------
(***************************************************************************)
(* Every step keeps the invariant.                                         *)
(***************************************************************************)

LEMMA NothingSeenWithoutCopy ==
    ASSUME StoreInv, NEW w \in Savers, copy[w] = Null
    PROVE  seen[w] = {}
BY DEF StoreInv, SaveInv

LEMMA CommitKeeps ==
    ASSUME StoreInv, Locked, NEW M, NEW S, NEW l \in Budgets,
           Follows(M, S), Commit(M, S, l)
    PROVE  StoreInv'
<1>1. /\ M \in Manager /\ Sound(M) /\ Counted(M) /\ Owned(M) /\ AtHome(M)
      /\ \A i \in Live(M) \cap Live(mem) : M.sess[i] = mem.sess[i]
      /\ Live(mem) \ S \subseteq Live(M)
      /\ \A i \in Live(M) \ Live(mem) : M.sess[i].agent \in Reported \cup {NoId}
  BY DEF Follows, Sound
<1>2. /\ mem' = M /\ up /\ up' = up /\ kind' = kind /\ cli' = cli
      /\ copy' = copy /\ seen' = seen /\ overtaken' = overtaken
      /\ \A w \in Savers : copy[w] = Null /\ seen[w] = {}
  BY NothingSeenWithoutCopy DEF Commit, Locked, saveVars
<1>3. /\ file' = file \/ file' = M
      /\ ~behind' => file' = M
      /\ behind' \in BOOLEAN
      /\ \/ file' = M /\ durable' = Live(M)
         \/ file' = file /\ durable' = durable \ S
      /\ left' \in [Bounds -> Nat]
  <2>0. l \in [Bounds -> Nat] /\ l["fault"] = left["fault"]
    BY DEF Budgets
  <2>1. CASE /\ file' = Snapshot(M) /\ behind' = FALSE
             /\ durable' = Live(M) /\ left' = l
    BY <1>1, <2>0, <2>1, SnapshotIsEqual
  <2>2. CASE /\ Afford("fault") /\ left' = Less(l, "fault") /\ behind' = TRUE
             /\ durable' = durable \ S /\ file' = file
    BY <2>0, <2>2, LessIsNat DEF Bounds, Afford
  <2> QED
    BY <2>1, <2>2 DEF Commit
<1>4. TypeOK /\ StoredInv /\ durable \subseteq Live(mem) /\ DurableIsSaved /\ BoundToAgent
  BY DEF StoreInv
<1>5. TypeOK'
  <2>1. Counted(mem') /\ Counted(file')
    BY <1>1, <1>2, <1>3, <1>4 DEF TypeOK
  <2>2. durable' \subseteq Ids
    BY <1>3, <1>4 DEF TypeOK, Live
  <2>3. mem' \in Manager /\ file' \in Manager
    BY <1>1, <1>2, <1>3, <1>4 DEF TypeOK
  <2> QED
    BY <1>2, <1>3, <1>4, <2>1, <2>2, <2>3 DEF TypeOK
<1>6. StoredInv'
  BY <1>1, <1>2, <1>3, <1>4 DEF StoredInv
<1>7. DownInv'
  BY <1>2 DEF DownInv
<1>8. SaveInv'
  BY <1>2 DEF SaveInv
<1>9. (durable \subseteq Live(mem))'
  BY <1>1, <1>2, <1>3, <1>4
<1>10. StructureIsCurrent'
  BY <1>2, <1>3 DEF StructureIsCurrent
<1>11. DurableIsSaved'
  BY <1>1, <1>2, <1>3, <1>4 DEF DurableIsSaved
<1>12. BoundToAgent'
  BY <1>1, <1>2, <1>4 DEF BoundToAgent, Reported
<1> QED
  BY <1>5, <1>6, <1>7, <1>8, <1>9, <1>10, <1>11, <1>12 DEF StoreInv

LEMMA EditKeeps ==
    ASSUME StoreInv, NEW i \in Live(mem), NEW s \in Fields,
           s.agent \in Reported \cup {NoId, mem.sess[i].agent}, Edit(i, s)
    PROVE  StoreInv'
<1>1. TypeOK /\ StoredInv /\ durable \subseteq Live(mem) /\ DurableIsSaved /\ BoundToAgent
  BY DEF StoreInv
<1> DEFINE M == [mem EXCEPT !.sess[i] = s]
<1>2. /\ Sound(M) /\ SameMaps(M, mem) /\ M.sess[i] = s
      /\ \A j \in Ids \ {i} : M.sess[j] = mem.sess[j]
  BY <1>1, EditedIsSound DEF StoredInv
<1>3. /\ mem' = M /\ up /\ up' = up /\ kind' = kind /\ cli' = cli /\ file' = file
      /\ copy' = copy /\ overtaken' = overtaken /\ behind' = behind
      /\ durable' = durable \ {i} /\ seen' = [w \in Savers |-> seen[w] \ {i}]
  BY DEF Edit
<1> HIDE DEF M
<1>4. left' \in [Bounds -> Nat]
  BY <1>1, SpendIsNat DEF TypeOK, Edit, Bounds
<1>5. TypeOK'
  <2>1. M \in Manager /\ Counted(M)
    BY <1>2 DEF Sound
  <2>2. seen' \in [Savers -> SUBSET Ids]
    BY <1>1, <1>3 DEF TypeOK
  <2> QED
    BY <1>1, <1>3, <1>4, <2>1, <2>2 DEF TypeOK
<1>6. StoredInv'
  BY <1>1, <1>2, <1>3 DEF StoredInv
<1>7. DownInv'
  BY <1>3 DEF DownInv
<1>8. SaveInv'
  <2> SUFFICES ASSUME NEW w \in Savers
               PROVE  /\ copy'[w] # Null => SameMaps(copy'[w], mem')
                      /\ \A j \in seen'[w] : /\ j \in Live(mem') /\ copy'[w] # Null
                                             /\ copy'[w].sess[j] = mem'.sess[j]
                      /\ copy'[w] # Null /\ ~overtaken'[w] => durable' \subseteq seen'[w]
    BY DEF SaveInv
  <2>1. /\ copy[w] # Null => SameMaps(copy[w], mem)
        /\ \A j \in seen[w] : /\ j \in Live(mem) /\ copy[w] # Null
                              /\ copy[w].sess[j] = mem.sess[j]
        /\ copy[w] # Null /\ ~overtaken[w] => durable \subseteq seen[w]
    BY DEF StoreInv, SaveInv
  <2>2. seen'[w] = seen[w] \ {i}
    BY <1>3
  <2>3. copy[w] # Null => SameMaps(copy[w], M)
    BY <1>2, <2>1 DEF SameMaps
  <2>4. ASSUME NEW j \in seen'[w]
        PROVE  /\ j \in Live(M) /\ copy[w] # Null /\ copy[w].sess[j] = M.sess[j]
    BY <1>2, <2>1, <2>2, <2>4 DEF SameMaps, Live
  <2> QED
    BY <1>3, <2>1, <2>2, <2>3, <2>4
<1>9. (durable \subseteq Live(mem))'
  BY <1>1, <1>2, <1>3 DEF SameMaps
<1>10. StructureIsCurrent'
  BY <1>2, <1>3 DEF StoreInv, StructureIsCurrent, SameMaps
<1>11. DurableIsSaved'
  BY <1>1, <1>2, <1>3 DEF DurableIsSaved, Live
<1>12. BoundToAgent'
  <2> SUFFICES ASSUME NEW j \in Live(M), M.sess[j].agent # NoId
               PROVE  KindOf[M.sess[j].agent] = kind
    BY <1>3 DEF BoundToAgent
  <2>1. j \in Live(mem)
    BY <1>2 DEF SameMaps
  <2> QED
    BY <1>1, <1>2, <1>3, <2>1 DEF BoundToAgent, Live, Reported
<1> QED
  BY <1>5, <1>6, <1>7, <1>8, <1>9, <1>10, <1>11, <1>12 DEF StoreInv

(* Every request that changes the fields of a session is such an edit. *)
FieldsChange(i) ==
    \/ AddHistory(i) \/ ClearHistory(i)
    \/ \E a \in AgentIds \cup {NoId} : SetAgentSessionID(i, a)
    \/ \E a \in AgentIds : CompareAndSetAgentSessionID(i, a)

LEMMA FieldsChangeEdits ==
    ASSUME StoreInv, NEW i \in Ids, FieldsChange(i)
    PROVE  /\ i \in Live(mem)
           /\ \E s \in Fields : /\ s.agent \in Reported \cup {NoId, mem.sess[i].agent}
                                /\ Known(mem.sess[i]) \subseteq Known(s)
                                /\ Edit(i, s)
<1>1. i \in Live(mem)
  BY DEF FieldsChange, AddHistory, ClearHistory, SetAgentSessionID, CompareAndSetAgentSessionID
<1>2. mem.sess[i] \in Fields
  BY <1>1, Parts DEF StoreInv, TypeOK
<1>3. ASSUME NEW b \in BOOLEAN, Edit(i, [mem.sess[i] EXCEPT !.hist = b])
      PROVE  \E s \in Fields : /\ s.agent \in Reported \cup {NoId, mem.sess[i].agent}
                               /\ Known(mem.sess[i]) \subseteq Known(s)
                               /\ Edit(i, s)
  <2> DEFINE s == [mem.sess[i] EXCEPT !.hist = b]
  <2>1. s \in Fields /\ s.agent = mem.sess[i].agent /\ s.past = mem.sess[i].past
    BY <1>2 DEF Fields
  <2>2. Known(s) = Known(mem.sess[i])
    BY <2>1 DEF Known
  <2>3. Edit(i, s)
    BY <1>3
  <2> HIDE DEF s
  <2> QED
    BY <2>1, <2>2, <2>3
<1>4. ASSUME NEW a \in AgentIds \cup {NoId}, SetAgentSessionID(i, a)
      PROVE  \E s \in Fields : /\ s.agent \in Reported \cup {NoId, mem.sess[i].agent}
                               /\ Known(mem.sess[i]) \subseteq Known(s)
                               /\ Edit(i, s)
  <2>1. a \in Reported \cup {NoId} /\ Edit(i, Bound(mem.sess[i], a))
    BY <1>4 DEF SetAgentSessionID
  <2> QED
    BY <1>2, <2>1, BoundKeepsKnown
<1>5. ASSUME NEW a \in AgentIds, CompareAndSetAgentSessionID(i, a)
      PROVE  \E s \in Fields : /\ s.agent \in Reported \cup {NoId, mem.sess[i].agent}
                               /\ Known(mem.sess[i]) \subseteq Known(s)
                               /\ Edit(i, s)
  <2> DEFINE s == [mem.sess[i] EXCEPT !.agent = a]
  <2>1. mem.sess[i].agent = NoId /\ a \in Reported /\ Edit(i, s)
    BY <1>5 DEF CompareAndSetAgentSessionID
  <2>2. s \in Fields /\ s.agent = a /\ s.past = mem.sess[i].past
    BY <1>2 DEF Fields
  <2>3. Known(mem.sess[i]) \subseteq Known(s)
    BY <2>1, <2>2 DEF Known
  <2> HIDE DEF s
  <2> QED
    BY <2>1, <2>2, <2>3
<1> QED
  BY <1>1, <1>3, <1>4, <1>5 DEF FieldsChange, AddHistory, ClearHistory

-----------------------------------------------------------------------------
LEMMA SaveCopiesKeeps ==
    ASSUME StoreInv, NEW w \in Savers, SaveCopies(w)
    PROVE  StoreInv'
<1>1. /\ TypeOK /\ StoredInv /\ durable \subseteq Live(mem) /\ StructureIsCurrent
      /\ DurableIsSaved /\ BoundToAgent
  BY DEF StoreInv
<1>2. Snapshot(mem) = mem /\ mem \in Manager
  BY <1>1, SnapshotIsEqual DEF TypeOK
<1>3. /\ mem' = mem /\ up /\ up' = up /\ kind' = kind /\ cli' = cli /\ file' = file
      /\ behind' = behind /\ durable' = durable
      /\ copy' = [copy EXCEPT ![w] = mem] /\ seen' = [seen EXCEPT ![w] = Live(mem)]
      /\ overtaken' = [overtaken EXCEPT ![w] = FALSE]
  BY <1>2 DEF SaveCopies
<1>4. left' \in [Bounds -> Nat]
  BY <1>1, SpendIsNat DEF TypeOK, SaveCopies, Bounds
<1>5. TypeOK'
  <2>1. Live(mem) \subseteq Ids
    BY DEF Live
  <2>2. copy' \in [Savers -> Manager \cup {Null}] /\ seen' \in [Savers -> SUBSET Ids]
        /\ overtaken' \in [Savers -> BOOLEAN]
    BY <1>1, <1>2, <1>3, <2>1 DEF TypeOK
  <2> QED
    BY <1>1, <1>3, <1>4, <2>2 DEF TypeOK
<1>6. StoredInv'
  BY <1>1, <1>3 DEF StoredInv, TypeOK
<1>7. DownInv'
  BY <1>3 DEF DownInv
<1>8. SaveInv'
  <2> SUFFICES ASSUME NEW v \in Savers
               PROVE  /\ copy'[v] # Null => SameMaps(copy'[v], mem')
                      /\ \A j \in seen'[v] : /\ j \in Live(mem') /\ copy'[v] # Null
                                             /\ copy'[v].sess[j] = mem'.sess[j]
                      /\ copy'[v] # Null /\ ~overtaken'[v] => durable' \subseteq seen'[v]
    BY DEF SaveInv
  <2>1. CASE v = w
    <3>1. copy'[v] = mem /\ seen'[v] = Live(mem)
      BY <1>1, <1>3, <2>1 DEF TypeOK
    <3>2. mem # Null
      BY <1>2, Parts
    <3> QED
      BY <1>1, <1>3, <3>1, <3>2 DEF SameMaps
  <2>2. CASE v # w
    <3>1. copy'[v] = copy[v] /\ seen'[v] = seen[v] /\ overtaken'[v] = overtaken[v]
      BY <1>1, <1>3, <2>2 DEF TypeOK
    <3> QED
      BY <1>3, <3>1 DEF StoreInv, SaveInv
  <2> QED
    BY <2>1, <2>2
<1>9. /\ (durable \subseteq Live(mem))' /\ StructureIsCurrent'
      /\ DurableIsSaved' /\ BoundToAgent'
  BY <1>1, <1>3 DEF StructureIsCurrent, DurableIsSaved, BoundToAgent
<1> QED
  BY <1>5, <1>6, <1>7, <1>8, <1>9 DEF StoreInv

LEMMA SaveEndsKeeps ==
    ASSUME StoreInv, NEW w \in Savers, SaveWrites(w) \/ SaveFails(w)
    PROVE  StoreInv'
<1>1. /\ TypeOK /\ StoredInv /\ SaveInv /\ durable \subseteq Live(mem) /\ StructureIsCurrent
      /\ DurableIsSaved /\ BoundToAgent /\ DownInv
  BY DEF StoreInv
<1> DEFINE c == copy[w]
<1>2. /\ c # Null /\ mem' = mem /\ up' = up /\ kind' = kind /\ cli' = cli
      /\ copy' = [copy EXCEPT ![w] = Null] /\ seen' = [seen EXCEPT ![w] = {}]
  BY DEF SaveWrites, SaveFails, saveVars
<1>3. up
  BY <1>1, <1>2 DEF DownInv
<1>4. /\ c \in Manager /\ Sound(c) /\ SameMaps(c, mem)
      /\ \A i \in seen[w] : i \in Live(mem) /\ c.sess[i] = mem.sess[i]
      /\ ~overtaken[w] => durable \subseteq seen[w]
  BY <1>1, <1>2 DEF StoredInv, SaveInv, Sound
<1>5. left' \in [Bounds -> Nat]
  BY <1>1, SpendIsNat DEF TypeOK, SaveWrites, SaveFails, Bounds
<1>6. \/ /\ file' = c /\ behind' = FALSE
         /\ durable' = seen[w] \cup (IF overtaken[w] THEN {} ELSE durable)
         /\ overtaken' = [v \in Savers |-> v # w /\ (copy[v] # Null)]
      \/ /\ file' = file /\ behind' = behind /\ durable' = durable
         /\ overtaken' = [overtaken EXCEPT ![w] = FALSE]
  BY DEF SaveWrites, SaveFails
<1> HIDE DEF c
<1>7. /\ copy' \in [Savers -> Manager \cup {Null}] /\ seen' \in [Savers -> SUBSET Ids]
      /\ copy'[w] = Null /\ seen'[w] = {}
      /\ \A v \in Savers \ {w} : copy'[v] = copy[v] /\ seen'[v] = seen[v]
  BY <1>1, <1>2 DEF TypeOK
<1>8. /\ overtaken' \in [Savers -> BOOLEAN]
      /\ \A v \in Savers \ {w} :
            \/ overtaken'[v] = overtaken[v] /\ durable' = durable
            \/ overtaken'[v] = (copy[v] # Null)
  BY <1>1, <1>6 DEF TypeOK
<1>9. durable' \subseteq Live(mem)
  BY <1>1, <1>4, <1>6
<1>10. TypeOK'
  <2>1. durable' \subseteq Ids
    BY <1>9 DEF Live
  <2>2. file' \in Manager /\ Counted(file')
    BY <1>1, <1>4, <1>6 DEF TypeOK, Sound
  <2>3. behind' \in BOOLEAN
    BY <1>1, <1>6 DEF TypeOK
  <2> QED
    BY <1>1, <1>2, <1>5, <1>7, <1>8, <2>1, <2>2, <2>3 DEF TypeOK
<1>11. StoredInv'
  <2>1. Sound(file')
    BY <1>1, <1>4, <1>6 DEF StoredInv
  <2>2. \A v \in Savers : copy'[v] # Null => Sound(copy'[v])
    BY <1>1, <1>7 DEF StoredInv
  <2> QED
    BY <1>1, <1>2, <2>1, <2>2 DEF StoredInv
<1>12. DownInv'
  BY <1>2, <1>3 DEF DownInv
<1>13. SaveInv'
  <2> SUFFICES ASSUME NEW v \in Savers
               PROVE  /\ copy'[v] # Null => SameMaps(copy'[v], mem')
                      /\ \A j \in seen'[v] : /\ j \in Live(mem') /\ copy'[v] # Null
                                             /\ copy'[v].sess[j] = mem'.sess[j]
                      /\ copy'[v] # Null /\ ~overtaken'[v] => durable' \subseteq seen'[v]
    BY DEF SaveInv
  <2>1. CASE v = w
    BY <1>7, <2>1
  <2>2. CASE v # w
    <3>1. copy'[v] = copy[v] /\ seen'[v] = seen[v]
      BY <1>7, <2>2
    <3>2. copy'[v] # Null /\ ~overtaken'[v] => durable' = durable /\ overtaken[v] = overtaken'[v]
      BY <1>8, <2>2, <3>1
    <3> QED
      BY <1>1, <1>2, <3>1, <3>2 DEF SaveInv
  <2> QED
    BY <2>1, <2>2
<1>14. StructureIsCurrent'
  BY <1>1, <1>2, <1>4, <1>6 DEF StructureIsCurrent, SameMaps
<1>15. DurableIsSaved'
  BY <1>1, <1>2, <1>4, <1>6 DEF DurableIsSaved
<1>16. BoundToAgent' /\ (durable \subseteq Live(mem))'
  BY <1>1, <1>2, <1>9 DEF BoundToAgent
<1> QED
  BY <1>10, <1>11, <1>12, <1>13, <1>14, <1>15, <1>16 DEF StoreInv

LEMMA CrashKeeps ==
    ASSUME StoreInv, Crash
    PROVE  StoreInv'
<1>1. TypeOK /\ StoredInv
  BY DEF StoreInv
<1>2. /\ up' = FALSE /\ mem' = Blank /\ file' = file /\ kind' = kind /\ cli' = cli
      /\ copy' = [w \in Savers |-> Null] /\ seen' = [w \in Savers |-> {}]
      /\ overtaken' = [w \in Savers |-> FALSE] /\ durable' = {} /\ behind' = FALSE
  BY DEF Crash
<1>3. left' \in [Bounds -> Nat]
  BY <1>1, SpendIsNat DEF TypeOK, Crash, Bounds
<1>4. Sound(mem')
  BY <1>2, BlankIsSound
<1>5. TypeOK'
  <2>1. /\ copy' \in [Savers -> Manager \cup {Null}] /\ seen' \in [Savers -> SUBSET Ids]
        /\ overtaken' \in [Savers -> BOOLEAN]
    BY <1>2
  <2>2. mem' \in Manager /\ Counted(mem')
    BY <1>4 DEF Sound
  <2> QED
    BY <1>1, <1>2, <1>3, <2>1, <2>2 DEF TypeOK
<1>6. StoredInv'
  BY <1>1, <1>2, <1>4 DEF StoredInv
<1>7. DownInv' /\ SaveInv'
  BY <1>2 DEF DownInv, SaveInv
<1>8. /\ (durable \subseteq Live(mem))' /\ StructureIsCurrent'
      /\ DurableIsSaved' /\ BoundToAgent'
  BY <1>2 DEF StructureIsCurrent, DurableIsSaved, BoundToAgent
<1> QED
  BY <1>5, <1>6, <1>7, <1>8 DEF StoreInv

LEMMA StartKeeps ==
    ASSUME StoreInv, NEW t \in Kinds, Start(t)
    PROVE  StoreInv'
<1>1. TypeOK /\ StoredInv
  BY DEF StoreInv
<1> DEFINE M == Invalidated(file, t)
<1>2. /\ Sound(M) /\ SameMaps(M, file)
      /\ \A i \in Live(file) : M.sess[i].agent # NoId => KindOf[M.sess[i].agent] = t
  BY <1>1, InvalidatedIsSound DEF StoredInv
<1>3. M \in Manager /\ Counted(M) /\ Snapshot(M) = M
  BY <1>2, SnapshotIsEqual DEF Sound
<1>4. /\ ~up /\ up' = TRUE /\ kind' = t /\ mem' = M /\ cli' = cli
      /\ copy' = copy /\ seen' = seen /\ overtaken' = overtaken
      /\ \/ M = file /\ behind' = FALSE /\ file' = file /\ left' = left
         \/ file' = Snapshot(M) /\ behind' = FALSE /\ left' = left
         \/ Spend("fault") /\ behind' = TRUE /\ file' = file
      /\ durable' = IF behind' THEN {} ELSE Live(M)
  BY DEF Start, Loaded, saveVars
<1> HIDE DEF M
<1>5. /\ ~behind' => file' = M
      /\ file' \in {M, file} /\ behind' \in BOOLEAN
      /\ durable' \subseteq Live(M)
      /\ durable' # {} => ~behind'
  BY <1>3, <1>4
<1>6. left' \in [Bounds -> Nat]
  BY <1>1, <1>4, SpendIsNat DEF TypeOK, Bounds
<1>7. \A w \in Savers : copy[w] = Null /\ seen[w] = {}
  BY <1>4, NothingSeenWithoutCopy DEF StoreInv, DownInv
<1>8. TypeOK'
  <2>1. file' \in Manager /\ Counted(file')
    BY <1>1, <1>3, <1>5 DEF TypeOK
  <2>2. durable' \subseteq Ids
    BY <1>5 DEF Live
  <2> QED
    BY <1>1, <1>3, <1>4, <1>5, <1>6, <2>1, <2>2 DEF TypeOK
<1>9. StoredInv'
  BY <1>1, <1>2, <1>4, <1>5 DEF StoredInv
<1>10. DownInv' /\ SaveInv'
  BY <1>4, <1>7 DEF DownInv, SaveInv
<1>11. (durable \subseteq Live(mem))' /\ StructureIsCurrent' /\ DurableIsSaved'
  BY <1>4, <1>5 DEF StructureIsCurrent, DurableIsSaved
<1>12. BoundToAgent'
  BY <1>2, <1>4 DEF BoundToAgent, SameMaps
<1> QED
  BY <1>8, <1>9, <1>10, <1>11, <1>12 DEF StoreInv

LEMMA PruneKeeps ==
    ASSUME StoreInv, PruneReads \/ Prune
    PROVE  StoreInv'
<1>1. /\ TypeOK /\ StoredInv /\ SaveInv /\ durable \subseteq Live(mem) /\ StructureIsCurrent
      /\ DurableIsSaved /\ BoundToAgent /\ DownInv
  BY DEF StoreInv
<1>2. /\ mem' = mem /\ up' = up /\ kind' = kind
      /\ copy' = copy /\ seen' = seen /\ overtaken' = overtaken
  BY DEF PruneReads, Prune, PruneWrites, saveVars
<1>3. left' \in [Bounds -> Nat]
  BY <1>1, SpendIsNat DEF TypeOK, PruneReads, Prune, PruneWrites, Bounds
<1>4. /\ cli' = Null \/ cli' = file
      /\ \/ file' = file /\ behind' = behind /\ durable' = durable
         \/ Sound(file') /\ behind' = up /\ durable' = {}
  <2>1. CASE PruneReads
    BY <2>1 DEF PruneReads
  <2>2. CASE Prune
    <3>1. PICK merge \in BOOLEAN, keep \in [Crowded(cli) -> Ids] :
                 /\ \A c \in DOMAIN keep : keep[c] \in Keepable(cli, c)
                 /\ PruneWrites(keep, merge)
      BY <2>2 DEF Prune
    <3>2. Sound(cli)
      BY <1>1, <2>2 DEF Prune, StoredInv
    <3>3. Sound(Pruned(cli, keep, merge))
      BY <3>1, <3>2, PrunedIsSound
    <3> QED
      BY <3>1, <3>3 DEF PruneWrites
  <2> QED
    BY <2>1, <2>2
<1>5. TypeOK'
  <2>1. file' \in Manager /\ Counted(file') /\ durable' \subseteq Ids /\ behind' \in BOOLEAN
    BY <1>1, <1>4 DEF TypeOK, Sound
  <2>2. cli' \in Manager \cup {Null}
    BY <1>1, <1>4 DEF TypeOK
  <2> QED
    BY <1>1, <1>2, <1>3, <2>1, <2>2 DEF TypeOK
<1>6. StoredInv'
  BY <1>1, <1>2, <1>4 DEF StoredInv
<1>7. DownInv'
  BY <1>1, <1>2, <1>4 DEF DownInv
<1>8. SaveInv'
  BY <1>1, <1>2, <1>4 DEF SaveInv
<1>9. (durable \subseteq Live(mem))' /\ StructureIsCurrent' /\ DurableIsSaved' /\ BoundToAgent'
  BY <1>1, <1>2, <1>4 DEF StructureIsCurrent, DurableIsSaved, BoundToAgent
<1> QED
  BY <1>5, <1>6, <1>7, <1>8, <1>9 DEF StoreInv

-----------------------------------------------------------------------------
LEMMA StoreStep == StoreInv /\ [Next]_vars => StoreInv'
<1> SUFFICES ASSUME StoreInv, [Next]_vars PROVE StoreInv'
  OBVIOUS
<1>1. CASE MapsChange
  BY <1>1, MapsChangeCommits, CommitKeeps
<1>2. ASSUME NEW i \in Ids, FieldsChange(i)
      PROVE  StoreInv'
  BY <1>2, FieldsChangeEdits, EditKeeps
<1>3. ASSUME NEW w \in Savers, SaveCopies(w) \/ SaveWrites(w) \/ SaveFails(w)
      PROVE  StoreInv'
  BY <1>3, SaveCopiesKeeps, SaveEndsKeeps
<1>4. CASE Crash
  BY <1>4, CrashKeeps
<1>5. ASSUME NEW t \in Kinds, Start(t)
      PROVE  StoreInv'
  BY <1>5, StartKeeps
<1>6. CASE PruneReads \/ Prune
  BY <1>6, PruneKeeps
<1>7. CASE UNCHANGED vars
  <2>1. /\ mem' = mem /\ file' = file /\ up' = up /\ kind' = kind /\ copy' = copy /\ cli' = cli
        /\ behind' = behind /\ durable' = durable /\ seen' = seen /\ overtaken' = overtaken
        /\ left' = left
    BY <1>7 DEF vars
  <2>2. TypeOK' /\ StoredInv' /\ DownInv' /\ SaveInv' /\ (durable \subseteq Live(mem))'
    BY <2>1 DEF StoreInv, TypeOK, StoredInv, DownInv, SaveInv
  <2>3. StructureIsCurrent' /\ DurableIsSaved' /\ BoundToAgent'
    BY <2>1 DEF StoreInv, StructureIsCurrent, DurableIsSaved, BoundToAgent
  <2> QED
    BY <2>2, <2>3 DEF StoreInv
<1> QED
  BY <1>1, <1>2, <1>3, <1>4, <1>5, <1>6, <1>7 DEF Next, Change, MapsChange, FieldsChange

(* The invariant the properties below follow from holds at all times.      *)
THEOREM StoreInvariance == Spec => []StoreInv
<1>1. Init => StoreInv
  BY StoreStarts
<1>2. StoreInv /\ [Next]_vars => StoreInv'
  BY StoreStep
<1> QED
  BY <1>1, <1>2, PTL DEF Spec

(* The types of the variables; the counter is past every id in use, in the *)
(* memory and in the file, so that nextID never hands an id out again.     *)
THEOREM StoreTypeCorrect == Spec => []TypeOK
<1>1. StoreInv => TypeOK
  BY DEF StoreInv
<1> QED
  BY <1>1, StoreInvariance, PTL

(* No save that began before a creation, a switch or a deletion undoes it: *)
(* the file has the maps of the memory, but after a write that failed or   *)
(* one of the prune command.                                               *)
THEOREM MapsAreCurrent == Spec => []StructureIsCurrent
<1>1. StoreInv => StructureIsCurrent
  BY DEF StoreInv
<1> QED
  BY <1>1, StoreInvariance, PTL

(* What a Save that returned has copied is in the file, for any number of  *)
(* overlapping saves.                                                      *)
THEOREM SavedIsDurable == Spec => []DurableIsSaved
<1>1. StoreInv => DurableIsSaved
  BY DEF StoreInv
<1> QED
  BY <1>1, StoreInvariance, PTL

(* A session belongs to one key, through creations, deletions, prunes and  *)
(* restarts.                                                               *)
THEOREM SessionsHaveOneOwner == Spec => []OneOwner
<1>1. StoreInv => OneOwner
  BY DEF StoreInv, StoredInv, Sound, OneOwner
<1> QED
  BY <1>1, StoreInvariance, PTL

(* The active session of a key is one of its chat, also after the prune    *)
(* command has pointed the keys of a chat to the session it kept.          *)
THEOREM ActiveStaysInChat == Spec => []ActiveInChat
<1>1. StoreInv => ActiveInChat
  BY DEF StoreInv, StoredInv, Sound, ActiveInChat
<1> QED
  BY <1>1, StoreInvariance, PTL

(* A running daemon has no session that is bound to another agent's type.  *)
THEOREM SessionsFitTheAgent == Spec => []BoundToAgent
<1>1. StoreInv => BoundToAgent
  BY DEF StoreInv
<1> QED
  BY <1>1, StoreInvariance, PTL

-----------------------------------------------------------------------------
(* What the property about the known ids says of one step.                 *)
KeepsKnown ==
    \A i \in Live(IF up THEN mem ELSE file) :
       (i \in Live(mem')) =>
          (Known((IF up THEN mem ELSE file).sess[i]) \subseteq Known(mem'.sess[i]))

LEMMA KeepsKnownStep == StoreInv /\ [Next]_vars => KeepsKnown \/ UNCHANGED vars
<1> SUFFICES ASSUME StoreInv, Next PROVE KeepsKnown
  OBVIOUS
<1>1. StoredInv /\ DownInv
  BY DEF StoreInv
<1>2. CASE MapsChange
  <2>1. PICK M, S, l : Follows(M, S) /\ l \in Budgets /\ Commit(M, S, l)
    BY <1>2, MapsChangeCommits
  <2>2. up
    BY <1>2, MapsChangeCommits DEF Locked
  <2>3. mem' = M /\ \A i \in Live(M) \cap Live(mem) : M.sess[i] = mem.sess[i]
    BY <2>1 DEF Commit, Follows
  <2> QED
    BY <2>2, <2>3 DEF KeepsKnown
<1>3. ASSUME NEW i \in Ids, FieldsChange(i)
      PROVE  KeepsKnown
  <2>1. PICK s \in Fields : Known(mem.sess[i]) \subseteq Known(s) /\ Edit(i, s)
    BY <1>3, FieldsChangeEdits
  <2>2. i \in Live(mem)
    BY <1>3, FieldsChangeEdits
  <2> DEFINE M == [mem EXCEPT !.sess[i] = s]
  <2>3. up /\ mem' = M
    BY <2>1 DEF Edit
  <2>4. /\ Sound(M) /\ SameMaps(M, mem) /\ M.sess[i] = s
        /\ \A j \in Ids \ {i} : M.sess[j] = mem.sess[j]
    BY <1>1, <2>2, EditedIsSound DEF StoredInv
  <2> HIDE DEF M
  <2> QED
    BY <2>1, <2>3, <2>4 DEF KeepsKnown, Live
<1>4. ASSUME NEW t \in Kinds, Start(t)
      PROVE  KeepsKnown
  <2>1. ~up /\ mem' = Invalidated(file, t)
    BY <1>4 DEF Start, Loaded
  <2>2. \A i \in Live(file) : Known(file.sess[i]) \subseteq Known(Invalidated(file, t).sess[i])
    BY <1>1, InvalidatedIsSound DEF StoredInv
  <2> QED
    BY <2>1, <2>2 DEF KeepsKnown
<1>5. CASE Crash
  <2>1. Live(mem') = {}
    BY <1>5, BlankIsSound DEF Crash
  <2> QED
    BY <2>1 DEF KeepsKnown
<1>6. CASE mem' = mem
  <2>1. CASE up
    BY <1>6, <2>1 DEF KeepsKnown
  <2>2. CASE ~up
    <3>1. Live(mem') = {}
      BY <1>1, <1>6, <2>2, BlankIsSound DEF DownInv
    <3> QED
      BY <3>1 DEF KeepsKnown
  <2> QED
    BY <2>1, <2>2
<1>7. ASSUME NEW w \in Savers, SaveCopies(w) \/ SaveWrites(w) \/ SaveFails(w)
      PROVE  mem' = mem
  BY <1>7 DEF SaveCopies, SaveWrites, SaveFails
<1>8. ASSUME PruneReads \/ Prune
      PROVE  mem' = mem
  BY <1>8 DEF PruneReads, Prune, PruneWrites
<1> QED
  BY <1>2, <1>3, <1>4, <1>5, <1>6, <1>7, <1>8 DEF Next, Change, MapsChange, FieldsChange

(* The ids a session has carried stay known to the filter of foreign       *)
(* sessions while it exists, over commands, changes of agent and restarts. *)
THEOREM IdsStayKnown == Spec => KnownStaysKnown
<1>1. StoreInv /\ [Next]_vars => [KeepsKnown]_vars
  BY KeepsKnownStep
<1>2. KnownStaysKnown <=> [][KeepsKnown]_vars
  BY DEF KnownStaysKnown, KeepsKnown
<1> QED
  BY <1>1, <1>2, StoreInvariance, PTL DEF Spec
=============================================================================
