--------------------------- MODULE NewcomersProofs ---------------------------
(***************************************************************************)
(* Theorems about Newcomers and the Blocklist under it, for any chats,     *)
(* users, limits and number of crashes: the circuit is never open longer   *)
(* than one pause, nobody LOLS names is greeted, a repeated greeting has a *)
(* known reason, and a process's cap on greetings of a minute holds.       *)
(*                                                                         *)
(* The four are argued one after the other: the lists, what the worker     *)
(* knows of the user it is about to greet, how far each greeting is, and   *)
(* the stamps and reservations that pay for what was posted.               *)
(***************************************************************************)
EXTENDS Newcomers, FiniteSetTheorems, TLAPS

-----------------------------------------------------------------------------
(* The inductive invariant. *)

Entry == [in : BOOLEAN, listed : BOOLEAN, left : Nat]

\* The snapshot is what LOLS named, and the pause is measured from when it began.
ListOK ==
  /\ named = snap /\ (full # {} => snap = full \cup delta)
  /\ cache \in [Users -> Entry] /\ pause \in 0 .. Pause /\ shut \in Nat
  /\ IF pause = 0 THEN shut = 0 ELSE shut + pause = Pause

JobPCs == {"idle", "listed", "known", "reserve"}
DlvPCs == {"none", "send", "sent", "mark", "finish"}
JobType == [pc : JobPCs, user : Users \cup {"none"}, join : BOOLEAN, named : BOOLEAN, overlaps : BOOLEAN]
CheckType == [pc : {"idle", "asking", "told"}, age : Nat, listed : BOOLEAN]
DlvType == [pc : DlvPCs, id : Nat, age : Nat, named : BOOLEAN]
StampType == [id : Nat, age : Nat]

WorkerTypes ==
  /\ job \in [Chats -> JobType] /\ check \in [Chats -> CheckType] /\ jobs \in Nat
  /\ \A c \in Chats : /\ job[c].pc # "idle" => job[c].user \in Users
                      /\ check[c].pc # "idle" => job[c].pc = "listed"

GreetingTypes ==
  /\ inflight \in [Chats -> SUBSET Users] /\ dlv \in [Chats -> [Users -> DlvType]]
  /\ greets \in [Chats -> [Users -> Nat]] /\ excused \in [Chats -> [Users -> Nat]]
  /\ late \in [Chats -> [Users -> Nat]]
  /\ sent \in [Chats -> SUBSET StampType] /\ posted \in [Chats -> SUBSET StampType]
  /\ \A c \in Chats, u \in Users : u \in inflight[c] <=> dlv[c][u].pc # "none"

\* A worker that holds a user LOLS named has been told so.
NamedOK ==
  /\ \A c \in Chats : job[c].named => job[c].pc = "listed" /\ check[c].pc = "told" /\ check[c].listed
  /\ \A c \in Chats, u \in Users : ~dlv[c][u].named

\* A greeting sent or about to be sent is paid for by an excuse, by the mark, or by the
\* delivery that will write the mark.
OnceOK(c, u) ==
  greets[c][u] + (IF dlv[c][u].pc = "send" THEN 1 ELSE 0)
    <= excused[c][u] + late[c][u] + (IF <<c, u>> \in welcomed \/ dlv[c][u].pc \in {"send", "sent", "mark"} THEN 1 ELSE 0)

\* What the worker found in the store still holds when it reserves.
GreetOK ==
  /\ \A c \in Chats, u \in Users : OnceOK(c, u)
  /\ \A c \in Chats : job[c].pc = "reserve" /\ ~job[c].overlaps =>
       job[c].user \notin inflight[c] /\ <<c, job[c].user>> \notin welcomed

\* The stamps in the window and the reservations fit under the cap.
RoomOK(c) ==
  /\ IsFiniteSet(sent[c]) /\ IsFiniteSet(inflight[c])
  /\ Cardinality(InWindow(sent[c])) + Cardinality(inflight[c]) <= MaxPerMinute

\* Every number is of an update taken before; those of the chat's next greeting are new.
NumbersOK(c) ==
  /\ \A u \in inflight[c] : dlv[c][u].id <= jobs /\ (job[c].pc # "idle" => dlv[c][u].id < jobs)
  /\ \A p \in posted[c] : p.id <= jobs /\ (job[c].pc # "idle" => p.id < jobs)
  /\ \A u, v \in inflight[c] : u # v => dlv[c][u].id # dlv[c][v].id
  /\ \A u \in Users, p \in posted[c] : dlv[c][u].pc = "send" => p.id # dlv[c][u].id
  /\ \A p, q \in posted[c] : p # q => p.id # q.id

\* What was posted in the last minute is still reserved, or has a stamp that is no older.
PaidOK(c) ==
  /\ \A u \in Users : dlv[c][u].pc = "send" => dlv[c][u].age = 0
  /\ \A p \in posted[c] :
       /\ p.age < Window
       /\ \/ \E u \in inflight[c] : dlv[c][u].id = p.id /\ dlv[c][u].age <= p.age
          \/ \E s \in sent[c] : s.id = p.id /\ s.age <= p.age

RateOK == \A c \in Chats : RoomOK(c) /\ NumbersOK(c) /\ PaidOK(c)

WorkInv == WorkerTypes /\ GreetingTypes /\ NamedOK /\ GreetOK /\ RateOK
NewcomersInv == ListOK /\ WorkInv


-----------------------------------------------------------------------------
(* The lists. *)

LEMMA RefreshKeeps ==
  ASSUME ListOK, Refresh
  PROVE  ListOK'
<1>1. PICK ids \in SUBSET Users :
        \/ RefreshFull(ids) /\ named' = IF ids = {} THEN named ELSE ids
        \/ RefreshDelta(ids) /\ named' = named \cup ids
  BY DEF Refresh
<1>2. UNCHANGED <<cache, pause, shut>>
  BY DEF Refresh, breaker
<1>3. named' = snap' /\ (full' # {} => snap' = full' \cup delta')
  <2>1. CASE RefreshFull(ids) /\ named' = IF ids = {} THEN named ELSE ids
    BY <2>1 DEF RefreshFull, ListOK
  <2>2. CASE RefreshDelta(ids) /\ named' = named \cup ids
    BY <2>2 DEF RefreshDelta, ListOK
  <2>3. QED
    BY <1>1, <2>1, <2>2
<1>4. QED
  BY <1>2, <1>3 DEF ListOK

\* A failed request opens the circuit only when it is closed, so that the pause under way
\* is never extended.
LEMMA ReplyKeeps ==
  ASSUME ListOK, NEW c \in Chats, NEW u \in Users, Reply(c, u)
  PROVE  ListOK'
<1>1. UNCHANGED lols
  BY DEF Reply, Fails, Succeeds
<1>2. \/ pause' = 0 /\ shut' = 0
      \/ shut' = shut /\ (pause' = pause \/ (pause = 0 /\ pause' = Pause))
  BY DEF Reply, Fails, Succeeds
<1>3. Pause \in Nat /\ Pause > 0
  BY BlocklistAssumption
<1>4. cache' \in [Users -> Entry]
  <2>1. CASE Fails(c)
    BY <2>1 DEF Fails, ListOK
  <2>2. ASSUME NEW listed \in BOOLEAN, Succeeds(c, u, listed)
        PROVE  cache' \in [Users -> Entry]
    <3> DEFINE e == [in |-> TRUE, listed |-> listed, left |-> IF listed THEN PositiveTTL ELSE NegativeTTL]
    <3>1. e \in Entry /\ NoEntry \in Entry
      BY BlocklistAssumption DEF Entry, NoEntry
    <3>2. [v \in Users |-> IF Fresh(v) THEN cache[v] ELSE NoEntry] \in [Users -> Entry]
      BY <3>1 DEF ListOK
    <3>3. \E kept \in [Users -> Entry] : cache' = [kept EXCEPT ![u] = e] \/ cache' = kept
      BY <2>2, <3>2 DEF Succeeds, ListOK
    <3>4. QED
      BY <3>1, <3>3
  <2>3. QED
    BY <2>1, <2>2 DEF Reply
<1>5. QED
  BY <1>1, <1>2, <1>3, <1>4 DEF ListOK, lols

LEMMA ListTickKeeps ==
  ASSUME ListOK, ListTick
  PROVE  ListOK'
<1>1. UNCHANGED lols /\ pause' = (IF pause = 0 THEN 0 ELSE pause - 1)
      /\ shut' = (IF pause' = 0 THEN 0 ELSE shut + 1)
  BY DEF ListTick
<1>2. Pause \in Nat
  BY BlocklistAssumption
<1>3. cache' \in [Users -> Entry]
  <2>1. ASSUME NEW u \in Users
        PROVE  [cache[u] EXCEPT !.left = IF @ = 0 THEN 0 ELSE @ - 1] \in Entry
    <3>1. cache[u] \in Entry /\ cache[u].left \in Nat
      BY DEF ListOK, Entry
    <3>2. (IF cache[u].left = 0 THEN 0 ELSE cache[u].left - 1) \in Nat
      BY <3>1
    <3>3. QED
      BY <3>1, <3>2 DEF Entry
  <2>2. cache' = [u \in Users |-> [cache[u] EXCEPT !.left = IF @ = 0 THEN 0 ELSE @ - 1]]
    BY DEF ListTick
  <2>3. QED
    BY <2>1, <2>2
<1>4. QED
  BY <1>1, <1>2, <1>3 DEF ListOK, lols

LEMMA ListStep ==
  ASSUME ListOK, WorkerTypes, [Next]_vars
  PROVE  ListOK'
<1>1. CASE UNCHANGED <<lols, cache, breaker>>
  BY <1>1 DEF ListOK, lols, breaker
<1>2. ASSUME NEW c \in Chats, NEW u \in Users, NEW join \in BOOLEAN, Take(c, u, join)
      PROVE  UNCHANGED <<lols, cache, breaker>>
  BY <1>2 DEF Take, Listed
<1>3. ASSUME NEW c \in Chats, Checked(c) \/ Known(c) \/ Reserve(c)
      PROVE  UNCHANGED <<lols, cache, breaker>>
  BY <1>3 DEF Checked, Known, Reserve, listVars
<1>4. ASSUME NEW c \in Chats, NEW u \in Users, Send(c, u) \/ Returns(c, u) \/ Mark(c, u) \/ Marked(c, u)
      PROVE  UNCHANGED <<lols, cache, breaker>>
  BY <1>4 DEF Send, Returns, Mark, Marked, listVars
<1>5. CASE Sync \/ Tick \/ \E c \in Chats : CASReply(c)
  <2>1. \A c \in Chats : CASReply(c) => job[c].user \in Users /\ Reply(c, job[c].user)
    BY DEF CASReply, Reply, WorkerTypes
  <2>2. QED
    BY <1>5, <2>1, RefreshKeeps, ListTickKeeps, ReplyKeeps DEF Sync, Tick
<1>6. CASE Crash
  BY <1>6, BlocklistAssumption DEF Crash, ListRestart, ListOK, NoEntry, Entry
<1>7. CASE UNCHANGED vars
  BY <1>1, <1>7 DEF vars, listVars
<1>8. QED
  BY <1>1, <1>2, <1>3, <1>4, <1>5, <1>6, <1>7 DEF Next

-----------------------------------------------------------------------------
(* The workers and what they check. *)

LEMMA NothingIs ==
  /\ NoJob \in JobType /\ NoJob.pc = "idle" /\ NoJob.named = FALSE
  /\ NoCheck \in CheckType /\ NoCheck.pc = "idle"
  /\ NoDelivery \in DlvType /\ NoDelivery.pc = "none" /\ NoDelivery.named = FALSE
BY DEF NoJob, JobType, JobPCs, NoCheck, CheckType, NoDelivery, DlvType, DlvPCs

LEMMA PairSet ==
  ASSUME NEW S, NEW f \in [Chats -> [Users -> S]], NEW c \in Chats, NEW u \in Users, NEW v \in S,
         NEW g, g = [f EXCEPT ![c] = [f[c] EXCEPT ![u] = v]]
  PROVE  /\ g \in [Chats -> [Users -> S]] /\ g[c][u] = v
         /\ \A d \in Chats, w \in Users : d # c \/ w # u => g[d][w] = f[d][w]
OBVIOUS

\* What a step of a worker leaves alone: greetings and their accounts.
Calm == UNCHANGED <<inflight, sent, dlv, welcomed, posted, greets, excused, late>>

\* The worker of c goes on, with a new update or with the one it has.
WorkerMoves(c) ==
  /\ job' \in [Chats -> JobType] /\ check' \in [Chats -> CheckType]
  /\ \A d \in Chats : d # c => job'[d] = job[d]
  /\ jobs' \in Nat /\ jobs <= jobs'
  /\ job'[c].pc # "idle" => job[c].pc # "idle" \/ jobs < jobs'
  /\ job'[c].pc # "idle" => job'[c].user \in Users
  /\ \A d \in Chats : check'[d].pc # "idle" => job'[d].pc = "listed"
  /\ job'[c].pc = "reserve" /\ ~job'[c].overlaps =>
       job'[c].user \notin inflight[c] /\ <<c, job'[c].user>> \notin welcomed

LEMMA CalmKeeps ==
  ASSUME WorkInv, NEW c \in Chats, Calm, WorkerMoves(c), NamedOK'
  PROVE  WorkInv'
<1> USE DEF Calm
<1>1. WorkerTypes' /\ GreetingTypes'
  BY DEF WorkInv, WorkerTypes, GreetingTypes, WorkerMoves
<1>2. GreetOK'
  BY DEF WorkInv, GreetOK, OnceOK, WorkerMoves
<1>3. ASSUME NEW d \in Chats
      PROVE  RoomOK(d)' /\ NumbersOK(d)' /\ PaidOK(d)'
  <2>1. RoomOK(d) /\ NumbersOK(d) /\ PaidOK(d)
    BY DEF WorkInv, RateOK
  <2>2. RoomOK(d)' /\ PaidOK(d)'
    BY <2>1 DEF RoomOK, PaidOK, InWindow
  <2>3. jobs \in Nat /\ jobs' \in Nat /\ jobs <= jobs' /\ (\A u \in inflight[d] : dlv[d][u].id \in Nat)
        /\ (\A p \in posted[d] : p.id \in Nat)
    BY DEF WorkInv, WorkerTypes, GreetingTypes, WorkerMoves, DlvType, StampType
  <2>4. job'[d].pc # "idle" => job[d].pc # "idle" \/ jobs < jobs'
    BY DEF WorkerMoves
  <2>5. NumbersOK(d)'
    BY <2>1, <2>3, <2>4 DEF NumbersOK
  <2>6. QED
    BY <2>2, <2>5
<1>4. QED
  BY <1>1, <1>2, <1>3 DEF WorkInv, RateOK

LEMMA TakeKeeps ==
  ASSUME ListOK, WorkInv, NEW c \in Chats, NEW u \in Users, NEW join \in BOOLEAN, Take(c, u, join)
  PROVE  WorkInv'
<1> DEFINE j == [pc |-> "listed", user |-> u, join |-> join, named |-> u \in named, overlaps |-> FALSE]
<1>1. /\ jobs' = jobs + 1 /\ job' = [job EXCEPT ![c] = j] /\ Listed(c, u) /\ Calm
  BY DEF Take, welcomer, history, Calm
<1>2. j \in JobType /\ j.pc = "listed" /\ j.user = u /\ j.named = (u \in named)
  BY DEF JobType, JobPCs
<1> HIDE DEF j
<1>3. /\ check' \in [Chats -> CheckType] /\ (\A d \in Chats : d # c => check'[d] = check[d])
      /\ u \in snap => check'[c].pc = "told" /\ check'[c].listed
  <2>1. PICK v \in CheckType : check' = [check EXCEPT ![c] = v] /\ (u \in snap => v.pc = "told" /\ v.listed)
    <3>1. ASSUME NEW listed \in BOOLEAN, Told(c, listed), u \in snap => listed
          PROVE  \E v \in CheckType : check' = [check EXCEPT ![c] = v] /\ (u \in snap => v.pc = "told" /\ v.listed)
      <4> DEFINE v == [pc |-> "told", age |-> 0, listed |-> listed]
      <4>1. v \in CheckType /\ v.pc = "told" /\ v.listed = listed
        BY DEF CheckType
      <4>2. check' = [check EXCEPT ![c] = v]
        BY <3>1 DEF Told
      <4> HIDE DEF v
      <4>3. QED
        BY <3>1, <4>1, <4>2
    <3>2. ASSUME u \notin snap, check' = [check EXCEPT ![c].pc = "asking"]
          PROVE  \E v \in CheckType : check' = [check EXCEPT ![c] = v] /\ (u \in snap => v.pc = "told" /\ v.listed)
      <4> DEFINE v == [check[c] EXCEPT !.pc = "asking"]
      <4>1. check[c] \in CheckType
        BY DEF WorkInv, WorkerTypes
      <4>2. v \in CheckType
        BY <4>1 DEF CheckType
      <4>3. check' = [check EXCEPT ![c] = v]
        BY <3>2
      <4> HIDE DEF v
      <4>4. QED
        BY <3>2, <4>2, <4>3
    <3>3. cache[u].listed \in BOOLEAN /\ TRUE \in BOOLEAN /\ FALSE \in BOOLEAN
      BY DEF ListOK, Entry
    <3>4. \/ u \in snap /\ Told(c, TRUE)
          \/ u \notin snap /\ (Told(c, cache[u].listed) \/ Told(c, FALSE))
          \/ u \notin snap /\ check' = [check EXCEPT ![c].pc = "asking"]
      BY <1>1 DEF Listed
    <3>5. QED
      BY <3>1, <3>2, <3>3, <3>4
  <2>2. QED
    BY <2>1 DEF WorkInv, WorkerTypes
<1>4. /\ job' \in [Chats -> JobType] /\ job'[c] = j /\ (\A d \in Chats : d # c => job'[d] = job[d])
      /\ jobs' \in Nat /\ jobs < jobs'
  BY <1>1, <1>2 DEF WorkInv, WorkerTypes
<1>5. WorkerMoves(c)
  BY <1>2, <1>3, <1>4 DEF WorkerMoves, WorkInv, WorkerTypes
<1>6. NamedOK'
  BY <1>1, <1>2, <1>3, <1>4 DEF NamedOK, WorkInv, Calm, ListOK
<1>7. QED
  BY <1>1, <1>5, <1>6, CalmKeeps

LEMMA CASReplyKeeps ==
  ASSUME WorkInv, NEW c \in Chats, CASReply(c)
  PROVE  WorkInv'
<1>1. check[c].pc = "asking" /\ UNCHANGED <<job, jobs>> /\ Calm /\ \E listed \in BOOLEAN : Told(c, listed)
  BY DEF CASReply, Reply, Fails, Succeeds, welcomer, history, Calm
<1>2. check' \in [Chats -> CheckType] /\ (\A d \in Chats : d # c => check'[d] = check[d])
  BY <1>1 DEF Told, WorkInv, WorkerTypes, CheckType
<1>3. WorkerMoves(c)
  BY <1>1, <1>2 DEF WorkerMoves, WorkInv, WorkerTypes, GreetOK
<1>4. NamedOK'
  BY <1>1, <1>2 DEF NamedOK, WorkInv, Calm
<1>5. QED
  BY <1>1, <1>3, <1>4, CalmKeeps

LEMMA CheckedKeeps ==
  ASSUME WorkInv, NEW c \in Chats, Checked(c)
  PROVE  WorkInv'
<1>1. /\ job[c].pc = "listed" /\ check[c].pc = "told" /\ check' = [check EXCEPT ![c] = NoCheck]
      /\ UNCHANGED jobs /\ Calm
      /\ job' = [job EXCEPT ![c] = IF job[c].join /\ ~check[c].listed
                                   THEN [job[c] EXCEPT !.pc = "known"] ELSE NoJob]
  BY DEF Checked, welcomer, history, Calm
<1>2. check' \in [Chats -> CheckType] /\ (\A d \in Chats : d # c => check'[d] = check[d])
  BY <1>1 DEF NoCheck, WorkInv, WorkerTypes, CheckType
<1>3. PICK j \in JobType : /\ job' = [job EXCEPT ![c] = j] /\ j.pc \in {"idle", "known"} /\ ~j.named
                           /\ j.pc # "idle" => j.user \in Users
  <2>1. CASE job[c].join /\ ~check[c].listed
    <3>1. [job[c] EXCEPT !.pc = "known"] \in JobType /\ ~job[c].named /\ job[c].user \in Users
      BY <1>1, <2>1 DEF WorkInv, WorkerTypes, NamedOK, JobType, JobPCs
    <3>2. QED
      BY <1>1, <2>1, <3>1 DEF WorkInv, WorkerTypes, JobType
  <2>2. CASE ~(job[c].join /\ ~check[c].listed)
    BY <1>1, <2>2, NothingIs
  <2>3. QED
    BY <2>1, <2>2
<1>4. job' \in [Chats -> JobType] /\ job'[c] = j /\ (\A d \in Chats : d # c => job'[d] = job[d])
  BY <1>3 DEF WorkInv, WorkerTypes
<1>5. check'[c].pc = "idle"
  BY <1>1, NothingIs DEF WorkInv, WorkerTypes
<1>6. WorkerMoves(c)
  BY <1>1, <1>2, <1>3, <1>4, <1>5 DEF WorkerMoves, WorkInv, WorkerTypes
<1>7. NamedOK'
  BY <1>1, <1>2, <1>3, <1>4 DEF NamedOK, WorkInv, Calm
<1>8. QED
  BY <1>1, <1>6, <1>7, CalmKeeps

\* Until it reserves nobody but this worker can start a greeting of its user here, so
\* that an answer of the store which found nothing in flight stays true.
LEMMA KnownKeeps ==
  ASSUME WorkInv, NEW c \in Chats, Known(c)
  PROVE  WorkInv'
<1>1. /\ job[c].pc = "known" /\ UNCHANGED <<jobs, check>> /\ Calm
      /\ \/ job' = [job EXCEPT ![c] = NoJob]
         \/ /\ <<c, job[c].user>> \notin welcomed
            /\ job' = [job EXCEPT ![c] = [job[c] EXCEPT !.pc = "reserve",
                                                     !.overlaps = job[c].user \in inflight[c]]]
  BY DEF Known, welcomer, history, listVars, Calm, WorkInv, WorkerTypes
<1>2. PICK j \in JobType : /\ job' = [job EXCEPT ![c] = j] /\ ~j.named
                           /\ j.pc # "idle" => j.user \in Users
                           /\ j.pc = "reserve" /\ ~j.overlaps =>
                                j.user \notin inflight[c] /\ <<c, j.user>> \notin welcomed
  <2>1. CASE job' = [job EXCEPT ![c] = NoJob]
    BY <2>1, NothingIs
  <2>2. CASE /\ <<c, job[c].user>> \notin welcomed
             /\ job' = [job EXCEPT ![c] = [job[c] EXCEPT !.pc = "reserve",
                                                      !.overlaps = job[c].user \in inflight[c]]]
    <3> DEFINE o == job[c].user \in inflight[c]
    <3> DEFINE j == [job[c] EXCEPT !.pc = "reserve", !.overlaps = o]
    <3>1. job[c] \in JobType /\ ~job[c].named /\ job[c].user \in Users
      BY <1>1 DEF WorkInv, WorkerTypes, NamedOK
    <3>2. job' = [job EXCEPT ![c] = j]
      BY <2>2
    <3>3. j.overlaps = o
      BY <3>1 DEF JobType
    <3>4. o \in BOOLEAN
      OBVIOUS
    <3> HIDE DEF o
    <3>5. j \in JobType /\ j.user = job[c].user /\ j.named = job[c].named
      BY <3>1, <3>4 DEF JobType, JobPCs
    <3> HIDE DEF j
    <3>6. QED
      BY <2>2, <3>1, <3>2, <3>3, <3>5 DEF o
  <2>3. QED
    BY <1>1, <2>1, <2>2
<1>3. job' \in [Chats -> JobType] /\ job'[c] = j /\ (\A d \in Chats : d # c => job'[d] = job[d])
  BY <1>2 DEF WorkInv, WorkerTypes
<1>4. WorkerMoves(c)
  BY <1>1, <1>2, <1>3 DEF WorkerMoves, WorkInv, WorkerTypes
<1>5. NamedOK'
  BY <1>1, <1>2, <1>3 DEF NamedOK, WorkInv, Calm
<1>6. QED
  BY <1>1, <1>4, <1>5, CalmKeeps

-----------------------------------------------------------------------------
(* Counting. *)

\* A set that a function of S reaches has no more elements than S.
LEMMA ImageCount ==
  ASSUME NEW S, IsFiniteSet(S), NEW T, NEW f, DOMAIN f = S, f = [x \in S |-> f[x]],
         \A y \in T : \E x \in S : f[x] = y
  PROVE  IsFiniteSet(T) /\ Cardinality(T) <= Cardinality(S)
<1> DEFINE R == {f[x] : x \in S}
<1>1. f \in Surjection(S, R)
  BY DEF Surjection
<1>2. IsFiniteSet(R) /\ Cardinality(R) <= Cardinality(S)
  BY <1>1, FS_Surjection
<1>3. T \in SUBSET R
  OBVIOUS
<1> HIDE DEF R
<1>4. IsFiniteSet(T) /\ Cardinality(T) <= Cardinality(R)
  BY <1>2, <1>3, FS_Subset
<1>5. Cardinality(T) \in Nat /\ Cardinality(R) \in Nat /\ Cardinality(S) \in Nat
  BY <1>2, <1>4, FS_CardinalityType
<1>6. QED
  BY <1>2, <1>4, <1>5

\* What the cap counts.
LEMMA RoomCounts ==
  ASSUME NEW c \in Chats, RoomOK(c)
  PROVE  /\ IsFiniteSet(InWindow(sent[c])) /\ Cardinality(InWindow(sent[c])) \in Nat
         /\ IsFiniteSet(inflight[c]) /\ Cardinality(inflight[c]) \in Nat
<1>1. InWindow(sent[c]) \in SUBSET sent[c]
  BY DEF InWindow
<1>2. QED
  BY <1>1, FS_Subset, FS_CardinalityType DEF RoomOK

-----------------------------------------------------------------------------
(* Greetings. *)

\* finish turns a reservation into a stamp that is no older than what was posted under it.
LEMMA FinishRate ==
  ASSUME WorkInv, NEW c \in Chats, NEW u \in Users, dlv[c][u].pc # "none", NEW age \in Nat,
         age <= dlv[c][u].age, Finish(c, u, age), UNCHANGED <<job, jobs, posted>>
  PROVE  /\ inflight' \in [Chats -> SUBSET Users] /\ sent' \in [Chats -> SUBSET StampType]
         /\ dlv' \in [Chats -> [Users -> DlvType]] /\ dlv'[c][u] = NoDelivery
         /\ \A d \in Chats, w \in Users : d # c \/ w # u => dlv'[d][w] = dlv[d][w]
         /\ \A d \in Chats, w \in Users : w \in inflight'[d] <=> dlv'[d][w].pc # "none"
         /\ \A d \in Chats : inflight'[d] \subseteq inflight[d]
         /\ RateOK'
<1> DEFINE st == [id |-> dlv[c][u].id, age |-> age]
<1> DEFINE old == {s \in sent[c] : s.age < age + Window}
<1>1. /\ inflight \in [Chats -> SUBSET Users] /\ dlv \in [Chats -> [Users -> DlvType]]
      /\ sent \in [Chats -> SUBSET StampType] /\ posted \in [Chats -> SUBSET StampType]
      /\ \A d \in Chats, w \in Users : w \in inflight[d] <=> dlv[d][w].pc # "none"
  BY DEF WorkInv, GreetingTypes
<1>2. dlv[c][u] \in DlvType /\ dlv[c][u].id \in Nat /\ st \in StampType /\ st.id = dlv[c][u].id /\ st.age = age
  BY <1>1 DEF DlvType, StampType
<1>3. /\ inflight' = [inflight EXCEPT ![c] = inflight[c] \ {u}]
      /\ sent' = [sent EXCEPT ![c] = old \cup {st}]
      /\ dlv' = [dlv EXCEPT ![c] = [dlv[c] EXCEPT ![u] = NoDelivery]]
  BY DEF Finish
<1> HIDE DEF st, old
<1>4. old \subseteq sent[c] /\ \A s \in sent[c] : s.age < Window => s \in old
  <2>1. \A s \in sent[c] : s.age \in Nat
    BY <1>1 DEF StampType
  <2>2. Window \in Nat
    BY WelcomeAssumption
  <2>3. QED
    BY <2>1, <2>2 DEF old
<1>5. /\ inflight' \in [Chats -> SUBSET Users] /\ inflight'[c] = inflight[c] \ {u}
      /\ \A d \in Chats : d # c => inflight'[d] = inflight[d]
  BY <1>1, <1>3
<1>6. /\ sent' \in [Chats -> SUBSET StampType] /\ sent'[c] = old \cup {st}
      /\ \A d \in Chats : d # c => sent'[d] = sent[d]
  BY <1>1, <1>2, <1>3, <1>4
<1>7. /\ dlv' \in [Chats -> [Users -> DlvType]] /\ dlv'[c][u] = NoDelivery
      /\ \A d \in Chats, w \in Users : d # c \/ w # u => dlv'[d][w] = dlv[d][w]
  BY <1>1, <1>3, NothingIs, PairSet
<1>8. \A d \in Chats, w \in Users : w \in inflight'[d] <=> dlv'[d][w].pc # "none"
  BY <1>1, <1>5, <1>7, NothingIs
<1>9. ASSUME NEW d \in Chats, d # c
      PROVE  RoomOK(d)' /\ NumbersOK(d)' /\ PaidOK(d)'
  <2>1. /\ RoomOK(d) /\ NumbersOK(d) /\ PaidOK(d) /\ inflight[d] \subseteq Users
        /\ \A w \in Users : dlv'[d][w] = dlv[d][w]
        /\ inflight'[d] = inflight[d] /\ sent'[d] = sent[d]
    BY <1>1, <1>5, <1>6, <1>7, <1>9 DEF WorkInv, RateOK
  <2>2. RoomOK(d)'
    BY <2>1 DEF RoomOK, InWindow
  <2>3. NumbersOK(d)'
    BY <2>1 DEF NumbersOK
  <2>4. PaidOK(d)'
    BY <2>1 DEF PaidOK
  <2>5. QED
    BY <2>2, <2>3, <2>4
<1>10. RoomOK(c)'
  <2> DEFINE W == InWindow(sent[c])
  <2> DEFINE V == InWindow(sent'[c])
  <2>1. RoomOK(c) /\ MaxPerMinute \in Nat
    BY WelcomeAssumption DEF WorkInv, RateOK
  <2>2. IsFiniteSet(W) /\ Cardinality(W) \in Nat /\ IsFiniteSet(inflight[c]) /\ Cardinality(inflight[c]) \in Nat
    BY <2>1, RoomCounts
  <2>3. V \in SUBSET (W \cup {st})
    BY <1>4, <1>6 DEF InWindow
  <2>4. Cardinality(W) + Cardinality(inflight[c]) <= MaxPerMinute /\ IsFiniteSet(sent[c])
    BY <2>1 DEF RoomOK
  <2>5. IsFiniteSet(sent'[c])
    <3>1. sent'[c] \in SUBSET (sent[c] \cup {st})
      BY <1>4, <1>6
    <3>2. IsFiniteSet(sent[c] \cup {st})
      BY <2>4, FS_AddElement
    <3>3. QED
      BY <3>1, <3>2, FS_Subset
  <2> HIDE DEF W, V
  <2>6. IsFiniteSet(W \cup {st}) /\ Cardinality(W \cup {st}) <= Cardinality(W) + 1
    <3>1. /\ IsFiniteSet(W \cup {st})
          /\ Cardinality(W \cup {st}) = IF st \in W THEN Cardinality(W) ELSE Cardinality(W) + 1
      BY <2>2, FS_AddElement
    <3>2. QED
      BY <2>2, <3>1
  <2>7. IsFiniteSet(V) /\ Cardinality(V) <= Cardinality(W \cup {st}) /\ Cardinality(V) \in Nat
        /\ Cardinality(W \cup {st}) \in Nat
    BY <2>3, <2>6, FS_Subset, FS_CardinalityType
  <2>8. u \in inflight[c]
    BY <1>1
  <2>9. IsFiniteSet(inflight'[c]) /\ Cardinality(inflight'[c]) = Cardinality(inflight[c]) - 1
    BY <1>5, <2>2, <2>8, FS_RemoveElement
  <2>10. Cardinality(V) + Cardinality(inflight'[c]) <= MaxPerMinute
    BY <2>1, <2>2, <2>4, <2>6, <2>7, <2>9
  <2>11. QED
    BY <2>5, <2>9, <2>10 DEF RoomOK, V, InWindow
<1>11. NumbersOK(c)'
  <2>1. NumbersOK(c) /\ inflight[c] \subseteq Users
    BY <1>1 DEF WorkInv, RateOK
  <2>2. \A w \in inflight'[c] : w \in inflight[c] /\ w # u /\ dlv'[c][w] = dlv[c][w]
    BY <1>5, <1>7, <2>1
  <2>3. \A w \in Users : dlv'[c][w].pc = "send" => dlv[c][w].pc = "send" /\ dlv'[c][w] = dlv[c][w]
    BY <1>7, NothingIs
  <2>4. QED
    BY <2>1, <2>2, <2>3 DEF NumbersOK
<1>12. PaidOK(c)'
  <2>1. PaidOK(c)
    BY DEF WorkInv, RateOK
  <2>2. \A w \in Users : dlv'[c][w].pc = "send" => dlv'[c][w].age = 0
    BY <1>7, <2>1, NothingIs DEF PaidOK
  <2>3. ASSUME NEW p \in posted[c]
        PROVE  \/ \E w \in inflight'[c] : dlv'[c][w].id = p.id /\ dlv'[c][w].age <= p.age
               \/ \E s \in sent'[c] : s.id = p.id /\ s.age <= p.age
    <3>1. p.age < Window /\ p.age \in Nat /\ Window \in Nat
      BY <1>1, <2>1, WelcomeAssumption DEF PaidOK, StampType
    <3>2. CASE \E s \in sent[c] : s.id = p.id /\ s.age <= p.age
      <4>1. PICK s \in sent[c] : s.id = p.id /\ s.age <= p.age
        BY <3>2
      <4>2. s.age \in Nat
        BY <1>1 DEF StampType
      <4>3. s \in sent'[c]
        BY <1>4, <1>6, <3>1, <4>1, <4>2
      <4>4. QED
        BY <4>1, <4>3
    <3>3. ASSUME NEW w \in inflight[c], dlv[c][w].id = p.id, dlv[c][w].age <= p.age
          PROVE  \/ \E v \in inflight'[c] : dlv'[c][v].id = p.id /\ dlv'[c][v].age <= p.age
                 \/ \E s \in sent'[c] : s.id = p.id /\ s.age <= p.age
      <4>1. CASE w = u
        <5>1. dlv[c][u].age \in Nat
          BY <1>2 DEF DlvType
        <5>2. st \in sent'[c] /\ st.id = p.id /\ st.age <= p.age
          BY <1>2, <1>6, <3>1, <3>3, <4>1, <5>1
        <5>3. QED
          BY <5>2
      <4>2. CASE w # u
        BY <1>1, <1>5, <1>7, <3>3, <4>2
      <4>3. QED
        BY <4>1, <4>2
    <3>4. QED
      BY <2>1, <3>2, <3>3 DEF PaidOK
  <2>4. QED
    BY <2>1, <2>2, <2>3 DEF PaidOK
<1>13. QED
  BY <1>5, <1>6, <1>7, <1>8, <1>9, <1>10, <1>11, <1>12 DEF RateOK

\* A step of the delivery to u touches the accounts of no other pair.
OnlyPair(c, u) ==
  /\ job' = job /\ \A d \in Chats : inflight'[d] \subseteq inflight[d]
  /\ \A d \in Chats, w \in Users : d # c \/ w # u =>
       /\ dlv'[d][w] = dlv[d][w] /\ greets'[d][w] = greets[d][w]
       /\ excused'[d][w] = excused[d][w] /\ late'[d][w] = late[d][w]
  /\ \/ welcomed' = welcomed
     \/ welcomed' = welcomed \cup {<<c, u>>} /\ u \in inflight[c]

LEMMA PairGreet ==
  ASSUME WorkInv, NEW c \in Chats, NEW u \in Users, OnlyPair(c, u), OnceOK(c, u)'
  PROVE  GreetOK'
<1>1. ASSUME NEW d \in Chats, NEW w \in Users
      PROVE  OnceOK(d, w)'
  <2>1. CASE d = c /\ w = u
    BY <2>1
  <2>2. CASE d # c \/ w # u
    <3>1. /\ dlv'[d][w] = dlv[d][w] /\ greets'[d][w] = greets[d][w]
          /\ excused'[d][w] = excused[d][w] /\ late'[d][w] = late[d][w]
          /\ <<d, w>> \in welcomed' <=> <<d, w>> \in welcomed
      BY <2>2 DEF OnlyPair
    <3>2. OnceOK(d, w)
      BY DEF WorkInv, GreetOK
    <3>3. QED
      BY <3>1, <3>2 DEF OnceOK
  <2>3. QED
    BY <2>1, <2>2
<1>2. ASSUME NEW d \in Chats, job'[d].pc = "reserve", ~job'[d].overlaps
      PROVE  job'[d].user \notin inflight'[d] /\ <<d, job'[d].user>> \notin welcomed'
  <2>1. job'[d] = job[d] /\ inflight'[d] \subseteq inflight[d]
    BY DEF OnlyPair
  <2>2. job[d].user \notin inflight[d] /\ <<d, job[d].user>> \notin welcomed
    BY <1>2, <2>1 DEF WorkInv, GreetOK
  <2>3. QED
    BY <2>1, <2>2 DEF OnlyPair
<1>3. QED
  BY <1>1, <1>2 DEF GreetOK

LEMMA SendKeeps ==
  ASSUME WorkInv, NEW c \in Chats, NEW u \in Users, Send(c, u)
  PROVE  WorkInv'
<1>1. dlv[c][u].pc = "send" /\ UNCHANGED <<job, check, jobs, welcomed, excused, late>>
  BY DEF Send, listVars
<1>2. /\ dlv[c][u] \in DlvType /\ greets[c][u] \in Nat /\ excused[c][u] \in Nat /\ late[c][u] \in Nat
      /\ OnceOK(c, u) /\ dlv[c][u].age = 0 /\ dlv[c][u].named = FALSE
  BY <1>1 DEF WorkInv, GreetingTypes, GreetOK, RateOK, PaidOK, NamedOK, DlvType
<1>3. WorkerTypes'
  BY <1>1 DEF WorkInv, WorkerTypes
<1>4. CASE Finish(c, u, 0) /\ UNCHANGED <<posted, greets>>
  <2>1. /\ inflight' \in [Chats -> SUBSET Users] /\ sent' \in [Chats -> SUBSET StampType]
        /\ dlv' \in [Chats -> [Users -> DlvType]] /\ dlv'[c][u] = NoDelivery
        /\ \A d \in Chats, w \in Users : d # c \/ w # u => dlv'[d][w] = dlv[d][w]
        /\ \A d \in Chats, w \in Users : w \in inflight'[d] <=> dlv'[d][w].pc # "none"
        /\ \A d \in Chats : inflight'[d] \subseteq inflight[d]
        /\ RateOK'
    BY <1>1, <1>2, <1>4, FinishRate
  <2>2. GreetingTypes'
    BY <1>1, <1>4, <2>1 DEF WorkInv, GreetingTypes
  <2>3. NamedOK'
    BY <1>1, <2>1, NothingIs DEF WorkInv, NamedOK
  <2>4. OnceOK(c, u)'
    BY <1>1, <1>2, <1>4, <2>1, NothingIs DEF OnceOK
  <2>5. OnlyPair(c, u)
    BY <1>1, <1>4, <2>1 DEF OnlyPair
  <2>6. QED
    BY <1>3, <2>1, <2>2, <2>3, <2>4, <2>5, PairGreet DEF WorkInv
<1>5. CASE /\ posted' = [posted EXCEPT ![c] = @ \cup {[id |-> dlv[c][u].id, age |-> 0]}]
           /\ greets' = [greets EXCEPT ![c][u] = @ + 1]
           /\ dlv' = [dlv EXCEPT ![c][u].pc = "sent"]
           /\ UNCHANGED <<inflight, sent>>
  <2> DEFINE p == [id |-> dlv[c][u].id, age |-> 0]
  <2> DEFINE v == [dlv[c][u] EXCEPT !.pc = "sent"]
  <2>1. p \in StampType /\ p.id = dlv[c][u].id /\ p.age = 0
    BY <1>2 DEF DlvType, StampType
  <2>2. v \in DlvType /\ v.pc = "sent" /\ v.id = dlv[c][u].id /\ v.age = dlv[c][u].age /\ v.named = dlv[c][u].named
    BY <1>2 DEF DlvType, DlvPCs
  <2>3. /\ dlv' = [dlv EXCEPT ![c] = [dlv[c] EXCEPT ![u] = v]]
        /\ greets' = [greets EXCEPT ![c] = [greets[c] EXCEPT ![u] = greets[c][u] + 1]]
        /\ posted' = [posted EXCEPT ![c] = posted[c] \cup {p}]
    BY <1>5
  <2> HIDE DEF p, v
  <2>4. /\ dlv' \in [Chats -> [Users -> DlvType]] /\ dlv'[c][u] = v
        /\ \A d \in Chats, w \in Users : d # c \/ w # u => dlv'[d][w] = dlv[d][w]
    BY <2>2, <2>3, PairSet DEF WorkInv, GreetingTypes
  <2>5. /\ greets' \in [Chats -> [Users -> Nat]] /\ greets'[c][u] = greets[c][u] + 1
        /\ \A d \in Chats, w \in Users : d # c \/ w # u => greets'[d][w] = greets[d][w]
    <3>1. greets \in [Chats -> [Users -> Nat]] /\ greets[c][u] + 1 \in Nat
      BY <1>2 DEF WorkInv, GreetingTypes
    <3>2. QED
      BY <2>3, <3>1, PairSet
  <2>6. /\ posted' \in [Chats -> SUBSET StampType] /\ posted'[c] = posted[c] \cup {p}
        /\ \A d \in Chats : d # c => posted'[d] = posted[d]
    BY <2>1, <2>3 DEF WorkInv, GreetingTypes
  <2>7. GreetingTypes'
    <3>1. /\ inflight \in [Chats -> SUBSET Users] /\ excused \in [Chats -> [Users -> Nat]]
          /\ late \in [Chats -> [Users -> Nat]]
          /\ sent \in [Chats -> SUBSET StampType]
          /\ \A d \in Chats, w \in Users : w \in inflight[d] <=> dlv[d][w].pc # "none"
      BY DEF WorkInv, GreetingTypes
    <3>2. \A d \in Chats, w \in Users : w \in inflight[d] <=> dlv'[d][w].pc # "none"
      BY <1>1, <2>2, <2>4, <3>1
    <3>3. QED
      BY <1>1, <1>5, <2>4, <2>5, <2>6, <3>1, <3>2 DEF GreetingTypes
  <2>8. NamedOK'
    BY <1>1, <1>2, <2>2, <2>4 DEF WorkInv, NamedOK
  <2>9. OnceOK(c, u)'
    BY <1>1, <1>2, <2>2, <2>4, <2>5 DEF OnceOK
  <2>10. OnlyPair(c, u)
    BY <1>1, <1>5, <2>4, <2>5 DEF OnlyPair
  <2>11. ASSUME NEW d \in Chats
         PROVE  RoomOK(d)' /\ NumbersOK(d)' /\ PaidOK(d)'
    <3>1. RoomOK(d) /\ NumbersOK(d) /\ PaidOK(d) /\ inflight[d] \subseteq Users
      BY DEF WorkInv, RateOK, GreetingTypes
    <3>2. RoomOK(d)'
      BY <1>5, <3>1 DEF RoomOK, InWindow
    <3>3. \A w \in Users : dlv'[d][w].id = dlv[d][w].id /\ dlv'[d][w].age = dlv[d][w].age
      BY <2>2, <2>4
    <3>4. \A w \in Users : dlv'[d][w].pc = "send" => dlv[d][w].pc = "send" /\ (d # c \/ w # u)
      BY <2>2, <2>4
    <3>5. u \in inflight[c]
      BY <1>1 DEF WorkInv, GreetingTypes
    <3>6. CASE d = c
      <4>1. \A q \in posted[c] : q.id # p.id
        BY <1>1, <2>1, <3>1, <3>6 DEF NumbersOK
      <4>2. NumbersOK(c)'
        <5>1. \A w \in inflight[c] : dlv[c][w].id <= jobs /\ (job[c].pc # "idle" => dlv[c][w].id < jobs)
          BY <3>1, <3>6 DEF NumbersOK
        <5>2. p.id <= jobs /\ (job[c].pc # "idle" => p.id < jobs)
          BY <2>1, <3>5, <5>1
        <5>3. \A w \in Users : dlv[c][w].pc = "send" /\ w # u => dlv[c][w].id # p.id
          <6>1. \A w \in Users : dlv[c][w].pc = "send" => w \in inflight[c]
            BY DEF WorkInv, GreetingTypes
          <6>2. QED
            BY <2>1, <3>1, <3>5, <3>6, <6>1 DEF NumbersOK
        <5>4. QED
          BY <1>1, <1>5, <2>6, <3>1, <3>3, <3>4, <3>6, <4>1, <5>2, <5>3 DEF NumbersOK
      <4>3. PaidOK(c)'
        <5>1. 0 < Window /\ p.age < Window
          BY <2>1, WelcomeAssumption
        <5>2. dlv'[c][u].id = p.id /\ dlv'[c][u].age <= p.age
          BY <1>2, <2>1, <2>2, <2>4
        <5>3. QED
          BY <1>5, <2>6, <3>1, <3>3, <3>4, <3>5, <3>6, <5>1, <5>2 DEF PaidOK
      <4>4. QED
        BY <3>2, <3>6, <4>2, <4>3
    <3>7. CASE d # c
      <4>1. NumbersOK(d)'
        BY <1>1, <1>5, <2>6, <3>1, <3>3, <3>4, <3>7 DEF NumbersOK
      <4>2. PaidOK(d)'
        BY <1>5, <2>6, <3>1, <3>3, <3>4, <3>7 DEF PaidOK
      <4>3. QED
        BY <3>2, <4>1, <4>2
    <3>8. QED
      BY <3>6, <3>7
  <2>12. QED
    BY <1>3, <2>7, <2>8, <2>9, <2>10, <2>11, PairGreet DEF WorkInv, RateOK
<1>6. QED
  BY <1>4, <1>5 DEF Send

Goes(c, u, s) ==
  /\ dlv[c][u].pc # "none" /\ s \in {"mark", "finish"} /\ dlv' = [dlv EXCEPT ![c][u].pc = s]
  /\ UNCHANGED <<job, jobs, inflight, sent, posted>>

\* A delivery that goes on keeps its number, its age and its reservation.
LEMMA GoesOn ==
  ASSUME WorkInv, NEW c \in Chats, NEW u \in Users, NEW s, Goes(c, u, s)
  PROVE  /\ dlv' \in [Chats -> [Users -> DlvType]]
         /\ dlv'[c][u].pc = s /\ dlv'[c][u].named = dlv[c][u].named
         /\ \A d \in Chats, w \in Users : d # c \/ w # u => dlv'[d][w] = dlv[d][w]
         /\ \A d \in Chats, w \in Users : w \in inflight'[d] <=> dlv'[d][w].pc # "none"
         /\ RateOK'
<1> DEFINE v == [dlv[c][u] EXCEPT !.pc = s]
<1>1. /\ dlv \in [Chats -> [Users -> DlvType]] /\ dlv[c][u] \in DlvType
      /\ \A d \in Chats, w \in Users : w \in inflight[d] <=> dlv[d][w].pc # "none"
  BY DEF WorkInv, GreetingTypes
<1>2. v \in DlvType /\ v.pc = s /\ v.id = dlv[c][u].id /\ v.age = dlv[c][u].age /\ v.named = dlv[c][u].named
  BY <1>1 DEF DlvType, DlvPCs, Goes
<1>3. dlv' = [dlv EXCEPT ![c] = [dlv[c] EXCEPT ![u] = v]] /\ dlv[c][u].pc # "none"
      /\ UNCHANGED <<job, jobs, inflight, sent, posted>>
  BY DEF Goes
<1> HIDE DEF v
<1>4. /\ dlv' \in [Chats -> [Users -> DlvType]] /\ dlv'[c][u] = v
      /\ \A d \in Chats, w \in Users : d # c \/ w # u => dlv'[d][w] = dlv[d][w]
  BY <1>1, <1>2, <1>3, PairSet
<1>5. \A d \in Chats, w \in Users : w \in inflight'[d] <=> dlv'[d][w].pc # "none"
  BY <1>1, <1>2, <1>3, <1>4 DEF Goes
<1>6. ASSUME NEW d \in Chats
      PROVE  RoomOK(d)' /\ NumbersOK(d)' /\ PaidOK(d)'
  <2>1. RoomOK(d) /\ NumbersOK(d) /\ PaidOK(d) /\ inflight[d] \subseteq Users
    BY DEF WorkInv, RateOK, GreetingTypes
  <2>2. \A w \in Users : /\ dlv'[d][w].id = dlv[d][w].id /\ dlv'[d][w].age = dlv[d][w].age
                         /\ dlv'[d][w].pc = "send" => dlv[d][w].pc = "send"
    BY <1>2, <1>4 DEF Goes
  <2>3. RoomOK(d)'
    BY <1>3, <2>1 DEF RoomOK, InWindow
  <2>4. NumbersOK(d)'
    BY <1>3, <2>1, <2>2 DEF NumbersOK
  <2>5. PaidOK(d)'
    BY <1>3, <2>1, <2>2 DEF PaidOK
  <2>6. QED
    BY <2>3, <2>4, <2>5
<1>7. QED
  BY <1>2, <1>4, <1>5, <1>6 DEF RateOK

LEMMA ExcuseIs ==
  ASSUME WorkInv, NEW c \in Chats, NEW u \in Users, Excuse(c, u)
  PROVE  /\ excused' \in [Chats -> [Users -> Nat]] /\ excused'[c][u] = excused[c][u] + 1
         /\ \A d \in Chats, w \in Users : d # c \/ w # u => excused'[d][w] = excused[d][w]
<1>1. excused \in [Chats -> [Users -> Nat]] /\ excused[c][u] + 1 \in Nat
  BY DEF WorkInv, GreetingTypes
<1>2. excused' = [excused EXCEPT ![c] = [excused[c] EXCEPT ![u] = excused[c][u] + 1]]
  BY DEF Excuse
<1>3. QED
  BY <1>1, <1>2, PairSet

\* The rest of a delivery: the reservation stays while the answer is awaited and the mark
\* is written, and each way to lose the mark is an excuse.
LEMMA DeliveryKeeps ==
  ASSUME WorkInv, NEW c \in Chats, NEW u \in Users, Returns(c, u) \/ Mark(c, u) \/ Marked(c, u)
  PROVE  WorkInv'
<1> DEFINE pc == dlv[c][u].pc
<1>1. /\ pc \in {"sent", "mark", "finish"} /\ UNCHANGED <<job, check, jobs, posted, greets, late>>
  BY DEF Returns, Mark, Marked, listVars, history
<1>2. /\ dlv[c][u] \in DlvType /\ dlv[c][u].age \in Nat /\ greets[c][u] \in Nat
      /\ excused[c][u] \in Nat /\ late[c][u] \in Nat
      /\ OnceOK(c, u) /\ dlv[c][u].named = FALSE /\ u \in inflight[c]
  BY <1>1 DEF WorkInv, GreetingTypes, GreetOK, NamedOK, DlvType
<1>3. \/ dlv' = [dlv EXCEPT ![c][u].pc = "mark"] /\ pc = "sent" /\ UNCHANGED <<inflight, sent>>
      \/ dlv' = [dlv EXCEPT ![c][u].pc = "finish"] /\ pc = "mark" /\ UNCHANGED <<inflight, sent>>
      \/ Finish(c, u, 0) /\ pc = "sent"
      \/ Finish(c, u, dlv[c][u].age) /\ pc = "finish"
  BY DEF Returns, Mark, Marked
<1>4. \/ UNCHANGED <<welcomed, excused>> /\ pc = "sent" /\ dlv' = [dlv EXCEPT ![c][u].pc = "mark"]
      \/ UNCHANGED <<welcomed, excused>> /\ pc = "finish"
      \/ UNCHANGED welcomed /\ Excuse(c, u)
      \/ welcomed' = welcomed \cup {<<c, u>>} /\ UNCHANGED excused
  BY DEF Returns, Mark, Marked, history
<1>5. /\ dlv' \in [Chats -> [Users -> DlvType]] /\ dlv'[c][u].pc \in {"mark", "finish", "none"}
      /\ dlv'[c][u].named = FALSE /\ (dlv' = [dlv EXCEPT ![c][u].pc = "mark"] => dlv'[c][u].pc = "mark")
      /\ \A d \in Chats, w \in Users : d # c \/ w # u => dlv'[d][w] = dlv[d][w]
      /\ \A d \in Chats, w \in Users : w \in inflight'[d] <=> dlv'[d][w].pc # "none"
      /\ RateOK' /\ inflight' \in [Chats -> SUBSET Users] /\ sent' \in [Chats -> SUBSET StampType]
      /\ \A d \in Chats : inflight'[d] \subseteq inflight[d]
  <2>1. inflight \in [Chats -> SUBSET Users] /\ sent \in [Chats -> SUBSET StampType]
        /\ (dlv' = [dlv EXCEPT ![c][u].pc = "mark"] => dlv'[c][u].pc = "mark")
    BY DEF WorkInv, GreetingTypes, DlvType
  <2>2. CASE \E s : Goes(c, u, s)
    <3>1. PICK s : Goes(c, u, s)
      BY <2>2
    <3>2. /\ dlv' \in [Chats -> [Users -> DlvType]]
          /\ dlv'[c][u].pc = s /\ dlv'[c][u].named = dlv[c][u].named
          /\ \A d \in Chats, w \in Users : d # c \/ w # u => dlv'[d][w] = dlv[d][w]
          /\ \A d \in Chats, w \in Users : w \in inflight'[d] <=> dlv'[d][w].pc # "none"
          /\ RateOK'
      BY <3>1, GoesOn
    <3>3. s \in {"mark", "finish"} /\ UNCHANGED <<inflight, sent>>
      BY <3>1 DEF Goes
    <3>4. QED
      BY <1>2, <2>1, <3>2, <3>3
  <2>3. CASE \E age \in Nat : Finish(c, u, age) /\ age <= dlv[c][u].age
    <3>1. PICK age \in Nat : Finish(c, u, age) /\ age <= dlv[c][u].age
      BY <2>3
    <3>2. /\ inflight' \in [Chats -> SUBSET Users] /\ sent' \in [Chats -> SUBSET StampType]
          /\ dlv' \in [Chats -> [Users -> DlvType]] /\ dlv'[c][u] = NoDelivery
          /\ \A d \in Chats, w \in Users : d # c \/ w # u => dlv'[d][w] = dlv[d][w]
          /\ \A d \in Chats, w \in Users : w \in inflight'[d] <=> dlv'[d][w].pc # "none"
          /\ \A d \in Chats : inflight'[d] \subseteq inflight[d]
          /\ RateOK'
      BY <1>1, <3>1, FinishRate
    <3>3. QED
      BY <2>1, <3>2, NothingIs
  <2>4. (\E s : Goes(c, u, s)) \/ \E age \in Nat : Finish(c, u, age) /\ age <= dlv[c][u].age
    <3>1. CASE Finish(c, u, 0)
      BY <1>2, <3>1
    <3>2. CASE Finish(c, u, dlv[c][u].age)
      BY <1>2, <3>2
    <3>3. ASSUME NEW s \in {"mark", "finish"}, dlv' = [dlv EXCEPT ![c][u].pc = s], UNCHANGED <<inflight, sent>>
          PROVE  Goes(c, u, s)
      BY <1>1, <3>3 DEF Goes
    <3>4. QED
      BY <1>3, <3>1, <3>2, <3>3
  <2>5. QED
    BY <2>2, <2>3, <2>4
<1>6. /\ excused' \in [Chats -> [Users -> Nat]]
      /\ \A d \in Chats, w \in Users : d # c \/ w # u => excused'[d][w] = excused[d][w]
      /\ Excuse(c, u) => excused'[c][u] = excused[c][u] + 1
  BY <1>4, ExcuseIs DEF WorkInv, GreetingTypes
<1>7. WorkerTypes'
  BY <1>1 DEF WorkInv, WorkerTypes
<1>8. GreetingTypes'
  BY <1>1, <1>5, <1>6 DEF WorkInv, GreetingTypes
<1>9. NamedOK'
  BY <1>1, <1>5 DEF WorkInv, NamedOK
<1>10. OnceOK(c, u)'
  <2>1. CASE UNCHANGED <<welcomed, excused>> /\ pc = "sent" /\ dlv' = [dlv EXCEPT ![c][u].pc = "mark"]
    BY <1>1, <1>2, <1>5, <2>1 DEF OnceOK
  <2>2. CASE UNCHANGED <<welcomed, excused>> /\ pc = "finish"
    BY <1>1, <1>2, <1>5, <2>2 DEF OnceOK
  <2>3. CASE UNCHANGED welcomed /\ Excuse(c, u)
    BY <1>1, <1>2, <1>5, <1>6, <2>3 DEF OnceOK
  <2>4. CASE welcomed' = welcomed \cup {<<c, u>>} /\ UNCHANGED excused
    BY <1>1, <1>2, <1>5, <2>4 DEF OnceOK
  <2>5. QED
    BY <1>4, <2>1, <2>2, <2>3, <2>4
<1>11. OnlyPair(c, u)
  BY <1>1, <1>2, <1>4, <1>5, <1>6 DEF OnlyPair
<1>12. QED
  BY <1>5, <1>7, <1>8, <1>9, <1>10, <1>11, PairGreet DEF WorkInv

\* A greeting that is not known to be a second one is not: nobody marked the user since the
\* worker looked.
LEMMA ReserveKeeps ==
  ASSUME WorkInv, NEW c \in Chats, Reserve(c)
  PROVE  WorkInv'
<1>0. PICK u \in Users : u = job[c].user
  BY DEF Reserve, WorkInv, WorkerTypes
<1> DEFINE v == [pc |-> "send", id |-> jobs, age |-> 0, named |-> job[c].named]
<1>1. /\ job[c].pc = "reserve" /\ job' = [job EXCEPT ![c] = NoJob]
      /\ UNCHANGED <<check, jobs, sent, welcomed, posted, greets, excused>>
  BY DEF Reserve, listVars
<1>2. u \in Users /\ jobs \in Nat /\ job[c].named = FALSE
  <2>1. job[c] \in JobType /\ u \in Users /\ jobs \in Nat
    BY <1>0, <1>1 DEF WorkInv, WorkerTypes
  <2>2. ~job[c].named
    BY <1>1 DEF WorkInv, NamedOK
  <2>3. QED
    BY <2>1, <2>2 DEF JobType
<1>3. /\ job' \in [Chats -> JobType] /\ job'[c] = NoJob /\ \A d \in Chats : d # c => job'[d] = job[d]
  BY <1>1, NothingIs DEF WorkInv, WorkerTypes
<1>4. CASE UNCHANGED <<inflight, dlv, late>>
  <2>1. Calm
    BY <1>1, <1>4 DEF Calm
  <2>2. WorkerMoves(c)
    BY <1>1, <1>3, NothingIs DEF WorkerMoves, WorkInv, WorkerTypes
  <2>3. NamedOK'
    BY <1>1, <1>3, <1>4, NothingIs DEF WorkInv, NamedOK
  <2>4. QED
    BY <2>1, <2>2, <2>3, CalmKeeps
<1>5. CASE /\ u \notin inflight[c] /\ HasRoom(c)
           /\ inflight' = [inflight EXCEPT ![c] = @ \cup {u}]
           /\ dlv' = [dlv EXCEPT ![c][u] = v]
           /\ late' = [late EXCEPT ![c][u] = IF job[c].overlaps THEN @ + 1 ELSE @]
  <2>1. v \in DlvType /\ v.pc = "send" /\ v.id = jobs /\ v.age = 0 /\ v.named = FALSE
    BY <1>2 DEF DlvType, DlvPCs
  <2>2. dlv' = [dlv EXCEPT ![c] = [dlv[c] EXCEPT ![u] = v]]
    BY <1>5
  <2> HIDE DEF v
  <2>3. /\ dlv' \in [Chats -> [Users -> DlvType]] /\ dlv'[c][u] = v
        /\ \A d \in Chats, w \in Users : d # c \/ w # u => dlv'[d][w] = dlv[d][w]
    BY <1>2, <2>1, <2>2, PairSet DEF WorkInv, GreetingTypes
  <2>4. /\ inflight' \in [Chats -> SUBSET Users] /\ inflight'[c] = inflight[c] \cup {u}
        /\ \A d \in Chats : d # c => inflight'[d] = inflight[d]
    BY <1>2, <1>5 DEF WorkInv, GreetingTypes
  <2>5. /\ late' \in [Chats -> [Users -> Nat]]
        /\ \A d \in Chats, w \in Users : d # c \/ w # u => late'[d][w] = late[d][w]
        /\ late'[c][u] = IF job[c].overlaps THEN late[c][u] + 1 ELSE late[c][u]
    <3> DEFINE n == IF job[c].overlaps THEN late[c][u] + 1 ELSE late[c][u]
    <3>1. late \in [Chats -> [Users -> Nat]] /\ n \in Nat
      BY <1>2 DEF WorkInv, GreetingTypes
    <3>2. late' = [late EXCEPT ![c] = [late[c] EXCEPT ![u] = n]]
      BY <1>5
    <3> HIDE DEF n
    <3>3. late' \in [Chats -> [Users -> Nat]] /\ late'[c][u] = n
          /\ \A d \in Chats, w \in Users : d # c \/ w # u => late'[d][w] = late[d][w]
      BY <1>2, <3>1, <3>2, PairSet
    <3>4. QED
      BY <3>3 DEF n
  <2>6. dlv[c][u].pc = "none" /\ \A d \in Chats, w \in Users : w \in inflight[d] <=> dlv[d][w].pc # "none"
    BY <1>2, <1>5 DEF WorkInv, GreetingTypes
  <2>7. WorkerTypes'
    BY <1>1, <1>3, NothingIs DEF WorkInv, WorkerTypes
  <2>8. GreetingTypes'
    <3>1. \A d \in Chats, w \in Users : w \in inflight'[d] <=> dlv'[d][w].pc # "none"
      BY <2>1, <2>3, <2>4, <2>6
    <3>2. QED
      BY <1>1, <2>3, <2>4, <2>5, <3>1 DEF WorkInv, GreetingTypes
  <2>9. NamedOK'
    BY <1>1, <1>3, <2>1, <2>3, NothingIs DEF WorkInv, NamedOK
  <2>10. GreetOK'
    <3>1. OnceOK(c, u)'
      <4>1. greets[c][u] \in Nat /\ excused[c][u] \in Nat /\ late[c][u] \in Nat /\ OnceOK(c, u)
        BY <1>2 DEF WorkInv, GreetingTypes, GreetOK
      <4>2. CASE job[c].overlaps
        <5>1. late'[c][u] = late[c][u] + 1
          BY <2>5, <4>2
        <5>2. QED
          BY <1>1, <2>1, <2>3, <2>6, <4>1, <5>1 DEF OnceOK
      <4>3. CASE ~job[c].overlaps
        <5>1. <<c, u>> \notin welcomed /\ late'[c][u] = late[c][u]
          BY <1>0, <1>1, <2>5, <4>3 DEF WorkInv, GreetOK
        <5>2. QED
          BY <1>1, <2>1, <2>3, <2>6, <4>1, <5>1 DEF OnceOK
      <4>4. QED
        BY <4>2, <4>3
    <3>2. ASSUME NEW d \in Chats, NEW w \in Users, d # c \/ w # u
          PROVE  OnceOK(d, w)'
      <4>1. OnceOK(d, w)
        BY DEF WorkInv, GreetOK
      <4>2. QED
        BY <1>1, <2>3, <2>5, <3>2, <4>1 DEF OnceOK
    <3>3. ASSUME NEW d \in Chats, job'[d].pc = "reserve", ~job'[d].overlaps
          PROVE  job'[d].user \notin inflight'[d] /\ <<d, job'[d].user>> \notin welcomed'
      <4>1. d # c /\ job'[d] = job[d] /\ inflight'[d] = inflight[d]
        BY <1>3, <2>4, <3>3, NothingIs
      <4>2. QED
        BY <1>1, <3>3, <4>1 DEF WorkInv, GreetOK
    <3>4. \A d \in Chats, w \in Users : OnceOK(d, w)'
      BY <3>1, <3>2
    <3>5. QED
      BY <3>3, <3>4 DEF GreetOK
  <2>11. ASSUME NEW d \in Chats, d # c
         PROVE  RoomOK(d)' /\ NumbersOK(d)' /\ PaidOK(d)'
    <3>1. /\ RoomOK(d) /\ NumbersOK(d) /\ PaidOK(d) /\ inflight[d] \subseteq Users /\ job'[d] = job[d]
          /\ inflight'[d] = inflight[d] /\ \A w \in Users : dlv'[d][w] = dlv[d][w]
      BY <1>3, <2>3, <2>4, <2>11 DEF WorkInv, RateOK, GreetingTypes
    <3>2. RoomOK(d)'
      BY <1>1, <3>1 DEF RoomOK, InWindow
    <3>3. NumbersOK(d)'
      BY <1>1, <3>1 DEF NumbersOK
    <3>4. PaidOK(d)'
      BY <1>1, <3>1 DEF PaidOK
    <3>5. QED
      BY <3>2, <3>3, <3>4
  <2>12. RoomOK(c)'
    <3>1. RoomOK(c)
      BY DEF WorkInv, RateOK
    <3>2. /\ Cardinality(InWindow(sent[c])) \in Nat /\ Cardinality(inflight[c]) \in Nat /\ MaxPerMinute \in Nat
          /\ IsFiniteSet(inflight[c]) /\ IsFiniteSet(sent[c])
      BY <3>1, RoomCounts, WelcomeAssumption DEF RoomOK
    <3>3. IsFiniteSet(inflight'[c]) /\ Cardinality(inflight'[c]) = Cardinality(inflight[c]) + 1
      BY <1>5, <2>4, <3>2, FS_AddElement
    <3>4. Cardinality(InWindow(sent[c])) + Cardinality(inflight'[c]) <= MaxPerMinute
      BY <1>5, <3>2, <3>3 DEF HasRoom
    <3>5. QED
      BY <1>1, <3>2, <3>3, <3>4 DEF RoomOK, InWindow
  <2>13. NumbersOK(c)'
    <3>1. NumbersOK(c) /\ inflight[c] \subseteq Users
      BY DEF WorkInv, RateOK, GreetingTypes
    <3>2. /\ \A w \in inflight[c] : dlv[c][w].id < jobs /\ dlv[c][w].id \in Nat /\ dlv'[c][w] = dlv[c][w] /\ w # u
          /\ \A p \in posted[c] : p.id < jobs /\ p.id \in Nat
      BY <1>1, <1>5, <2>3, <3>1 DEF NumbersOK, WorkInv, GreetingTypes, DlvType, StampType
    <3>3. \A w \in Users : w # u => dlv'[c][w] = dlv[c][w]
      BY <2>3
    <3>4. job'[c].pc = "idle"
      BY <1>3, NothingIs
    <3>5. \A w \in inflight'[c] : dlv'[c][w].id <= jobs
      BY <1>2, <2>1, <2>3, <2>4, <3>2
    <3>6. \A w, x \in inflight'[c] : w # x => dlv'[c][w].id # dlv'[c][x].id
      BY <1>2, <2>1, <2>3, <2>4, <3>1, <3>2 DEF NumbersOK
    <3>7. \A w \in Users, p \in posted[c] : dlv'[c][w].pc = "send" => p.id # dlv'[c][w].id
      BY <1>2, <2>1, <2>3, <3>1, <3>2, <3>3 DEF NumbersOK
    <3>8. QED
      BY <1>1, <3>1, <3>4, <3>5, <3>6, <3>7 DEF NumbersOK
  <2>14. PaidOK(c)'
    <3>1. PaidOK(c) /\ inflight[c] \subseteq Users
      BY DEF WorkInv, RateOK, GreetingTypes
    <3>2. \A w \in inflight[c] : w \in inflight'[c] /\ dlv'[c][w] = dlv[c][w]
      BY <1>5, <2>3, <2>4, <3>1
    <3>3. \A w \in Users : dlv'[c][w].pc = "send" => dlv'[c][w].age = 0
      BY <2>1, <2>3, <3>1 DEF PaidOK
    <3>4. QED
      BY <1>1, <3>1, <3>2, <3>3 DEF PaidOK
  <2>15. QED
    BY <2>7, <2>8, <2>9, <2>10, <2>11, <2>12, <2>13, <2>14 DEF WorkInv, RateOK
<1>6. QED
  BY <1>0, <1>4, <1>5 DEF Reserve

LEMMA SyncKeeps ==
  ASSUME WorkInv, UNCHANGED <<job, check, welcomer, welcomed, history, jobs>>
  PROVE  WorkInv'
<1>1. UNCHANGED <<job, check, jobs, inflight, sent, dlv, welcomed, posted, greets, excused, late>>
  BY DEF welcomer, history
<1>2. WorkerTypes' /\ GreetingTypes' /\ NamedOK'
  BY <1>1 DEF WorkInv, WorkerTypes, GreetingTypes, NamedOK
<1>3. GreetOK'
  BY <1>1 DEF WorkInv, GreetOK, OnceOK
<1>4. ASSUME NEW c \in Chats
      PROVE  RoomOK(c)' /\ NumbersOK(c)' /\ PaidOK(c)'
  <2>1. RoomOK(c) /\ NumbersOK(c) /\ PaidOK(c)
    BY DEF WorkInv, RateOK
  <2>2. RoomOK(c)'
    BY <1>1, <2>1 DEF RoomOK, InWindow
  <2>3. NumbersOK(c)'
    BY <1>1, <2>1 DEF NumbersOK
  <2>4. PaidOK(c)'
    BY <1>1, <2>1 DEF PaidOK
  <2>5. QED
    BY <2>2, <2>3, <2>4
<1>5. QED
  BY <1>2, <1>3, <1>4 DEF WorkInv, RateOK

-----------------------------------------------------------------------------
(* Time. *)

Aged(s) == [s EXCEPT !.age = @ + 1]
AgedUpTo(s, cap) == IF s.age < cap THEN Aged(s) ELSE s

LEMMA AgedIs ==
  ASSUME NEW s \in StampType
  PROVE  Aged(s) \in StampType /\ Aged(s).id = s.id /\ Aged(s).age = s.age + 1
BY DEF Aged, StampType

LEMMA AgedDelivery ==
  ASSUME NEW v \in DlvType
  PROVE  /\ Aged(v) \in DlvType /\ Aged(v).id = v.id /\ Aged(v).age = v.age + 1
         /\ Aged(v).pc = v.pc /\ Aged(v).named = v.named
BY DEF Aged, DlvType

\* What time does to the Welcomer.
Ages ==
  /\ dlv' = [c \in Chats |-> [u \in Users |->
               IF dlv[c][u].pc \in {"mark", "finish"} THEN Aged(dlv[c][u]) ELSE dlv[c][u]]]
  /\ sent' = [c \in Chats |-> {AgedUpTo(s, 2 * Window) : s \in sent[c]}]
  /\ posted' = [c \in Chats |-> InWindow({Aged(p) : p \in posted[c]})]
  /\ UNCHANGED <<job, inflight, welcomed, greets, excused, late, jobs>>

\* A stamp in the window was in the window a tick ago, so that no time makes the window
\* fuller; a stamp or a delivery grows old no faster than what it pays for.
LEMMA AgesRate ==
  ASSUME WorkInv, Ages, NEW c \in Chats
  PROVE  RoomOK(c)' /\ NumbersOK(c)' /\ PaidOK(c)'
<1>1. /\ RoomOK(c) /\ NumbersOK(c) /\ PaidOK(c) /\ inflight[c] \subseteq Users
      /\ sent[c] \subseteq StampType /\ posted[c] \subseteq StampType
      /\ \A u \in Users : dlv[c][u] \in DlvType
      /\ Window \in Nat /\ Window > 0 /\ MaxPerMinute \in Nat
  BY WelcomeAssumption DEF WorkInv, RateOK, GreetingTypes
<1>2. /\ UNCHANGED <<job, inflight, jobs>>
      /\ sent'[c] = {AgedUpTo(s, 2 * Window) : s \in sent[c]}
      /\ posted'[c] = InWindow({Aged(p) : p \in posted[c]})
      /\ \A u \in Users : dlv'[c][u] = IF dlv[c][u].pc \in {"mark", "finish"} THEN Aged(dlv[c][u]) ELSE dlv[c][u]
  BY DEF Ages
<1>3. \A s \in sent[c] : /\ AgedUpTo(s, 2 * Window).id = s.id /\ s.age \in Nat
                         /\ AgedUpTo(s, 2 * Window).age \in {s.age, s.age + 1}
                         /\ s.age < 2 * Window => AgedUpTo(s, 2 * Window).age = s.age + 1
  BY <1>1, AgedIs DEF AgedUpTo, StampType
<1>4. \A u \in Users : /\ dlv'[c][u].pc = dlv[c][u].pc /\ dlv'[c][u].id = dlv[c][u].id
                       /\ dlv[c][u].age \in Nat /\ dlv'[c][u].age \in {dlv[c][u].age, dlv[c][u].age + 1}
                       /\ dlv[c][u].pc = "send" => dlv'[c][u].age = dlv[c][u].age
  BY <1>1, <1>2, AgedDelivery DEF DlvType
<1>5. \A q \in posted'[c] : \E p \in posted[c] : /\ q = Aged(p) /\ q.id = p.id /\ p.age \in Nat
                                                 /\ q.age = p.age + 1 /\ q.age < Window
  BY <1>1, <1>2, AgedIs DEF InWindow, StampType
<1>6. RoomOK(c)'
  <2> DEFINE S == InWindow(sent[c])
             T == InWindow(sent'[c])
             f == [s \in S |-> AgedUpTo(s, 2 * Window)]
             g == [s \in sent[c] |-> AgedUpTo(s, 2 * Window)]
  <2>1. IsFiniteSet(S) /\ IsFiniteSet(sent[c]) /\ IsFiniteSet(inflight[c])
    BY <1>1, RoomCounts DEF RoomOK
  <2>2. \A t \in T : \E s \in S : f[s] = t
    <3>1. SUFFICES ASSUME NEW t \in T PROVE \E s \in S : AgedUpTo(s, 2 * Window) = t
      OBVIOUS
    <3>2. PICK s \in sent[c] : t = AgedUpTo(s, 2 * Window) /\ t.age < Window
      BY <1>2 DEF InWindow
    <3>3. s.age < Window
      BY <1>1, <1>3, <3>2
    <3>4. QED
      BY <3>2, <3>3 DEF InWindow
  <2>3. \A t \in sent'[c] : \E s \in sent[c] : g[s] = t
    BY <1>2
  <2>4. DOMAIN f = S /\ f = [s \in S |-> f[s]] /\ DOMAIN g = sent[c] /\ g = [s \in sent[c] |-> g[s]]
    OBVIOUS
  <2> HIDE DEF S, T, f, g
  <2>5. IsFiniteSet(T) /\ Cardinality(T) <= Cardinality(S)
    BY <2>1, <2>2, <2>4, ImageCount
  <2>6. IsFiniteSet(sent'[c])
    BY <2>1, <2>3, <2>4, ImageCount
  <2>7. Cardinality(T) \in Nat /\ Cardinality(S) \in Nat /\ Cardinality(inflight[c]) \in Nat
    BY <2>1, <2>5, FS_CardinalityType
  <2>8. Cardinality(S) + Cardinality(inflight[c]) <= MaxPerMinute
    BY <1>1 DEF RoomOK, S
  <2>9. Cardinality(T) + Cardinality(inflight[c]) <= MaxPerMinute
    BY <1>1, <2>5, <2>7, <2>8
  <2>10. QED
    BY <1>2, <2>1, <2>6, <2>9 DEF RoomOK, T, InWindow
<1>7. NumbersOK(c)'
  BY <1>1, <1>2, <1>4, <1>5 DEF NumbersOK
<1>8. PaidOK(c)'
  <2>1. \A u \in Users : dlv'[c][u].pc = "send" => dlv'[c][u].age = 0
    BY <1>1, <1>4 DEF PaidOK
  <2>2. ASSUME NEW q \in posted'[c]
        PROVE  /\ q.age < Window
               /\ \/ \E u \in inflight[c] : dlv'[c][u].id = q.id /\ dlv'[c][u].age <= q.age
                  \/ \E s \in sent'[c] : s.id = q.id /\ s.age <= q.age
    <3>1. PICK p \in posted[c] : q = Aged(p) /\ q.id = p.id /\ p.age \in Nat /\ q.age = p.age + 1 /\ q.age < Window
      BY <1>5
    <3>2. CASE \E u \in inflight[c] : dlv[c][u].id = p.id /\ dlv[c][u].age <= p.age
      <4>1. PICK u \in inflight[c] : dlv[c][u].id = p.id /\ dlv[c][u].age <= p.age
        BY <3>2
      <4>2. dlv'[c][u].id = q.id /\ dlv'[c][u].age <= q.age
        BY <1>1, <1>4, <3>1, <4>1
      <4>3. QED
        BY <3>1, <4>2
    <3>3. CASE \E s \in sent[c] : s.id = p.id /\ s.age <= p.age
      <4>1. PICK s \in sent[c] : s.id = p.id /\ s.age <= p.age
        BY <3>3
      <4>2. AgedUpTo(s, 2 * Window).id = q.id /\ AgedUpTo(s, 2 * Window).age <= q.age
        BY <1>3, <3>1, <4>1
      <4>3. AgedUpTo(s, 2 * Window) \in sent'[c]
        BY <1>2
      <4>4. QED
        BY <3>1, <4>2, <4>3
    <3>4. QED
      BY <1>1, <3>2, <3>3 DEF PaidOK
  <2>3. QED
    BY <1>2, <2>1, <2>2 DEF PaidOK
<1>9. QED
  BY <1>6, <1>7, <1>8

LEMMA TickKeeps ==
  ASSUME WorkInv, Tick
  PROVE  WorkInv'
<1>1. Ages
  BY DEF Tick, Ages, Aged, AgedUpTo
<1>2. RateOK'
  BY <1>1, AgesRate DEF RateOK
<1>3. /\ dlv' = [c \in Chats |-> [u \in Users |->
                  IF dlv[c][u].pc \in {"mark", "finish"} THEN Aged(dlv[c][u]) ELSE dlv[c][u]]]
      /\ UNCHANGED <<job, inflight, welcomed, greets, excused, late, jobs>>
  BY <1>1 DEF Ages
<1>4. /\ dlv' \in [Chats -> [Users -> DlvType]]
      /\ \A c \in Chats, u \in Users : dlv'[c][u].pc = dlv[c][u].pc /\ dlv'[c][u].named = dlv[c][u].named
  <2>1. ASSUME NEW c \in Chats, NEW u \in Users
        PROVE  /\ dlv[c][u] \in DlvType /\ Aged(dlv[c][u]) \in DlvType
               /\ Aged(dlv[c][u]).pc = dlv[c][u].pc /\ Aged(dlv[c][u]).named = dlv[c][u].named
    BY AgedDelivery DEF WorkInv, GreetingTypes
  <2>2. QED
    BY <1>3, <2>1
<1>5. /\ sent' \in [Chats -> SUBSET StampType] /\ posted' \in [Chats -> SUBSET StampType]
  <2>1. ASSUME NEW c \in Chats
        PROVE  /\ {AgedUpTo(s, 2 * Window) : s \in sent[c]} \subseteq StampType
               /\ InWindow({Aged(p) : p \in posted[c]}) \subseteq StampType
    BY AgedIs DEF WorkInv, GreetingTypes, InWindow, AgedUpTo
  <2>2. QED
    BY <1>1, <2>1 DEF Ages
<1>6. /\ check' \in [Chats -> CheckType]
      /\ \A c \in Chats : check'[c].pc = check[c].pc /\ check'[c].listed = check[c].listed
  <2>1. check' = [c \in Chats |-> IF check[c].pc = "asking"
                                  THEN [check[c] EXCEPT !.age = @ + 1] ELSE check[c]]
    BY DEF Tick, ListTick
  <2>2. ASSUME NEW c \in Chats
        PROVE  /\ check[c] \in CheckType /\ [check[c] EXCEPT !.age = @ + 1] \in CheckType
               /\ [check[c] EXCEPT !.age = @ + 1].pc = check[c].pc
               /\ [check[c] EXCEPT !.age = @ + 1].listed = check[c].listed
    BY DEF WorkInv, WorkerTypes, CheckType
  <2>3. QED
    BY <2>1, <2>2
<1>7. WorkerTypes'
  BY <1>3, <1>6 DEF WorkInv, WorkerTypes
<1>8. GreetingTypes'
  BY <1>3, <1>4, <1>5 DEF WorkInv, GreetingTypes
<1>9. NamedOK'
  BY <1>3, <1>4, <1>6 DEF WorkInv, NamedOK
<1>10. GreetOK'
  BY <1>3, <1>4 DEF WorkInv, GreetOK, OnceOK
<1>11. QED
  BY <1>2, <1>7, <1>8, <1>9, <1>10 DEF WorkInv

-----------------------------------------------------------------------------
(* The start of a process. *)

NewProcess ==
  /\ job = [c \in Chats |-> NoJob] /\ check = [c \in Chats |-> NoCheck] /\ jobs \in Nat
  /\ inflight = [c \in Chats |-> {}] /\ sent = [c \in Chats |-> {}] /\ posted = [c \in Chats |-> {}]
  /\ dlv = PerPair(NoDelivery)
  /\ greets \in [Chats -> [Users -> Nat]] /\ excused \in [Chats -> [Users -> Nat]]
  /\ late \in [Chats -> [Users -> Nat]]
  /\ \A c \in Chats, u \in Users : OnceOK(c, u)

\* A process that starts holds nothing: only the store and what was greeted are left.
LEMMA StartsWell == NewProcess => WorkInv
<1> SUFFICES ASSUME NewProcess PROVE WorkInv
  OBVIOUS
<1>1. \A c \in Chats, u \in Users : dlv[c][u] = NoDelivery
  BY DEF NewProcess, PerPair
<1>2. WorkerTypes
  BY NothingIs DEF NewProcess, WorkerTypes
<1>3. GreetingTypes
  BY <1>1, NothingIs DEF NewProcess, GreetingTypes, PerPair
<1>4. NamedOK
  BY <1>1, NothingIs DEF NewProcess, NamedOK
<1>5. GreetOK
  BY NothingIs DEF NewProcess, GreetOK
<1>6. ASSUME NEW c \in Chats
      PROVE  RoomOK(c) /\ NumbersOK(c) /\ PaidOK(c)
  <2>1. sent[c] = {} /\ inflight[c] = {} /\ posted[c] = {} /\ InWindow(sent[c]) = {}
    BY DEF NewProcess, InWindow
  <2>2. IsFiniteSet({}) /\ Cardinality({}) = 0 /\ MaxPerMinute \in Nat
    BY FS_EmptySet, WelcomeAssumption
  <2>3. RoomOK(c)
    <3>1. Cardinality(InWindow(sent[c])) = 0 /\ Cardinality(inflight[c]) = 0
      BY <2>1, <2>2, Zenon
    <3>2. IsFiniteSet(sent[c]) /\ IsFiniteSet(inflight[c])
      BY <2>1, <2>2, Zenon
    <3>3. QED
      BY <2>2, <3>1, <3>2 DEF RoomOK
  <2>4. NumbersOK(c)
    BY <2>1, <1>1, NothingIs DEF NumbersOK
  <2>5. PaidOK(c)
    BY <2>1, <1>1, NothingIs DEF PaidOK
  <2>6. QED
    BY <2>3, <2>4, <2>5
<1>7. QED
  BY <1>2, <1>3, <1>4, <1>5, <1>6 DEF WorkInv, RateOK

LEMMA CrashKeeps ==
  ASSUME WorkInv, Crash
  PROVE  WorkInv'
<1>1. /\ job' = [c \in Chats |-> NoJob] /\ check' = [c \in Chats |-> NoCheck] /\ jobs' = jobs
      /\ inflight' = [c \in Chats |-> {}] /\ sent' = [c \in Chats |-> {}] /\ posted' = [c \in Chats |-> {}]
      /\ dlv' = PerPair(NoDelivery) /\ greets' = greets /\ late' = late /\ welcomed' = welcomed
      /\ excused' = [c \in Chats |-> [u \in Users |->
                       IF dlv[c][u].pc \in {"sent", "mark"} THEN excused[c][u] + 1 ELSE excused[c][u]]]
  BY DEF Crash, ListRestart
<1>2. excused' \in [Chats -> [Users -> Nat]] /\ jobs' \in Nat
      /\ greets' \in [Chats -> [Users -> Nat]] /\ late' \in [Chats -> [Users -> Nat]]
  BY <1>1 DEF WorkInv, WorkerTypes, GreetingTypes
<1>3. ASSUME NEW c \in Chats, NEW u \in Users
      PROVE  OnceOK(c, u)'
  <2>1. /\ OnceOK(c, u) /\ greets[c][u] \in Nat /\ excused[c][u] \in Nat /\ late[c][u] \in Nat /\ dlv[c][u].pc \in DlvPCs
    BY DEF WorkInv, GreetOK, GreetingTypes, DlvType
  <2>2. dlv'[c][u].pc = "none"
    BY <1>1, NothingIs DEF PerPair
  <2>3. excused'[c][u] = IF dlv[c][u].pc \in {"sent", "mark"} THEN excused[c][u] + 1 ELSE excused[c][u]
    BY <1>1
  <2>4. QED
    BY <1>1, <2>1, <2>2, <2>3 DEF OnceOK, DlvPCs
<1>4. NewProcess'
  BY <1>1, <1>2, <1>3 DEF NewProcess, PerPair
<1>5. QED
  BY <1>4, StartsWell, PTL

-----------------------------------------------------------------------------
(* The theorems. *)

LEMMA WorkStep ==
  ASSUME NewcomersInv, [Next]_vars
  PROVE  WorkInv'
<1> USE DEF NewcomersInv
<1>1. ASSUME NEW c \in Chats, NEW u \in Users, NEW join \in BOOLEAN, Take(c, u, join)
      PROVE  WorkInv'
  BY <1>1, TakeKeeps
<1>2. ASSUME NEW c \in Chats, CASReply(c) \/ Checked(c) \/ Known(c) \/ Reserve(c)
      PROVE  WorkInv'
  BY <1>2, CASReplyKeeps, CheckedKeeps, KnownKeeps, ReserveKeeps
<1>3. ASSUME NEW c \in Chats, NEW u \in Users, Send(c, u) \/ Returns(c, u) \/ Mark(c, u) \/ Marked(c, u)
      PROVE  WorkInv'
  BY <1>3, SendKeeps, DeliveryKeeps
<1>4. CASE Sync
  <2>1. UNCHANGED <<job, check, welcomer, welcomed, history, jobs>>
    BY <1>4 DEF Sync, Refresh
  <2>2. QED
    BY <2>1, SyncKeeps
<1>5. CASE Tick
  BY <1>5, TickKeeps
<1>6. CASE Crash
  BY <1>6, CrashKeeps
<1>7. CASE UNCHANGED vars
  <2>1. UNCHANGED <<job, check, welcomer, welcomed, history, jobs>>
    BY <1>7 DEF vars, listVars
  <2>2. QED
    BY <2>1, SyncKeeps
<1>8. QED
  BY <1>1, <1>2, <1>3, <1>4, <1>5, <1>6, <1>7 DEF Next

\* The inductive invariant holds in every reachable state: of the lists, the workers, the
\* greetings and the stamps that reserve and finish keep.
THEOREM NewcomersInvariant == Spec => []NewcomersInv
<1>1. Init => NewcomersInv
  <2> SUFFICES ASSUME Init PROVE NewcomersInv
    OBVIOUS
  <2>1. ListOK
    BY BlocklistAssumption DEF Init, ListInit, ListOK, NoEntry, Entry
  <2>2. \A c \in Chats, u \in Users : OnceOK(c, u)
    BY DEF Init, PerPair, OnceOK, NoDelivery
  <2>3. NewProcess
    BY <2>2 DEF Init, ListInit, NewProcess, PerPair
  <2>4. QED
    BY <2>1, <2>3, StartsWell DEF NewcomersInv
<1>2. NewcomersInv /\ [Next]_vars => NewcomersInv'
  <2> SUFFICES ASSUME NewcomersInv, [Next]_vars PROVE NewcomersInv'
    OBVIOUS
  <2>1. ListOK'
    BY ListStep DEF NewcomersInv, WorkInv
  <2>2. QED
    BY <2>1, WorkStep DEF NewcomersInv
<1>3. QED
  BY <1>1, <1>2, PTL DEF Spec

\* CASChecker.Listed never keeps the circuit open for longer than one pause without a
\* probe having become possible, whatever fails meanwhile and in whatever order.
THEOREM CircuitReopens == Spec => []PauseBounded
<1>1. NewcomersInv => PauseBounded
  BY BlocklistAssumption DEF NewcomersInv, ListOK, PauseBounded
<1>2. QED
  BY <1>1, NewcomersInvariant, PTL

\* Each greeting of a pair after the first has a reason of its own: a lost answer, a failed
\* mark or a crash, or a join that WasWelcomed answered while an earlier greeting was in
\* flight and reserve admitted after it.  Welcomer has no other way to greet twice.
THEOREM RepeatsHaveReasons == Spec => []RepeatsAccounted
<1>1. NewcomersInv => RepeatsAccounted
  <2> SUFFICES ASSUME NewcomersInv, NEW c \in Chats, NEW u \in Users
               PROVE  greets[c][u] <= 1 + excused[c][u] + late[c][u]
    BY DEF RepeatsAccounted
  <2>1. OnceOK(c, u) /\ greets[c][u] \in Nat /\ excused[c][u] \in Nat /\ late[c][u] \in Nat
    BY DEF NewcomersInv, WorkInv, GreetOK, GreetingTypes
  <2>2. QED
    BY <2>1 DEF OnceOK
<1>2. QED
  BY <1>1, NewcomersInvariant, PTL

\* Whoever LOLS names when Admit checks is not greeted, whatever refreshes failed or came
\* back empty.
THEOREM NoGreetingForListed == Spec => []ListedNotGreeted
<1>1. NewcomersInv => ListedNotGreeted
  BY DEF NewcomersInv, WorkInv, NamedOK, ListedNotGreeted
<1>2. QED
  BY <1>1, NewcomersInvariant, PTL

\* What the invariant says of one chat's cap: each greeting posted within the minute has
\* its own number, and every such number is of a stamp in the window or of a reservation.
LEMMA PostedFits ==
  ASSUME NewcomersInv, NEW c \in Chats
  PROVE  Cardinality(posted[c]) <= MaxPerMinute
<1> DEFINE W == InWindow(sent[c])
           A == {s.id : s \in W}
           B == {dlv[c][u].id : u \in inflight[c]}
           N == A \cup B
           f == [n \in N |-> CHOOSE p \in posted[c] : p.id = n]
           a == [s \in W |-> s.id]
           b == [u \in inflight[c] |-> dlv[c][u].id]
<1>1. /\ RoomOK(c) /\ NumbersOK(c) /\ PaidOK(c) /\ MaxPerMinute \in Nat
      /\ sent[c] \subseteq StampType /\ posted[c] \subseteq StampType
      /\ inflight[c] \subseteq Users /\ \A u \in Users : dlv[c][u] \in DlvType
  BY WelcomeAssumption DEF NewcomersInv, WorkInv, RateOK, GreetingTypes
<1>2. /\ IsFiniteSet(W) /\ Cardinality(W) \in Nat
      /\ IsFiniteSet(inflight[c]) /\ Cardinality(inflight[c]) \in Nat
  BY <1>1, RoomCounts
<1>3. \A p \in posted[c] : p.id \in N
  <2>1. SUFFICES ASSUME NEW p \in posted[c] PROVE p.id \in N
    OBVIOUS
  <2>2. CASE \E u \in inflight[c] : dlv[c][u].id = p.id /\ dlv[c][u].age <= p.age
    BY <2>2
  <2>3. CASE \E s \in sent[c] : s.id = p.id /\ s.age <= p.age
    <3>1. PICK s \in sent[c] : s.id = p.id /\ s.age <= p.age
      BY <2>3
    <3>2. s.age \in Nat /\ p.age \in Nat /\ p.age < Window /\ Window \in Nat
      BY <1>1, WelcomeAssumption DEF PaidOK, StampType
    <3>3. s \in W
      BY <3>1, <3>2 DEF InWindow
    <3>4. QED
      BY <3>1, <3>3
  <2>4. QED
    BY <1>1, <2>2, <2>3 DEF PaidOK
<1>4. \A p \in posted[c] : f[p.id] = p
  BY <1>1, <1>3 DEF NumbersOK
<1>5. /\ \A n \in A : \E s \in W : a[s] = n
      /\ \A n \in B : \E u \in inflight[c] : b[u] = n
      /\ DOMAIN a = W /\ a = [s \in W |-> a[s]]
      /\ DOMAIN b = inflight[c] /\ b = [u \in inflight[c] |-> b[u]]
      /\ DOMAIN f = N /\ f = [n \in N |-> f[n]] /\ N = A \cup B
  OBVIOUS
<1>6. \A p \in posted[c] : \E n \in N : f[n] = p
  BY <1>3, <1>4
<1>7. Cardinality(W) + Cardinality(inflight[c]) <= MaxPerMinute
  BY <1>1 DEF RoomOK
<1> HIDE DEF W, A, B, N, f, a, b
<1>8. IsFiniteSet(A) /\ Cardinality(A) <= Cardinality(W)
  BY <1>2, <1>5, ImageCount
<1>9. IsFiniteSet(B) /\ Cardinality(B) <= Cardinality(inflight[c])
  BY <1>2, <1>5, ImageCount
<1>10. /\ IsFiniteSet(N) /\ Cardinality(N) = Cardinality(A) + Cardinality(B) - Cardinality(A \cap B)
       /\ Cardinality(A \cap B) \in Nat /\ Cardinality(A) \in Nat /\ Cardinality(B) \in Nat
  <2>1. IsFiniteSet(A \cap B)
    BY <1>8, FS_Intersection
  <2>2. /\ IsFiniteSet(A \cup B)
        /\ Cardinality(A \cup B) = Cardinality(A) + Cardinality(B) - Cardinality(A \cap B)
    BY <1>8, <1>9, FS_Union
  <2>3. Cardinality(A \cap B) \in Nat /\ Cardinality(A) \in Nat /\ Cardinality(B) \in Nat
    BY <1>8, <1>9, <2>1, FS_CardinalityType
  <2>4. N = A \cup B
    BY <1>5
  <2>5. QED
    BY <2>2, <2>3, <2>4, Zenon
<1>11. IsFiniteSet(posted[c]) /\ Cardinality(posted[c]) <= Cardinality(N)
  BY <1>5, <1>6, <1>10, ImageCount
<1>12. Cardinality(posted[c]) \in Nat /\ Cardinality(N) \in Nat
  BY <1>10, <1>11, FS_CardinalityType
<1>13. QED
  BY <1>1, <1>2, <1>7, <1>8, <1>9, <1>10, <1>11, <1>12

\* Telegram never posts more than MaxPerMinute greetings of a chat within a minute, however
\* long the sends and the marks take: reserve counts what is in flight, and finish stamps it
\* with a time no earlier than the post.
THEOREM CapHolds == Spec => []RateHolds
<1>1. NewcomersInv => RateHolds
  BY PostedFits DEF RateHolds
<1>2. QED
  BY <1>1, NewcomersInvariant, PTL
=============================================================================
