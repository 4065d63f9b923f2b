----------------------------- MODULE Newcomers -----------------------------
(***************************************************************************)
(* What the chats' workers do about people who join or write: they ask the *)
(* blocklists, and a newcomer is greeted once (Welcomer).  The greeting is *)
(* admitted on the chat's worker and delivered by a goroutine of its own.  *)
(***************************************************************************)
EXTENDS Blocklist

CONSTANTS Greeting,              \* the chats whose config has a greeting
          MaxPerMinute, Window,  \* the cap on greetings of a chat, and its minute
          MaxJobs, MaxMishaps    \* bounds on updates handled, and on crashes and failures

ASSUME WelcomeAssumption == Greeting \subseteq Chats /\ MaxPerMinute \in Nat /\ Window \in Nat \ {0}
ASSUME NewcomersBounds == MaxJobs \in Nat /\ MaxMishaps \in Nat

VARIABLES
  job,        \* what each chat's worker does: a join or a message of a user
  inflight,   \* Welcomer.inflight
  sent,       \* Welcomer.sent: the stamps, each with the number of its greeting
  welcomed,   \* the table welcome_sent
  dlv,        \* the goroutine of DeliverAsync, one per pair at most
  posted,     \* the greetings of this process that Telegram posted within the last minute
  greets,     \* how often a pair was greeted
  excused,    \* how often a greeting went out of which no row is left
  late,       \* how often a join was reserved after it was looked up too early
  jobs, mishaps

welcomer == <<inflight, sent, dlv>>
history == <<posted, greets, excused, late>>
vars == <<listVars, job, welcomer, welcomed, history, jobs, mishaps>>

NoJob == [pc |-> "idle", user |-> "none", join |-> FALSE,
          named |-> FALSE, overlaps |-> FALSE]
NoDelivery == [pc |-> "none", id |-> 0, age |-> 0, named |-> FALSE]
PerPair(v) == [c \in Chats |-> [u \in Users |-> v]]

Init ==
  /\ ListInit
  /\ job = [c \in Chats |-> NoJob]
  /\ inflight = [c \in Chats |-> {}] /\ sent = [c \in Chats |-> {}]
  /\ welcomed = {}
  /\ dlv = PerPair(NoDelivery)
  /\ posted = [c \in Chats |-> {}]
  /\ greets = PerPair(0) /\ excused = PerPair(0) /\ late = PerPair(0)
  /\ jobs = 0 /\ mishaps = 0

Mishap == mishaps < MaxMishaps /\ mishaps' = mishaps + 1
Excuse(c, u) == excused' = [excused EXCEPT ![c][u] = @ + 1]
InWindow(stamps) == {s \in stamps : s.age < Window}

-----------------------------------------------------------------------------
(* The chat's worker. *)

\* Admit up to the blocklist; or the cascade's blocklist stage, for a message.  A join
\* in a chat that is not registered, has no greeting, is disabled or whose row cannot
\* be read ends before it and changes nothing.
Take(c, u, join) ==
  /\ job[c].pc = "idle" /\ jobs < MaxJobs
  /\ join => c \in Greeting
  /\ jobs' = jobs + 1
  /\ job' = [job EXCEPT ![c] = [pc |-> "listed", user |-> u, join |-> join,
                                named |-> u \in named, overlaps |-> FALSE]]
  /\ Listed(c, u)
  /\ UNCHANGED <<welcomer, welcomed, history, mishaps>>

\* The request of the worker's check comes back.
CASReply(c) ==
  /\ Reply(c, job[c].user)
  /\ UNCHANGED <<job, welcomer, welcomed, history, jobs, mishaps>>

\* The answer of Listed: nobody listed is greeted.
Checked(c) ==
  /\ job[c].pc = "listed" /\ check[c].pc = "told"
  /\ check' = [check EXCEPT ![c] = NoCheck]
  /\ job' = [job EXCEPT ![c] = IF job[c].join /\ ~check[c].listed
                               THEN [job[c] EXCEPT !.pc = "known"] ELSE NoJob]
  /\ UNCHANGED <<lols, cache, breaker, welcomer, welcomed, history, jobs, mishaps>>

\* WasWelcomed and TrustCount: somebody known, and whoever cannot be looked up, is
\* not greeted.  The answer of WasWelcomed may be outdated at the reservation: it
\* overlaps a greeting that is in flight.
Known(c) ==
  /\ job[c].pc = "known"
  /\ \/ job' = [job EXCEPT ![c] = NoJob]
     \/ /\ <<c, job[c].user>> \notin welcomed
        /\ job' = [job EXCEPT ![c].pc = "reserve", ![c].overlaps = job[c].user \in inflight[c]]
  /\ UNCHANGED <<listVars, welcomer, welcomed, history, jobs, mishaps>>

\* Mutant: what is being sent does not count against the cap.
MutHasRoom(c) == Cardinality(InWindow(sent[c])) < MaxPerMinute

HasRoom(c) == Cardinality(InWindow(sent[c])) + Cardinality(inflight[c]) < MaxPerMinute

\* reserve, and DeliverAsync starts the goroutine.  The greeting takes its number from
\* the update that caused it.
Reserve(c) ==
  LET u == job[c].user
  IN /\ job[c].pc = "reserve"
     /\ job' = [job EXCEPT ![c] = NoJob]
     /\ IF u \notin inflight[c] /\ HasRoom(c)
        THEN /\ inflight' = [inflight EXCEPT ![c] = @ \cup {u}]
             /\ dlv' = [dlv EXCEPT ![c][u] = [pc |-> "send", id |-> jobs, age |-> 0,
                                            named |-> job[c].named]]
             /\ late' = [late EXCEPT ![c][u] = IF job[c].overlaps THEN @ + 1 ELSE @]
        ELSE UNCHANGED <<inflight, dlv, late>>
     /\ UNCHANGED <<listVars, sent, welcomed, posted, greets, excused, jobs, mishaps>>

-----------------------------------------------------------------------------
(* Deliver. *)

\* finish: the reservation goes and the window gets a stamp of the given age, pruned
\* as of that moment.
Finish(c, u, age) ==
  /\ inflight' = [inflight EXCEPT ![c] = @ \ {u}]
  /\ sent' = [sent EXCEPT ![c] = {s \in @ : s.age < age + Window}
                                    \cup {[id |-> dlv[c][u].id, age |-> age]}]
  /\ dlv' = [dlv EXCEPT ![c][u] = NoDelivery]

\* SendWelcome reaches Telegram, or fails before.
Send(c, u) ==
  /\ dlv[c][u].pc = "send"
  /\ \/ /\ posted' = [posted EXCEPT ![c] = @ \cup {[id |-> dlv[c][u].id, age |-> 0]}]
        /\ greets' = [greets EXCEPT ![c][u] = @ + 1]
        /\ dlv' = [dlv EXCEPT ![c][u].pc = "sent"]
        /\ UNCHANGED <<inflight, sent, mishaps>>
     \/ /\ Mishap /\ Finish(c, u, 0) /\ UNCHANGED <<posted, greets>>
  /\ UNCHANGED <<listVars, job, welcomed, excused, late, jobs>>

\* SendWelcome returns; a lost answer reads as a failed send, which is not marked.
Returns(c, u) ==
  /\ dlv[c][u].pc = "sent"
  /\ \/ /\ dlv' = [dlv EXCEPT ![c][u].pc = "mark"]
        /\ UNCHANGED <<inflight, sent, excused, mishaps>>
     \/ Mishap /\ Finish(c, u, 0) /\ Excuse(c, u)
  /\ UNCHANGED <<listVars, job, welcomed, posted, greets, late, jobs>>

\* Mutant: the reservation is released before the mark.
MutMark(c, u) ==
  /\ dlv[c][u].pc = "mark"
  /\ IF u \in inflight[c]
     THEN inflight' = [inflight EXCEPT ![c] = @ \ {u}] /\ UNCHANGED <<sent, dlv, welcomed>>
     ELSE welcomed' = welcomed \cup {<<c, u>>} /\ Finish(c, u, dlv[c][u].age)
  /\ UNCHANGED <<listVars, job, posted, greets, excused, late, jobs, mishaps>>

\* MarkWelcomed; the reservation is kept until it has returned.
Mark(c, u) ==
  /\ dlv[c][u].pc = "mark"
  /\ dlv' = [dlv EXCEPT ![c][u].pc = "finish"]
  /\ \/ welcomed' = welcomed \cup {<<c, u>>} /\ UNCHANGED <<excused, mishaps>>
     \/ Mishap /\ Excuse(c, u) /\ UNCHANGED welcomed
  /\ UNCHANGED <<listVars, job, inflight, sent, posted, greets, late, jobs>>

Marked(c, u) ==
  /\ dlv[c][u].pc = "finish"
  /\ Finish(c, u, dlv[c][u].age)
  /\ UNCHANGED <<listVars, job, welcomed, history, jobs, mishaps>>

-----------------------------------------------------------------------------
\* The LOLS loop.
Sync == Refresh /\ UNCHANGED <<job, welcomer, welcomed, history, jobs, mishaps>>

\* A tick.  A write of the store takes less than the window.
Tick ==
  LET Older(s) == [s EXCEPT !.age = @ + 1]
      OlderUpTo(s, cap) == IF s.age < cap THEN Older(s) ELSE s
  IN /\ ListTick
     /\ \A c \in Chats, u \in Users : dlv[c][u].age < Window
     /\ dlv' = [c \in Chats |-> [u \in Users |->
                 IF dlv[c][u].pc \in {"mark", "finish"}
                 THEN Older(dlv[c][u]) ELSE dlv[c][u]]]
     /\ sent' = [c \in Chats |-> {OlderUpTo(s, 2 * Window) : s \in sent[c]}]
     /\ posted' = [c \in Chats |-> InWindow({Older(p) : p \in posted[c]})]
     /\ UNCHANGED <<job, inflight, welcomed, greets, excused, late, jobs, mishaps>>

\* The process dies.  A greeting that is not marked yet may be repeated by the next
\* one, which knows nothing of the minute before either: Welcomer.sent is in memory,
\* so the cap is one of a process and posted counts anew with it.
Crash ==
  /\ Mishap
  /\ ListRestart
  /\ job' = [c \in Chats |-> NoJob]
  /\ inflight' = [c \in Chats |-> {}] /\ sent' = [c \in Chats |-> {}]
  /\ excused' = [c \in Chats |-> [u \in Users |->
                  IF dlv[c][u].pc \in {"sent", "mark"} THEN excused[c][u] + 1 ELSE excused[c][u]]]
  /\ dlv' = PerPair(NoDelivery) /\ posted' = [c \in Chats |-> {}]
  /\ UNCHANGED <<welcomed, greets, late, jobs>>

Next ==
  \/ \E c \in Chats, u \in Users, join \in BOOLEAN : Take(c, u, join)
  \/ \E c \in Chats : CASReply(c) \/ Checked(c) \/ Known(c) \/ Reserve(c)
  \/ \E c \in Chats, u \in Users : Send(c, u) \/ Returns(c, u) \/ Mark(c, u) \/ Marked(c, u)
  \/ Sync \/ Tick \/ Crash

Spec == Init /\ [][Next]_vars

-----------------------------------------------------------------------------
(* Properties. *)

\* The types of the workers' and the Welcomer's state.
TypeOK ==
  /\ ListTypeOK
  /\ \A c \in Chats : job[c].pc \in {"idle", "listed", "known", "reserve"} /\ job[c].user \in Users \cup {"none"}
  /\ inflight \in [Chats -> SUBSET Users]
  /\ welcomed \subseteq Chats \X Users
  /\ \A c \in Chats, u \in Users :
       /\ dlv[c][u].pc \in {"none", "send", "sent", "mark", "finish"}
       /\ u \in inflight[c] <=> dlv[c][u].pc # "none"

\* Every greeting of a pair after the first has one of the known reasons: the answer
\* or the mark of an earlier one was lost, in a failure or a crash, or the join was
\* looked up while an earlier one was in flight and reserved when it was over.
\* (Welcomer.Deliver keeps the reservation until the mark is written, so a join that
\* is looked up after the send cannot slip in before the mark)
RepeatsAccounted ==
  \A c \in Chats, u \in Users : greets[c][u] <= 1 + excused[c][u] + late[c][u]

\* What the architecture notes say: each (chat, user) is greeted once, and a second
\* join before the mark is not sent.  Only greetings of which no row is left, by a
\* failure or a crash, are repeated.
WelcomedOnce == \A c \in Chats, u \in Users : greets[c][u] <= 1 + excused[c][u]

\* Telegram never posts more than MaxPerMinute greetings of one process within a minute
\* in one chat, however long the calls take.  (reserve counts what is in flight)
RateHolds == \A c \in Chats : Cardinality(posted[c]) <= MaxPerMinute

\* Nobody whom LOLS names when the worker checks is greeted, whatever refreshes failed
\* or came back empty before.  (RefreshFull, RefreshDelta, Admit)
ListedNotGreeted == \A c \in Chats, u \in Users : ~dlv[c][u].named
=============================================================================
