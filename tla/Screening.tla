----------------------------- MODULE Screening -----------------------------
(***************************************************************************)
(* How one chat's worker judges messages: Handler.process with the wiring  *)
(* of main (decideWith), the detection cascade, the behaviour windows, the *)
(* trust counter and the LLM vote, up to the hand-over to Machine.Handle.  *)
(*                                                                         *)
(* One chat, one message (or album) at a time, as its sequencer runs them. *)
(* Beside it the config is reloaded, administrators change, the windows    *)
(* are swept, LLM providers answer late or never, and the process crashes. *)
(***************************************************************************)
EXTENDS Naturals, Sequences, FiniteSets

CONSTANTS Users, Rosters,             \* accounts, and sets of administrators to start with
          ChannelBot,                 \* the account of every post made as a channel
          Channels, LinkedChannel,    \* channels that post, and the chat's own
          NoText,                     \* a message without text
          Posts,                      \* what is posted or edited: messages, or the parts of an album
          Configs,                    \* what a reload may install
          TrustThreshold,             \* cascade.TrustThreshold, read once at startup
          DupThreshold, DupWindow, ShortThreshold, ShortWindow, ShortLen,
          FlagEdits, NameMatchSanction, CaptionMinLen, ReviewKeyboard,
          Providers, Policies,        \* voting LLM providers; policies to start with
          MaxHandled,                 \* bounds on messages, and on what happens
          MaxChanges                  \* beside them: reloads, promotions, crashes

Accounts == Users \cup {ChannelBot}
\* A message: what the detectors see of it.  hits are the hard rules its content
\* meets, fake how its author resembles the administrator `like`.
Message == [account : Accounts, kind : {"user", "bot", "channel"}, origin : Channels \cup {"none"},
            text : STRING, len : Nat,
            hits : SUBSET {"deny", "domain", "document", "link", "limit"},
            fake : {"none", "tag", "handle", "name"}, like : Users,
            media : BOOLEAN, keyboard : BOOLEAN, viaBot : BOOLEAN]
Config == [force : BOOLEAN, enforce : BOOLEAN, startDry : BOOLEAN, limit : Nat, minLen : Nat \ {0}]

\* Telegram makes an album of one author's messages.
ASSUME PostsAssumption ==
  \A post \in Posts : /\ post.parts \in Seq(Message) \ {<<>>} /\ post.edited \in BOOLEAN
                      /\ \A i \in DOMAIN post.parts : post.parts[i].account = post.parts[1].account
                      /\ post.edited => Len(post.parts) = 1
ASSUME ConfigsAssumption == Configs \subseteq Config /\ Configs # {}
ASSUME ScreeningBounds ==
  /\ TrustThreshold \in Nat /\ DupThreshold \in Nat /\ ShortThreshold \in Nat
  /\ DupWindow \in Nat /\ ShortWindow \in Nat /\ ShortLen \in Nat /\ CaptionMinLen \in Nat
  /\ FlagEdits \in BOOLEAN /\ NameMatchSanction \in BOOLEAN /\ ReviewKeyboard \in BOOLEAN
  /\ Rosters \subseteq SUBSET Users /\ Policies \subseteq {"any", "all"} /\ MaxHandled \in Nat
  /\ MaxChanges \in Nat

NoRow == [enabled |-> FALSE, dry |-> FALSE, found |-> FALSE]
NoVote == [p \in Providers |-> "none"]
\* A provider that fails counts as one that does not say spam.
Answers == {"spam", "not_spam"}

VARIABLES
  cfg,            \* config.Store.cur
  row,            \* the chat's row of the table chats
  roster, untold, \* the administrators; members whose change the bot has not learnt of yet
  trust, known,   \* users.meaningful_count and the table trust_seen
  dup, short,     \* MemHistory: the two windows of every account; an event has the number
                  \* of its message and an age
  policy,         \* the LLM policy of this process
  job,            \* the message being handled
  votes, got,     \* answers sent by the providers, and those taken from the channel
  clean,          \* per account, the texts of fresh messages that were let pass
  log,            \* messages let past the behaviour windows, or deferred before them
  handled, changes

store == <<row, trust, known>>
windows == <<dup, short>>
llm == <<votes, got>>
vars == <<cfg, store, roster, untold, windows, policy, job, llm, clean, log, handled, changes>>

Idle == [pc |-> "idle", parts |-> <<>>, edited |-> FALSE, cfg |-> CHOOSE c \in Configs : TRUE, admins |-> {},
         verdict |-> "none", dry |-> TRUE,
         admin |-> FALSE, cfgs |-> {}, open |-> FALSE]

Init ==
  /\ cfg \in Configs
  /\ row = NoRow
  /\ roster \in Rosters /\ untold = {}
  /\ trust = [a \in Accounts |-> 0] /\ known = [a \in Accounts |-> {}]
  /\ dup = [a \in Accounts |-> {}] /\ short = [a \in Accounts |-> {}]
  /\ policy \in Policies
  /\ job = Idle
  /\ votes = NoVote /\ got = NoVote
  /\ clean = [a \in Accounts |-> {}] /\ log = {}
  /\ handled = 0 /\ changes = 0

-----------------------------------------------------------------------------
(* The judged message of an album, and what the config says of the chat. *)

\* The first part with text is judged, with the attachments of all parts.
Judged(parts) ==
  LET texted == {i \in DOMAIN parts : parts[i].text # NoText}
      first == IF texted = {} THEN 1 ELSE CHOOSE i \in texted : \A j \in texted : i <= j
  IN [parts[first] EXCEPT
        !.hits = @ \cup ({"document"} \cap UNION {parts[i].hits : i \in DOMAIN parts}),
        !.media = \E i \in DOMAIN parts : parts[i].media,
        !.keyboard = \E i \in DOMAIN parts : parts[i].keyboard,
        !.viaBot = \E i \in DOMAIN parts : parts[i].viaBot]

DryRunFor(c, stored) == c.force \/ (~c.enforce /\ stored)

\* Mutant: registering overwrites the row, as UpsertChat does.
MutRegisterChat(c) == row' = [enabled |-> TRUE, dry |-> c.startDry, found |-> TRUE]

\* RegisterChat: only a chat without a row gets one.  A failing write is only logged.
RegisterChat(c) ==
  \/ row' = IF row.found THEN row ELSE [enabled |-> TRUE, dry |-> c.startDry, found |-> TRUE]
  \/ UNCHANGED row

-----------------------------------------------------------------------------
(* Behaviour windows. *)

Prune(events, window) == {e \in events : e.age <= window}

DupEligible(m) == DupThreshold > 0 /\ m.text # NoText
ShortFloodEligible(m) == ShortThreshold > 0 /\ m.len <= ShortLen /\ m.text # NoText

\* The duplicate window of m's author with m in it, and the copies of m there.
WithDup(m) == Prune(dup[m.account], DupWindow) \cup {[id |-> handled, text |-> m.text, age |-> 0]}
DupCount(m) == Cardinality({e \in WithDup(m) : e.text = m.text})

WithShort(m) == Prune(short[m.account], ShortWindow) \cup {[id |-> handled, age |-> 0]}

RecordAndCountDup(m) ==
  dup' = IF DupEligible(m) THEN [dup EXCEPT ![m.account] = WithDup(m)] ELSE dup
RecentShortCount(m) ==
  short' = IF ShortFloodEligible(m) THEN [short EXCEPT ![m.account] = WithShort(m)] ELSE short

\* Mutant: a deferred message leaves no trace.
MutObserveBehavior(m) == UNCHANGED windows

ObserveBehavior(m) == RecordAndCountDup(m) /\ RecentShortCount(m)

\* CheckBehavior: an edit where edits are flagged is not recorded at all, a duplicate
\* is not recorded as a short message, and the verdict on short messages is withheld
\* from trusted authors although they are recorded.
Behavior(m, edited, trusted) ==
  IF FlagEdits /\ edited THEN "edited"
  ELSE IF DupEligible(m) /\ DupCount(m) >= DupThreshold THEN "duplicate"
  ELSE IF ShortFloodEligible(m) /\ ~trusted /\ Cardinality(WithShort(m)) >= ShortThreshold THEN "short"
  ELSE "none"
CheckBehavior(m, result) ==
  CASE result = "edited" -> UNCHANGED windows
    [] result = "duplicate" -> RecordAndCountDup(m) /\ UNCHANGED short
    [] OTHER -> RecordAndCountDup(m) /\ RecentShortCount(m)

\* Twice the wider window, or an hour when both are off.
SweepMaxAge ==
  LET w == IF DupWindow > ShortWindow THEN DupWindow ELSE ShortWindow
  IN IF w = 0 THEN 1 ELSE 2 * w

Noted(m, fate, trusted) ==
  log' = IF DupEligible(m) \/ ShortFloodEligible(m)
         THEN log \cup {[id |-> handled, account |-> m.account, text |-> m.text, age |-> 0,
                         fate |-> fate, short |-> ShortFloodEligible(m), trusted |-> trusted]}
         ELSE log

-----------------------------------------------------------------------------
(* The cascade. *)

\* Rules.Check: words, domains and documents bind everyone, links and limits only
\* the untrusted.
RulesCheck(m, trusted) ==
  \/ m.hits \cap {"deny", "domain", "document"} # {}
  \/ ~trusted /\ m.hits \cap {"link", "limit"} # {}

\* ClassifyFakeAdmin against the list at hand.
FakeAdmin(m, admins) ==
  IF m.fake = "tag" \/ (m.fake = "handle" /\ m.like \in admins) THEN "strong"
  ELSE IF m.fake = "name" /\ m.like \in admins
       THEN IF NameMatchSanction THEN "strong" ELSE "name"
       ELSE "none"

\* What Bayes makes of an untrusted author's message.  Without a basis to score,
\* text is borderline when the LLM stage is on; a read error skips the stage.
Bayes(m, score) ==
  CASE score = "spam" -> "hit"
    [] score = "borderline" /\ Providers # {} -> "borderline"
    [] score = "unscored" /\ Providers # {} /\ m.text # NoText -> "borderline"
    [] OTHER -> "none"
Scores == {"spam", "borderline", "pass", "unscored", "error"}

\* TrustCount read by IsTrusted; an unreadable counter is "untrusted".
Trusted(a, t) == t \in {FALSE, trust[a] >= TrustThreshold}

\* reviewSignal: media with too short a caption, or a keyboard no inline bot brought.
ReviewSignal(m) == (m.media /\ m.len < CaptionMinLen) \/ (ReviewKeyboard /\ m.keyboard /\ ~m.viaBot)

\* AdminIdentities, as AdminCache promises it: a list that is right but for changes no
\* update told of within the last TTL, or an error with a list that can only miss
\* promotions besides.  (external to the worker)
Resolved(admins) == admins \ untold = roster \ untold
Stale(admins) == admins \subseteq roster \cup untold

-----------------------------------------------------------------------------
(* The worker. *)

Goto(pc) == job' = [job EXCEPT !.pc = pc]
Ruled(v, pc) == job' = [job EXCEPT !.verdict = v, !.pc = pc]
Done == job' = Idle /\ votes' = NoVote /\ got' = NoVote
M == Judged(job.parts)

\* process up to decide: the config is read once, here, for everything that follows.
Take(post) ==
  /\ job.pc = "idle" /\ handled < MaxHandled
  /\ handled' = handled + 1
  /\ RegisterChat(cfg)
  /\ job' = [Idle EXCEPT !.pc = "lookup", !.parts = post.parts, !.edited = post.edited, !.cfg = cfg,
                         !.admin = post.parts[1].account \in roster \ untold, !.cfgs = {cfg},
                         !.open = ~row.found \/ row.enabled]
  /\ UNCHANGED <<cfg, trust, known, roster, untold, windows, policy, llm, clean, log, changes>>

\* Mutant: an unresolved list is taken for an empty one.
MutLookup ==
  /\ job.pc = "lookup"
  /\ \E admins \in SUBSET Users :
       /\ Resolved(admins) \/ admins = {}
       /\ job' = [job EXCEPT !.admins = admins,
                             !.pc = IF M.account \in admins THEN "review" ELSE "judge"]
  /\ UNCHANGED <<cfg, store, roster, untold, windows, policy, llm, clean, log, handled, changes>>

\* Decide's gate.  An administrator is immune, by a stale list too; anybody else
\* is not judged without a list, only observed.
Lookup ==
  /\ job.pc = "lookup"
  /\ \E admins \in SUBSET Users :
       \/ /\ Resolved(admins)
          /\ job' = [job EXCEPT !.admins = admins,
                                !.pc = IF M.account \in admins THEN "review" ELSE "judge"]
          /\ UNCHANGED <<windows, log>>
       \/ /\ Stale(admins) /\ M.account \in admins
          /\ Goto("review")
          /\ UNCHANGED <<windows, log>>
       \/ /\ Stale(admins) /\ M.account \notin admins
          /\ ObserveBehavior(M)
          /\ Noted(M, "deferred", FALSE)
          /\ Ruled("deferred", "settle")
  /\ UNCHANGED <<cfg, store, roster, untold, policy, llm, clean, handled, changes>>

\* The detectors in order: blocklist, rules, impersonation, behaviour, Bayes.
Judge ==
  /\ job.pc = "judge"
  /\ \E listed \in BOOLEAN, trusted \in BOOLEAN, score \in Scores :
       LET hard == \/ listed
                   \/ RulesCheck(M, trusted)
                   \/ ~trusted /\ FakeAdmin(M, job.admins) = "strong"
           behaviour == Behavior(M, job.edited, trusted)
           bayes == IF trusted THEN "none" ELSE Bayes(M, score)
       IN /\ Trusted(M.account, trusted)
          /\ \/ /\ hard
                /\ Ruled("hit", "linked")
                /\ UNCHANGED <<windows, log>>
             \/ /\ ~hard
                /\ CheckBehavior(M, behaviour)
                /\ IF behaviour # "none"
                   THEN Ruled("hit", "linked") /\ UNCHANGED log
                   ELSE /\ Noted(M, "judged", trusted)
                        /\ Ruled(bayes, CASE bayes = "hit" -> "linked"
                                          [] bayes = "borderline" -> "poll"
                                          [] OTHER -> "review")
  /\ UNCHANGED <<cfg, store, roster, untold, policy, llm, clean, handled, changes>>

-----------------------------------------------------------------------------
(* The LLM vote: adjudicateEach and decide. *)

Consensus(answers) ==
  IF policy = "any" THEN \E p \in Providers : answers[p] = "spam"
  ELSE \A p \in Providers : answers[p] = "spam"

\* A provider's goroutine sends its answer; the worker may be past listening.
Answer(p) ==
  /\ job.pc \in {"poll", "wait"} /\ votes[p] = "none"
  /\ \E a \in Answers : votes' = [votes EXCEPT ![p] = a]
  /\ UNCHANGED <<cfg, store, roster, untold, windows, policy, job, got, clean, log, handled, changes>>

Arrived == {p \in Providers : votes[p] # "none" /\ got[p] = "none"}

\* The last answer is in, or the deadline passed: the policy decides on what came.
\* What else the providers send goes to a channel nobody reads.
Adjudicated(answers) ==
  /\ got' = NoVote
  /\ IF Consensus(answers) THEN Ruled("llm", "linked") /\ UNCHANGED votes
     ELSE Ruled("borderline", "review") /\ votes' = NoVote

Receive(p) ==
  /\ p \in Arrived
  /\ LET answers == [got EXCEPT ![p] = votes[p]]
     IN IF \A q \in Providers : answers[q] # "none" THEN Adjudicated(answers)
        ELSE got' = answers /\ Goto("poll") /\ UNCHANGED votes

\* The first select: answers that are there are taken before the deadline counts.
Poll ==
  /\ job.pc = "poll"
  /\ \/ \E p \in Providers : Receive(p)
     \/ Arrived = {} /\ Goto("wait") /\ UNCHANGED llm
  /\ UNCHANGED <<cfg, store, roster, untold, windows, policy, clean, log, handled, changes>>

\* Mutant: the wait for an answer has no deadline.
MutWait ==
  /\ job.pc = "wait"
  /\ \E p \in Providers : Receive(p)
  /\ UNCHANGED <<cfg, store, roster, untold, windows, policy, clean, log, handled, changes>>

\* The second select: an answer or the deadline, whichever the runtime picks.
Wait ==
  /\ job.pc = "wait"
  /\ \/ \E p \in Providers : Receive(p)
     \/ Adjudicated(got)
  /\ UNCHANGED <<cfg, store, roster, untold, windows, policy, clean, log, handled, changes>>

\* ReviewCandidate, after the cascade and the LLM have declined.  It resolves the
\* administrators again, and declines without a list.
Review ==
  /\ job.pc = "review"
  /\ \E admins \in SUBSET Users, resolved \in BOOLEAN, trusted \in BOOLEAN :
       /\ IF resolved THEN Resolved(admins) ELSE Stale(admins)
       /\ Trusted(M.account, trusted)
       /\ IF /\ ReviewSignal(M) \/ FakeAdmin(M, admins) = "name"
             /\ ~trusted /\ resolved /\ M.account \notin admins
          THEN Ruled("review", "linked") ELSE Goto("settle")
  /\ UNCHANGED <<cfg, store, roster, untold, windows, policy, llm, clean, log, handled, changes>>

-----------------------------------------------------------------------------
(* The end of process. *)

\* fromLinkedChannel: the chat's own channel is let be; a failed lookup exempts nobody.
Linked ==
  /\ job.pc = "linked"
  /\ \/ Goto("gate") /\ UNCHANGED llm
     \/ M.kind = "channel" /\ M.origin = LinkedChannel /\ Done
  /\ UNCHANGED <<cfg, store, roster, untold, windows, policy, clean, log, handled, changes>>

\* Mutant: an edit counts as a new message.
MutEarnsTrust ==
  job.verdict # "deferred" /\ M.kind = "user" /\ M.len >= job.cfg.minLen /\ M.text # NoText

\* A fresh, judged, meaningful message of a real user counts.
EarnsTrust ==
  /\ ~job.edited /\ job.verdict # "deferred"
  /\ M.kind = "user" /\ M.len >= job.cfg.minLen /\ M.text # NoText

BumpTrustDistinct(a, text, limit) ==
  IF (limit > 0 /\ trust[a] >= limit) \/ text \in known[a] THEN UNCHANGED <<trust, known>>
  ELSE trust' = [trust EXCEPT ![a] = @ + 1] /\ known' = [known EXCEPT ![a] = @ \cup {text}]

\* A message nobody acts on.  The write of the counter may fail.
Settle ==
  /\ job.pc = "settle"
  /\ \/ EarnsTrust /\ BumpTrustDistinct(job.parts[1].account, M.text, job.cfg.limit)
     \/ UNCHANGED <<trust, known>>
  /\ clean' = IF ~job.edited /\ job.verdict # "deferred" /\ M.text # NoText
              THEN [clean EXCEPT ![M.account] = @ \cup {M.text}] ELSE clean
  /\ Done
  /\ UNCHANGED <<cfg, row, roster, untold, windows, policy, log, handled, changes>>

\* GetChat: an unreadable or disabled row stops moderation; otherwise the row, then
\* the config read at the start, then the verdict itself say whether to act.
Gate ==
  /\ job.pc = "gate"
  /\ \/ Done
     \/ /\ ~row.found \/ row.enabled
        /\ job' = [job EXCEPT !.pc = "handle",
                     !.dry = \/ DryRunFor(job.cfg, IF row.found THEN row.dry ELSE job.cfg.startDry)
                             \/ job.verdict = "review"]
        /\ UNCHANGED llm
  /\ UNCHANGED <<cfg, store, roster, untold, windows, policy, clean, log, handled, changes>>

\* Machine.Handle has run (module Incident).
Handle ==
  /\ job.pc = "handle"
  /\ Done
  /\ UNCHANGED <<cfg, store, roster, untold, windows, policy, clean, log, handled, changes>>

Worker == Lookup \/ Judge \/ Poll \/ Wait \/ Review \/ Linked \/ Settle \/ Gate \/ Handle

-----------------------------------------------------------------------------
(* Beside the worker. *)

Change == changes < MaxChanges /\ changes' = changes + 1

\* tryReload swaps a valid config in.
Reload ==
  /\ Change
  /\ \E c \in Configs \ {cfg} :
       /\ cfg' = c
       /\ job' = IF job.pc = "idle" THEN job ELSE [job EXCEPT !.cfgs = @ \cup {c}]
  /\ UNCHANGED <<store, roster, untold, windows, policy, llm, clean, log, handled>>

DisableChat ==
  /\ Change
  /\ row.enabled
  /\ row' = [row EXCEPT !.enabled = FALSE]
  /\ UNCHANGED <<cfg, trust, known, roster, untold, windows, policy, job, llm, clean, log, handled>>

\* A member is promoted or demoted: a chat_member update tells of it and invalidates
\* the cached list, or none has told of it yet.
ChangeAdmins ==
  /\ Change
  /\ \E u \in Users, told \in BOOLEAN :
       /\ roster' = IF u \in roster THEN roster \ {u} ELSE roster \cup {u}
       /\ untold' = IF told THEN untold \ {u} ELSE untold \cup {u}
       /\ job' = [job EXCEPT !.admin = @ /\ job.parts[1].account # u]
  /\ UNCHANGED <<cfg, store, windows, policy, llm, clean, log, handled>>

\* The update arrives late, or the list's TTL is over and it is fetched anew.
LearnAdmins ==
  /\ untold # {} /\ untold' = {}
  /\ UNCHANGED <<cfg, store, roster, windows, policy, job, llm, clean, log, handled, changes>>

Sweep ==
  /\ dup' = [a \in Accounts |-> Prune(dup[a], SweepMaxAge)]
  /\ short' = [a \in Accounts |-> Prune(short[a], SweepMaxAge)]
  /\ UNCHANGED <<cfg, store, roster, untold, policy, job, llm, clean, log, handled, changes>>

\* Only the windows read the clock, once per message: it moves between messages.
\* An event too old for every window and sweep need not age further.
Tick ==
  LET Aged(e) == [e EXCEPT !.age = IF @ > SweepMaxAge THEN @ ELSE @ + 1]
      Older(events) == {Aged(e) : e \in events}
  IN /\ job.pc = "idle"
     /\ dup' = [a \in Accounts |-> Older(dup[a])]
     /\ short' = [a \in Accounts |-> Older(short[a])]
     /\ log' = Prune(Older(log), SweepMaxAge)
     /\ UNCHANGED <<cfg, store, roster, untold, policy, job, llm, clean, handled, changes>>

\* The process dies: the windows and the message in hand are gone, the update is
\* marked seen and does not come back.
Crash ==
  /\ Change
  /\ Done
  /\ dup' = [a \in Accounts |-> {}] /\ short' = [a \in Accounts |-> {}]
  /\ log' = {}
  /\ UNCHANGED <<cfg, store, roster, untold, policy, clean, handled>>

Next ==
  \/ \E post \in Posts : Take(post)
  \/ Lookup \/ Judge \/ Poll \/ Wait \/ Review \/ Linked \/ Settle \/ Gate \/ Handle
  \/ \E p \in Providers : Answer(p)
  \/ Reload \/ DisableChat \/ ChangeAdmins \/ LearnAdmins \/ Sweep \/ Tick \/ Crash

Spec == Init /\ [][Next]_vars
\* Every call the worker waits for has a deadline, so it always gets on.
FairSpec == Spec /\ WF_vars(Worker)

-----------------------------------------------------------------------------
(* Properties. *)

Rows == {NoRow} \cup [enabled : BOOLEAN, dry : BOOLEAN, found : {TRUE}]
Verdicts == {"none", "deferred", "borderline", "hit", "llm", "review"}

Raised == job.pc = "handle"  \* an incident is being handed to Machine.Handle

\* The types of the worker's state.
TypeOK ==
  /\ cfg \in Configs /\ row \in Rows /\ roster \subseteq Users /\ untold \subseteq Users
  /\ trust \in [Accounts -> Nat] /\ known \in [Accounts -> SUBSET STRING]
  /\ policy \in Policies
  /\ job.pc \in {"idle", "lookup", "judge", "poll", "wait", "review", "linked", "settle", "gate", "handle"}
  /\ job.verdict \in Verdicts /\ job.cfg \in Configs
  /\ votes \in [Providers -> Answers \cup {"none"}] /\ got \in [Providers -> Answers \cup {"none"}]

\* A flood is noticed: a message that is let past the behaviour windows is not one
\* copy too many of what its author posted within the window, nor an untrusted
\* author's short message too many, counting what an outage of the administrator
\* lookup deferred in between.  (Cascade.Decide's deferral, MemHistory, the sweep)
FloodNoticed ==
  \A e \in log : e.fate = "judged" /\ e.age = 0 =>
    LET back == {b \in log : b.account = e.account /\ b.id <= e.id}
        copies == {b \in back : b.text = e.text /\ b.age <= DupWindow}
        shorts == {b \in back : b.short /\ b.age <= ShortWindow}
    IN /\ DupThreshold > 0 => Cardinality(copies) < DupThreshold
       /\ e.short /\ ~e.trusted => Cardinality(shorts) < ShortThreshold

\* No incident is raised against somebody who was an administrator from the moment
\* the message was taken up, whatever lookups failed meanwhile, unless the bot could
\* not have learnt of the promotion yet.  (Decide's gate and ReviewCandidate's own)
AdminImmune == Raised => ~job.admin

\* Trust is earned by distinct, fresh messages that were judged and let pass; edits,
\* repetitions, deferred messages and whatever raised an incident earn none, over
\* crashes too.  (process, BumpTrustDistinct)
TrustEarned == \A a \in Accounts : trust[a] <= Cardinality(clean[a])

\* The bot acts in a chat only if the operator asked for it: the chat was not
\* disabled when the message was taken up, some config in force since then does
\* not hold the chat in dry run, and the verdict is more than a hint.
OperatorObeyed ==
  /\ job.open
  /\ ~job.dry => /\ job.verdict # "review"
                 /\ \E c \in job.cfgs : ~c.force /\ (c.enforce \/ ~(row.found /\ row.dry))

\* An LLM verdict rests on the policy being met by answers that did arrive: an
\* outage or a deadline never makes spam.
LLMConsensus ==
  LET spam == {p \in Providers : votes[p] = "spam"}
  IN job.verdict = "llm" => spam # {} /\ (policy = "all" => spam = Providers)

\* An incident is raised only where the operator lets the bot act, in the strength
\* the operator allows, and by an LLM only on answers that arrived.
\* (process, RegisterChat, DryRunFor; adjudicateEach, decide)
Justified == Raised => OperatorObeyed /\ LLMConsensus

\* A message taken up is settled: nothing it waits for holds the chat's queue for
\* ever.  (the deadline of adjudicate)
Settled == job.pc # "idle" ~> job.pc = "idle"
=============================================================================
