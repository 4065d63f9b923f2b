# TLA+ specifications of tg-antispam

tg-antispam is a Telegram moderation bot in Go: one process, a SQLite database, the
Bot API as its only actuator, and a command line tool that works on the same
database while the bot runs. These modules model the parts in which the order of
steps, a lost answer or a crash decides whether moderation is right.

## Inventory

| Part | State it keeps | Operations | Talks to |
|---|---|---|---|
| Update intake (`telegram/bot.go`, `sequencer.go`, `album.go`, `store/updates.go`) | seen update ids, album buffer and its timers, one queue and worker per chat | receive, buffer, flush, submit, run, stop | handler, router |
| Admin router (`admin_routing.go`) | a routing queue | route a press to the source chat's queue, or answer it | sequencer, buttons |
| Incident machine (`incident/machine.go`, `store/incidents.go`, `undo.go`, `cards.go`) | incident row: state, dry run, decision, audit action, card, evidence | report, override, enforce, evidence, card | port, store |
| Buttons and commands (`admin/callbacks.go`, `commands.go`) | the claim on the incident's one decision | False positive, Confirm, Lift, Enforce, Delete evidence; /spam, /ban, /ham | machine, corpus |
| Decide CLI (`cmd/tg-antispam/decide.go`) | none of its own | confirm, with or without training | same database |
| Learning corpus (`store/bayes.go`, `samples.go`, `train/import.go`) | samples, token and document counts, tokens captured per incident | record, relabel, import, prune | buttons, commands, CLI |
| Captcha (`watch/captcha.go`, `captcha_join_request.go`, `store/captcha.go`) | one row per chat and person; the set of prompts being delivered | join, join request, press, sweep, fail, retry, give up | port, `SanctionSince` |
| Admin cache (`telegram/admincache.go`) | entry, generation, request in flight | look up, fetch, commit, invalidate | port, cascade, membership updates |
| Outbound queue (`queue/`) | priority heap, rate limiters | submit, run, retry after 429 | every port call |
| Message handler (`telegram/bot.go`, wired in `cmd/tg-antispam/main.go`) | the message or album in hand | register, decide, earn trust, gate, hand over | cascade, LLM, machine |
| Detection cascade (`detect/`, `store/trust.go`) | behaviour windows, trust counters, Bayes scores | decide, observe, review, sweep | admin cache, blocklists, LLM |
| LLM stage (`llm/`) | none between messages | vote of the providers under a deadline | cascade |
| Blocklists (`blocklist/`) | CAS cache and circuit breaker, LOLS sets | check, full and delta refresh | cascade, welcome |
| Welcome (`watch/welcome.go`) | reservations, times of recent welcomes, marks | admit, reserve, deliver, mark | blocklists, port |
| Configuration (`config/`) | the config in force | reload | handler |
| Operations, migrations | metrics, schema | - | - |

What is hard: Telegram may apply a call whose answer is lost; the bot may die between
a call and the write that records it; any store write may fail; a press, a command, an
edit, the CLI, the sweep and a moderation decision meet on the same row; cards get
replaced while older ones still have buttons; a membership update overtakes a
request; an LLM answers after its deadline; the config changes under a message in hand;
shutdown races timers. What correctness means, per part:

* Incident machine: a sanction in force can always be seen (`SanctionSince`) and lifted
  (undo); nothing is sanctioned on the detector's word without reviewable evidence; no
  sanction is applied twice; an overturned decision stays true.
* Corpus: every text counts once and under one label; no decided text is forgotten, and a
  refused one is out of reach of whoever comes later.
* Captcha: everyone's challenge ends, nobody is punished for a prompt that never came,
  nobody's sanction is lifted by it.
* Intake: at most once, nothing left behind by a clean exit but what nobody waits for, every
  press answered.
* Cascade and handler: a flood is noticed although the administrator list was unavailable
  for a while, nobody the bot could know as an administrator is sanctioned, trust is earned and never repeated, and the bot
  acts only where the operator lets it.
* Blocklists: a failing service pauses the checks, never for good, and an empty answer
  never empties a list.
* Welcome: once per person but for the reasons the code leaves open, and never faster than the cap.
* Admin cache: never a list known to be wrong, never "no administrators", one request.

## Modules

| Module | Models | One step is |
|---|---|---|
| `Incident` | the incident machine, buttons, commands, the CLI's claim | a store transaction or a Bot API call of the chat's worker, with the local control after it |
| `Learning` | the claim, audit samples, captured tokens, corpus and counts | a store transaction of the bot's worker or of the CLI |
| `Captcha` | the life of a challenge | a store transaction or a Bot API call of a challenge, press or sweep goroutine |
| `Traffic` | poller, router, sequencer, album buffer, shutdown | one critical section or channel operation |
| `AdminCache` | the administrator list of a chat | one critical section of the cache's mutex, or Telegram answering |
| `Dispatcher` | the outbound queue and `submitSync` | a critical section of the queue or its map, a request, or an arm of a select |
| `Screening` | the message handler, the cascade, behaviour windows, trust, the LLM vote, reloads | a store operation, a stage, an arm of a select, or an event beside the worker |
| `Blocklist` | LOLS refreshes, the CAS cache and its breaker | a critical section of the checker, or a refresh |
| `Newcomers` | the chats' workers using `Blocklist`, and the welcome messages | a critical section, a store operation or a Bot API call |
| `ChallengeLife` | what the captcha promises, without its goroutines | one move of a challenge |
| `IncidentProofs`, `LearningProofs`, `CaptchaProofs`, `TrafficProofs`, `AdminCacheProofs`, `DispatcherProofs`, `ScreeningProofs`, `NewcomersProofs` | theorems about each (`NewcomersProofs`: also about `Blocklist`) | - |
| `MC*` | values of the constants for TLC | - |

`Newcomers` extends `Blocklist`: its workers are the callers whose requests race in the
breaker. `Captcha` implements `ChallengeLife` (`Life == INSTANCE ChallengeLife WITH`
`state <- row.state, attempt <- row.attempt, pressed <- pressed`).
The modules meet at their interfaces: `Screening` ends where `Incident` begins (`Handle`), reads
the administrators as `AdminCache` promises them, and takes the blocklist's answer as an
input that `Blocklist` explains; `Captcha` carries the two steps of `Incident` that
`SanctionSince` sees.

`PROJECT.json` maps each definition to the lines it models. A definition called `Mut...`
is a plausible bug in the definition that follows it; it is in no specification and
serves to show that a property would notice.

### Incident

One chat and one sender. All jobs of a chat run on its sequencer, so `pc` and `job`
are those of the chat's one worker; the CLI (`cli`) and a crash interleave with it.
`state`, `dry`, `decision`, `audit`, `card` and `evid` are columns of the row; `member`
is what Telegram holds of the sender, `by` the incident whose call set it. `tries`
numbers the cards of an incident, and the evidence batch under each.
`Report` is `InsertPending` and the choice between `process` and `override`;
`CopyEvidence` to `FinishDryRun` are `process`, `Apply` to `MarkCleaned` are
`Machine.Enforce`, `Claim` to `FinishManualOverride` are `override`; `Press` to
`ForgetEvidence` are `Handler.dispatch`. `Apply` has the three outcomes the code tells
apart: accepted, refused (`ErrRefused`), and anything else, in which case it may have
landed. The action of an Enforce press is the configured one when it runs, one of `EnforceActions`
(`PressVerdicts`), so that a reload between two presses is explored. A store operation that fails adds the incident to `torn`, a crash in its job to
`crashed`; the properties of the `incident` run exempt those incidents only where the
code itself gives up on the row.

Left out: who may press; wording, notices and logs; copies left by a lost answer of
`CopyMessages` (nothing refers to them); a timed-out call that lands later than the
next step. A failed `InsertPending`, `RecordDecision` or keyboard strip changes
nothing.

### Learning

`Press`, `Command`, `CliDecide`, `TakeOver` and `Raise` begin jobs; `CheckCard` to
`Refuse` are their transactions. `dry` and `unacted` are the incidents an override may still
claim: observed ones, and live ones whose row has no sanction recorded as applied. A press of
Enforce gives its claim back before it trains, so a job of the bot and one of the CLI can meet
on an incident there; `overruled` is a history variable, the incidents learned after
`-no-train` had refused them. Whether an undo or an enforcement succeeds is a
choice here, as `Incident` models it. `Raise` is one step because nobody can name an
incident before its card exists. The scopes of the corpus are one scope: training
writes them alike.

### Captcha

One chat and person. `row` is the latest attempt and `snap[p]` the copy a goroutine
works from; `Mine` is the `WHERE attempt=? AND state IN (...)` of `updateCaptcha`. Time
is the flag `due`. `RecordSanction` and `Sanction` are `Incident`'s insertion and
application; both run on the chat's sequencer, and so does `OnJoin`, hence a join never
falls between them. `OnMemberChange` is an admin's doing, which cancels a challenge; `OwnMove` is
the person's own leaving or returning, which the code skips, so that the row stays challenged
without a member to hold. Deleting
the prompt is best effort and left out. Late delivery of a membership event is out of
scope. `ImplementsLife` is the refinement: whoever writes the row, from a copy however old,
moves it as `ChallengeLife` allows.

### Traffic

One chat, one album. A queue element is the set of updates handled as one job.
The poller's and the router's submissions cannot meet `Wait` (shutdown waits for
both first), so they are one step; the album timer's can, so it is three (`FireTake`,
`FireSubmit`, `FireSend`). A press that finds the router full or closed is answered from a
goroutine of its own (`busy`, `AnswerBusy`) which nothing waits for: the exit may overtake it.
A failed `MarkUpdateSeen` drops the update (`DedupFails`); it is one of the mishaps, like a panic
or a crash. The hard deadline of shutdown (30 s) and pruning of seen
ids are left out.

### AdminCache

One chat; a list is the version number of the roster it was read from. A leader
captures generation and entry in `Lookup`, gets an answer in `Fetch` and commits and
publishes in `Commit`; `Abort` is the deferred function after a panic. A waiter has its
result as soon as it is published. `told` is the latest version the bot heard of.

### Dispatcher

A request is one Bot API call of one caller. `Call`, `MapChat` and `PushSeq` are
`Submit` (number, map entry, push), run by a caller or, after a 429, by the dispatcher;
`Pop` to `Retry` are `Run`. The numbers are modelled by their order (`fifo`), the limiters by
the chat whose limiter is taken (`lim`). `Attempt` ends in an answer, an error that leaves
the outcome open, or a 429. `CtxEnds` is the other arm of the caller's select: fair only
once `workCtx` has ended, from which all contexts derive. The `wake` channel and the
50 ms poll are the dispatcher being scheduled. `AnswerTrue` is what lets `Incident` treat a
refusal as proof that nothing was applied.

### Screening

One chat; `job` is the message or album its sequencer has in hand. `Take` is `process` up
to the decision (the config is read once, here), `Lookup` the administrator gate of
`Cascade.Decide` with its deferral, `Judge` the stages from blocklist to Bayes, `Poll` and
`Wait` the two selects of `adjudicateEach`, `Review` is `ReviewCandidate`, and `Linked`, `Settle`
and `Gate` are the end of `process`. What a text matches is part of the message (`hits`,
`fake`, `len`), what Bayes and the blocklist say is a choice at the step that asks. A provider
that fails is one that does not say spam. `roster` is the truth and `untold` the members whose
promotion or demotion no update has told of: a lookup without an error is right about everybody
else, as `AdminCache` promises, until `LearnAdmins`, the late update or the refetch after the
TTL. An album is one author's (Telegram
makes albums of one account's messages; `PostsAssumption`). An event of a window carries its
age, capped by `SweepMaxAge`, and the number of the message it came from, so that a window is
a set. Ghosts: `log` (messages let past the windows, or deferred), `clean`
(texts let pass), and in `job` the configs in force since it began, whether its author was
an administrator throughout, and whether the chat was open.

### Blocklist and Newcomers

`Listed` goes up to the unlock before the CAS request, `Reply` is everything after it, so
that several requests are in flight when the circuit opens. Time counts down: a pause or a
cache entry holds what is left of it. The rate limiter and a closing process answer "not
listed" as they please. `named` is whom LOLS named since its last full list, `shut` how long
no probe was possible. In `Newcomers` a job is a join or a message; `Take` and `Checked` are
the blocklist question, `Known` is `WasWelcomed` and the trust count, `Reserve` is `reserve`,
and `Send` to `Marked` are `Deliver` on its own goroutine. `posted` is what Telegram showed
and when; it and the stamps `sent` are sets, told apart by the number of the update that was
greeted. `excused` counts the greetings of which no mark is left, after a lost answer, a failed
mark or a crash; `late` counts the lookups that found no mark while an earlier greeting was in
flight and reserved when it was over, the race described under Findings. The stamps live in
memory, so the cap is one of each process: a crash empties `posted` too. A chat that is disabled
or cannot be read ends `Admit` early, which is a job that never began.

## Runs

| Run | Bounds | Shows |
|---|---|---|
| `incident` | 1 incident, 5 verdicts, user or channel, Enforce as `delete_mute` or `ban`, 2 cards, 1 mishap | visibility, undo, overturned decisions, evidence first, no second sanction, live cards, transient claim |
| `incident_crash` | same, crash exposed | a violation, see Findings |
| `learning` | 1 incident, 2 texts, 1 mishap, symmetry on texts | counts, labels, audit, token retention, what a refusal leaves possible |
| `captcha` | 1 attempt, both modes and both `on_fail`, 1 mishap, give-up after 2 tries | sanctions, prompts, nobody forgotten, every challenge settles |
| `captcha_rejoin` | 2 attempts, button mode, kick, 1 mishap | fencing of attempts; the row implements `ChallengeLife` |
| `captcha_kick` | 1 attempt, kick | a violation |
| `traffic` | 1 chat, 1 message, 2 album parts, 2 presses, queue capacity 1, 1 mishap (crash, panic, failed dedup) | at most once, nothing left, presses answered, shutdown ends |
| `admincache` | 2 callers, TTL 1, 2 roster changes, clock to 4, 1 panic | staleness, ages, single flight, back-off, every lookup ends |
| `dispatcher` | 3 requests, 2 priorities, 2 chats, 1 429 answer | own limiter on every try, true answers, order, every caller returns |
| `screening` | 6 kinds of post, 2 messages, 1 change beside them (reload, told or untold promotion, disabling, crash), thresholds 2, windows 1, 2 LLM providers, both policies | floods noticed across outages, administrators immune, trust earned, incidents justified, every message settled |
| `newcomers` | 2 users, 2 chats (one greets), 2 updates, 2 mishaps, breaker at 1 error, pause 2, request deadline 1, cache of 1, 1 welcome per window of 2 | a bounded pause, a reason for each second welcome, the rate cap, nobody listed greeted |
| `newcomers_twice` | 1 chat, 2 joins, no mishap | a violation |

Why the bounds are enough to be interesting: two cards are needed for a stale card and
its successor, and an override can only replace one at a time; one mishap makes every
step of every job a crash or failure point, and the jobs that follow it run in full.
Two texts make a relabelled one and another to be confused with; two attempts make
an old button and a new row. A clock of 4 with TTL 1 passes the TTL, the grace period
(2) and one back-off. Two callers make a leader and a waiter. Two messages with thresholds of
2 make a flood with an outage, a sweep or a crash between its halves, and a message that
earns the trust the next one is judged by. Two providers make a dissent, or
an answer and a silence. Two chats make a CAS request that fails after another one opened
the circuit, and a request deadline below the pause lets it fail within it; two users fill
a cache of one and a cap of one. Several incidents share
only the sender's status: the theorems cover any number.
`CHECK_DEADLOCK FALSE` is in `traffic.cfg` and `dispatcher.cfg`, where an ended process has no step, and in
`captcha_kick.cfg`, which looks for a violation.

Fairness. `Incident`: weak fairness of the worker, since the sequencer keeps running a
job it took. `Captcha`: weak fairness of each goroutine, of the sweep's ticker and of the
clock. `Traffic`: weak fairness of each goroutine's step, a busy answer's included, and of the album window.
`AdminCache`: weak fairness of a leader's request and commit, as contexts and the
client's timeout bound a request. `Dispatcher`: weak fairness of the dispatcher, of a
submission that began, and of a caller that has an answer or whose `workCtx` ended. `Screening`: weak
fairness of the worker alone, because every call it waits for has a deadline; no provider is
assumed to answer. `Newcomers` checks safety only. Nobody is obliged to post, press, join, change a
roster or crash, and no failure is assumed to stop.

## Findings

Three disagreements between the code and what its documents say are shown by a run that expects a
violation; `PROJECT.json` quotes both sides.

* `incident_crash`: the sanction of a /spam lands, the bot crashes before the row says so, a
  later command on the incident is refused by Telegram, and the row becomes `not_acted`: the
  sanction is in force and `SanctionSince` does not see it.
* `captcha_kick`: a kick is a ban and an unban; a sanction recorded after the last check
  is removed by the unban.
* `newcomers_twice`: a member rejoins while the first greeting is being delivered.
  `WasWelcomed` is read before the mark is written and `reserve` is reached after the delivery has
  finished, so neither sees it (`watch/welcome.go` 95-113 against 132-133) and the member is greeted
  twice; `docs/architecture.md` 245 and 254-255 rule that out. `RepeatsAccounted` states what does hold.

Two more have no run of their own; a change of one line in a cfg makes TLC show them:

* `EnforceActions = {"delete_only"}` in `incident.cfg` refutes `SanctionVisible`, and `UndoLifts` too. The Enforce button applies the
  configured action (`cmd/tg-antispam/main.go` 611-637). /ban on an observed incident lands and its
  answer is lost; Enforce with `delete_only` then overwrites the recorded action, the row is
  `acted` with nothing to lift, and no button lifts the ban any more. `admin/enforce_test.go` 160-161
  says that a sanction that is live must be liftable.
* `NoTrainFinal` as an invariant of `learning.cfg` is refuted. An Enforce press gives its claim back
  before it trains (`admin/callbacks.go` 386-394), and a whole `decide -no-train` fits between its reading
  the tokens and its training: the text is learned after the tool reported that it was not,
  although `decide.go` 178-180 says that the flag has to be final. `RefusalHolds` states what does hold.

Noticed and exempted by name in a property: a sanction recorded between the second
check of a press and its `UnrestrictMember` (`raced`); album parts whose timer took them
out before `Stop` and submits them after the close, and busy answers the exit overtakes
(`lost`); a promotion the bot has not been told of (`untold`); the claim of a job that a crash or a
failed write cut short, which nothing takes over (`crashed`, `torn`).

Noticed and modelled as it is, without a property against it:

* a confirmation may record its audit sample under a claim that is later given back
  (`cmd/tg-antispam/decide.go` 130-138), so an incident can end with samples of both kinds;
  `AuditTrue` states what does hold;
* the config is read before the LLM is asked: a reload to `force_dry_run` is not honoured
  for the message in hand, which is why `Justified` asks for some config since then;
* the second select of `adjudicateEach` may pick the deadline over an answer that is there;
* `ObserveBehavior` records edits that `CheckBehavior` with `FlagEdits` does not;
* the cap of `BumpTrustDistinct` follows reloads, the threshold of the cascade does not;
* all outside channels share the behaviour window of the one account they post through.

## Proofs

`IncidentProofs` proves, for any set of incidents, any verdicts the assumptions allow and
any bounds: `TypeCorrect`, and, when Enforce is only ever configured with punitive actions
(`EnforceActions \subseteq Punitive`; Findings shows that the hypothesis is needed), `SanctionAlwaysVisible`,
`UndoAlwaysLifts` and `OverturnAlwaysHolds`. None of these is inductive. The invariant
`IInv` adds:

* `StepsOK`, `VerdictsOK`, `CardsOK`: which jobs and verdicts can be at which step, and that a
  report has a card of the bound left until it sent one;
* `ClaimHeld`: from the claim to its release, the worker holds the decision, so nobody
  else writes the row;
* `AbsentOK`, `FreshRowOK`, `FreshUndecided`, `NotYetSanctioned`: before its first sanction
  an incident has set nobody's status;
* `AcceptedOK`, `SanctionPlaced`, `NoneSettledAtApply`: what row and status say between an
  accepted or unanswered call and the write that records it;
* `OverturnTrue`, `CliOK`: a settled False positive or Lift has no live sanction, and the CLI
  holds only confirmations.

The argument for `SanctionVisible`: a status is set only in `Apply`; there the row is either
freshly inserted and live (protected by its state and audit action) or claimed
(protected by `decision = "enf"`), and each write that could end that protection comes
after one that establishes another (`acted`, `sanction_unknown`, `MarkIncidentEnforced`),
or else the sender is free.

The other three hold whatever Enforce is configured with, and rest on invariants of their own
beside the control part of `IInv` (`StepsOK`, `VerdictsOK`, `CardsOK`, the types):

* `EvidenceAlwaysFirst` and `CurrentCardAlwaysLive`, from `EInv`. `CardsLive`: the registered card was
  sent and has its buttons, and a card about to be registered is newer, so rolling that one
  back never touches the registered one. `EvidenceGathered`: at each step of a report, how far copy,
  record and card of the attempt in hand have come; the steps of a sanction on a detector's
  judgement are reached only behind the last of them.
* `NeverSanctionsTwice`, from `LInv`. `LandedRecorded`: a sanction Telegram accepted is in the row, where
  neither the conditional UPDATE of the override nor the Enforce button claims it again, or the
  worker is about to write it. `NoneLanded` and `LandedApplied` say on which side of the accepted call the
  worker is; `FreshRowOK` and `OutcomeOK` that the writes after it make the row say so.

`AdminCacheProofs` proves `TypeOK`, `NeverOutdated`, `AgeBounded`, `SingleFlight` and the
action property `BacksOff` for any callers, TTL and bounds. The invariant: an
entry is at least as new as what was told (`EntryOK`); a call whose generation is
current has captured and fetched nothing older than what was told (`CallsOK`); the
request in flight is led by exactly the caller in `fetch` or `commit` (`FlightOK`); a recent
failure of the current generation is in the entry (`OutageOK`).

`DispatcherProofs` proves `TypeOK`, `RightLimiter`, `AnswerTrue` and `InOrder` for any requests,
priorities, chats and bound on 429 answers. The invariant: a job is in one place (`OnePlace`);
what can be popped is in the map (`Mapped`); a job underway has an empty answer buffer and
no effect yet (`ChanTrue`), so the dispatcher never blocks on a caller that left; a job that
was queued first keeps the smaller number until it runs (`Waiting`).

`CaptchaProofs` proves `ImplementsLife`, `PassedByOwnButton` and `NoPunishWithoutPrompt` for any
number of attempts, retries and mishaps and any modes and sanctions the assumptions allow. The
goroutines work from copies of the row, and a copy may be outdated at every step; the
invariant `LifeInv` says what it is still worth. `CopiesOK`: at each step a goroutine's
copy was read in one of certain states, a copy that commits to a failure names an action
and, unless that action is a release, an attempt whose button was delivered, and a copy of a
press names an attempt whose button was pressed. `RowOK`: the same of the row. Delivered and
pressed buttons only accumulate (`CopyGrows`), so a copy keeps its worth whatever the others
do. The refinement follows because each write of the row either is fenced by the attempt and
the states of `updateCaptcha`, and then is a step of `ChallengeLife`, or changes nothing.

`SanctionRespected` and `NobodyForgotten` rest on a second invariant, `CareInv`, which ties row and
copies to the member and the sanction. `HeldOK`: a copy of the current attempt that says
failing or passing is outdated only by the end of the attempt; only the sweep holds a punishment,
and while it holds a kick nobody else can end the row. `SanctionOK`: while a sanction of this attempt is
live and no release was past its last check when it was recorded, no goroutine gets past that check,
because `SanctionSince` compares with an attempt that no copy is ahead of. `LooseOK`: somebody held by
the captcha alone has a row in an active state, and no goroutine is at a write that ends it;
only a lift, an unban or an excuse brings one there. `Moved` says how a row may change under
a copy, and `HeldMoves` that all such changes leave a copy its worth.

`LearningProofs` proves all five invariants of `Learning` for any incidents, texts, crashes and failed
transactions. `CountsMatch` and `OneLabelPerText` need only the corpus (`CorpusOK`): a relabelling and an
import move a text and its counts in one transaction, and the counting is done with the
cardinalities of the texts under a label. The others hang on the claim. `Holds` says at which steps
a process may still give its claim back, `ClaimsOK` that a held claim stands in the row and is
held by one process, and `AuditOK` which samples a holder can rely on not to be there yet.
`RefusedOK` is the strengthening of `RefusalHolds`: a refused incident stays confirmed and
nobody holds a claim on it, so nobody can set out to train on it any more; whoever still has its tokens
is an Enforce press past its release.

`TrafficProofs` proves `AtMostOnce` and `NothingLeftBehind` for any updates, queue length and number
of crashes. The invariant: an update that was taken and not yet handled is in one place, the
album buffer, the timer's hands or one job (`OnceOK`); what was taken is in a place, a busy answer under way
included, or accounted for (`Accounted`); and `ShutdownOK` says which places each phase of the shutdown has emptied, so
that at the exit none is left. `AtMostOnce` fails to be inductive without the first, since a job
queued twice would only show when it runs.

`NewcomersProofs` proves `PauseBounded`, `ListedNotGreeted`, `RepeatsAccounted` and `RateHolds` for any chats, users,
limits and mishaps. `ListOK`: time since the circuit opened and what is left of the pause make up
one pause. `NamedOK`: a worker that holds a named user has been told so. `GreetOK`: each greeting, sent or
about to be sent, is paid for by an excuse, a late lookup, the mark, or the delivery that will write the mark.
`RateOK`: stamps in the window and reservations fit under the cap (`RoomOK`); every post of the window
has a reservation or a stamp that is no older (`PaidOK`), and no two posts share one (`NumbersOK`).
The cap then follows by counting: the posts inject into the stamps and reservations.

`ScreeningProofs` proves `AdminImmune`, `Justified`, `TrustEarned` and `FloodNoticed` for any accounts, posts,
configs, thresholds, windows and providers. `ImmuneOK`: somebody who stayed an administrator is only at
steps that let them be, which is why the second gate in `ReviewCandidate` is needed; it speaks of
those whose promotion the bot was told of when the message was taken. `OpenOK` and `VoteOK`
carry the chat's row, the configs seen and the answers from where they were read to where they
are used. `TrustOK`: the counter is the number of texts it knows, and those were let pass. `TracedOK`:
what was let past the windows or deferred stays in them, with its age, for as long as it
counts, over sweeps (a restart empties the windows and starts the log anew). `FloodNoticed` alone is not inductive: it speaks of the messages, the
code of the windows.

`TypeOK` of `Incident`, `AdminCache` and `Dispatcher` is proved; the inductive invariants of the
other modules state the types they need. No run checks a `TypeOK`.

Every invariant and action property that a passing run checks is proved. Only model-checked is
liveness (`ClaimTransient`, `Settles`, `PressAnswered`, `ShutdownEnds`, `LookupEnds`, `CallerReturns`, `Settled`):
fairness and ENABLED are out of the prover's reach, as are induction over data and recursive
operators, of which there are none.

## Not modelled

* What a text matches: normalisation, rules, impersonation and Bayes scores are pure
  functions on strings and floats. Their results are inputs of `Screening`, and which of
  them bind whom is modelled.
* HTTP clients and prompts of the LLM and blocklist services, and shadow providers, which
  change no verdict.
* Parsing and validation of the config file; the values it yields are constants.
* Rename checks and reactions of the membership watchers, which only feed verdicts, and the
  deletion of service messages.
* Metrics, digest, health, backup; migrations, which run before anything else.

## Plan

1. Done: all modules above and their runs; the refinement of `ChallengeLife`; proofs for every
   module and every safety property.
2. Worth modelling later: a ledger of one decision per incident that `Incident` and `Learning`
   both implement.
