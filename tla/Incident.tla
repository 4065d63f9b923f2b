------------------------------ MODULE Incident ------------------------------
(***************************************************************************)
(* The incident machine of tg-antispam and everything that acts on an      *)
(* incident: the evidence-first moderation path, the admin-chat buttons,    *)
(* the moderator commands /spam, /ban and /ham, and the decide CLI.  What   *)
(* a decision teaches the Bayes corpus is the module Learning.              *)
(*                                                                          *)
(* One moderated chat and one sender.  Every job of the bot for that chat   *)
(* (a message, an edit, a command, a button press) runs on the chat's       *)
(* sequencer, so one worker takes one job at a time; the decide CLI is      *)
(* another process on the same database and interleaves with it, as does a  *)
(* crash of the bot.  A worker step is one store transaction or one Bot API *)
(* call with the local control after it.                                    *)
(* A store write may fail, a Bot API call may be refused, or fail without   *)
(* saying whether Telegram applied it.                                      *)
(***************************************************************************)
EXTENDS Naturals, FiniteSets

CONSTANTS Incidents,      \* the messages an incident may be raised for
          AutoVerdicts,   \* the detector's actionable verdicts for the chat
          EnforceActions, \* the actions the configuration may name for the Enforce button
          MaxTries,       \* bound on admin cards (and evidence batches) per incident
          Channels,       \* whether the sender may be a channel, a user, or either
          MaxMishaps      \* bound on crashes and failed store operations

Punitive == {"ban", "mute", "delete_mute"}

\* "quarantine" is the persisted mark of a review-only verdict.
Action == Punitive \cup {"delete_only", "quarantine"}

\* A verdict as the machine sees it: the action, whether the chat observes
\* (dry run), and on whose judgement it rests.
Verdict == [action : Action, dry : BOOLEAN,
            signal : {"detector", "blocklist", "manual"}]

ASSUME IncidentsNonempty == Incidents # {}
ASSUME VerdictsAssumption ==
  /\ AutoVerdicts \subseteq Verdict
  \* A review-only verdict is turned into a dry run before the machine sees it,
  \* and only a moderator's command carries a manual signal.
  /\ \A v \in AutoVerdicts : /\ v.action = "quarantine" => v.dry
                             /\ v.signal # "manual"
ASSUME EnforceAssumption == EnforceActions \subseteq Punitive \cup {"delete_only"}
ASSUME ChannelsAssumption == Channels \subseteq BOOLEAN
ASSUME BoundsAssumption == MaxTries \in Nat /\ MaxMishaps \in Nat

VARIABLES
  \* the incident's row in SQLite
  state, dry, decision, audit, card, evid,
  \* Telegram: the sender's status and the incident whose call set it, the
  \* evidence copies, the cards with live buttons and those with Enforce
  member, by, channel, copies, keyboards, enfCards, tries,
  \* the worker of the chat's sequencer, and the incidents whose claim a
  \* running decide CLI holds
  pc, job, out, cli,
  \* history: incidents for which a store operation failed, for which a job
  \* was cut short by a crash, and whose sanction Telegram confirmed
  torn, crashed, landed, mishaps

rowVars    == <<state, dry, decision, audit, card, evid>>
memberVars == <<member, by, channel>>
adminVars  == <<copies, keyboards, enfCards, tries>>
workVars   == <<pc, job, out>>
histVars   == <<torn, crashed, landed, mishaps>>
vars == <<rowVars, memberVars, adminVars, workVars, cli, histVars>>

States == {"absent", "pending", "evidenced", "acted", "cleaned", "done",
           "evidence_failed", "not_acted", "sanction_unknown"}
Acts == {"fp", "confirm", "lift", "enf"}
Attempts == 1 .. MaxTries

Job == [src : {"none", "msg", "spam", "ban", "ham", "press", "delevi"},
        inc : Incidents, verdict : Verdict, over : BOOLEAN,
        act : Acts, card : 0 .. MaxTries]
Out == [copied : BOOLEAN, sanctioned : BOOLEAN]

SpamVerdict == [action |-> "delete_mute", dry |-> FALSE, signal |-> "manual"]
BanVerdict  == [action |-> "ban", dry |-> FALSE, signal |-> "manual"]

NoJob == [src |-> "none", inc |-> CHOOSE i \in Incidents : TRUE,
          verdict |-> SpamVerdict, over |-> FALSE, act |-> "fp", card |-> 0]
NoOut == [copied |-> FALSE, sanctioned |-> FALSE]

PCs == {"idle", "copy", "evidence_failed", "card", "save_card",
        "not_acted", "add_evidence", "evidenced", "dry_done", "apply",
        "mark_acted", "mark_refused", "mark_unknown", "delete", "cleaned",
        "set_done", "claim", "check_review", "over_done", "finish",
        "press_read", "press_do", "release", "mark_enforced", "reread",
        "forget"}

TypeOK ==
  /\ state \in [Incidents -> States]
  /\ dry \in [Incidents -> BOOLEAN]
  /\ decision \in [Incidents -> Acts \cup {""}]
  /\ audit \in [Incidents -> Action]
  /\ card \in [Incidents -> 0 .. MaxTries]
  /\ evid \in [Incidents -> SUBSET Attempts]
  /\ member \in {"free", "muted", "banned"}
  /\ by \in Incidents
  /\ channel \in BOOLEAN
  /\ copies \in [Incidents -> SUBSET Attempts]
  /\ keyboards \in [Incidents -> SUBSET Attempts]
  /\ enfCards \in [Incidents -> SUBSET Attempts]
  /\ tries \in [Incidents -> 0 .. MaxTries]
  /\ pc \in PCs
  /\ job \in Job
  /\ out \in Out
  /\ cli \subseteq Incidents
  /\ torn \subseteq Incidents
  /\ crashed \subseteq Incidents
  /\ landed \subseteq Incidents
  /\ mishaps \in 0 .. MaxMishaps

Init ==
  /\ state = [i \in Incidents |-> "absent"]
  /\ dry = [i \in Incidents |-> FALSE]
  /\ decision = [i \in Incidents |-> ""]
  /\ audit = [i \in Incidents |-> "quarantine"]
  /\ card = [i \in Incidents |-> 0]
  /\ evid = [i \in Incidents |-> {}]
  /\ member = "free"
  /\ by \in Incidents
  /\ channel \in Channels
  /\ copies = [i \in Incidents |-> {}]
  /\ keyboards = [i \in Incidents |-> {}]
  /\ enfCards = [i \in Incidents |-> {}]
  /\ tries = [i \in Incidents |-> 0]
  /\ pc = "idle" /\ job = NoJob /\ out = NoOut /\ cli = {}
  /\ torn = {} /\ crashed = {} /\ landed = {} /\ mishaps = 0

-----------------------------------------------------------------------------
(* Queries of the store and of the row. *)

\* The conditional UPDATE of ClaimManualOverride: the incident carries no
\* decision and, as far as the row tells, never applied a sanction.
Claimable(i) ==
  /\ decision[i] = ""
  /\ \/ dry[i]
     \/ state[i] \in {"pending", "evidenced", "evidence_failed", "not_acted",
                      "sanction_unknown"}
     \/ audit[i] \notin Punitive \cup {"delete_only"}

\* IncidentRow.Sanctioned: is there a sanction an undo button must lift?
Sanctioned(i) ==
  /\ audit[i] \in Punitive
  /\ \/ state[i] = "sanction_unknown"
     \/ ~dry[i] /\ state[i] \in {"acted", "cleaned", "done"}

\* SanctionSince for one row: the captcha keeps a mute while this holds.
Protected(i) ==
  \/ decision[i] = "enf"
  \/ state[i] = "sanction_unknown"
  \/ /\ ~dry[i]
     /\ state[i] \in {"pending", "evidenced", "acted", "cleaned", "done"}
     /\ audit[i] \in Punitive

\* IsIncidentCard: an incident with no registered card accepts any card.
IsCurrent(i, c) == card[i] \in {0, c}

\* Mutant: the confidence gate the code used to have, which every verdict passed.
MutActsOnConfidence(v) == v \in Verdict

ActsWithoutEvidence(v) == v.signal \in {"blocklist", "manual"}

\* The status a successful sanction call of this action leaves; a channel has
\* no member to mute, so every punitive action bans it.
StatusOf(action) == IF channel \/ action = "ban" THEN "banned" ELSE "muted"

\* The status after the calls undo makes for the row have succeeded:
\* UnbanSenderChat, both lifts for an unknown outcome, else the matching one.
UndoStatus(i) ==
  LET lifted == IF channel \/ state[i] = "sanction_unknown" THEN {"muted", "banned"}
                ELSE IF audit[i] = "ban" THEN {"banned"}
                ELSE {"muted"}
  IN IF Sanctioned(i) /\ member \in lifted THEN "free" ELSE member

-----------------------------------------------------------------------------
(* Worker plumbing. *)

inc == job.inc

Goto(p, o) ==
  /\ pc' = p
  /\ job' = IF p = "idle" THEN NoJob ELSE job
  /\ out' = IF p = "idle" THEN NoOut ELSE o

\* A store operation that succeeds, and one that fails: the failure leaves the
\* row as it was, perhaps behind what Telegram already did.
Stored == UNCHANGED <<torn, mishaps>>
StoreFails ==
  /\ mishaps < MaxMishaps
  /\ mishaps' = mishaps + 1
  /\ torn' = torn \cup {inc}

\* Machine.setState: a failed write is logged and the machine goes on.
SetState(s, p, o) ==
  /\ \/ state' = [state EXCEPT ![inc] = s] /\ Stored
     \/ UNCHANGED state /\ StoreFails
  /\ Goto(p, o)
  /\ UNCHANGED <<dry, decision, audit, card, evid, memberVars,
                 adminVars, cli, crashed, landed>>

\* Where process returns to: the override that holds the claim, or its caller.
AfterProcess == IF job.over THEN "finish" ELSE "idle"

\* The evidence-first gate of process: a dry run ends here.
AfterEvidence == IF job.verdict.dry THEN "dry_done" ELSE "apply"

IsOverride == job.over /\ job.src \in {"spam", "ban"}

-----------------------------------------------------------------------------
(* Machine.handle and Machine.process. *)

\* An override is tried for a moderator's verdict on a known message, and for a
\* live verdict on an edit of one that was only sent to review.
Overrides(v) == v.signal = "manual" \/ (~v.dry /\ v.action # "quarantine")

ReportJob(src, i, v, over) ==
  [src |-> src, inc |-> i, verdict |-> v, over |-> over, act |-> "fp", card |-> 0]

\* InsertPending writes the row and its audit verdict in one transaction, or
\* finds the message already recorded.
Report(src, i, v) ==
  /\ pc = "idle"
  /\ tries[i] < MaxTries
  /\ out' = NoOut
  /\ \/ /\ state[i] = "absent"
        /\ state' = [state EXCEPT ![i] = "pending"]
        /\ dry' = [dry EXCEPT ![i] = v.dry]
        /\ audit' = [audit EXCEPT ![i] = v.action]
        /\ pc' = "copy" /\ job' = ReportJob(src, i, v, FALSE)
     \/ /\ state[i] # "absent" /\ Overrides(v)
        /\ pc' = "claim" /\ job' = ReportJob(src, i, v, TRUE)
        /\ UNCHANGED <<state, dry, audit>>
  /\ UNCHANGED <<decision, card, evid, memberVars, adminVars, cli, histVars>>

\* CopyMessages into the admin chat; an empty result counts as a failure.
CopyEvidence ==
  /\ pc = "copy"
  /\ \/ /\ copies' = [copies EXCEPT ![inc] = @ \cup {tries[inc] + 1}]
        /\ Goto("card", [out EXCEPT !.copied = TRUE])
     \/ /\ UNCHANGED copies
        /\ Goto(IF ActsWithoutEvidence(job.verdict) THEN "card" ELSE "evidence_failed", out)
  /\ UNCHANGED <<rowVars, memberVars, keyboards, enfCards,
                 tries, cli, histVars>>

MarkEvidenceFailed == pc = "evidence_failed" /\ SetState("evidence_failed", "card", out)

\* Where the machine goes when the card could not be sent or registered.
CardFailed ==
  CASE IsOverride -> Goto("finish", out)
    [] ~IsOverride /\ (out.copied \/ ActsWithoutEvidence(job.verdict)) ->
         Goto("not_acted", out)
    [] OTHER -> Goto(AfterProcess, out)

\* SendAdmin.  A failed call may still have posted the card.  The card of a
\* copied dry-run incident carries the Enforce button.
SendCard ==
  /\ pc = "card"
  /\ tries' = [tries EXCEPT ![inc] = @ + 1]
  /\ LET c == tries[inc] + 1
         Posted == /\ keyboards' = [keyboards EXCEPT ![inc] = @ \cup {c}]
                   /\ enfCards' = IF out.copied /\ job.verdict.dry
                                  THEN [enfCards EXCEPT ![inc] = @ \cup {c}]
                                  ELSE enfCards
     IN \/ Posted /\ Goto("save_card", out)
        \/ Posted /\ CardFailed
        \/ UNCHANGED <<keyboards, enfCards>> /\ CardFailed
  /\ UNCHANGED <<rowVars, memberVars, copies, cli, histVars>>

\* SaveIncidentCard.  An unregistered card is deleted, or at least loses its
\* buttons, and the copies under it are rolled back; either may fail.
SaveCard ==
  /\ pc = "save_card"
  /\ LET c == tries[inc]
     IN \/ /\ card' = [card EXCEPT ![inc] = c]
           /\ IF IsOverride THEN Goto("finish", out)
              ELSE IF out.copied THEN Goto("add_evidence", out)
              ELSE IF ActsWithoutEvidence(job.verdict) THEN Goto(AfterEvidence, out)
              ELSE Goto(AfterProcess, out)
           /\ Stored /\ UNCHANGED <<copies, keyboards>>
        \/ /\ StoreFails /\ UNCHANGED card
           /\ keyboards' \in {keyboards, [keyboards EXCEPT ![inc] = @ \ {c}]}
           /\ copies' \in {copies} \cup
                (IF out.copied THEN {[copies EXCEPT ![inc] = @ \ {c}]} ELSE {})
           /\ CardFailed
  /\ UNCHANGED <<state, dry, decision, audit, evid, memberVars,
                 enfCards, tries, cli, crashed, landed>>

MarkNotActed == pc = "not_acted" /\ SetState("not_acted", AfterProcess, out)

AddEvidence ==
  /\ pc = "add_evidence"
  /\ \/ /\ evid' = [evid EXCEPT ![inc] = @ \cup {tries[inc]}]
        /\ Goto("evidenced", out) /\ Stored
     \/ /\ UNCHANGED evid /\ StoreFails
        /\ Goto("not_acted", out)
  /\ UNCHANGED <<state, dry, decision, audit, card, memberVars,
                 adminVars, cli, crashed, landed>>

MarkEvidenced == pc = "evidenced" /\ SetState("evidenced", AfterEvidence, out)

\* A dry-run or review-only incident stops after evidence and notification.
FinishDryRun == pc = "dry_done" /\ SetState("done", AfterProcess, out)

-----------------------------------------------------------------------------
(* Machine.Enforce: sanction, record, then delete the originals. *)

AppliedAction == job.verdict.action

\* applyAction: accepted, refused by Telegram, or failed without a refusal, in
\* which case Telegram may or may not have applied it.
Apply ==
  /\ pc = "apply"
  /\ LET Lands == member' = StatusOf(AppliedAction) /\ by' = inc
         Sanction == [out EXCEPT !.sanctioned = TRUE]
     IN IF AppliedAction \notin Punitive
        THEN UNCHANGED <<member, by, landed>> /\ Goto("mark_acted", Sanction)
        ELSE \/ Lands /\ landed' = landed \cup {inc} /\ Goto("mark_acted", Sanction)
             \/ UNCHANGED <<member, by, landed>> /\ Goto("mark_refused", out)
             \/ Lands /\ UNCHANGED landed /\ Goto("mark_unknown", out)
             \/ UNCHANGED <<member, by, landed>> /\ Goto("mark_unknown", out)
  /\ UNCHANGED <<rowVars, channel, adminVars, cli, torn, crashed, mishaps>>

MarkActed == pc = "mark_acted" /\ SetState("acted", "delete", out)

\* Mutant: the UPDATE without its state<>'sanction_unknown' condition.
MutRefusedAlways == pc = "mark_refused" /\ SetState("not_acted", "delete", out)

\* MarkSanctionRefused: an earlier attempt with an unknown outcome may have
\* landed, and a later refusal does not undo it.
MarkSanctionRefused ==
  /\ pc = "mark_refused"
  /\ SetState(IF state[inc] = "sanction_unknown" THEN "sanction_unknown" ELSE "not_acted",
              "delete", out)

\* Mutant: the unknown outcome is recorded without the attempted action.
MutUnknownWithoutAction == pc = "mark_unknown" /\ SetState("sanction_unknown", "delete", out)

\* MarkSanctionUnknown records the attempted action, so that undo can lift it.
MarkSanctionUnknown ==
  /\ pc = "mark_unknown"
  /\ \/ /\ state' = [state EXCEPT ![inc] = "sanction_unknown"]
        /\ audit' = [audit EXCEPT ![inc] = AppliedAction]
        /\ Stored
     \/ UNCHANGED <<state, audit>> /\ StoreFails
  /\ Goto("delete", out)
  /\ UNCHANGED <<dry, decision, card, evid, memberVars, adminVars, cli, crashed, landed>>

\* What the caller of Enforce does with the outcome.
AfterEnforce(s, d) ==
  CASE job.src = "press" -> IF s THEN "mark_enforced" ELSE "release"
    [] IsOverride -> IF s /\ d THEN "over_done" ELSE "card"
    [] OTHER -> IF s /\ d THEN "set_done" ELSE AfterProcess

\* The originals are deleted also when the sanction failed.
DeleteOriginals ==
  /\ pc = "delete"
  /\ \E d \in BOOLEAN :
       Goto(IF d /\ out.sanctioned THEN "cleaned" ELSE AfterEnforce(out.sanctioned, d), out)
  /\ UNCHANGED <<rowVars, memberVars, adminVars, cli, histVars>>

MarkCleaned == pc = "cleaned" /\ SetState("cleaned", AfterEnforce(TRUE, TRUE), out)

\* The last write of process.
MarkDone == pc = "set_done" /\ SetState("done", AfterProcess, out)

-----------------------------------------------------------------------------
(* Machine.override. *)

Claim ==
  /\ pc = "claim"
  /\ \/ /\ Claimable(inc)
        /\ decision' = [decision EXCEPT ![inc] = "enf"] /\ Stored
        /\ Goto(IF job.src = "msg" THEN "check_review" ELSE "apply", out)
     \/ /\ ~Claimable(inc)
        /\ UNCHANGED decision /\ Stored
        /\ Goto("idle", out)
     \/ UNCHANGED decision /\ StoreFails /\ Goto("idle", out)
  /\ UNCHANGED <<state, dry, audit, card, evid, memberVars, adminVars, cli, crashed, landed>>

\* Only an incident whose stored action is still the review mark is promoted.
CheckReview ==
  /\ pc = "check_review"
  /\ \/ Stored /\ Goto(IF audit[inc] = "quarantine" THEN "copy" ELSE "finish", out)
     \/ StoreFails /\ Goto("finish", out)
  /\ UNCHANGED <<rowVars, memberVars, adminVars, cli, crashed, landed>>

OverrideDone == pc = "over_done" /\ SetState("done", "card", out)

\* Mutant: the override's finish forgets dry_run=0.
MutFinishKeepsDry ==
  /\ pc = "finish"
  /\ decision' = [decision EXCEPT ![inc] = IF @ = "enf" THEN "" ELSE @]
  /\ IF out.sanctioned
     THEN audit' = [audit EXCEPT ![inc] = job.verdict.action]
     ELSE UNCHANGED audit
  /\ Goto("idle", out)
  /\ UNCHANGED <<state, dry, card, evid, memberVars, adminVars, cli, histVars>>

\* FinishManualOverride: one transaction rewrites the row to what happened and
\* gives the claim back; when it fails the claim stays.
FinishManualOverride ==
  /\ pc = "finish"
  /\ \/ /\ decision' = [decision EXCEPT ![inc] = IF @ = "enf" THEN "" ELSE @]
        /\ IF out.sanctioned
           THEN /\ dry' = [dry EXCEPT ![inc] = FALSE]
                /\ state' = [state EXCEPT ![inc] =
                               IF @ \in {"acted", "cleaned", "done"} THEN @ ELSE "acted"]
                /\ audit' = [audit EXCEPT ![inc] = job.verdict.action]
           ELSE UNCHANGED <<dry, state, audit>>
        /\ Stored
     \/ UNCHANGED <<state, dry, decision, audit>> /\ StoreFails
  /\ Goto("idle", out)
  /\ UNCHANGED <<card, evid, memberVars, adminVars, cli, crashed, landed>>

\* /ham lifts whatever stands on the sender and leaves the incident alone; each
\* of its calls fails on its own.
Ham ==
  /\ pc = "idle"
  /\ member' \in {member, "free"}
  /\ UNCHANGED <<rowVars, by, channel, adminVars, workVars, cli, histVars>>

-----------------------------------------------------------------------------
(* Handler.dispatch: the buttons under a card. *)

\* An Enforce press carries the action the configuration names when it is handled: a
\* reload may change it from one press to the next.
PressVerdicts(a) ==
  IF a = "enf" THEN {[SpamVerdict EXCEPT !.action = e] : e \in EnforceActions} ELSE {SpamVerdict}

\* A press on card c first claims the incident's one decision.  A press that
\* loses to a settled decision on a card that is not current strips that card
\* (a strip that fails changes nothing).
Press(i, a, c) ==
  /\ pc = "idle"
  /\ c \in keyboards[i]
  /\ a = "enf" => c \in enfCards[i]
  /\ \/ /\ decision[i] = ""
        /\ decision' = [decision EXCEPT ![i] = a]
        /\ pc' = "press_read" /\ out' = NoOut
        /\ \E v \in PressVerdicts(a) :
             job' = [src |-> "press", inc |-> i, verdict |-> v,
                     over |-> FALSE, act |-> a, card |-> c]
        /\ UNCHANGED keyboards
     \/ /\ decision[i] \notin {"", "enf"} /\ ~IsCurrent(i, c)
        /\ keyboards' = [keyboards EXCEPT ![i] = @ \ {c}]
        /\ UNCHANGED <<decision, workVars>>
  /\ UNCHANGED <<state, dry, audit, card, evid, memberVars, copies, enfCards, tries, cli, histVars>>

\* Mutant: the card is retired without asking whether it is the current one.
MutReadRetiresCard ==
  /\ pc = "press_read"
  /\ keyboards' = [keyboards EXCEPT ![inc] = @ \ {job.card}]
  /\ Goto(IF IsCurrent(inc, job.card) THEN "press_do" ELSE "release", out)
  /\ UNCHANGED <<rowVars, memberVars, copies, enfCards, tries, cli, histVars>>

\* Re-read the row and check the card under the claim.
PressRead ==
  /\ pc = "press_read"
  /\ \/ /\ IsCurrent(inc, job.card) /\ Stored
        /\ UNCHANGED keyboards
        /\ Goto("press_do", out)
     \/ /\ ~IsCurrent(inc, job.card) /\ Stored
        /\ keyboards' \in {keyboards, [keyboards EXCEPT ![inc] = @ \ {job.card}]}
        /\ Goto("release", out)
     \/ StoreFails /\ UNCHANGED keyboards /\ Goto("release", out)
  /\ UNCHANGED <<rowVars, memberVars, copies, enfCards,
                 tries, cli, crashed, landed>>

\* Mutant: a failed undo keeps the claim.
MutUndoKeepsClaim ==
  /\ pc = "press_do" /\ job.act \in {"fp", "lift"}
  /\ \/ member' = UndoStatus(inc)
     \/ Sanctioned(inc) /\ member' = member
  /\ Goto("idle", out)
  /\ UNCHANGED <<rowVars, by, channel, adminVars, cli, histVars>>

\* False positive and Lift: undo what the row says was applied.  A failed undo
\* may have been applied, in part or in full; the claim is handed back.
PressUndo ==
  /\ pc = "press_do" /\ job.act \in {"fp", "lift"}
  /\ \/ member' = UndoStatus(inc) /\ Goto("idle", out)
     \/ /\ Sanctioned(inc)
        /\ member' \in {member, UndoStatus(inc)}
        /\ Goto("release", out)
  /\ UNCHANGED <<rowVars, by, channel, adminVars, cli, histVars>>

\* Confirm spam only records; a confirmation that cannot be written is withdrawn.
PressConfirm ==
  /\ pc = "press_do" /\ job.act = "confirm"
  /\ \/ Stored /\ Goto("idle", out)
     \/ StoreFails /\ Goto("release", out)
  /\ UNCHANGED <<rowVars, memberVars, adminVars, cli, crashed, landed>>

\* Mutant: "already enforced" is answered without giving the claim back.
MutEnforcedKeepsClaim ==
  /\ pc = "press_do" /\ job.act = "enf"
  /\ Goto(IF dry[inc] THEN "apply" ELSE "idle", out)
  /\ UNCHANGED <<rowVars, memberVars, adminVars, cli, histVars>>

\* Enforce acts only on an incident nothing was done about yet.
PressEnforce ==
  /\ pc = "press_do" /\ job.act = "enf"
  /\ Goto(IF dry[inc] THEN "apply" ELSE "release", out)
  /\ UNCHANGED <<rowVars, memberVars, adminVars, cli, histVars>>

MarkIncidentEnforced ==
  /\ pc = "mark_enforced"
  /\ \/ /\ dry' = [dry EXCEPT ![inc] = FALSE]
        /\ audit' = [audit EXCEPT ![inc] = AppliedAction] /\ Stored
     \/ UNCHANGED <<dry, audit>> /\ StoreFails
  /\ Goto("reread", out)
  /\ UNCHANGED <<state, decision, card, evid, memberVars, adminVars, cli, crashed, landed>>

\* The claim is handed back only if the row now reads as enforced.
RereadEnforced ==
  /\ pc = "reread"
  /\ \/ Stored /\ Goto(IF dry[inc] THEN "idle" ELSE "release", out)
     \/ StoreFails /\ Goto("idle", out)
  /\ UNCHANGED <<rowVars, memberVars, adminVars, cli, crashed, landed>>

\* ReleaseDecision: only the presser's own claim is given back.
ReleaseClaim ==
  /\ pc = "release"
  /\ \/ decision' = [decision EXCEPT ![inc] = IF @ = job.act THEN "" ELSE @] /\ Stored
     \/ UNCHANGED decision /\ StoreFails
  /\ Goto("idle", out)
  /\ UNCHANGED <<state, dry, audit, card, evid, memberVars, adminVars, cli, crashed, landed>>

\* Delete evidence takes no claim; the snapshot of the copies checks the card.
\* The copies are forgotten only when Telegram said that it deleted them.
PressDeleteEvidence(i, c) ==
  /\ pc = "idle"
  /\ c \in keyboards[i] /\ IsCurrent(i, c) /\ evid[i] # {}
  /\ copies' = [copies EXCEPT ![i] = @ \ evid[i]]
  /\ \/ /\ pc' = "forget" /\ out' = NoOut
        /\ job' = [ReportJob("delevi", i, SpamVerdict, FALSE) EXCEPT !.card = c]
     \/ UNCHANGED workVars
  /\ UNCHANGED <<rowVars, memberVars, keyboards, enfCards,
                 tries, cli, histVars>>

ForgetEvidence ==
  /\ pc = "forget"
  /\ \/ evid' = [evid EXCEPT ![inc] = {}] /\ Stored
     \/ UNCHANGED evid /\ StoreFails
  /\ Goto("idle", out)
  /\ UNCHANGED <<state, dry, decision, audit, card, memberVars,
                 adminVars, cli, crashed, landed>>

-----------------------------------------------------------------------------
(* The decide CLI, another process on the same database, and a crash. *)

\* The CLI claims a confirmation for itself; one that already stands it merely
\* completes, which changes nothing here.
CliClaim(i) ==
  /\ cli = {} /\ state[i] # "absent" /\ decision[i] = ""
  /\ decision' = [decision EXCEPT ![i] = "confirm"]
  /\ cli' = {i}
  /\ UNCHANGED <<state, dry, audit, card, evid, memberVars, adminVars, workVars, histVars>>

\* The confirmation was recorded, or the CLI died; or recording it failed and
\* the CLI gives its own claim back.
CliFinish(i) ==
  /\ i \in cli /\ cli' = {}
  /\ \/ UNCHANGED <<decision, mishaps>>
     \/ /\ mishaps < MaxMishaps /\ mishaps' = mishaps + 1
        /\ decision' = [decision EXCEPT ![i] = IF @ = "confirm" THEN "" ELSE @]
  /\ UNCHANGED <<state, dry, audit, card, evid, memberVars, adminVars, workVars,
                 torn, crashed, landed>>

\* The bot dies between two steps of a job and comes back with an empty queue.
Crash ==
  /\ mishaps < MaxMishaps /\ pc # "idle"
  /\ mishaps' = mishaps + 1
  /\ crashed' = crashed \cup {inc}
  /\ pc' = "idle" /\ job' = NoJob /\ out' = NoOut
  /\ UNCHANGED <<rowVars, memberVars, adminVars, cli, torn, landed>>

Moderate(i) ==
  \/ \E v \in AutoVerdicts : Report("msg", i, v)
  \/ Report("spam", i, SpamVerdict)
  \/ Report("ban", i, BanVerdict)
  \/ \E c \in Attempts : \/ \E a \in Acts : Press(i, a, c)
                         \/ PressDeleteEvidence(i, c)

Worker ==
  \/ CopyEvidence \/ MarkEvidenceFailed \/ SendCard \/ SaveCard
  \/ MarkNotActed \/ AddEvidence \/ MarkEvidenced \/ FinishDryRun
  \/ Apply \/ MarkActed \/ MarkSanctionRefused \/ MarkSanctionUnknown
  \/ DeleteOriginals \/ MarkCleaned \/ MarkDone
  \/ Claim \/ CheckReview \/ OverrideDone \/ FinishManualOverride
  \/ PressRead \/ PressUndo \/ PressConfirm \/ PressEnforce
  \/ MarkIncidentEnforced \/ RereadEnforced \/ ReleaseClaim
  \/ ForgetEvidence

Next ==
  \/ \E i \in Incidents : Moderate(i) \/ CliClaim(i) \/ CliFinish(i)
  \/ Ham
  \/ Worker
  \/ Crash

Spec == Init /\ [][Next]_vars

\* The chat's worker keeps taking the steps of the job it has; nobody is
\* obliged to post, to press or to crash.
FairSpec == Spec /\ WF_vars(Worker)

-----------------------------------------------------------------------------
(* Properties. *)

\* A sanction of this incident is in force, and no crash or failed write cut
\* the bookkeeping of the incident short.
Live(i) == member # "free" /\ by = i /\ i \notin torn \cup crashed

WorkingOn(i) == pc # "idle" /\ inc = i

\* SanctionSince never misses a sanction that is in force: at every step of
\* every path, lost answers and later refusals included, the row protects it,
\* so the captcha cannot lift it.
SanctionVisible == \A i \in Incidents : Live(i) => Protected(i)

\* Once the worker is done with an incident, the row says which calls lift its
\* sanction: undo would call them and they would leave the sender free.
UndoLifts ==
  \A i \in Incidents :
    Live(i) /\ ~WorkingOn(i) => Sanctioned(i) /\ UndoStatus(i) = "free"

\* A recorded False positive or Lift is true: no sanction of that incident is
\* in force, then or ever after.
OverturnHolds ==
  \A i \in Incidents :
    decision[i] \in {"fp", "lift"} /\ ~WorkingOn(i) => ~Live(i)

\* The machine sanctions on a detector's judgement only while the copy it is to
\* be reviewed by is in the admin chat, recorded as evidence, under a card that
\* is the registered one and has its buttons; a promoted review included.
EvidenceFirst ==
  pc \in {"apply", "mark_acted", "mark_refused", "mark_unknown", "delete"}
    /\ job.src = "msg" /\ job.verdict.signal = "detector"
  => LET c == tries[inc]
     IN c \in evid[inc] \cap copies[inc] /\ card[inc] = c /\ c \in keyboards[inc]

\* No sanction call is made for an incident whose sanction Telegram already
\* accepted: a duplicate report, a command, an Enforce press or a promotion
\* cannot punish again a sender who may have been pardoned since.
NoSecondSanction ==
  pc = "apply" /\ AppliedAction \in Punitive /\ inc \notin torn \cup crashed
  => inc \notin landed

\* The registered card keeps its buttons, whatever is pressed on older cards.
CurrentCardLive == \A i \in Incidents : card[i] # 0 => card[i] \in keyboards[i]

\* SanctionVisible for incidents a crash cut short as well: a row left behind by
\* a crash stays ambiguous and hides no sanction.
SanctionVisibleAfterCrash ==
  member # "free" /\ by \notin torn => Protected(by)

\* The enforcement claim is transient: it is given back, unless the job that
\* held it was cut short.
ClaimTransient ==
  \A i \in Incidents : decision[i] = "enf" ~> (decision[i] # "enf" \/ i \in torn \cup crashed)

=============================================================================
