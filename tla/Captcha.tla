------------------------------ MODULE Captcha ------------------------------
(***************************************************************************)
(* The challenge of a person who joins a chat (internal/watch/captcha.go,   *)
(* captcha_join_request.go, internal/store/captcha.go): one pair of chat    *)
(* and person, whose row holds the latest attempt.                          *)
(*                                                                          *)
(* Processes: one challenge goroutine per attempt, a goroutine for a press  *)
(* of the button, and the sweep.  A step is one store transaction or one    *)
(* call to Telegram.  Moderation sanctions the same person meanwhile.  Time *)
(* is the flag due of the row: its deadline has passed.                     *)
(***************************************************************************)
EXTENDS Naturals

CONSTANTS Modes,        \* modes a chat may be in: "button", "join_request"
          OnFails,      \* values of on_fail: "kick", "keep_muted"
          Sanctions,    \* sanctions moderation may apply: "muted", "banned"
          MaxAttempts,  \* bound on attempts
          GiveUpTries,  \* captchaGiveUpTries
          MaxMishaps    \* bound on crashes and failed store operations

ASSUME ModesAssumption == Modes \subseteq {"button", "join_request"}
ASSUME OnFailsAssumption == OnFails \subseteq {"kick", "keep_muted"}
ASSUME SanctionsAssumption == Sanctions \subseteq {"muted", "banned"}
ASSUME CaptchaBounds ==
  MaxAttempts \in Nat \ {0} /\ GiveUpTries \in Nat /\ MaxMishaps \in Nat

Attempts == 1 .. MaxAttempts
Active   == {"new", "challenged", "passing", "failing"}
Final    == {"passed", "failed", "cancelled"}
Actions  == {"", "unrestrict", "kick", "keep_muted", "decline"}
Members  == {"out", "pending", "free", "muted", "banned"}

Sweeper == <<"sweep", 0>>
Presser == <<"press", 0>>
Challenger(a) == <<"challenge", a>>
Procs == {Challenger(a) : a \in Attempts} \cup {Sweeper, Presser}

VARIABLES
  row,                \* captcha_challenges
  member,             \* what Telegram holds of the person
  sanction,           \* latest sanction: the attempt it was recorded in, its phase
  inflight,           \* a prompt is being delivered in this process
  pc, snap,           \* where each goroutine is, and the row it works from
  asked, pressed,     \* history: attempts whose button was delivered, was pressed
  raced,              \* history: a sanction came after the last check of a release
  excused,            \* history: the bot or an admin meant to leave things as they are
  mishaps

hist == <<asked, pressed, raced, excused>>
vars == <<row, member, sanction, inflight, pc, snap, hist, mishaps>>

Row == [state : {"none"} \cup Active \cup Final, attempt : 0 .. MaxAttempts,
        mode : Modes \cup {""}, action : Actions, tries : 0 .. GiveUpTries + 1,
        prompt : BOOLEAN, due : BOOLEAN]
NoRow == [state |-> "none", attempt |-> 0, mode |-> "", action |-> "", tries |-> 0,
          prompt |-> FALSE, due |-> FALSE]

PCs == {"idle", "restrict", "challenge", "send", "save", "route", "gate", "fail", "check",
        "check_timeout", "check_press", "mark", "lift", "pass", "ban", "unban", "decline",
        "retry", "finish", "give_up", "cancel"}

TypeOK ==
  /\ row \in Row /\ member \in Members
  /\ sanction \in [at : 0 .. MaxAttempts, phase : {"none", "recorded", "applied", "undone"}]
  /\ inflight \in BOOLEAN
  /\ pc \in [Procs -> PCs] /\ snap \in [Procs -> Row]
  /\ asked \subseteq Attempts /\ pressed \subseteq Attempts
  /\ raced \in BOOLEAN /\ excused \in BOOLEAN /\ mishaps \in 0 .. MaxMishaps

Init ==
  /\ row = NoRow /\ member = "out"
  /\ sanction = [at |-> 0, phase |-> "none"]
  /\ inflight = FALSE
  /\ pc = [p \in Procs |-> "idle"] /\ snap = [p \in Procs |-> NoRow]
  /\ asked = {} /\ pressed = {} /\ raced = FALSE /\ excused = FALSE
  /\ mishaps = 0

-----------------------------------------------------------------------------

\* A goroutine goes on with its copy r of the row.  The one that delivers the
\* prompt ends with untrack, which names the pair and not the attempt.
Goto(p, s, r) ==
  /\ pc' = [pc EXCEPT ![p] = s]
  /\ snap' = [snap EXCEPT ![p] = IF s = "idle" THEN NoRow ELSE r]
  /\ inflight' = (inflight /\ ~(s = "idle" /\ p[1] = "challenge"))

Done(p) == Goto(p, "idle", NoRow)

\* Mutant: the update of a row is not fenced by the attempt.
MutUnfenced(p, from) == row.state \in from

\* The WHERE clause of updateCaptcha.
Mine(p, from) == row.attempt = snap[p].attempt /\ row.state \in from

\* SanctionSince the attempt was created.
Protected(a) == sanction.phase # "none" /\ sanction.at >= a

\* Telegram calls: what each of them leaves the person as.
Restricted   == IF member = "free" THEN "muted" ELSE member
Unrestricted == IF member = "muted" THEN "free" ELSE member
Approved     == IF member = "pending" THEN "free" ELSE member
Declined     == IF member = "pending" THEN "out" ELSE member

\* Mutant: fail() lifts without asking about a sanction.
MutReleasesUnchecked(r) ==
  CASE r.action # "keep_muted" /\ r.tries >= GiveUpTries -> "give_up"
    [] r.action = "unrestrict" -> "lift"
    [] r.action = "kick"       -> "ban"
    [] r.action = "decline"    -> "decline"
    [] OTHER                   -> "finish"

\* Mutant: a release ends the challenge without lifting the mute.
MutForgetsRelease(r) ==
  IF r.action = "unrestrict" \/ r.tries >= GiveUpTries THEN "finish"
  ELSE CASE r.action = "kick"       -> "ban"
         [] r.action = "decline"    -> "decline"
         [] r.action = "keep_muted" -> "finish"

\* The first step of fail(row).
FailStep(r) ==
  IF r.action # "keep_muted" /\ r.tries >= GiveUpTries THEN "give_up"
  ELSE CASE r.action = "unrestrict" -> "check"
         [] r.action = "kick"       -> "ban"
         [] r.action = "decline"    -> "decline"
         [] r.action = "keep_muted" -> "finish"

-----------------------------------------------------------------------------
(* The person, the admins and moderation. *)

\* Mutant: a join opens a new attempt over an open or a passed one.
MutCanBegin == row.attempt + 1 \in Attempts

\* BeginCaptcha opens the next attempt only over none, or over a finished one
\* that was not passed.
CanBegin == row.state \in {"none", "failed", "cancelled"} /\ row.attempt + 1 \in Attempts
BeginCaptcha(m) ==
  [state |-> "new", attempt |-> row.attempt + 1, mode |-> m, action |-> "", tries |-> 0,
   prompt |-> FALSE, due |-> FALSE]

\* OnJoin and OnJoinRequest.  Someone still restricted is not challenged.
Begin(m) ==
  LET r == BeginCaptcha(m)
      p == Challenger(r.attempt)
  IN /\ CanBegin
     /\ member \in {"out", "free"} /\ sanction.phase # "recorded"
     /\ row' = r
     /\ member' = IF m = "button" THEN "free" ELSE "pending"
     /\ pc' = [pc EXCEPT ![p] = IF m = "button" THEN "restrict" ELSE "challenge"]
     /\ snap' = [snap EXCEPT ![p] = r]
     /\ inflight' = TRUE
     /\ raced' = FALSE /\ excused' = FALSE
     /\ UNCHANGED <<sanction, asked, pressed, mishaps>>

\* OnJoinRequest of someone who passed before: approved at once, or left to the
\* admins when the call fails.
KnownRequest ==
  /\ row.state = "passed" /\ member \in {"out", "free"} /\ "join_request" \in Modes
  /\ member' \in {"free", "pending"}
  /\ UNCHANGED <<row, sanction, inflight, pc, snap, hist, mishaps>>

\* The person leaves or withdraws the request, and comes back while the row is open or
\* passed: OnMemberChange skips what users do themselves, and BeginCaptcha opens no
\* attempt.  Telegram keeps the restriction of somebody who leaves.
OwnMove ==
  /\ \/ member \in {"free", "pending"} /\ member' = "out"
     \/ /\ member = "out" /\ row.state \in Active \cup {"passed"}
        /\ \E m \in Modes : member' = IF m = "button" THEN "free" ELSE "pending"
  /\ UNCHANGED <<row, sanction, inflight, pc, snap, hist, mishaps>>

\* An admin changes the member; OnMemberChange cancels an open challenge.
OnMemberChange(to) ==
  /\ to \in {"out", "free", "muted"} \ {member} /\ member' = to
  /\ row.state # "none"
  /\ row' = IF row.state \in {"new", "challenged"} THEN [row EXCEPT !.state = "cancelled"] ELSE row
  /\ excused' = TRUE
  /\ sanction' = IF sanction.phase = "applied" THEN [sanction EXCEPT !.phase = "undone"]
                 ELSE sanction
  /\ UNCHANGED <<inflight, pc, snap, asked, pressed, raced, mishaps>>

\* A goroutine that asks no more about sanctions before it releases the person.
Committed(p) ==
  \/ pc[p] = "lift"
  \/ snap[p].action = "kick" /\ pc[p] \in {"fail", "route", "ban", "unban"}

\* InsertPending of an incident of this person, or an override that claims one.
RecordSanction ==
  /\ Sanctions # {} /\ row.mode = "button" /\ member \in {"free", "muted"}
  /\ sanction.phase \in {"none", "undone"}
  /\ sanction' = [at |-> row.attempt, phase |-> "recorded"]
  /\ raced' = (raced \/ (\E p \in Procs : Committed(p))
               \/ (row.state = "failing" /\ row.action = "kick"))
  /\ UNCHANGED <<row, member, inflight, pc, snap, asked, pressed, excused, mishaps>>

\* The sanction lands, is refused, or is undone by a moderator.
Sanction ==
  /\ \/ /\ sanction.phase = "recorded"
        /\ \/ sanction' = [sanction EXCEPT !.phase = "applied"]
              /\ member' \in Sanctions
           \/ sanction' = [at |-> 0, phase |-> "none"] /\ UNCHANGED member
     \/ /\ sanction.phase = "applied"
        /\ sanction' = [sanction EXCEPT !.phase = "undone"]
        /\ member' = IF member = "banned" THEN "out" ELSE Unrestricted
  /\ UNCHANGED <<row, inflight, pc, snap, hist, mishaps>>

Tick ==
  /\ row.state \in Active /\ ~row.due
  /\ row' = [row EXCEPT !.due = TRUE]
  /\ UNCHANGED <<member, sanction, inflight, pc, snap, hist, mishaps>>

-----------------------------------------------------------------------------
(* challenge and challengeJoin. *)

\* RestrictMember; an error may hide a mute that landed.  A mute that lands after
\* the attempt was cancelled stays in place.
Restrict(p) ==
  /\ pc[p] = "restrict"
  /\ excused' = (excused \/ ~Mine(p, {"new"}))
  /\ \/ member' = Restricted /\ Goto(p, "challenge", snap[p])
     \/ member' \in {member, Restricted} /\ Goto(p, "cancel", snap[p])
  /\ UNCHANGED <<row, sanction, asked, pressed, raced, mishaps>>

\* new to challenged, unless the attempt was cancelled or released meanwhile.
Challenge(p) ==
  /\ pc[p] = "challenge"
  /\ IF Mine(p, {"new"})
       THEN /\ row' = [row EXCEPT !.state = "challenged"]
            /\ Goto(p, "send", [snap[p] EXCEPT !.state = "challenged"])
       ELSE UNCHANGED row /\ Done(p)
  /\ UNCHANGED <<member, sanction, hist, mishaps>>

\* What follows a prompt that was not delivered or not stored: the button mode
\* fails open, a join request is left to the admins.
Unprompted(p) ==
  IF snap[p].mode = "button" THEN Goto(p, "fail", [snap[p] EXCEPT !.action = "unrestrict"])
  ELSE Goto(p, "cancel", snap[p])

\* The ephemeral prompt, or else a message; when both fail one may have arrived.
Send(p) ==
  /\ pc[p] = "send"
  /\ \/ asked' = asked \cup {snap[p].attempt} /\ Goto(p, "save", snap[p])
     \/ asked' \in {asked, asked \cup {snap[p].attempt}} /\ Unprompted(p)
  /\ UNCHANGED <<row, member, sanction, pressed, raced, excused, mishaps>>

\* SetCaptchaPrompt is fenced by the attempt only, and moves the deadline of a
\* challenged row only.
SavePrompt(p) ==
  /\ pc[p] = "save"
  /\ \/ /\ row.attempt = snap[p].attempt
        /\ row' = [row EXCEPT !.prompt = TRUE, !.due = @ /\ row.state # "challenged"]
        /\ Done(p) /\ UNCHANGED mishaps
     \/ /\ row.attempt # snap[p].attempt
        /\ Unprompted(p) /\ UNCHANGED <<row, mishaps>>
     \/ /\ mishaps < MaxMishaps /\ mishaps' = mishaps + 1
        /\ Unprompted(p) /\ UNCHANGED row
  /\ UNCHANGED <<member, sanction, hist>>

-----------------------------------------------------------------------------
(* decidePress. *)

\* GetCaptcha: the button of this attempt, pressed in time.
Press(a) ==
  /\ pc[Presser] = "idle" /\ a \in asked
  /\ row.attempt = a /\ row.state = "challenged" /\ ~row.due
  /\ pressed' = pressed \cup {a}
  /\ Goto(Presser, IF row.mode = "button" THEN "check_press" ELSE "mark", row)
  /\ UNCHANGED <<row, member, sanction, asked, raced, excused, mishaps>>

\* MarkCaptchaPassing: due at once, so that a crash is picked up by the sweep.
Mark(p) ==
  /\ pc[p] = "mark"
  /\ IF Mine(p, {"challenged"})
       THEN LET r == [row EXCEPT !.state = "passing", !.due = TRUE]
            IN row' = r /\ Goto(p, IF r.mode = "button" THEN "check" ELSE "lift",
                                [snap[p] EXCEPT !.state = "passing"])
       ELSE UNCHANGED row /\ Done(p)
  /\ UNCHANGED <<member, sanction, hist, mishaps>>

-----------------------------------------------------------------------------
(* Sweep. *)

\* Mutant: DueCaptchas does not return passing rows.
MutDueCaptchas(r) == r.due /\ r.state \in Active \ {"passing"}

DueCaptchas(r) == r.due /\ r.state \in Active

SweepRead ==
  /\ pc[Sweeper] = "idle" /\ DueCaptchas(row)
  /\ Goto(Sweeper, "route", row)
  /\ UNCHANGED <<row, member, sanction, hist, mishaps>>

\* A live delivery is not an orphan of a restart.
Route(p) ==
  LET r == snap[p]
      button == r.mode = "button"
  IN /\ pc[p] = "route"
     /\ CASE r.state = "new" /\ inflight                    -> Done(p)
          [] r.state = "new" /\ ~inflight /\ button         ->
               Goto(p, "fail", [r EXCEPT !.action = "unrestrict"])
          [] r.state = "new" /\ ~inflight /\ ~button        -> Goto(p, "cancel", r)
          [] r.state = "challenged" /\ button /\ inflight   -> Done(p)
          [] r.state = "challenged" /\ ~(button /\ inflight) -> Goto(p, "gate", r)
          [] r.state = "failing"                            -> Goto(p, FailStep(r), r)
          [] r.state = "passing" /\ button                  -> Goto(p, "check", r)
          [] r.state = "passing" /\ ~button                 ->
               Goto(p, IF r.tries >= GiveUpTries THEN "cancel" ELSE "lift", r)
     /\ UNCHANGED <<row, member, sanction, hist, mishaps>>

\* Mutant: an unanswered challenge counts whether or not it had a button.
MutGate(p) ==
  /\ pc[p] = "gate"
  /\ \E off \in BOOLEAN, onFail \in OnFails :
       IF snap[p].mode = "button"
       THEN IF off THEN Goto(p, "fail", [snap[p] EXCEPT !.action = "unrestrict"])
            ELSE Goto(p, "check_timeout", [snap[p] EXCEPT !.action = onFail])
       ELSE IF off \/ onFail # "kick" THEN Goto(p, "cancel", snap[p])
            ELSE Goto(p, "fail", [snap[p] EXCEPT !.action = "decline"])
  /\ UNCHANGED <<row, member, sanction, hist, mishaps>>

\* sweepChallenged and sweepJoinChallenged with the configuration of the moment:
\* nobody is punished who had no button, or whose chat is off by now.
Gate(p) ==
  /\ pc[p] = "gate"
  /\ \E off \in BOOLEAN, onFail \in OnFails :
       LET open == off \/ ~snap[p].prompt
       IN IF snap[p].mode = "button"
          THEN IF open THEN Goto(p, "fail", [snap[p] EXCEPT !.action = "unrestrict"])
               ELSE Goto(p, "check_timeout", [snap[p] EXCEPT !.action = onFail])
          ELSE IF open \/ onFail # "kick" THEN Goto(p, "cancel", snap[p])
               ELSE Goto(p, "fail", [snap[p] EXCEPT !.action = "decline"])
  /\ UNCHANGED <<row, member, sanction, hist, mishaps>>

-----------------------------------------------------------------------------
(* Steps that several of them share. *)

\* FailCaptcha, then fail() with the row it wrote.
FailCaptcha(p) ==
  /\ pc[p] = "fail"
  /\ IF Mine(p, {snap[p].state})
       THEN LET r == [row EXCEPT !.state = "failing", !.action = snap[p].action]
            IN row' = r /\ Goto(p, FailStep(r), r)
       ELSE UNCHANGED row /\ Done(p)
  /\ UNCHANGED <<member, sanction, hist, mishaps>>

\* SanctionSince: a sanction cancels the challenge and leaves the mute; without
\* one the press, the timeout or the release goes on.
CheckSanction(p) ==
  /\ pc[p] \in {"check", "check_press", "check_timeout"}
  /\ Goto(p, CASE Protected(snap[p].attempt) -> "cancel"
               [] ~Protected(snap[p].attempt) /\ pc[p] = "check_press" -> "mark"
               [] ~Protected(snap[p].attempt) /\ pc[p] = "check_timeout" -> "fail"
               [] ~Protected(snap[p].attempt) /\ pc[p] = "check" ->
                    IF p = Sweeper /\ snap[p].state = "passing" /\ snap[p].tries >= GiveUpTries
                    THEN "cancel" ELSE "lift",
          snap[p])
  /\ UNCHANGED <<row, member, sanction, hist, mishaps>>

\* UnrestrictMember, or ApproveJoinRequest; an error may hide a call that landed.
\* The press leaves a failed lift to the sweep.
Lift(p) ==
  LET after == IF snap[p].mode = "button" THEN Unrestricted ELSE Approved
  IN /\ pc[p] = "lift"
     /\ \/ /\ member' = after
           /\ Goto(p, IF snap[p].state = "passing" THEN "pass" ELSE "finish", snap[p])
        \/ /\ member' \in {member, after}
           /\ Goto(p, IF p = Presser THEN "idle" ELSE "retry", snap[p])
     /\ UNCHANGED <<row, sanction, hist, mishaps>>

\* Kicking: BanMember, then UnbanMember.
Ban(p) ==
  /\ pc[p] = "ban"
  /\ \/ member' = "banned" /\ Goto(p, "unban", snap[p])
     \/ member' \in {member, "banned"} /\ Goto(p, "retry", snap[p])
  /\ UNCHANGED <<row, sanction, hist, mishaps>>

Unban(p) ==
  LET after == IF member = "banned" THEN "out" ELSE member
  IN /\ pc[p] = "unban"
     /\ \/ member' = after /\ Goto(p, "finish", snap[p])
        \/ member' \in {member, after} /\ Goto(p, "retry", snap[p])
     /\ UNCHANGED <<row, sanction, hist, mishaps>>

Decline(p) ==
  /\ pc[p] = "decline"
  /\ \/ member' = Declined /\ Goto(p, "finish", snap[p])
     \/ member' \in {member, Declined} /\ Goto(p, "retry", snap[p])
  /\ UNCHANGED <<row, sanction, hist, mishaps>>

RetryCaptcha(p) ==
  /\ pc[p] = "retry"
  /\ row' = IF Mine(p, {"failing", "passing"})
            THEN [row EXCEPT !.tries = @ + 1, !.due = FALSE] ELSE row
  /\ Done(p)
  /\ UNCHANGED <<member, sanction, hist, mishaps>>

\* passing to passed.
Pass(p) ==
  /\ pc[p] = "pass"
  /\ row' = IF Mine(p, {"passing"}) THEN [row EXCEPT !.state = "passed"] ELSE row
  /\ Done(p)
  /\ UNCHANGED <<member, sanction, hist, mishaps>>

\* finishFail and giveUp.
Finish(p) ==
  /\ pc[p] \in {"finish", "give_up"}
  /\ row' = IF Mine(p, {"failing"})
            THEN [row EXCEPT !.state = IF snap[p].action = "unrestrict" THEN "cancelled" ELSE "failed"]
            ELSE row
  /\ excused' = (excused \/ pc[p] = "give_up" \/ snap[p].action = "keep_muted")
  /\ Done(p)
  /\ UNCHANGED <<member, sanction, asked, pressed, raced, mishaps>>

\* The state the goroutine knows, to cancelled: the person is left as is.
Cancel(p) ==
  /\ pc[p] = "cancel"
  /\ row' = IF Mine(p, {snap[p].state}) THEN [row EXCEPT !.state = "cancelled"] ELSE row
  /\ excused' = TRUE
  /\ Done(p)
  /\ UNCHANGED <<member, sanction, asked, pressed, raced, mishaps>>

\* A store operation fails: logged, and the goroutine ends.
StoreFails(p) ==
  /\ pc[p] \in {"challenge", "route", "gate", "fail", "check", "check_timeout", "check_press",
                "mark", "pass", "retry", "finish", "give_up", "cancel"}
  /\ mishaps < MaxMishaps /\ mishaps' = mishaps + 1
  /\ excused' = (excused \/ pc[p] = "give_up")
  /\ Done(p)
  /\ UNCHANGED <<row, member, sanction, asked, pressed, raced>>

\* The process is killed and started again.
Crash ==
  /\ mishaps < MaxMishaps /\ mishaps' = mishaps + 1
  /\ \E p \in Procs : pc[p] # "idle"
  /\ pc' = [p \in Procs |-> "idle"] /\ snap' = [p \in Procs |-> NoRow]
  /\ inflight' = FALSE
  /\ UNCHANGED <<row, member, sanction, hist>>

-----------------------------------------------------------------------------

Run(p) ==
  \/ Restrict(p) \/ Challenge(p) \/ Send(p) \/ SavePrompt(p) \/ Mark(p) \/ Route(p) \/ Gate(p)
  \/ FailCaptcha(p) \/ CheckSanction(p) \/ Lift(p) \/ Ban(p) \/ Unban(p) \/ Decline(p)
  \/ RetryCaptcha(p) \/ Pass(p) \/ Finish(p) \/ Cancel(p) \/ StoreFails(p)

Next ==
  \/ \E m \in Modes : Begin(m)
  \/ KnownRequest \/ OwnMove
  \/ \E to \in Members : OnMemberChange(to)
  \/ RecordSanction \/ Sanction
  \/ Tick
  \/ \E a \in Attempts : Press(a)
  \/ SweepRead
  \/ \E p \in Procs : Run(p)
  \/ Crash

Spec == Init /\ [][Next]_vars

\* Goroutines are scheduled, the sweep's ticker fires and the clock goes on.
FairSpec ==
  /\ Spec
  /\ \A p \in Procs : WF_vars(Run(p))
  /\ WF_vars(SweepRead) /\ WF_vars(Tick)

-----------------------------------------------------------------------------
(* Properties. *)

\* A sanction that moderation applied during the challenge is not lifted by it,
\* whichever of the press, the sweep, a retry or a fail-open release runs, unless
\* the sanction was recorded after that release had asked for the last time
\* (a kick asks only when it is decided).
SanctionRespected ==
  (sanction.phase = "applied" /\ sanction.at = row.attempt /\ member \in {"free", "out"}) => raced

\* No sanction applied during a challenge is lifted by the kick that ends it.
KickSparesSanction ==
  row.action = "kick" =>
    ~(sanction.phase = "applied" /\ sanction.at = row.attempt /\ member = "out")

\* Nobody is kicked, declined or kept muted for not pressing a button that was
\* never delivered to them in this attempt.
NoPunishWithoutPrompt ==
  (row.state \in {"failing", "failed"} /\ row.action \in {"kick", "keep_muted", "decline"})
    => row.attempt \in asked

\* A challenge is passed by its own button, not by one of an earlier attempt.
PassedByOwnButton == row.state \in {"passing", "passed"} => row.attempt \in pressed

\* The goroutines together keep the life cycle of ChallengeLife: whatever the press,
\* the sweep and the challenge of this and of an earlier attempt interleave to, the
\* row only ever moves as the promise allows.  (updateCaptcha's fence, BeginCaptcha)
Life == INSTANCE ChallengeLife WITH state <- row.state, attempt <- row.attempt, pressed <- pressed
ImplementsLife == Life!Spec

\* When the challenge is over and nothing is in flight, a person without a live
\* sanction is still restricted only because keep_muted, an admin, a sanction, an
\* exhausted retry or a mute of unknown outcome left it so.
NobodyForgotten ==
  (/\ row.state \in Final /\ \A p \in Procs : pc[p] = "idle"
   /\ member \in {"muted", "banned"} /\ sanction.phase # "applied") => excused

\* Every challenge is settled: pressed, timed out, cancelled or given up.
Settles == row.state \in Active ~> row.state \notin Active

=============================================================================
