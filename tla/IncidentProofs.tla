--------------------------- MODULE IncidentProofs ---------------------------
(***************************************************************************)
(* Proofs about the incident machine, for any number of incidents, any     *)
(* verdicts, any number of cards, crashes and failed store operations.     *)
(***************************************************************************)
EXTENDS Incident, TLAPS

-----------------------------------------------------------------------------
(* The inductive invariant. *)

Reporting == job.src \in {"msg", "spam", "ban"}

\* The three kinds of work that may sanction besides the moderator's override:
\* a new incident, a promoted review, and the Enforce button.
FreshReport  == Reporting /\ ~job.over
Promotion    == job.src = "msg" /\ job.over
EnforcePress == job.src = "press" /\ job.act = "enf"

\* The steps of process before the sanction, and the steps of Enforce.
Gathering == {"copy", "evidence_failed", "not_acted", "add_evidence", "evidenced", "dry_done"}
CardSteps == {"card", "save_card"}
Enforcing == {"apply", "mark_acted", "mark_refused", "mark_unknown", "delete", "cleaned"}

\* Which jobs may be at which step.
StepsOK ==
  /\ pc \in Gathering \cup {"set_done"} => FreshReport \/ Promotion
  /\ pc \in CardSteps => Reporting
  /\ pc \in Enforcing => Reporting \/ EnforcePress
  /\ pc \in {"claim", "finish"} => Reporting /\ job.over
  /\ pc = "check_review" => Promotion
  /\ pc = "over_done" => IsOverride
  /\ pc \in {"press_read", "press_do", "release"} => job.src = "press"
  /\ pc \in {"mark_enforced", "reread"} => EnforcePress

\* What is known of the verdict a job carries.
VerdictsOK ==
  /\ job.src \in {"spam", "ban"} => job.verdict.action \in Punitive /\ ~job.verdict.dry
  /\ Promotion => ~job.verdict.dry
  /\ pc \in Enforcing /\ FreshReport => ~job.verdict.dry
  /\ pc \in {"mark_refused", "mark_unknown"} => AppliedAction \in Punitive
  /\ EnforcePress => job.verdict.action \in EnforceActions

\* Cards stay within the bound: a report has a card left until it sent one.
CardsOK ==
  /\ pc \in {"copy", "evidence_failed", "card", "claim", "check_review", "over_done"}
     => tries[inc] < MaxTries
  /\ IsOverride /\ pc \in Enforcing => tries[inc] < MaxTries
  /\ pc \in {"save_card", "add_evidence"} => tries[inc] > 0

\* An override and an Enforce press hold the claim from taking it to giving it back.
ClaimHeld ==
  \/ job.over /\ pc \notin {"idle", "claim"}
  \/ EnforcePress /\ pc \in Enforcing \cup {"press_read", "press_do", "release",
                                            "mark_enforced", "reread"}
  => decision[inc] = "enf"

\* A message without a row has no card, no decision and no sanction, and no job
\* works on it.
AbsentOK ==
  /\ \A i \in Incidents :
       state[i] = "absent" => decision[i] = "" /\ keyboards[i] = {} /\ ~Live(i)
  /\ pc # "idle" => state[inc] # "absent"

Spotless == inc \notin torn \cup crashed

\* The row of a new incident until its sanction is recorded.
FreshRowOK ==
  FreshReport /\ Spotless =>
    /\ pc \in Gathering \cup CardSteps \cup {"apply", "mark_acted", "mark_refused", "mark_unknown"}
       => dry[inc] = job.verdict.dry /\ audit[inc] = job.verdict.action
    /\ pc \in {"copy", "evidence_failed", "add_evidence", "evidenced"} => state[inc] = "pending"
    /\ pc \in CardSteps /\ (out.copied \/ ActsWithoutEvidence(job.verdict))
       => state[inc] = "pending"
    /\ pc \in {"apply", "mark_acted", "mark_refused", "mark_unknown"}
       => state[inc] \in {"pending", "evidenced"}
    /\ pc \in {"copy", "evidence_failed"} => ~out.copied
    /\ pc = "evidence_failed" => ~ActsWithoutEvidence(job.verdict)

\* No button has decided a new incident before its report is over.
FreshUndecided ==
  /\ FreshReport /\ pc # "idle" => decision[inc] \in {"", "confirm"}
  /\ job.src = "press" /\ pc \in {"press_read", "press_do", "release"}
     => decision[inc] = job.act

\* No sanction of the incident is in force before process applies one.
NotYetSanctioned ==
  /\ FreshReport \/ Promotion
  /\ pc \in Gathering \cup CardSteps \cup {"apply", "mark_refused"}
  => ~Live(inc)

\* After an accepted call the sanction in force is the one that was applied, and
\* the state says so once it was written.
AcceptedOK ==
  /\ out.sanctioned /\ Live(inc) =>
       /\ AppliedAction \in Punitive /\ member = StatusOf(AppliedAction)
       /\ pc # "mark_acted" => state[inc] \in {"acted", "cleaned", "done"}
  /\ pc \in {"mark_acted", "cleaned", "over_done", "set_done", "mark_enforced", "reread"}
     => out.sanctioned
  /\ pc \in Gathering \cup {"apply", "mark_refused", "mark_unknown", "claim", "check_review",
                            "press_read", "press_do"}
     => ~out.sanctioned
  /\ FreshReport \/ Promotion => (pc \in CardSteps => ~out.sanctioned)

Settled(i) ==
  /\ ~dry[i] /\ state[i] \in {"acted", "cleaned", "done"} /\ audit[i] \in Punitive
  /\ member = StatusOf(audit[i])

Unknown(i) == state[i] = "sanction_unknown" /\ audit[i] \in Punitive

\* The sanction call was accepted and the claim holder has not yet rewritten
\* the row to say so.
BeingRecorded ==
  /\ out.sanctioned
  /\ \/ pc = "mark_acted"
     \/ /\ job.over \/ EnforcePress
        /\ pc \in {"delete", "cleaned", "over_done", "set_done", "card", "save_card",
                   "finish", "mark_enforced"}

\* Where a sanction in force can be: settled in the row, recorded as unknown, or
\* in the hands of the worker.
Placed(i) ==
  \/ Settled(i)
  \/ Unknown(i)
  \/ i = inc /\ (BeingRecorded \/ pc = "mark_unknown")

SanctionPlaced == \A i \in Incidents : Live(i) => Placed(i)

\* An override or an Enforce press never starts on a settled sanction.
NoneSettledAtApply ==
  pc \in {"apply", "mark_refused"} /\ Live(inc) => Unknown(inc)

\* A decision that overturned is held by a press in progress, or it is true.
OverturnTrue ==
  \A i \in Incidents : Live(i) /\ decision[i] \in {"fp", "lift"} =>
    i = inc /\ pc \in {"press_read", "press_do", "release"}

Pressing == pc \in {"press_read", "press_do", "release"}

\* The decide CLI holds nothing but its own confirmation, and no button press is
\* in progress on that incident.
CliOK ==
  \A i \in cli : decision[i] = "confirm" /\ (i = inc => ~Pressing)

\* What the jobs are, and what is known of the sanctions.
CInv == TypeOK /\ StepsOK /\ VerdictsOK /\ CardsOK

SInv ==
  /\ ClaimHeld /\ AbsentOK /\ FreshRowOK /\ FreshUndecided /\ NotYetSanctioned
  /\ AcceptedOK /\ SanctionPlaced /\ NoneSettledAtApply /\ OverturnTrue /\ CliOK

IInv == CInv /\ SInv


-----------------------------------------------------------------------------
(* Types. *)

\* The idle worker's job and outcome are a job and an outcome.
LEMMA NoWorkType == NoJob \in Job /\ NoOut \in Out
  BY IncidentsNonempty, BoundsAssumption
  DEF NoJob, NoOut, Job, Out, SpamVerdict, Verdict, Action, Punitive, Acts

\* A worker's job is about an incident and carries a verdict.
LEMMA JobType ==
  ASSUME TypeOK
  PROVE  /\ inc \in Incidents /\ job.verdict \in Verdict /\ job.act \in Acts
         /\ job.over \in BOOLEAN /\ job.verdict.dry \in BOOLEAN
         /\ job.verdict.action \in Action
         /\ out.copied \in BOOLEAN /\ out.sanctioned \in BOOLEAN
  BY DEF TypeOK, Job, Out, Verdict, inc

\* Goto leaves a well-typed worker.
LEMMA GotoType ==
  ASSUME NEW p \in PCs, NEW o \in Out, TypeOK, Goto(p, o)
  PROVE  pc' \in PCs /\ job' \in Job /\ out' \in Out
  BY NoWorkType DEF Goto, TypeOK

\* A store operation keeps the history well-typed, whether or not it succeeds.
LEMMA StoreType ==
  ASSUME TypeOK, Stored \/ StoreFails
  PROVE  torn' \subseteq Incidents /\ mishaps' \in 0 .. MaxMishaps
<1>1. CASE Stored BY <1>1 DEF Stored, TypeOK
<1>2. CASE StoreFails
  <2>1. torn' \subseteq Incidents BY <1>2, JobType DEF StoreFails, TypeOK
  <2>2. mishaps \in 0 .. MaxMishaps BY DEF TypeOK
  <2>3. mishaps' \in 0 .. MaxMishaps BY <1>2, <2>2, BoundsAssumption DEF StoreFails
  <2> QED BY <2>1, <2>3
<1> QED BY <1>1, <1>2

\* Machine.setState preserves the types.
LEMMA SetStateType ==
  ASSUME NEW s \in States, NEW p \in PCs, NEW o \in Out, TypeOK, SetState(s, p, o)
  PROVE  TypeOK'
<1>1. pc' \in PCs /\ job' \in Job /\ out' \in Out BY GotoType DEF SetState
<1>2. state' \in [Incidents -> States] BY JobType DEF TypeOK, SetState
<1>3. torn' \subseteq Incidents /\ mishaps' \in 0 .. MaxMishaps BY StoreType DEF SetState
<1> QED BY <1>1, <1>2, <1>3 DEF TypeOK, SetState, memberVars, adminVars

\* Every step the control operators name is a step.
LEMMA StepNames ==
  /\ AfterProcess \in PCs /\ AfterEvidence \in PCs
  /\ \A s, d \in BOOLEAN : AfterEnforce(s, d) \in PCs
  /\ \A p \in {"idle", "copy", "evidence_failed", "card", "save_card", "not_acted",
               "add_evidence", "evidenced", "apply", "mark_acted", "mark_refused",
               "mark_unknown", "delete", "cleaned", "claim", "check_review", "finish",
               "press_read", "press_do", "release", "reread", "forget"} : p \in PCs
  /\ {"evidence_failed", "not_acted", "evidenced", "done", "acted", "cleaned",
      "sanction_unknown", "pending"} \subseteq States
  BY DEF AfterProcess, AfterEvidence, AfterEnforce, PCs, States

\* Sending or registering a card may fail; the worker stays well-typed.
LEMMA CardFailedType ==
  ASSUME TypeOK, CardFailed
  PROVE  pc' \in PCs /\ job' \in Job /\ out' \in Out
<1>1. PICK p \in PCs : Goto(p, out) BY StepNames DEF CardFailed
<1> QED BY <1>1, GotoType DEF TypeOK

\* Writing one value of a function keeps its type.
LEMMA ExceptType ==
  ASSUME NEW S, NEW T, NEW f \in [S -> T], NEW x \in S, NEW y \in T
  PROVE  [f EXCEPT ![x] = y] \in [S -> T]
  OBVIOUS

\* A report's and a press's job are jobs.
LEMMA NewJobType ==
  /\ SpamVerdict \in Verdict /\ BanVerdict \in Verdict
  /\ \A src \in {"msg", "spam", "ban", "delevi"}, i \in Incidents, v \in Verdict, o \in BOOLEAN :
       ReportJob(src, i, v, o) \in Job
  /\ \A i \in Incidents, a \in Acts, c \in Attempts : \A v \in PressVerdicts(a) :
       [src |-> "press", inc |-> i, verdict |-> v,
        over |-> FALSE, act |-> a, card |-> c] \in Job
  /\ \A i \in Incidents, c \in Attempts :
       [ReportJob("delevi", i, SpamVerdict, FALSE) EXCEPT !.card = c] \in Job
<1>1. SpamVerdict \in Verdict /\ BanVerdict \in Verdict
  BY DEF SpamVerdict, BanVerdict, Verdict, Action, Punitive
<1>2. 0 \in 0 .. MaxTries /\ "fp" \in Acts /\ Attempts \subseteq 0 .. MaxTries
  BY BoundsAssumption DEF Acts, Attempts
<1>3. ASSUME NEW src \in {"msg", "spam", "ban", "delevi"}, NEW i \in Incidents,
             NEW v \in Verdict, NEW o \in BOOLEAN
      PROVE  ReportJob(src, i, v, o) \in Job
  BY <1>2 DEF ReportJob, Job
<1>4. ASSUME NEW i \in Incidents, NEW a \in Acts, NEW c \in Attempts, NEW v \in PressVerdicts(a)
      PROVE  [src |-> "press", inc |-> i, verdict |-> v,
              over |-> FALSE, act |-> a, card |-> c] \in Job
  <2>1. v \in Verdict
    <3>1. CASE a = "enf"
      <4>1. PICK e \in EnforceActions : v = [SpamVerdict EXCEPT !.action = e]
        BY <3>1 DEF PressVerdicts
      <4>2. e \in Action BY EnforceAssumption DEF Action
      <4> QED BY <1>1, <4>1, <4>2 DEF Verdict
    <3>2. CASE a # "enf" BY <1>1, <3>2 DEF PressVerdicts
    <3> QED BY <3>1, <3>2
  <2> QED BY <1>2, <2>1 DEF Job
<1>5. ASSUME NEW i \in Incidents, NEW c \in Attempts
      PROVE  [ReportJob("delevi", i, SpamVerdict, FALSE) EXCEPT !.card = c] \in Job
  BY <1>1, <1>2 DEF ReportJob, Job
<1> QED BY <1>1, <1>3, <1>4, <1>5

\* A new report keeps the types.
LEMMA ReportType ==
  ASSUME TypeOK, NEW src \in {"msg", "spam", "ban"}, NEW i \in Incidents, NEW v \in Verdict,
         Report(src, i, v)
  PROVE  TypeOK'
<1>1. v.dry \in BOOLEAN /\ v.action \in Action BY DEF Verdict
<1>2. /\ state' \in [Incidents -> States] /\ dry' \in [Incidents -> BOOLEAN]
      /\ audit' \in [Incidents -> Action]
  <2>1. /\ state \in [Incidents -> States] /\ dry \in [Incidents -> BOOLEAN]
        /\ audit \in [Incidents -> Action] /\ "pending" \in States
    BY StepNames DEF TypeOK
  <2> QED BY <1>1, <2>1 DEF Report
<1>3. pc' \in PCs /\ job' \in Job /\ out' \in Out
  <2>1. ReportJob(src, i, v, TRUE) \in Job /\ ReportJob(src, i, v, FALSE) \in Job
    BY NewJobType
  <2> QED BY <2>1, StepNames, NoWorkType DEF Report
<1> QED BY <1>2, <1>3 DEF TypeOK, Report, memberVars, adminVars, histVars

\* A button press keeps the types.
LEMMA PressType ==
  ASSUME TypeOK, NEW i \in Incidents, NEW a \in Acts, NEW c \in Attempts,
         Press(i, a, c) \/ PressDeleteEvidence(i, c)
  PROVE  TypeOK'
<1>1. CASE Press(i, a, c)
  <2>1. /\ decision' \in [Incidents -> Acts \cup {""}]
        /\ keyboards' \in [Incidents -> SUBSET Attempts]
    BY <1>1 DEF Press, TypeOK
  <2>2. pc' \in PCs /\ job' \in Job /\ out' \in Out
    <3>1. \A v \in PressVerdicts(a) :
            [src |-> "press", inc |-> i, verdict |-> v,
             over |-> FALSE, act |-> a, card |-> c] \in Job
      BY NewJobType
    <3>2. pc \in PCs /\ job \in Job /\ out \in Out BY DEF TypeOK
    <3> QED BY <1>1, <3>1, <3>2, StepNames, NoWorkType DEF Press, workVars
  <2> QED BY <1>1, <2>1, <2>2 DEF TypeOK, Press, memberVars, histVars
<1>2. CASE PressDeleteEvidence(i, c)
  <2>1. copies' \in [Incidents -> SUBSET Attempts] BY <1>2 DEF PressDeleteEvidence, TypeOK
  <2>2. pc' \in PCs /\ job' \in Job /\ out' \in Out
    <3>1. [ReportJob("delevi", i, SpamVerdict, FALSE) EXCEPT !.card = c] \in Job
      BY NewJobType
    <3>2. pc \in PCs /\ job \in Job /\ out \in Out BY DEF TypeOK
    <3> QED BY <1>2, <3>1, <3>2, StepNames, NoWorkType DEF PressDeleteEvidence, workVars
  <2> QED BY <1>2, <2>1, <2>2 DEF TypeOK, PressDeleteEvidence, rowVars, memberVars, histVars
<1> QED BY <1>1, <1>2

\* The evidence steps of the worker keep the types.
LEMMA EvidenceType ==
  ASSUME TypeOK, CardsOK, CopyEvidence \/ SendCard \/ SaveCard \/ AddEvidence \/ ForgetEvidence
  PROVE  TypeOK'
<1>t. inc \in Incidents /\ out \in Out /\ [out EXCEPT !.copied = TRUE] \in Out
  BY JobType DEF TypeOK, Out
<1>1. tries[inc] \in 0 .. MaxTries BY <1>t DEF TypeOK
<1>2. CASE CopyEvidence
  <2>1. tries[inc] + 1 \in Attempts BY <1>1, <1>2, BoundsAssumption
    DEF CopyEvidence, CardsOK, Attempts
  <2>2. copies' \in [Incidents -> SUBSET Attempts]
    <3>1. copies \in [Incidents -> SUBSET Attempts] BY DEF TypeOK
    <3>2. copies[inc] \cup {tries[inc] + 1} \in SUBSET Attempts BY <1>t, <2>1, <3>1
    <3> QED BY <1>t, <1>2, <3>1, <3>2, ExceptType DEF CopyEvidence
  <2>3. pc' \in PCs /\ job' \in Job /\ out' \in Out
    BY <1>t, <1>2, StepNames, GotoType DEF CopyEvidence
  <2> QED BY <1>2, <2>2, <2>3 DEF TypeOK, CopyEvidence, rowVars, memberVars, histVars
<1>3. CASE SendCard
  <2>1. tries[inc] + 1 \in Attempts /\ tries[inc] + 1 \in 0 .. MaxTries
    BY <1>1, <1>3, BoundsAssumption DEF SendCard, CardsOK, Attempts
  <2>2. /\ keyboards' \in [Incidents -> SUBSET Attempts]
        /\ enfCards' \in [Incidents -> SUBSET Attempts]
        /\ tries' \in [Incidents -> 0 .. MaxTries]
    <3>1. /\ keyboards \in [Incidents -> SUBSET Attempts]
          /\ enfCards \in [Incidents -> SUBSET Attempts]
          /\ tries \in [Incidents -> 0 .. MaxTries]
      BY DEF TypeOK
    <3>2. /\ keyboards[inc] \cup {tries[inc] + 1} \in SUBSET Attempts
          /\ enfCards[inc] \cup {tries[inc] + 1} \in SUBSET Attempts
      BY <1>t, <2>1, <3>1
    <3>3. /\ [keyboards EXCEPT ![inc] = @ \cup {tries[inc] + 1}] \in [Incidents -> SUBSET Attempts]
          /\ [enfCards EXCEPT ![inc] = @ \cup {tries[inc] + 1}] \in [Incidents -> SUBSET Attempts]
          /\ [tries EXCEPT ![inc] = @ + 1] \in [Incidents -> 0 .. MaxTries]
      BY <1>t, <2>1, <3>1, <3>2, ExceptType
    <3> QED BY <1>3, <3>1, <3>3 DEF SendCard
  <2>3. pc' \in PCs /\ job' \in Job /\ out' \in Out
    BY <1>t, <1>3, StepNames, GotoType, CardFailedType DEF SendCard
  <2> QED BY <1>3, <2>2, <2>3 DEF TypeOK, SendCard, rowVars, memberVars, histVars
<1>4. CASE SaveCard
  <2>1. /\ card' \in [Incidents -> 0 .. MaxTries]
        /\ keyboards' \in [Incidents -> SUBSET Attempts]
        /\ copies' \in [Incidents -> SUBSET Attempts]
    <3>1. /\ card \in [Incidents -> 0 .. MaxTries]
          /\ keyboards \in [Incidents -> SUBSET Attempts]
          /\ copies \in [Incidents -> SUBSET Attempts]
      BY DEF TypeOK
    <3>2. /\ keyboards[inc] \ {tries[inc]} \in SUBSET Attempts
          /\ copies[inc] \ {tries[inc]} \in SUBSET Attempts
      BY <1>t, <3>1
    <3>3. /\ [keyboards EXCEPT ![inc] = @ \ {tries[inc]}] \in [Incidents -> SUBSET Attempts]
          /\ [copies EXCEPT ![inc] = @ \ {tries[inc]}] \in [Incidents -> SUBSET Attempts]
          /\ [card EXCEPT ![inc] = tries[inc]] \in [Incidents -> 0 .. MaxTries]
      BY <1>t, <1>1, <3>1, <3>2, ExceptType
    <3> QED BY <1>4, <3>1, <3>3 DEF SaveCard
  <2>2. pc' \in PCs /\ job' \in Job /\ out' \in Out
    BY <1>t, <1>4, StepNames, GotoType, CardFailedType DEF SaveCard
  <2>3. torn' \subseteq Incidents /\ mishaps' \in 0 .. MaxMishaps BY <1>4, StoreType
    DEF SaveCard
  <2> QED BY <1>4, <2>1, <2>2, <2>3 DEF TypeOK, SaveCard, memberVars
<1>5. CASE AddEvidence
  <2>1. tries[inc] \in Attempts BY <1>1, <1>5, BoundsAssumption
    DEF AddEvidence, CardsOK, Attempts
  <2>2. evid' \in [Incidents -> SUBSET Attempts]
    <3>1. evid \in [Incidents -> SUBSET Attempts] BY DEF TypeOK
    <3>2. evid[inc] \cup {tries[inc]} \in SUBSET Attempts BY <1>t, <2>1, <3>1
    <3> QED BY <1>t, <1>5, <3>1, <3>2, ExceptType DEF AddEvidence
  <2>3. pc' \in PCs /\ job' \in Job /\ out' \in Out
    BY <1>t, <1>5, StepNames, GotoType DEF AddEvidence
  <2>4. torn' \subseteq Incidents /\ mishaps' \in 0 .. MaxMishaps
    BY <1>5, StoreType DEF AddEvidence
  <2> QED BY <1>5, <2>2, <2>3, <2>4 DEF TypeOK, AddEvidence, memberVars, adminVars
<1>6. CASE ForgetEvidence
  <2>1. evid' \in [Incidents -> SUBSET Attempts] BY <1>t, <1>6 DEF ForgetEvidence, TypeOK
  <2>2. pc' \in PCs /\ job' \in Job /\ out' \in Out
    BY <1>t, <1>6, StepNames, GotoType DEF ForgetEvidence
  <2>3. torn' \subseteq Incidents /\ mishaps' \in 0 .. MaxMishaps
    BY <1>6, StoreType DEF ForgetEvidence
  <2> QED BY <1>6, <2>1, <2>2, <2>3 DEF TypeOK, ForgetEvidence, memberVars, adminVars
<1> QED BY <1>2, <1>3, <1>4, <1>5, <1>6

\* The steps of Enforce that only write the row's state keep the types.
LEMMA StateWritesType ==
  ASSUME TypeOK,
         \/ MarkEvidenceFailed \/ MarkNotActed \/ MarkEvidenced \/ FinishDryRun \/ MarkActed
         \/ MarkSanctionRefused \/ MarkCleaned \/ MarkDone \/ OverrideDone
  PROVE  TypeOK'
<1>1. out \in Out BY DEF TypeOK
<1>2. PICK s \in States, p \in PCs : SetState(s, p, out)
  BY StepNames DEF MarkEvidenceFailed, MarkNotActed, MarkEvidenced, FinishDryRun, MarkActed,
                   MarkSanctionRefused, MarkCleaned, MarkDone, OverrideDone
<1> QED BY <1>1, <1>2, SetStateType

\* The steps of Enforce that call Telegram or rewrite the action keep the types.
LEMMA EnforceType ==
  ASSUME TypeOK, Apply \/ MarkSanctionUnknown \/ DeleteOriginals
  PROVE  TypeOK'
<1>t. /\ inc \in Incidents /\ out \in Out /\ [out EXCEPT !.sanctioned = TRUE] \in Out
      /\ out.sanctioned \in BOOLEAN
  BY JobType DEF TypeOK, Out
<1>1. CASE Apply
  <2>1. /\ member' \in {"free", "muted", "banned"} /\ by' \in Incidents
        /\ landed' \subseteq Incidents
    <3>1. /\ member \in {"free", "muted", "banned"} /\ by \in Incidents /\ landed \subseteq Incidents
      BY DEF TypeOK
    <3> QED BY <1>t, <1>1, <3>1 DEF Apply, StatusOf
  <2>2. pc' \in PCs /\ job' \in Job /\ out' \in Out
    <3>1. PICK p \in PCs, o \in Out : Goto(p, o) BY <1>t, <1>1, StepNames DEF Apply
    <3> QED BY <3>1, GotoType
  <2> QED BY <1>1, <2>1, <2>2 DEF TypeOK, Apply, rowVars, adminVars
<1>2. CASE MarkSanctionUnknown
  <2>1. AppliedAction \in Action
    BY JobType DEF AppliedAction, Verdict
  <2>2. state' \in [Incidents -> States] /\ audit' \in [Incidents -> Action]
    <3>1. /\ state \in [Incidents -> States] /\ audit \in [Incidents -> Action]
          /\ "sanction_unknown" \in States
      BY StepNames DEF TypeOK
    <3> QED BY <1>t, <1>2, <2>1, <3>1 DEF MarkSanctionUnknown
  <2>3. pc' \in PCs /\ job' \in Job /\ out' \in Out
    BY <1>t, <1>2, StepNames, GotoType DEF MarkSanctionUnknown
  <2>4. torn' \subseteq Incidents /\ mishaps' \in 0 .. MaxMishaps
    BY <1>2, StoreType DEF MarkSanctionUnknown
  <2> QED BY <1>2, <2>2, <2>3, <2>4 DEF TypeOK, MarkSanctionUnknown, memberVars, adminVars
<1>3. CASE DeleteOriginals
  <2>1. PICK p \in PCs : Goto(p, out) BY <1>t, <1>3, StepNames DEF DeleteOriginals
  <2>2. pc' \in PCs /\ job' \in Job /\ out' \in Out BY <1>t, <2>1, GotoType
  <2> QED BY <1>3, <2>2
    DEF TypeOK, DeleteOriginals, rowVars, memberVars, adminVars, histVars
<1> QED BY <1>1, <1>2, <1>3

\* The steps of an override keep the types.
LEMMA OverrideType ==
  ASSUME TypeOK, Claim \/ CheckReview \/ FinishManualOverride
  PROVE  TypeOK'
<1>t. /\ inc \in Incidents /\ out \in Out /\ job.verdict.action \in Action
      /\ "enf" \in Acts /\ "acted" \in States
  BY JobType, StepNames DEF TypeOK, Acts
<1>1. torn' \subseteq Incidents /\ mishaps' \in 0 .. MaxMishaps
  BY StoreType DEF Claim, CheckReview, FinishManualOverride
<1>2. pc' \in PCs /\ job' \in Job /\ out' \in Out
  <2>1. PICK p \in PCs : Goto(p, out) BY StepNames
    DEF Claim, CheckReview, FinishManualOverride
  <2> QED BY <1>t, <2>1, GotoType
<1>3. CASE Claim
  <2>1. decision' \in [Incidents -> Acts \cup {""}]
    <3>1. decision \in [Incidents -> Acts \cup {""}] BY DEF TypeOK
    <3> QED BY <1>t, <1>3, <3>1 DEF Claim
  <2> QED BY <1>1, <1>2, <1>3, <2>1 DEF TypeOK, Claim, memberVars, adminVars
<1>4. CASE CheckReview
  BY <1>1, <1>2, <1>4 DEF TypeOK, CheckReview, rowVars, memberVars, adminVars
<1>5. CASE FinishManualOverride
  <2>1. /\ decision' \in [Incidents -> Acts \cup {""}] /\ dry' \in [Incidents -> BOOLEAN]
        /\ state' \in [Incidents -> States] /\ audit' \in [Incidents -> Action]
    <3>1. /\ decision \in [Incidents -> Acts \cup {""}] /\ dry \in [Incidents -> BOOLEAN]
          /\ state \in [Incidents -> States] /\ audit \in [Incidents -> Action]
      BY DEF TypeOK
    <3> QED BY <1>t, <1>5, <3>1 DEF FinishManualOverride
  <2> QED BY <1>1, <1>2, <1>5, <2>1 DEF TypeOK, FinishManualOverride, memberVars, adminVars
<1> QED BY <1>3, <1>4, <1>5

\* The steps of a press keep the types.
LEMMA PressStepsType ==
  ASSUME TypeOK,
         \/ PressRead \/ PressUndo \/ PressConfirm \/ PressEnforce
         \/ MarkIncidentEnforced \/ RereadEnforced \/ ReleaseClaim
  PROVE  TypeOK'
<1> DEFINE Steps == \/ PressRead \/ PressUndo \/ PressConfirm \/ PressEnforce
                    \/ MarkIncidentEnforced \/ RereadEnforced \/ ReleaseClaim
<1>t. inc \in Incidents /\ out \in Out BY JobType DEF TypeOK
<1>1. torn' \subseteq Incidents /\ mishaps' \in 0 .. MaxMishaps
  <2>1. torn \subseteq Incidents /\ mishaps \in 0 .. MaxMishaps BY DEF TypeOK
  <2> QED BY <2>1, StoreType DEF PressRead, PressUndo, PressConfirm, PressEnforce,
                                 MarkIncidentEnforced, RereadEnforced, ReleaseClaim, histVars
<1>2. pc' \in PCs /\ job' \in Job /\ out' \in Out
  <2>1. PICK p \in PCs : Goto(p, out)
    BY StepNames DEF PressRead, PressUndo, PressConfirm, PressEnforce,
                     MarkIncidentEnforced, RereadEnforced, ReleaseClaim
  <2> QED BY <1>t, <2>1, GotoType
<1>3. CASE PressRead
  <2>1. keyboards' \in [Incidents -> SUBSET Attempts]
    <3>1. keyboards \in [Incidents -> SUBSET Attempts] BY DEF TypeOK
    <3>2. keyboards[inc] \ {job.card} \in SUBSET Attempts BY <1>t, <3>1
    <3>3. [keyboards EXCEPT ![inc] = @ \ {job.card}] \in [Incidents -> SUBSET Attempts]
      BY <1>t, <3>1, <3>2, ExceptType
    <3> QED BY <1>3, <3>1, <3>3 DEF PressRead
  <2> QED BY <1>1, <1>2, <1>3, <2>1 DEF TypeOK, PressRead, rowVars, memberVars
<1>4. CASE PressUndo
  <2>1. member' \in {"free", "muted", "banned"}
    <3>1. member \in {"free", "muted", "banned"} BY DEF TypeOK
    <3>2. UndoStatus(inc) \in {"free", "muted", "banned"} BY <3>1 DEF UndoStatus
    <3> QED BY <1>4, <3>1, <3>2 DEF PressUndo
  <2> QED BY <1>1, <1>2, <1>4, <2>1 DEF TypeOK, PressUndo, rowVars, adminVars, histVars
<1>5. CASE PressConfirm \/ PressEnforce
  BY <1>1, <1>2, <1>5
    DEF TypeOK, PressConfirm, PressEnforce, rowVars, memberVars, adminVars, histVars
<1>6. CASE MarkIncidentEnforced
  <2>1. dry' \in [Incidents -> BOOLEAN] /\ audit' \in [Incidents -> Action]
    <3>1. /\ dry \in [Incidents -> BOOLEAN] /\ audit \in [Incidents -> Action]
          /\ AppliedAction \in Action
      BY JobType DEF TypeOK, AppliedAction, Verdict
    <3> QED BY <1>t, <1>6, <3>1 DEF MarkIncidentEnforced
  <2> QED BY <1>1, <1>2, <1>6, <2>1 DEF TypeOK, MarkIncidentEnforced, memberVars, adminVars
<1>7. CASE RereadEnforced
  BY <1>1, <1>2, <1>7 DEF TypeOK, RereadEnforced, rowVars, memberVars, adminVars
<1>8. CASE ReleaseClaim
  <2>1. decision' \in [Incidents -> Acts \cup {""}]
    <3>1. decision \in [Incidents -> Acts \cup {""}] BY DEF TypeOK
    <3> QED BY <1>t, <1>8, <3>1 DEF ReleaseClaim
  <2> QED BY <1>1, <1>2, <1>8, <2>1 DEF TypeOK, ReleaseClaim, memberVars, adminVars
<1> QED BY <1>3, <1>4, <1>5, <1>6, <1>7, <1>8

\* The CLI, /ham and a crash keep the types.
LEMMA OthersType ==
  ASSUME TypeOK, Ham \/ Crash \/ \E i \in Incidents : CliClaim(i) \/ CliFinish(i)
  PROVE  TypeOK'
<1>t. inc \in Incidents /\ "confirm" \in Acts BY JobType DEF Acts
<1>1. CASE Ham BY <1>1 DEF TypeOK, Ham, rowVars, adminVars, workVars, histVars
<1>2. mishaps \in 0 .. MaxMishaps /\ MaxMishaps \in Nat BY BoundsAssumption DEF TypeOK
<1>3. CASE Crash
  <2>1. mishaps' \in 0 .. MaxMishaps BY <1>2, <1>3 DEF Crash
  <2>2. crashed' \subseteq Incidents BY <1>t, <1>3 DEF Crash, TypeOK
  <2>3. pc' \in PCs /\ job' \in Job /\ out' \in Out BY <1>3, NoWorkType, StepNames DEF Crash
  <2> QED BY <1>3, <2>1, <2>2, <2>3 DEF TypeOK, Crash, rowVars, memberVars, adminVars
<1>4. ASSUME NEW i \in Incidents, CliClaim(i) \/ CliFinish(i) PROVE TypeOK'
  <2>1. mishaps' \in 0 .. MaxMishaps
    <3>1. mishaps' = mishaps \/ (mishaps < MaxMishaps /\ mishaps' = mishaps + 1)
      BY <1>4 DEF CliClaim, CliFinish, histVars
    <3> QED BY <1>2, <3>1
  <2>2. decision' \in [Incidents -> Acts \cup {""}] /\ cli' \subseteq Incidents
    <3>1. decision \in [Incidents -> Acts \cup {""}] BY DEF TypeOK
    <3> QED BY <1>t, <1>4, <3>1 DEF CliClaim, CliFinish
  <2>3. /\ UNCHANGED <<state, dry, audit, card, evid, memberVars, adminVars, workVars>>
        /\ UNCHANGED <<torn, crashed, landed>>
    BY <1>4 DEF CliClaim, CliFinish, histVars
  <2> QED BY <2>1, <2>2, <2>3 DEF TypeOK, memberVars, adminVars, workVars
<1> QED BY <1>1, <1>3, <1>4

\* Every step of the system keeps the types.
LEMMA TypeStep ==
  ASSUME TypeOK, CardsOK, [Next]_vars
  PROVE  TypeOK'
<1>1. CASE UNCHANGED vars
  BY <1>1 DEF vars, TypeOK, rowVars, memberVars, adminVars, workVars, histVars
<1>2. ASSUME NEW i \in Incidents, Moderate(i) PROVE TypeOK'
  <2>1. SpamVerdict \in Verdict /\ BanVerdict \in Verdict /\ AutoVerdicts \subseteq Verdict
    BY NewJobType, VerdictsAssumption
  <2> QED BY <1>2, <2>1, ReportType, PressType DEF Moderate, Acts
<1>3. CASE Worker
  BY <1>3, EvidenceType, StateWritesType, EnforceType, OverrideType, PressStepsType
    DEF Worker
<1> QED BY <1>1, <1>2, <1>3, OthersType DEF Next


-----------------------------------------------------------------------------
(* Control: which job may be where, and who holds the claim. *)

\* A worker step keeps each job at steps of its own kind, with the verdict and the
\* card budget those steps rely on.
LEMMA ControlStep ==
  ASSUME TypeOK, StepsOK, VerdictsOK, CardsOK, Worker
  PROVE  StepsOK' /\ VerdictsOK' /\ CardsOK'
<1>t. inc \in Incidents /\ tries \in [Incidents -> 0 .. MaxTries]
        /\ job.over \in BOOLEAN /\ MaxTries \in Nat
  BY JobType, BoundsAssumption DEF TypeOK
<1> USE <1>t
  DEF StepsOK, VerdictsOK, CardsOK, Reporting, FreshReport, Promotion, EnforcePress,
    IsOverride, Gathering, CardSteps, Enforcing, inc, Goto, SetState, NoJob, AfterProcess,
    AfterEvidence, AfterEnforce, AppliedAction, SpamVerdict, adminVars
<1>1. CASE CopyEvidence BY <1>1 DEF CopyEvidence
<1>2. CASE MarkEvidenceFailed BY <1>2 DEF MarkEvidenceFailed
<1>3. CASE SendCard BY <1>3 DEF SendCard, CardFailed
<1>4. CASE SaveCard BY <1>4 DEF SaveCard, CardFailed
<1>5. CASE MarkNotActed BY <1>5 DEF MarkNotActed
<1>6. CASE AddEvidence BY <1>6 DEF AddEvidence
<1>7. CASE MarkEvidenced BY <1>7 DEF MarkEvidenced
<1>8. CASE FinishDryRun BY <1>8 DEF FinishDryRun
<1>9. CASE Apply BY <1>9 DEF Apply
<1>10. CASE MarkActed BY <1>10 DEF MarkActed
<1>11. CASE MarkSanctionRefused BY <1>11 DEF MarkSanctionRefused
<1>12. CASE MarkSanctionUnknown BY <1>12 DEF MarkSanctionUnknown
<1>13. CASE DeleteOriginals BY <1>13 DEF DeleteOriginals
<1>14. CASE MarkCleaned BY <1>14 DEF MarkCleaned
<1>15. CASE MarkDone BY <1>15 DEF MarkDone
<1>16. CASE Claim BY <1>16 DEF Claim
<1>17. CASE CheckReview BY <1>17 DEF CheckReview
<1>18. CASE OverrideDone BY <1>18 DEF OverrideDone
<1>19. CASE FinishManualOverride BY <1>19 DEF FinishManualOverride
<1>20. CASE PressRead BY <1>20 DEF PressRead
<1>21. CASE PressUndo BY <1>21 DEF PressUndo
<1>22. CASE PressConfirm BY <1>22 DEF PressConfirm
<1>23. CASE PressEnforce BY <1>23 DEF PressEnforce
<1>24. CASE MarkIncidentEnforced BY <1>24 DEF MarkIncidentEnforced
<1>25. CASE RereadEnforced BY <1>25 DEF RereadEnforced
<1>26. CASE ReleaseClaim BY <1>26 DEF ReleaseClaim
<1>27. CASE ForgetEvidence BY <1>27 DEF ForgetEvidence
<1> QED
  BY <1>1, <1>2, <1>3, <1>4, <1>5, <1>6, <1>7, <1>8, <1>9, <1>10, <1>11, <1>12, <1>13,
    <1>14, <1>15, <1>16, <1>17, <1>18, <1>19, <1>20, <1>21, <1>22, <1>23, <1>24, <1>25,
    <1>26, <1>27
  DEF Worker

\* A worker step keeps the claim with the job that took it, until it gives it back.
LEMMA ClaimStep ==
  ASSUME TypeOK, StepsOK, VerdictsOK, ClaimHeld, FreshUndecided, Worker
  PROVE  ClaimHeld' /\ FreshUndecided'
<1>t. inc \in Incidents /\ decision \in [Incidents -> Acts \cup {""}]
        /\ job.over \in BOOLEAN
  BY JobType DEF TypeOK
<1> USE <1>t
  DEF StepsOK, ClaimHeld, FreshUndecided, Reporting, FreshReport, Promotion, EnforcePress,
    IsOverride, Gathering, CardSteps, Enforcing, inc, Goto, SetState, NoJob, AfterProcess,
    AfterEvidence, AfterEnforce, rowVars
<1>1. CASE CopyEvidence BY <1>1 DEF CopyEvidence
<1>2. CASE MarkEvidenceFailed BY <1>2 DEF MarkEvidenceFailed
<1>3. CASE SendCard BY <1>3 DEF SendCard, CardFailed
<1>4. CASE SaveCard BY <1>4 DEF SaveCard, CardFailed
<1>5. CASE MarkNotActed BY <1>5 DEF MarkNotActed
<1>6. CASE AddEvidence BY <1>6 DEF AddEvidence
<1>7. CASE MarkEvidenced BY <1>7 DEF MarkEvidenced
<1>8. CASE FinishDryRun BY <1>8 DEF FinishDryRun
<1>9. CASE Apply BY <1>9 DEF Apply
<1>10. CASE MarkActed BY <1>10 DEF MarkActed
<1>11. CASE MarkSanctionRefused BY <1>11 DEF MarkSanctionRefused
<1>12. CASE MarkSanctionUnknown BY <1>12 DEF MarkSanctionUnknown
<1>13. CASE DeleteOriginals BY <1>13 DEF DeleteOriginals
<1>14. CASE MarkCleaned BY <1>14 DEF MarkCleaned
<1>15. CASE MarkDone BY <1>15 DEF MarkDone
<1>16. CASE Claim BY <1>16 DEF Claim, Claimable
<1>17. CASE CheckReview BY <1>17 DEF CheckReview
<1>18. CASE OverrideDone BY <1>18 DEF OverrideDone
<1>19. CASE FinishManualOverride BY <1>19 DEF FinishManualOverride
<1>20. CASE PressRead BY <1>20 DEF PressRead
<1>21. CASE PressUndo BY <1>21 DEF PressUndo, UndoStatus, Sanctioned
<1>22. CASE PressConfirm BY <1>22 DEF PressConfirm
<1>23. CASE PressEnforce BY <1>23 DEF PressEnforce
<1>24. CASE MarkIncidentEnforced BY <1>24 DEF MarkIncidentEnforced
<1>25. CASE RereadEnforced BY <1>25 DEF RereadEnforced
<1>26. CASE ReleaseClaim BY <1>26 DEF ReleaseClaim
<1>27. CASE ForgetEvidence BY <1>27 DEF ForgetEvidence
<1> QED
  BY <1>1, <1>2, <1>3, <1>4, <1>5, <1>6, <1>7, <1>8, <1>9, <1>10, <1>11, <1>12, <1>13,
    <1>14, <1>15, <1>16, <1>17, <1>18, <1>19, <1>20, <1>21, <1>22, <1>23, <1>24, <1>25,
    <1>26, <1>27
  DEF Worker

\* A worker step keeps the row of a new incident in step with its verdict.
LEMMA FreshStep ==
  ASSUME TypeOK, StepsOK, VerdictsOK, FreshRowOK, Worker
  PROVE  FreshRowOK'
<1>t. inc \in Incidents /\ state \in [Incidents -> States]
        /\ audit \in [Incidents -> Action] /\ dry \in [Incidents -> BOOLEAN]
        /\ job.over \in BOOLEAN /\ job.verdict.dry \in BOOLEAN
  BY JobType DEF TypeOK
<1> USE <1>t
  DEF StepsOK, VerdictsOK, FreshRowOK, Spotless, Stored, StoreFails, ActsWithoutEvidence,
    Reporting, FreshReport, Promotion, EnforcePress, IsOverride, Gathering, CardSteps,
    Enforcing, inc, Goto, SetState, NoJob, AfterProcess, AfterEvidence, AfterEnforce,
    rowVars, histVars
<1>1. CASE CopyEvidence BY <1>1 DEF CopyEvidence
<1>2. CASE MarkEvidenceFailed BY <1>2 DEF MarkEvidenceFailed
<1>3. CASE SendCard BY <1>3 DEF SendCard, CardFailed
<1>4. CASE SaveCard BY <1>4 DEF SaveCard, CardFailed
<1>5. CASE MarkNotActed BY <1>5 DEF MarkNotActed
<1>6. CASE AddEvidence BY <1>6 DEF AddEvidence
<1>7. CASE MarkEvidenced BY <1>7 DEF MarkEvidenced
<1>8. CASE FinishDryRun BY <1>8 DEF FinishDryRun
<1>9. CASE Apply BY <1>9 DEF Apply
<1>10. CASE MarkActed BY <1>10 DEF MarkActed
<1>11. CASE MarkSanctionRefused BY <1>11 DEF MarkSanctionRefused
<1>12. CASE MarkSanctionUnknown BY <1>12 DEF MarkSanctionUnknown
<1>13. CASE DeleteOriginals BY <1>13 DEF DeleteOriginals
<1>14. CASE MarkCleaned BY <1>14 DEF MarkCleaned
<1>15. CASE MarkDone BY <1>15 DEF MarkDone
<1>16. CASE Claim BY <1>16 DEF Claim, Claimable
<1>17. CASE CheckReview BY <1>17 DEF CheckReview
<1>18. CASE OverrideDone BY <1>18 DEF OverrideDone
<1>19. CASE FinishManualOverride BY <1>19 DEF FinishManualOverride
<1>20. CASE PressRead BY <1>20 DEF PressRead
<1>21. CASE PressUndo BY <1>21 DEF PressUndo, UndoStatus, Sanctioned
<1>22. CASE PressConfirm BY <1>22 DEF PressConfirm
<1>23. CASE PressEnforce BY <1>23 DEF PressEnforce
<1>24. CASE MarkIncidentEnforced BY <1>24 DEF MarkIncidentEnforced
<1>25. CASE RereadEnforced BY <1>25 DEF RereadEnforced
<1>26. CASE ReleaseClaim BY <1>26 DEF ReleaseClaim
<1>27. CASE ForgetEvidence BY <1>27 DEF ForgetEvidence
<1> QED
  BY <1>1, <1>2, <1>3, <1>4, <1>5, <1>6, <1>7, <1>8, <1>9, <1>10, <1>11, <1>12, <1>13,
    <1>14, <1>15, <1>16, <1>17, <1>18, <1>19, <1>20, <1>21, <1>22, <1>23, <1>24, <1>25,
    <1>26, <1>27
  DEF Worker

\* A worker step touches the row and the cards of its own incident only.
LEMMA WorkerLocal ==
  ASSUME TypeOK, Worker, NEW i \in Incidents, i # inc
  PROVE  /\ state'[i] = state[i] /\ dry'[i] = dry[i] /\ audit'[i] = audit[i]
         /\ decision'[i] = decision[i] /\ keyboards'[i] = keyboards[i]
<1>t. inc \in Incidents /\ state \in [Incidents -> States]
        /\ audit \in [Incidents -> Action] /\ dry \in [Incidents -> BOOLEAN]
        /\ decision \in [Incidents -> Acts \cup {""}]
        /\ keyboards \in [Incidents -> SUBSET Attempts]
  BY JobType DEF IInv, CInv, SInv, TypeOK
<1> USE <1>t DEF SetState, rowVars, adminVars
<1>1. CASE CopyEvidence BY <1>1 DEF CopyEvidence
<1>2. CASE MarkEvidenceFailed BY <1>2 DEF MarkEvidenceFailed
<1>3. CASE SendCard BY <1>3 DEF SendCard
<1>4. CASE SaveCard BY <1>4 DEF SaveCard
<1>5. CASE MarkNotActed BY <1>5 DEF MarkNotActed
<1>6. CASE AddEvidence BY <1>6 DEF AddEvidence
<1>7. CASE MarkEvidenced BY <1>7 DEF MarkEvidenced
<1>8. CASE FinishDryRun BY <1>8 DEF FinishDryRun
<1>9. CASE Apply BY <1>9 DEF Apply
<1>10. CASE MarkActed BY <1>10 DEF MarkActed
<1>11. CASE MarkSanctionRefused BY <1>11 DEF MarkSanctionRefused
<1>12. CASE MarkSanctionUnknown BY <1>12 DEF MarkSanctionUnknown
<1>13. CASE DeleteOriginals BY <1>13 DEF DeleteOriginals
<1>14. CASE MarkCleaned BY <1>14 DEF MarkCleaned
<1>15. CASE MarkDone BY <1>15 DEF MarkDone
<1>16. CASE Claim BY <1>16 DEF Claim
<1>17. CASE CheckReview BY <1>17 DEF CheckReview
<1>18. CASE OverrideDone BY <1>18 DEF OverrideDone
<1>19. CASE FinishManualOverride BY <1>19 DEF FinishManualOverride
<1>20. CASE PressRead BY <1>20 DEF PressRead
<1>21. CASE PressUndo BY <1>21 DEF PressUndo
<1>22. CASE PressConfirm BY <1>22 DEF PressConfirm
<1>23. CASE PressEnforce BY <1>23 DEF PressEnforce
<1>24. CASE MarkIncidentEnforced BY <1>24 DEF MarkIncidentEnforced
<1>25. CASE RereadEnforced BY <1>25 DEF RereadEnforced
<1>26. CASE ReleaseClaim BY <1>26 DEF ReleaseClaim
<1>27. CASE ForgetEvidence BY <1>27 DEF ForgetEvidence
<1> QED
  BY <1>1, <1>2, <1>3, <1>4, <1>5, <1>6, <1>7, <1>8, <1>9, <1>10, <1>11, <1>12, <1>13,
    <1>14, <1>15, <1>16, <1>17, <1>18, <1>19, <1>20, <1>21, <1>22, <1>23, <1>24, <1>25,
    <1>26, <1>27
  DEF Worker

\* Only the sanction call brings a sanction into force: any other worker step that
\* leaves one in force found it there, and its store operation did not fail.
LEMMA LiveBack ==
  ASSUME TypeOK, Worker, pc # "apply", NEW i \in Incidents, Live(i)'
  PROVE  /\ Live(i) /\ member' = member /\ channel' = channel
 /\ ~(StoreFails /\ i = inc)
<1>t. inc \in Incidents
  BY JobType DEF IInv, CInv, SInv, TypeOK
<1> USE <1>t
  DEF SetState, Live, Stored, StoreFails, rowVars, adminVars, memberVars, histVars
<1>1. CASE CopyEvidence BY <1>1 DEF CopyEvidence
<1>2. CASE MarkEvidenceFailed BY <1>2 DEF MarkEvidenceFailed
<1>3. CASE SendCard BY <1>3 DEF SendCard
<1>4. CASE SaveCard BY <1>4 DEF SaveCard
<1>5. CASE MarkNotActed BY <1>5 DEF MarkNotActed
<1>6. CASE AddEvidence BY <1>6 DEF AddEvidence
<1>7. CASE MarkEvidenced BY <1>7 DEF MarkEvidenced
<1>8. CASE FinishDryRun BY <1>8 DEF FinishDryRun
<1>9. CASE Apply BY <1>9 DEF Apply
<1>10. CASE MarkActed BY <1>10 DEF MarkActed
<1>11. CASE MarkSanctionRefused BY <1>11 DEF MarkSanctionRefused
<1>12. CASE MarkSanctionUnknown BY <1>12 DEF MarkSanctionUnknown
<1>13. CASE DeleteOriginals BY <1>13 DEF DeleteOriginals
<1>14. CASE MarkCleaned BY <1>14 DEF MarkCleaned
<1>15. CASE MarkDone BY <1>15 DEF MarkDone
<1>16. CASE Claim BY <1>16 DEF Claim
<1>17. CASE CheckReview BY <1>17 DEF CheckReview
<1>18. CASE OverrideDone BY <1>18 DEF OverrideDone
<1>19. CASE FinishManualOverride BY <1>19 DEF FinishManualOverride
<1>20. CASE PressRead BY <1>20 DEF PressRead
<1>21. CASE PressUndo BY <1>21 DEF PressUndo, UndoStatus
<1>22. CASE PressConfirm BY <1>22 DEF PressConfirm
<1>23. CASE PressEnforce BY <1>23 DEF PressEnforce
<1>24. CASE MarkIncidentEnforced BY <1>24 DEF MarkIncidentEnforced
<1>25. CASE RereadEnforced BY <1>25 DEF RereadEnforced
<1>26. CASE ReleaseClaim BY <1>26 DEF ReleaseClaim
<1>27. CASE ForgetEvidence BY <1>27 DEF ForgetEvidence
<1> QED
  BY <1>1, <1>2, <1>3, <1>4, <1>5, <1>6, <1>7, <1>8, <1>9, <1>10, <1>11, <1>12, <1>13,
    <1>14, <1>15, <1>16, <1>17, <1>18, <1>19, <1>20, <1>21, <1>22, <1>23, <1>24, <1>25,
    <1>26, <1>27
  DEF Worker

\* A sanction of the worker's own incident is settled, recorded as unknown, or in
\* the worker's hands after the step.
LEMMA PlacedSelf ==
  ASSUME IInv, EnforceActions \subseteq Punitive, Worker, NEW k \in Incidents, k = inc, Live(k)'
  PROVE  Placed(k)'
<1>t. /\ state \in [Incidents -> States] /\ dry \in [Incidents -> BOOLEAN]
      /\ audit \in [Incidents -> Action] /\ job.over \in BOOLEAN
  BY JobType DEF IInv, CInv, TypeOK
<1>iv. TypeOK /\ StepsOK /\ VerdictsOK /\ FreshRowOK /\ NotYetSanctioned /\ AcceptedOK
        /\ SanctionPlaced /\ NoneSettledAtApply
  BY DEF IInv, CInv, SInv
<1>fa. ASSUME pc # "apply"
      PROVE  Live(k) /\ member' = member /\ channel' = channel /\ ~StoreFails
  BY <1>fa, <1>iv, LiveBack
<1>fb. pc # "apply" => Placed(k) BY <1>iv, <1>fa DEF SanctionPlaced
<1>fc. pc \in Gathering => ~Live(k) BY <1>iv DEF NotYetSanctioned, StepsOK
<1>fd. /\ out.sanctioned /\ Live(k) =>
            /\ AppliedAction \in Punitive /\ member = StatusOf(AppliedAction)
            /\ pc # "mark_acted" => state[k] \in {"acted", "cleaned", "done"}
       /\ pc \in {"mark_acted", "cleaned", "over_done", "set_done", "mark_enforced", "reread"}
          => out.sanctioned
  BY <1>iv DEF AcceptedOK
<1>fe. /\ pc \in {"mark_acted", "mark_refused", "mark_unknown"}
       /\ FreshReport /\ Live(k)
       => ~dry[k] /\ audit[k] = AppliedAction
  BY <1>iv
    DEF FreshRowOK, VerdictsOK, FreshReport, Reporting, AppliedAction, Spotless, Live,
      Enforcing
<1>fg. pc \in CardSteps \cup {"apply"} /\ (FreshReport \/ Promotion) => ~Live(k)
  BY <1>iv DEF NotYetSanctioned
<1>ff. pc = "mark_refused" /\ Live(k) => Unknown(k) BY <1>iv DEF NoneSettledAtApply
<1> USE <1>t, <1>iv, <1>fa, <1>fb, <1>fc, <1>fd, <1>fg
  DEF Placed, Settled, Unknown, BeingRecorded, StatusOf, StepsOK, Reporting, FreshReport,
    Promotion, EnforcePress, IsOverride, Gathering, CardSteps, Enforcing, inc, Goto,
    SetState, NoJob, NoOut, AfterProcess, AfterEvidence, AfterEnforce, rowVars
<1>1. CASE CopyEvidence BY <1>1 DEF CopyEvidence, AppliedAction
<1>2. CASE MarkEvidenceFailed BY <1>2 DEF MarkEvidenceFailed, AppliedAction
<1>3. CASE SendCard BY <1>3 DEF SendCard, CardFailed, AppliedAction
<1>4. CASE SaveCard BY <1>4 DEF SaveCard, CardFailed, AppliedAction
<1>5. CASE MarkNotActed BY <1>5 DEF MarkNotActed, AppliedAction
<1>6. CASE AddEvidence BY <1>6 DEF AddEvidence, AppliedAction
<1>7. CASE MarkEvidenced BY <1>7 DEF MarkEvidenced, AppliedAction
<1>8. CASE FinishDryRun BY <1>8 DEF FinishDryRun, AppliedAction
<1>9. CASE Apply
  <2>1. pc = "apply" /\ UNCHANGED <<state, dry, audit, channel, torn, crashed, job>>
    BY <1>9 DEF Apply
  <2>2. pc' = "mark_unknown" => Placed(k)' BY <2>1
  <2>3. pc' = "mark_acted" /\ out'.sanctioned => Placed(k)' BY <2>1
  <2>4. CASE pc' = "mark_refused"
    <3>1. UNCHANGED <<member, by>> BY <1>9, <2>4 DEF Apply
    <3>2. Live(k) BY <2>1, <3>1 DEF Live
    <3>3. Unknown(k) BY <1>iv, <2>1, <3>2 DEF NoneSettledAtApply
    <3> QED BY <2>1, <3>1, <3>3
  <2>5. out \in Out BY <1>iv DEF TypeOK
  <2>6. \/ pc' = "mark_unknown" \/ pc' = "mark_refused"
        \/ pc' = "mark_acted" /\ out'.sanctioned
    BY <1>9, <2>5 DEF Apply, Out
  <2> QED BY <2>2, <2>3, <2>4, <2>6
<1>10. CASE MarkActed BY <1>fe, <1>ff, <1>10 DEF MarkActed, AppliedAction, VerdictsOK
<1>11. CASE MarkSanctionRefused BY <1>fe, <1>ff, <1>11
  DEF MarkSanctionRefused, AppliedAction
<1>12. CASE MarkSanctionUnknown BY <1>fe, <1>ff, <1>12
  DEF MarkSanctionUnknown, AppliedAction, VerdictsOK
<1>13. CASE DeleteOriginals BY <1>13 DEF DeleteOriginals, AppliedAction
<1>14. CASE MarkCleaned BY <1>14 DEF MarkCleaned, AppliedAction
<1>15. CASE MarkDone BY <1>15 DEF MarkDone, AppliedAction
<1>16. CASE Claim BY <1>16 DEF Claim, AppliedAction
<1>17. CASE CheckReview BY <1>17 DEF CheckReview, AppliedAction
<1>18. CASE OverrideDone BY <1>18 DEF OverrideDone, AppliedAction
<1>19. CASE FinishManualOverride
  <2>1. Live(k) /\ UNCHANGED <<member, channel>> /\ ~StoreFails /\ Placed(k)
          /\ pc = "finish" /\ pc' = "idle"
    BY <1>fa, <1>fb, <1>19 DEF FinishManualOverride
  <2>2. job.src # "press" BY <1>iv, <2>1
  <2>3. CASE out.sanctioned
    <3>1. AppliedAction \in Punitive /\ member = StatusOf(AppliedAction)
            /\ state[k] \in {"acted", "cleaned", "done"}
      BY <1>fd, <2>1, <2>3
    <3>2. /\ dry' = [dry EXCEPT ![k] = FALSE]
          /\ audit' = [audit EXCEPT ![k] = AppliedAction]
          /\ state' = [state EXCEPT ![k] = IF @ \in {"acted", "cleaned", "done"} THEN @ ELSE "acted"]
      BY <1>19, <2>1, <2>2, <2>3 DEF FinishManualOverride, AppliedAction
    <3>3. dry'[k] = FALSE /\ state'[k] = state[k] /\ audit'[k] = AppliedAction
      BY <1>t, <3>1, <3>2
    <3> QED BY <2>1, <3>1, <3>3
  <2>4. CASE ~out.sanctioned
    <3>1. Settled(k) \/ Unknown(k) BY <2>1, <2>4
    <3>2. UNCHANGED <<state, dry, audit>> BY <1>19, <2>4 DEF FinishManualOverride
    <3> QED BY <2>1, <3>1, <3>2
  <2> QED BY <2>3, <2>4
<1>20. CASE PressRead BY <1>20 DEF PressRead, AppliedAction
<1>21. CASE PressUndo BY <1>21 DEF PressUndo, AppliedAction
<1>22. CASE PressConfirm BY <1>22 DEF PressConfirm, AppliedAction
<1>23. CASE PressEnforce BY <1>23 DEF PressEnforce, AppliedAction
<1>24. CASE MarkIncidentEnforced BY <1>24
  DEF MarkIncidentEnforced, AppliedAction, VerdictsOK
<1>25. CASE RereadEnforced BY <1>25 DEF RereadEnforced, AppliedAction
<1>26. CASE ReleaseClaim
  <2>1. Settled(k) \/ Unknown(k) BY <1>fb, <1>26 DEF ReleaseClaim
  <2>2. UNCHANGED <<state, dry, audit, member, channel>> BY <1>26
    DEF ReleaseClaim, memberVars
  <2> QED BY <2>1, <2>2
<1>27. CASE ForgetEvidence BY <1>27 DEF ForgetEvidence, AppliedAction
<1> QED
  BY <1>1, <1>2, <1>3, <1>4, <1>5, <1>6, <1>7, <1>8, <1>9, <1>10, <1>11, <1>12, <1>13,
    <1>14, <1>15, <1>16, <1>17, <1>18, <1>19, <1>20, <1>21, <1>22, <1>23, <1>24, <1>25,
    <1>26, <1>27
  DEF Worker

\* A worker step either ends the job or stays with it.
LEMMA KeepsJob ==
  ASSUME Worker
  PROVE  (pc' = "idle" /\ job' = NoJob /\ out' = NoOut) \/ (pc' # "idle" /\ job' = job)
<1> USE DEF Goto, SetState
<1>1. CASE CopyEvidence BY <1>1 DEF CopyEvidence
<1>2. CASE MarkEvidenceFailed BY <1>2 DEF MarkEvidenceFailed
<1>3. CASE SendCard BY <1>3 DEF SendCard, CardFailed
<1>4. CASE SaveCard BY <1>4 DEF SaveCard, CardFailed
<1>5. CASE MarkNotActed BY <1>5 DEF MarkNotActed
<1>6. CASE AddEvidence BY <1>6 DEF AddEvidence
<1>7. CASE MarkEvidenced BY <1>7 DEF MarkEvidenced
<1>8. CASE FinishDryRun BY <1>8 DEF FinishDryRun
<1>9. CASE Apply BY <1>9 DEF Apply
<1>10. CASE MarkActed BY <1>10 DEF MarkActed
<1>11. CASE MarkSanctionRefused BY <1>11 DEF MarkSanctionRefused
<1>12. CASE MarkSanctionUnknown BY <1>12 DEF MarkSanctionUnknown
<1>13. CASE DeleteOriginals BY <1>13 DEF DeleteOriginals
<1>14. CASE MarkCleaned BY <1>14 DEF MarkCleaned
<1>15. CASE MarkDone BY <1>15 DEF MarkDone
<1>16. CASE Claim BY <1>16 DEF Claim
<1>17. CASE CheckReview BY <1>17 DEF CheckReview
<1>18. CASE OverrideDone BY <1>18 DEF OverrideDone
<1>19. CASE FinishManualOverride BY <1>19 DEF FinishManualOverride
<1>20. CASE PressRead BY <1>20 DEF PressRead
<1>21. CASE PressUndo BY <1>21 DEF PressUndo
<1>22. CASE PressConfirm BY <1>22 DEF PressConfirm
<1>23. CASE PressEnforce BY <1>23 DEF PressEnforce
<1>24. CASE MarkIncidentEnforced BY <1>24 DEF MarkIncidentEnforced
<1>25. CASE RereadEnforced BY <1>25 DEF RereadEnforced
<1>26. CASE ReleaseClaim BY <1>26 DEF ReleaseClaim
<1>27. CASE ForgetEvidence BY <1>27 DEF ForgetEvidence
<1> QED
  BY <1>1, <1>2, <1>3, <1>4, <1>5, <1>6, <1>7, <1>8, <1>9, <1>10, <1>11, <1>12, <1>13,
    <1>14, <1>15, <1>16, <1>17, <1>18, <1>19, <1>20, <1>21, <1>22, <1>23, <1>24, <1>25,
    <1>26, <1>27
  DEF Worker

\* The only step at "apply" is the sanction call.
LEMMA ApplyOnly == Worker /\ pc = "apply" => Apply
  BY
    DEF Worker, CopyEvidence, MarkEvidenceFailed, SendCard, SaveCard, MarkNotActed,
      AddEvidence, MarkEvidenced, FinishDryRun, MarkActed, MarkSanctionRefused,
      MarkSanctionUnknown, DeleteOriginals, MarkCleaned, MarkDone, Claim, CheckReview,
      OverrideDone, FinishManualOverride, PressRead, PressUndo, PressConfirm, PressEnforce,
      MarkIncidentEnforced, RereadEnforced, ReleaseClaim, ForgetEvidence
\* A sanction of another incident stays where it is, whatever the worker does.
LEMMA PlacedOther ==
  ASSUME IInv, Worker, NEW k \in Incidents, k # inc, Live(k)'
  PROVE  Placed(k)' /\ Live(k)
<1>1. TypeOK /\ SanctionPlaced BY DEF IInv, CInv, SInv
<1>2. Live(k) /\ UNCHANGED <<member, channel>>
  <2>1. CASE pc # "apply" BY <1>1, <2>1, LiveBack
  <2>2. CASE pc = "apply"
    <3>1. Apply BY <2>2, ApplyOnly
    <3> QED BY <3>1 DEF Apply, Live
  <2> QED BY <2>1, <2>2
<1>3. Settled(k) \/ Unknown(k) BY <1>1, <1>2 DEF SanctionPlaced, Placed
<1>4. state'[k] = state[k] /\ dry'[k] = dry[k] /\ audit'[k] = audit[k] BY <1>1, WorkerLocal
<1> QED BY <1>2, <1>3, <1>4 DEF Placed, Settled, Unknown, StatusOf

\* After a worker step every sanction in force has its place.
LEMMA PlacedStep ==
  ASSUME IInv, EnforceActions \subseteq Punitive, Worker
  PROVE  SanctionPlaced'
<1> SUFFICES ASSUME NEW k \in Incidents, Live(k)' PROVE Placed(k)' BY DEF SanctionPlaced
<1>1. CASE k = inc BY <1>1, PlacedSelf
<1>2. CASE k # inc BY <1>2, PlacedOther
<1> QED BY <1>1, <1>2

\* A worker step keeps an incident free of sanctions until process applies one.
LEMMA NotYetStep ==
  ASSUME IInv, Worker
  PROVE  NotYetSanctioned'
<1> SUFFICES ASSUME Live(inc)', (FreshReport \/ Promotion)',
                    (pc \in Gathering \cup CardSteps \cup {"apply", "mark_refused"})'
             PROVE  FALSE
  BY DEF NotYetSanctioned
<1>t. inc \in Incidents /\ pc \in PCs /\ job \in Job /\ out \in Out /\ job.over \in BOOLEAN
  BY JobType DEF IInv, CInv, SInv, TypeOK
<1>iv. TypeOK /\ StepsOK /\ VerdictsOK /\ ClaimHeld /\ FreshRowOK /\ FreshUndecided
        /\ NotYetSanctioned /\ AcceptedOK /\ SanctionPlaced /\ NoneSettledAtApply
  BY DEF IInv, CInv, SInv
<1>fa. job' = job /\ pc' # "idle" BY KeepsJob
  DEF FreshReport, Promotion, Reporting, NoJob, Gathering, CardSteps
<1>fb. pc # "apply" => Live(inc) BY <1>t, <1>iv, <1>fa, LiveBack DEF inc
<1>fc. pc \in Gathering \cup CardSteps \cup {"mark_refused"} => ~Live(inc)
  BY <1>iv, <1>fa DEF NotYetSanctioned, FreshReport, Promotion, Reporting
<1> USE <1>t, <1>iv, <1>fa, <1>fb, <1>fc
  DEF StepsOK, Reporting, FreshReport, Promotion, EnforcePress, IsOverride, Gathering,
    CardSteps, Enforcing, inc, Goto, SetState, NoJob, NoOut, AfterProcess, AfterEvidence,
    AfterEnforce, rowVars
<1>1. CASE CopyEvidence BY <1>1 DEF CopyEvidence
<1>2. CASE MarkEvidenceFailed BY <1>2 DEF MarkEvidenceFailed
<1>3. CASE SendCard BY <1>3 DEF SendCard, CardFailed
<1>4. CASE SaveCard BY <1>4 DEF SaveCard, CardFailed
<1>5. CASE MarkNotActed BY <1>5 DEF MarkNotActed
<1>6. CASE AddEvidence BY <1>6 DEF AddEvidence
<1>7. CASE MarkEvidenced BY <1>7 DEF MarkEvidenced
<1>8. CASE FinishDryRun BY <1>8 DEF FinishDryRun
<1>9. CASE Apply
  <2>1. UNCHANGED <<member, by, torn, crashed>> BY <1>9 DEF Apply, Gathering, CardSteps
  <2> QED BY <1>iv, <1>fa, <2>1, <1>9 DEF Live, NotYetSanctioned, Apply
<1>10. CASE MarkActed BY <1>10 DEF MarkActed
<1>11. CASE MarkSanctionRefused BY <1>11 DEF MarkSanctionRefused
<1>12. CASE MarkSanctionUnknown BY <1>12 DEF MarkSanctionUnknown
<1>13. CASE DeleteOriginals BY <1>13 DEF DeleteOriginals
<1>14. CASE MarkCleaned BY <1>14 DEF MarkCleaned
<1>15. CASE MarkDone BY <1>15 DEF MarkDone
<1>16. CASE Claim BY <1>16 DEF Claim
<1>17. CASE CheckReview
  <2>1. audit[inc] = "quarantine" BY <1>t, <1>17 DEF CheckReview
  <2>2. Placed(inc) BY <1>t, <1>iv, <1>fb, <1>17 DEF SanctionPlaced, CheckReview
  <2>3. pc = "check_review" /\ ~out.sanctioned BY <1>iv, <1>17 DEF CheckReview, AcceptedOK
  <2> QED BY <2>1, <2>2, <2>3 DEF Placed, Settled, Unknown, BeingRecorded, Punitive
<1>18. CASE OverrideDone BY <1>18 DEF OverrideDone
<1>19. CASE FinishManualOverride BY <1>19 DEF FinishManualOverride
<1>20. CASE PressRead BY <1>20 DEF PressRead
<1>21. CASE PressUndo BY <1>21 DEF PressUndo
<1>22. CASE PressConfirm BY <1>22 DEF PressConfirm
<1>23. CASE PressEnforce BY <1>23 DEF PressEnforce
<1>24. CASE MarkIncidentEnforced BY <1>24 DEF MarkIncidentEnforced
<1>25. CASE RereadEnforced BY <1>25 DEF RereadEnforced
<1>26. CASE ReleaseClaim BY <1>26 DEF ReleaseClaim
<1>27. CASE ForgetEvidence BY <1>27 DEF ForgetEvidence
<1> QED
  BY <1>1, <1>2, <1>3, <1>4, <1>5, <1>6, <1>7, <1>8, <1>9, <1>10, <1>11, <1>12, <1>13,
    <1>14, <1>15, <1>16, <1>17, <1>18, <1>19, <1>20, <1>21, <1>22, <1>23, <1>24, <1>25,
    <1>26, <1>27
  DEF Worker

\* A worker step keeps what is known of an accepted sanction call.
LEMMA AcceptedStep ==
  ASSUME IInv, EnforceActions \subseteq Punitive, Worker
  PROVE  AcceptedOK'
<1>t. inc \in Incidents /\ pc \in PCs /\ job \in Job /\ out \in Out /\ job.over \in BOOLEAN
  BY JobType DEF IInv, CInv, SInv, TypeOK
<1>iv. TypeOK /\ StepsOK /\ VerdictsOK /\ ClaimHeld /\ FreshRowOK /\ FreshUndecided
        /\ NotYetSanctioned /\ AcceptedOK /\ SanctionPlaced /\ NoneSettledAtApply
  BY DEF IInv, CInv, SInv
<1>fa. ASSUME pc # "apply", Live(inc)', job' = job PROVE Live(inc)
        /\ UNCHANGED <<member, channel>> /\ ~StoreFails
  BY <1>t, <1>iv, <1>fa, LiveBack DEF inc
<1>fb. /\ out.sanctioned /\ Live(inc) =>
            /\ AppliedAction \in Punitive /\ member = StatusOf(AppliedAction)
            /\ pc # "mark_acted" => state[inc] \in {"acted", "cleaned", "done"}
       /\ pc \in {"mark_acted", "cleaned", "over_done", "set_done", "mark_enforced", "reread"}
          => out.sanctioned
       /\ pc \in Gathering \cup {"apply", "mark_refused", "mark_unknown", "claim", "check_review",
                                 "press_read", "press_do"}
          => ~out.sanctioned
       /\ FreshReport \/ Promotion => (pc \in CardSteps => ~out.sanctioned)
  BY <1>iv DEF AcceptedOK
<1>fc. out.sanctioned \in BOOLEAN /\ state \in [Incidents -> States] BY <1>t, <1>iv
  DEF Out, TypeOK
<1>fd. [out EXCEPT !.sanctioned = TRUE].sanctioned
        /\ [out EXCEPT !.copied = TRUE].sanctioned = out.sanctioned
  BY <1>t DEF Out
<1> USE <1>t, <1>iv, <1>fa, <1>fb, <1>fc, <1>fd, KeepsJob
  DEF AcceptedOK, AppliedAction, StatusOf, StepsOK, Reporting, FreshReport, Promotion,
    EnforcePress, IsOverride, Gathering, CardSteps, Enforcing, inc, Goto, SetState, NoJob,
    NoOut, AfterProcess, AfterEvidence, AfterEnforce, rowVars
<1>1. CASE CopyEvidence BY <1>1 DEF CopyEvidence
<1>2. CASE MarkEvidenceFailed BY <1>2 DEF MarkEvidenceFailed
<1>3. CASE SendCard BY <1>3 DEF SendCard, CardFailed
<1>4. CASE SaveCard BY <1>4 DEF SaveCard, CardFailed
<1>5. CASE MarkNotActed BY <1>5 DEF MarkNotActed
<1>6. CASE AddEvidence BY <1>6 DEF AddEvidence
<1>7. CASE MarkEvidenced BY <1>7 DEF MarkEvidenced
<1>8. CASE FinishDryRun BY <1>8 DEF FinishDryRun
<1>9. CASE Apply
  <2>1. pc = "apply" /\ job' = job /\ UNCHANGED <<channel, torn, crashed>> BY <1>9 DEF Apply
  <2>2. pc' \in {"mark_acted", "mark_refused", "mark_unknown"} BY <1>9 DEF Apply
  <2>3. pc' # "mark_acted" => out'.sanctioned = FALSE BY <1>fb, <1>fc, <1>9 DEF Apply
  <2>4. pc' = "mark_acted" => out'.sanctioned BY <1>fd, <1>9 DEF Apply
  <2>5. CASE AppliedAction \notin Punitive
    <3>1. job.src = "msg" BY <1>iv, <2>1, <2>5 DEF VerdictsOK
    <3>2. ~Live(inc) BY <1>iv, <2>1, <3>1 DEF NotYetSanctioned
    <3>3. ~Live(inc)' BY <2>1, <2>5, <3>2, <1>9 DEF Apply, Live
    <3> QED BY <2>1, <2>2, <2>3, <2>4, <3>3
  <2>6. CASE AppliedAction \in Punitive
    <3>1. pc' = "mark_acted" => member' = StatusOf(AppliedAction) BY <2>6, <1>9 DEF Apply
    <3> QED BY <2>1, <2>2, <2>3, <2>4, <2>6, <3>1
  <2> QED BY <2>5, <2>6
<1>10. CASE MarkActed BY <1>10 DEF MarkActed
<1>11. CASE MarkSanctionRefused BY <1>11 DEF MarkSanctionRefused
<1>12. CASE MarkSanctionUnknown BY <1>12 DEF MarkSanctionUnknown
<1>13. CASE DeleteOriginals BY <1>13 DEF DeleteOriginals
<1>14. CASE MarkCleaned BY <1>14 DEF MarkCleaned
<1>15. CASE MarkDone BY <1>15 DEF MarkDone
<1>16. CASE Claim BY <1>16 DEF Claim
<1>17. CASE CheckReview BY <1>17 DEF CheckReview
<1>18. CASE OverrideDone BY <1>18 DEF OverrideDone
<1>19. CASE FinishManualOverride BY <1>19 DEF FinishManualOverride
<1>20. CASE PressRead BY <1>20 DEF PressRead
<1>21. CASE PressUndo BY <1>21 DEF PressUndo
<1>22. CASE PressConfirm BY <1>22 DEF PressConfirm
<1>23. CASE PressEnforce BY <1>23 DEF PressEnforce
<1>24. CASE MarkIncidentEnforced BY <1>24 DEF MarkIncidentEnforced
<1>25. CASE RereadEnforced BY <1>25 DEF RereadEnforced
<1>26. CASE ReleaseClaim BY <1>26 DEF ReleaseClaim
<1>27. CASE ForgetEvidence BY <1>27 DEF ForgetEvidence
<1> QED
  BY <1>1, <1>2, <1>3, <1>4, <1>5, <1>6, <1>7, <1>8, <1>9, <1>10, <1>11, <1>12, <1>13,
    <1>14, <1>15, <1>16, <1>17, <1>18, <1>19, <1>20, <1>21, <1>22, <1>23, <1>24, <1>25,
    <1>26, <1>27
  DEF Worker

\* A worker step reaches the sanction call only when no settled sanction stands.
LEMMA NoneSettledStep ==
  ASSUME IInv, Worker
  PROVE  NoneSettledAtApply'
<1> SUFFICES ASSUME Live(inc)', pc' \in {"apply", "mark_refused"} PROVE Unknown(inc)'
  BY DEF NoneSettledAtApply
<1>t. inc \in Incidents /\ pc \in PCs /\ job \in Job /\ out \in Out /\ job.over \in BOOLEAN
  BY JobType DEF IInv, CInv, SInv, TypeOK
<1>iv. TypeOK /\ StepsOK /\ VerdictsOK /\ ClaimHeld /\ FreshRowOK /\ FreshUndecided
        /\ NotYetSanctioned /\ AcceptedOK /\ SanctionPlaced /\ NoneSettledAtApply
  BY DEF IInv, CInv, SInv
<1>fa. job' = job BY KeepsJob
<1>fb. pc # "apply" => Live(inc) BY <1>t, <1>iv, <1>fa, LiveBack DEF inc
<1>fc. pc \in Gathering \/ (pc \in CardSteps /\ (FreshReport \/ Promotion)) => ~Live(inc)
  BY <1>iv, <1>fa DEF NotYetSanctioned, StepsOK
<1>fd. Live(inc) => Placed(inc) BY <1>t, <1>iv DEF SanctionPlaced
<1>fe. pc \in {"claim", "press_do"} => ~out.sanctioned BY <1>iv DEF AcceptedOK
<1> USE <1>t, <1>iv, <1>fa, <1>fb, <1>fc
  DEF StepsOK, Reporting, FreshReport, Promotion, EnforcePress, IsOverride, Gathering,
    CardSteps, Enforcing, inc, Goto, SetState, NoJob, NoOut, AfterProcess, AfterEvidence,
    AfterEnforce, rowVars
<1>1. CASE CopyEvidence BY <1>1 DEF CopyEvidence
<1>2. CASE MarkEvidenceFailed BY <1>2 DEF MarkEvidenceFailed
<1>3. CASE SendCard BY <1>3 DEF SendCard, CardFailed
<1>4. CASE SaveCard BY <1>4 DEF SaveCard, CardFailed
<1>5. CASE MarkNotActed BY <1>5 DEF MarkNotActed
<1>6. CASE AddEvidence BY <1>6 DEF AddEvidence
<1>7. CASE MarkEvidenced BY <1>7 DEF MarkEvidenced
<1>8. CASE FinishDryRun BY <1>8 DEF FinishDryRun
<1>9. CASE Apply
  <2>1. UNCHANGED <<state, audit, member, by, torn, crashed>> BY <1>9 DEF Apply
  <2>2. Live(inc) BY <1>fa, <2>1 DEF Live
  <2> QED BY <1>iv, <1>fa, <2>1, <2>2, <1>9 DEF Apply, NoneSettledAtApply, Unknown
<1>10. CASE MarkActed BY <1>10 DEF MarkActed
<1>11. CASE MarkSanctionRefused BY <1>11 DEF MarkSanctionRefused
<1>12. CASE MarkSanctionUnknown BY <1>12 DEF MarkSanctionUnknown
<1>13. CASE DeleteOriginals BY <1>13 DEF DeleteOriginals
<1>14. CASE MarkCleaned BY <1>14 DEF MarkCleaned
<1>15. CASE MarkDone BY <1>15 DEF MarkDone
<1>16. CASE Claim
  <2>1. Claimable(inc) /\ UNCHANGED <<state, audit>> BY <1>16 DEF Claim
  <2>2. pc = "claim" /\ Placed(inc) BY <1>fb, <1>fd, <1>16 DEF Claim
  <2> QED BY <1>fa, <1>fe, <2>1, <2>2 DEF Placed, Settled, Unknown, BeingRecorded, Claimable
<1>17. CASE CheckReview BY <1>17 DEF CheckReview
<1>18. CASE OverrideDone BY <1>18 DEF OverrideDone
<1>19. CASE FinishManualOverride BY <1>19 DEF FinishManualOverride
<1>20. CASE PressRead BY <1>20 DEF PressRead
<1>21. CASE PressUndo BY <1>21 DEF PressUndo
<1>22. CASE PressConfirm BY <1>22 DEF PressConfirm
<1>23. CASE PressEnforce
  <2>1. dry[inc] /\ UNCHANGED <<state, audit>> BY <1>23 DEF PressEnforce
  <2>2. pc = "press_do" /\ Placed(inc) BY <1>fb, <1>fd, <1>23 DEF PressEnforce
  <2> QED BY <1>fa, <1>fe, <2>1, <2>2 DEF Placed, Settled, Unknown, BeingRecorded
<1>24. CASE MarkIncidentEnforced BY <1>24 DEF MarkIncidentEnforced
<1>25. CASE RereadEnforced BY <1>25 DEF RereadEnforced
<1>26. CASE ReleaseClaim BY <1>26 DEF ReleaseClaim
<1>27. CASE ForgetEvidence BY <1>27 DEF ForgetEvidence
<1> QED
  BY <1>1, <1>2, <1>3, <1>4, <1>5, <1>6, <1>7, <1>8, <1>9, <1>10, <1>11, <1>12, <1>13,
    <1>14, <1>15, <1>16, <1>17, <1>18, <1>19, <1>20, <1>21, <1>22, <1>23, <1>24, <1>25,
    <1>26, <1>27
  DEF Worker

\* The calls undo makes for a placed sanction lift it.
LEMMA UndoFrees ==
  ASSUME TypeOK, NEW i \in Incidents, Settled(i) \/ Unknown(i)
  PROVE  Sanctioned(i) /\ UndoStatus(i) = "free"
<1>t. member \in {"free", "muted", "banned"} BY DEF TypeOK
<1>1. channel \in BOOLEAN /\ dry[i] \in BOOLEAN /\ audit[i] \in Punitive BY
  DEF TypeOK, Settled, Unknown
<1>2. Sanctioned(i) BY <1>1 DEF Sanctioned, Settled, Unknown
<1>3. CASE channel \/ state[i] = "sanction_unknown" BY <1>t, <1>2, <1>3 DEF UndoStatus
<1>4. CASE ~channel /\ state[i] # "sanction_unknown" /\ audit[i] = "ban"
  <2>1. member = "banned" BY <1>4 DEF Settled, Unknown, StatusOf
  <2> QED BY <1>2, <1>4, <2>1 DEF UndoStatus
<1>5. CASE ~channel /\ state[i] # "sanction_unknown" /\ audit[i] # "ban"
  <2>1. member = "muted" BY <1>5 DEF Settled, Unknown, StatusOf
  <2> QED BY <1>2, <1>5, <2>1 DEF UndoStatus
<1> QED BY <1>1, <1>2, <1>3, <1>4, <1>5

\* A worker step lets no sanction stand under a False positive or a Lift.
LEMMA OverturnStep ==
  ASSUME IInv, Worker
  PROVE  OverturnTrue'
<1> SUFFICES ASSUME NEW k \in Incidents, Live(k)', decision'[k] \in {"fp", "lift"}
             PROVE  (k = inc /\ pc \in {"press_read", "press_do", "release"})'
  BY DEF OverturnTrue
<1>t. inc \in Incidents /\ pc \in PCs /\ job \in Job /\ out \in Out /\ job.over \in BOOLEAN
  BY JobType DEF IInv, CInv, SInv, TypeOK
<1>iv. TypeOK /\ StepsOK /\ VerdictsOK /\ ClaimHeld /\ FreshRowOK /\ FreshUndecided
        /\ NotYetSanctioned /\ AcceptedOK /\ SanctionPlaced /\ NoneSettledAtApply
  BY DEF IInv, CInv, SInv
<1>fa. OverturnTrue BY DEF IInv, CInv, SInv
<1>fb. k = inc
  <2> SUFFICES ASSUME k # inc PROVE FALSE OBVIOUS
  <2> QED BY <1>iv, <1>fa, PlacedOther, WorkerLocal DEF OverturnTrue
<1>fc. pc # "apply" => Live(k) /\ ~StoreFails BY <1>iv, <1>fb, LiveBack
<1>fd. pc # "apply"
        /\ decision[k] \in {"fp", "lift"} => pc \in {"press_read", "press_do", "release"}
  BY <1>fa, <1>fc DEF OverturnTrue
<1>fe. decision \in [Incidents -> Acts \cup {""}] BY <1>iv DEF TypeOK
<1> USE <1>t, <1>fb, <1>fc, <1>fd, <1>fe
  DEF StepsOK, Reporting, FreshReport, Promotion, EnforcePress, IsOverride, Gathering,
    CardSteps, Enforcing, inc, Goto, SetState, NoJob, NoOut, AfterProcess, AfterEvidence,
    AfterEnforce, rowVars
<1>1. CASE CopyEvidence BY <1>1 DEF CopyEvidence
<1>2. CASE MarkEvidenceFailed BY <1>2 DEF MarkEvidenceFailed
<1>3. CASE SendCard BY <1>3 DEF SendCard, CardFailed
<1>4. CASE SaveCard BY <1>4 DEF SaveCard, CardFailed
<1>5. CASE MarkNotActed BY <1>5 DEF MarkNotActed
<1>6. CASE AddEvidence BY <1>6 DEF AddEvidence
<1>7. CASE MarkEvidenced BY <1>7 DEF MarkEvidenced
<1>8. CASE FinishDryRun BY <1>8 DEF FinishDryRun
<1>9. CASE Apply
  <2>1. decision[k] \in {"", "confirm", "enf"}
    BY <1>iv, <1>fb, <1>9 DEF Apply, ClaimHeld, FreshUndecided
  <2> QED BY <2>1, <1>9 DEF Apply
<1>10. CASE MarkActed BY <1>10 DEF MarkActed
<1>11. CASE MarkSanctionRefused BY <1>11 DEF MarkSanctionRefused
<1>12. CASE MarkSanctionUnknown BY <1>12 DEF MarkSanctionUnknown
<1>13. CASE DeleteOriginals BY <1>13 DEF DeleteOriginals
<1>14. CASE MarkCleaned BY <1>14 DEF MarkCleaned
<1>15. CASE MarkDone BY <1>15 DEF MarkDone
<1>16. CASE Claim BY <1>16 DEF Claim
<1>17. CASE CheckReview BY <1>17 DEF CheckReview
<1>18. CASE OverrideDone BY <1>18 DEF OverrideDone
<1>19. CASE FinishManualOverride BY <1>19 DEF FinishManualOverride
<1>20. CASE PressRead BY <1>20 DEF PressRead
<1>21. CASE PressUndo
  <2>1. pc = "press_do" /\ Live(k) /\ Placed(k) BY <1>iv, <1>fc, <1>21
    DEF PressUndo, SanctionPlaced
  <2>2. Settled(k) \/ Unknown(k) BY <2>1 DEF Placed, BeingRecorded
  <2>3. UndoStatus(k) = "free" BY <1>iv, <2>2, UndoFrees
  <2>4. member' # "free" BY DEF Live
  <2> QED BY <1>fb, <2>3, <2>4, <1>21 DEF PressUndo
<1>22. CASE PressConfirm
  <2>1. decision[inc] = job.act BY <1>iv, <1>22 DEF PressConfirm, FreshUndecided
  <2> QED BY <1>t, <1>fb, <1>fc, <1>fd, <1>fe, <2>1, <1>22 DEF PressConfirm
<1>23. CASE PressEnforce
  <2>1. decision[inc] = job.act BY <1>iv, <1>23 DEF PressEnforce, FreshUndecided
  <2> QED BY <1>t, <1>fb, <1>fc, <1>fd, <1>fe, <2>1, <1>23 DEF PressEnforce
<1>24. CASE MarkIncidentEnforced BY <1>24 DEF MarkIncidentEnforced
<1>25. CASE RereadEnforced BY <1>25 DEF RereadEnforced
<1>26. CASE ReleaseClaim
  <2>1. pc = "release" /\ decision[inc] = job.act BY <1>iv, <1>26
    DEF ReleaseClaim, FreshUndecided
  <2> QED BY <1>fb, <1>fc, <1>fe, <2>1, <1>26 DEF ReleaseClaim
<1>27. CASE ForgetEvidence BY <1>27 DEF ForgetEvidence
<1> QED
  BY <1>1, <1>2, <1>3, <1>4, <1>5, <1>6, <1>7, <1>8, <1>9, <1>10, <1>11, <1>12, <1>13,
    <1>14, <1>15, <1>16, <1>17, <1>18, <1>19, <1>20, <1>21, <1>22, <1>23, <1>24, <1>25,
    <1>26, <1>27
  DEF Worker

\* The worker writes no row back to absent.
LEMMA StateWrites ==
  ASSUME TypeOK, Worker, state[inc] # "absent"
  PROVE  state'[inc] # "absent"
<1>t. inc \in Incidents /\ state \in [Incidents -> States] BY JobType DEF TypeOK
<1> USE <1>t DEF SetState, rowVars
<1>1. CASE CopyEvidence BY <1>1 DEF CopyEvidence
<1>2. CASE MarkEvidenceFailed BY <1>2 DEF MarkEvidenceFailed
<1>3. CASE SendCard BY <1>3 DEF SendCard, CardFailed
<1>4. CASE SaveCard BY <1>4 DEF SaveCard, CardFailed
<1>5. CASE MarkNotActed BY <1>5 DEF MarkNotActed
<1>6. CASE AddEvidence BY <1>6 DEF AddEvidence
<1>7. CASE MarkEvidenced BY <1>7 DEF MarkEvidenced
<1>8. CASE FinishDryRun BY <1>8 DEF FinishDryRun
<1>9. CASE Apply BY <1>9 DEF Apply
<1>10. CASE MarkActed BY <1>10 DEF MarkActed
<1>11. CASE MarkSanctionRefused BY <1>11 DEF MarkSanctionRefused
<1>12. CASE MarkSanctionUnknown BY <1>12 DEF MarkSanctionUnknown
<1>13. CASE DeleteOriginals BY <1>13 DEF DeleteOriginals
<1>14. CASE MarkCleaned BY <1>14 DEF MarkCleaned
<1>15. CASE MarkDone BY <1>15 DEF MarkDone
<1>16. CASE Claim BY <1>16 DEF Claim
<1>17. CASE CheckReview BY <1>17 DEF CheckReview
<1>18. CASE OverrideDone BY <1>18 DEF OverrideDone
<1>19. CASE FinishManualOverride BY <1>19 DEF FinishManualOverride
<1>20. CASE PressRead BY <1>20 DEF PressRead
<1>21. CASE PressUndo BY <1>21 DEF PressUndo
<1>22. CASE PressConfirm BY <1>22 DEF PressConfirm
<1>23. CASE PressEnforce BY <1>23 DEF PressEnforce
<1>24. CASE MarkIncidentEnforced BY <1>24 DEF MarkIncidentEnforced
<1>25. CASE RereadEnforced BY <1>25 DEF RereadEnforced
<1>26. CASE ReleaseClaim BY <1>26 DEF ReleaseClaim
<1>27. CASE ForgetEvidence BY <1>27 DEF ForgetEvidence
<1> QED
  BY <1>1, <1>2, <1>3, <1>4, <1>5, <1>6, <1>7, <1>8, <1>9, <1>10, <1>11, <1>12, <1>13,
    <1>14, <1>15, <1>16, <1>17, <1>18, <1>19, <1>20, <1>21, <1>22, <1>23, <1>24, <1>25,
    <1>26, <1>27
  DEF Worker

\* A worker step leaves a message without a row alone.
LEMMA AbsentStep ==
  ASSUME IInv, Worker
  PROVE  AbsentOK'
<1>t. inc \in Incidents /\ state \in [Incidents -> States] /\ TypeOK BY JobType
  DEF IInv, CInv, SInv, TypeOK
<1>1. AbsentOK /\ pc # "idle" BY
  DEF IInv, CInv, SInv, Worker, CopyEvidence, MarkEvidenceFailed, SendCard, SaveCard,
    MarkNotActed, AddEvidence, MarkEvidenced, FinishDryRun, Apply, MarkActed,
    MarkSanctionRefused, MarkSanctionUnknown, DeleteOriginals, MarkCleaned, MarkDone,
    Claim, CheckReview, OverrideDone, FinishManualOverride, PressRead, PressUndo,
    PressConfirm, PressEnforce, MarkIncidentEnforced, RereadEnforced, ReleaseClaim,
    ForgetEvidence
<1>2. state[inc] # "absent" BY <1>1 DEF AbsentOK
<1>3. state'[inc] # "absent"
  BY <1>t, <1>2, StateWrites
<1>4. ASSUME NEW i \in Incidents, state'[i] = "absent"
      PROVE  decision'[i] = "" /\ keyboards'[i] = {} /\ ~Live(i)'
  <2>1. i # inc BY <1>3, <1>4
  <2>2. /\ state[i] = "absent" /\ decision'[i] = decision[i] /\ keyboards'[i] = keyboards[i]
    BY <1>t, <1>4, <2>1, WorkerLocal
  <2>3. Live(i)' => Live(i) BY <2>1, PlacedOther
  <2> QED BY <1>1, <2>2, <2>3 DEF AbsentOK
<1>5. pc' # "idle" => inc' = inc BY KeepsJob DEF inc
<1> QED BY <1>3, <1>4, <1>5 DEF AbsentOK

\* The decide CLI and the worker do not take each other's claims.
LEMMA CliStep ==
  ASSUME IInv, Worker
  PROVE  CliOK'
<1>t. inc \in Incidents /\ decision \in [Incidents -> Acts \cup {""}]
        /\ cli \subseteq Incidents
  BY JobType DEF IInv, CInv, TypeOK
<1>1. CliOK /\ StepsOK /\ TypeOK /\ ClaimHeld BY DEF IInv, CInv, SInv
<1>2. cli' = cli BY
  DEF Worker, SetState, CopyEvidence, MarkEvidenceFailed, SendCard, SaveCard, MarkNotActed,
    AddEvidence, MarkEvidenced, FinishDryRun, Apply, MarkActed, MarkSanctionRefused,
    MarkSanctionUnknown, DeleteOriginals, MarkCleaned, MarkDone, Claim, CheckReview,
    OverrideDone, FinishManualOverride, PressRead, PressUndo, PressConfirm, PressEnforce,
    MarkIncidentEnforced, RereadEnforced, ReleaseClaim, ForgetEvidence
<1>3. decision[inc] = "confirm" /\ ~Pressing => decision'[inc] = "confirm"
  BY <1>t, <1>1
    DEF Worker, SetState, rowVars, StepsOK, Claimable, Pressing, CopyEvidence,
      MarkEvidenceFailed, SendCard, SaveCard, MarkNotActed, AddEvidence, MarkEvidenced,
      FinishDryRun, Apply, MarkActed, MarkSanctionRefused, MarkSanctionUnknown,
      DeleteOriginals, MarkCleaned, MarkDone, Claim, CheckReview, OverrideDone,
      FinishManualOverride, PressRead, PressUndo, PressConfirm, PressEnforce,
      MarkIncidentEnforced, RereadEnforced, ReleaseClaim, ForgetEvidence
<1>4. pc \in Enforcing \cup {"reread"} /\ ~Reporting => decision[inc] = "enf"
  BY <1>1 DEF StepsOK, ClaimHeld, Enforcing, EnforcePress
<1>5. decision[inc] = "confirm" /\ ~Pressing => ~Pressing'
  BY <1>1, <1>4
    DEF Pressing, StepsOK, Reporting, EnforcePress, Enforcing, Gathering, CardSteps,
      SetState, Goto, AfterProcess, AfterEvidence, AfterEnforce, CardFailed, IsOverride,
      Worker, CopyEvidence, MarkEvidenceFailed, SendCard, SaveCard, MarkNotActed,
      AddEvidence, MarkEvidenced, FinishDryRun, Apply, MarkActed, MarkSanctionRefused,
      MarkSanctionUnknown, DeleteOriginals, MarkCleaned, MarkDone, Claim, CheckReview,
      OverrideDone, FinishManualOverride, PressRead, PressUndo, PressConfirm, PressEnforce,
      MarkIncidentEnforced, RereadEnforced, ReleaseClaim, ForgetEvidence
<1>6. ASSUME NEW i \in cli PROVE decision'[i] = "confirm" /\ (i = inc' => ~Pressing')
  <2>1. i \in Incidents /\ decision[i] = "confirm" /\ (i = inc => ~Pressing)
    BY <1>t, <1>1 DEF CliOK
  <2>2. i # inc => decision'[i] = decision[i] BY <1>1, <2>1, WorkerLocal
  <2>3. Pressing' => inc' = inc BY KeepsJob DEF Pressing, inc
  <2> QED BY <1>3, <1>5, <2>1, <2>2, <2>3
<1> QED BY <1>2, <1>6 DEF CliOK

-----------------------------------------------------------------------------
(* The steps that start a job, and those of the other processes. *)
\* A report starts a job whose verdict and card budget are in order.
LEMMA ReportControl ==
  ASSUME CInv, NEW src \in {"msg", "spam", "ban"}, NEW i \in Incidents, NEW v \in Verdict,
         src = "msg" => v.signal # "manual",
         src # "msg" => v.action \in Punitive /\ ~v.dry,
         Report(src, i, v)
  PROVE  StepsOK' /\ VerdictsOK' /\ CardsOK'
<1>1. tries'[i] < MaxTries BY DEF Report, adminVars
<1>2. CASE pc' = "copy" /\ job' = ReportJob(src, i, v, FALSE)
  BY <1>1, <1>2
    DEF StepsOK, VerdictsOK, CardsOK, ReportJob, Reporting, FreshReport, Promotion,
      EnforcePress,
     IsOverride, Gathering, CardSteps, Enforcing, inc
<1>3. CASE pc' = "claim" /\ job' = ReportJob(src, i, v, TRUE)
  <2>1. src = "msg" => ~v.dry BY <1>3 DEF Report, Overrides
  <2> QED BY <1>1, <1>3, <2>1
    DEF StepsOK, VerdictsOK, CardsOK, ReportJob, Reporting, FreshReport, Promotion,
      EnforcePress,
     IsOverride, Gathering, CardSteps, Enforcing, inc
<1> QED BY <1>2, <1>3 DEF Report

\* The other steps leave the job alone, drop it, or start one that sanctions nothing.
LEMMA OthersControl ==
  ASSUME CInv,
         \/ UNCHANGED vars \/ Ham \/ Crash
         \/ \E i \in Incidents :
              \/ CliClaim(i) \/ CliFinish(i)
              \/ \E c \in Attempts : PressDeleteEvidence(i, c) \/ \E a \in Acts : Press(i, a, c)
  PROVE  StepsOK' /\ VerdictsOK' /\ CardsOK'
<1>1. CASE UNCHANGED <<tries, pc, job>>
  BY <1>1 DEF CInv, StepsOK, VerdictsOK, CardsOK, Reporting, FreshReport, Promotion,
              EnforcePress, IsOverride, inc, AppliedAction
<1>2. CASE /\ pc' \in {"idle", "press_read", "forget"}
           /\ job'.src \in {"none", "press", "delevi"}
           /\ pc' = "press_read" => job'.src = "press"
           /\ EnforcePress' => job'.verdict.action \in EnforceActions
  BY <1>2
    DEF StepsOK, VerdictsOK, CardsOK, Promotion, IsOverride, Gathering, CardSteps, Enforcing
<1>3. CASE UNCHANGED vars \/ Ham \/ \E i \in Incidents : CliClaim(i) \/ CliFinish(i)
  BY <1>1, <1>3 DEF vars, adminVars, workVars, Ham, CliClaim, CliFinish
<1>4. CASE Crash BY <1>2, <1>4 DEF Crash, NoJob, EnforcePress
<1>5. ASSUME NEW i \in Incidents, NEW c \in Attempts, PressDeleteEvidence(i, c)
      PROVE  StepsOK' /\ VerdictsOK' /\ CardsOK'
  <2>1. UNCHANGED <<tries, pc, job>> \/ (pc' = "forget" /\ job'.src = "delevi")
    BY <1>5 DEF PressDeleteEvidence, ReportJob, workVars
  <2> QED BY <1>1, <1>2, <2>1 DEF EnforcePress
<1>6. ASSUME NEW i \in Incidents, NEW c \in Attempts, NEW a \in Acts, Press(i, a, c)
      PROVE  StepsOK' /\ VerdictsOK' /\ CardsOK'
  <2>1. \/ UNCHANGED <<tries, pc, job>>
        \/ /\ pc' = "press_read" /\ job'.src = "press"
           /\ job'.act = "enf" => job'.verdict.action \in EnforceActions
    <3>1. CASE UNCHANGED <<tries, pc, job>> BY <3>1
    <3>2. CASE ~UNCHANGED <<tries, pc, job>>
      <4>1. PICK v \in PressVerdicts(a) :
              job' = [src |-> "press", inc |-> i, verdict |-> v, over |-> FALSE, act |-> a, card |-> c]
        BY <1>6, <3>2 DEF Press, workVars
      <4>2. a = "enf" => v.action \in EnforceActions
        BY DEF PressVerdicts, SpamVerdict
      <4>3. pc' = "press_read" BY <1>6, <3>2 DEF Press, workVars
      <4> QED BY <4>1, <4>2, <4>3
    <3> QED BY <3>1, <3>2
  <2> QED BY <1>1, <1>2, <2>1 DEF EnforcePress
<1> QED BY <1>3, <1>4, <1>5, <1>6

\* A report touches no sanction in force: its row is new, or it only asks for the
\* claim.
LEMMA ReportSanctions ==
  ASSUME IInv, NEW src \in {"msg", "spam", "ban"}, NEW i \in Incidents, NEW v \in Verdict,
         Report(src, i, v)
  PROVE  SInv'
<1>1. pc = "idle" /\ UNCHANGED <<decision, memberVars, adminVars, cli, histVars>>
        /\ out' = NoOut
  BY DEF Report
<1>2. TypeOK /\ AbsentOK /\ SanctionPlaced /\ OverturnTrue /\ CliOK BY DEF IInv, CInv, SInv
<1>3. job'.src \in {"msg", "spam", "ban"} /\ inc' = i BY DEF Report, ReportJob, inc
<1>4. \A k \in Incidents : Live(k)' <=> Live(k) BY <1>1 DEF Live, memberVars, histVars
<1>5. \A k \in Incidents : Live(k) => k # i \/ state[i] # "absent" BY <1>2 DEF AbsentOK
<1>6. \A k \in Incidents : k # i \/ state[i] # "absent" =>
        state'[k] = state[k] /\ dry'[k] = dry[k] /\ audit'[k] = audit[k]
  BY <1>2 DEF Report, TypeOK
<1>7. SanctionPlaced'
  <2> SUFFICES ASSUME NEW k \in Incidents, Live(k)' PROVE Placed(k)' BY DEF SanctionPlaced
  <2>1. Placed(k) /\ state'[k] = state[k] /\ dry'[k] = dry[k] /\ audit'[k] = audit[k]
    BY <1>2, <1>4, <1>5, <1>6 DEF SanctionPlaced
  <2> QED BY <1>1, <2>1 DEF Placed, Settled, Unknown, BeingRecorded, StatusOf, memberVars
<1>8. OverturnTrue' BY <1>1, <1>2, <1>4 DEF OverturnTrue
<1>9. CliOK' BY <1>1, <1>2, <1>3 DEF CliOK, Pressing, Report
<1>10. state'[i] # "absent" BY <1>2 DEF Report, TypeOK
<1>11. AbsentOK'
  <2>1. ASSUME NEW k \in Incidents, state'[k] = "absent" PROVE state[k] = "absent"
    BY <1>6, <1>10, <2>1
  <2> QED BY <1>1, <1>2, <1>3, <1>4, <1>10, <2>1 DEF AbsentOK, adminVars
<1>12. pc' = "copy" \/ pc' = "claim" BY DEF Report
<1>13. ClaimHeld' BY <1>3 DEF Report, ReportJob, ClaimHeld, EnforcePress
<1>14. AcceptedOK' BY <1>1, <1>12 DEF AcceptedOK, NoOut, Gathering, CardSteps
<1>15. NoneSettledAtApply' BY <1>12 DEF NoneSettledAtApply
<1>16. CASE pc' = "copy" /\ job' = ReportJob(src, i, v, FALSE) /\ state[i] = "absent"
  <2>1. ~Live(i)' /\ decision'[i] = "" BY <1>1, <1>2, <1>4, <1>16 DEF AbsentOK
  <2>2. NotYetSanctioned' BY <1>3, <2>1 DEF NotYetSanctioned
  <2>3. FreshUndecided' BY <1>3, <1>16, <2>1 DEF FreshUndecided
  <2>4. state'[i] = "pending" /\ dry'[i] = v.dry /\ audit'[i] = v.action BY <1>2, <1>16
    DEF Report, TypeOK
  <2>5. FreshRowOK' BY <1>1, <1>3, <1>16, <2>4 DEF FreshRowOK, ReportJob, NoOut, CardSteps
  <2> QED BY <1>7, <1>8, <1>9, <1>11, <1>13, <1>14, <1>15, <2>2, <2>3, <2>5 DEF SInv
<1>17. CASE pc' = "claim" /\ job' = ReportJob(src, i, v, TRUE)
  <2>1. NotYetSanctioned' BY <1>17 DEF NotYetSanctioned, Gathering, CardSteps
  <2>2. FreshUndecided' /\ FreshRowOK' BY <1>17
    DEF FreshUndecided, FreshRowOK, FreshReport, ReportJob
  <2> QED BY <1>7, <1>8, <1>9, <1>11, <1>13, <1>14, <1>15, <2>1, <2>2 DEF SInv
<1> QED BY <1>16, <1>17 DEF Report

\* A press that takes the claim, or strips a retired card.
LEMMA PressStep ==
  ASSUME IInv, NEW i \in Incidents, NEW a \in Acts, NEW c \in Attempts, Press(i, a, c)
  PROVE  SInv'
<1>1. pc = "idle" /\ UNCHANGED <<state, dry, audit, memberVars, tries, cli, histVars>>
        /\ c \in keyboards[i]
  BY DEF Press
<1>2. TypeOK /\ AbsentOK /\ SanctionPlaced /\ OverturnTrue /\ CliOK BY DEF IInv, CInv, SInv
<1>3. \A k \in Incidents : Live(k)' <=> Live(k) BY <1>1 DEF Live, memberVars, histVars
<1>4. state[i] # "absent" BY <1>1, <1>2 DEF AbsentOK
<1>5. SanctionPlaced'
  <2> SUFFICES ASSUME NEW k \in Incidents, Live(k)' PROVE Placed(k)' BY DEF SanctionPlaced
  <2>1. Placed(k) BY <1>2, <1>3 DEF SanctionPlaced
  <2> QED BY <1>1, <2>1 DEF Placed, Settled, Unknown, BeingRecorded, StatusOf, memberVars
<1>6. CASE UNCHANGED <<decision, workVars>>
        /\ keyboards' = [keyboards EXCEPT ![i] = @ \ {c}]
  <2>1. \A k \in Incidents : k # i => keyboards'[k] = keyboards[k] BY <1>2, <1>6 DEF TypeOK
  <2>2. AbsentOK' BY <1>1, <1>2, <1>3, <1>4, <1>6, <2>1 DEF AbsentOK, workVars
  <2>3. UNCHANGED <<pc, job, out>> BY <1>6 DEF workVars
  <2>4. OverturnTrue' BY <1>2, <1>3, <1>6, <2>3 DEF OverturnTrue, inc
  <2>5. CliOK' BY <1>1, <1>2, <1>6, <2>3 DEF CliOK, inc, Pressing
  <2>7. ClaimHeld' /\ FreshRowOK' /\ FreshUndecided' BY <1>1, <2>3
    DEF ClaimHeld, FreshRowOK, FreshUndecided, Gathering, CardSteps, Enforcing
  <2>8. NotYetSanctioned' /\ NoneSettledAtApply' BY <1>1, <2>3
    DEF NotYetSanctioned, NoneSettledAtApply, Gathering, CardSteps
  <2>9. AcceptedOK' BY <1>1, <1>2, <1>3, <2>3, JobType
    DEF IInv, SInv, AcceptedOK, AppliedAction, StatusOf, memberVars, inc, FreshReport,
      Promotion, Reporting
  <2> QED BY <1>5, <2>2, <2>4, <2>5, <2>7, <2>8, <2>9 DEF SInv
<1>7. CASE decision[i] = "" /\ decision' = [decision EXCEPT ![i] = a]
        /\ pc' = "press_read" /\ out' = NoOut
           /\ job'.src = "press" /\ inc' = i /\ job'.act = a /\ job'.over = FALSE /\ UNCHANGED keyboards
  <2>0. decision'[i] = a /\ \A k \in Incidents : k # i => decision'[k] = decision[k]
    BY <1>2, <1>7 DEF TypeOK
  <2>1. AbsentOK' BY <1>1, <1>2, <1>3, <1>4, <1>7, <2>0 DEF AbsentOK
  <2>2. OverturnTrue' BY <1>1, <1>2, <1>3, <1>7, <2>0 DEF OverturnTrue
  <2>3. CliOK'
    <3> SUFFICES ASSUME NEW k \in cli PROVE k # i /\ decision'[k] = "confirm" BY <1>1, <1>7
      DEF CliOK
    <3> QED BY <1>2, <1>7, <2>0 DEF CliOK, TypeOK
  <2>6. ClaimHeld' /\ FreshUndecided' /\ FreshRowOK'
    BY <1>7, <2>0
      DEF ClaimHeld, FreshUndecided, FreshRowOK, FreshReport, Reporting, EnforcePress
  <2>7. NotYetSanctioned' /\ NoneSettledAtApply' /\ AcceptedOK'
    BY <1>7
      DEF NotYetSanctioned, NoneSettledAtApply, AcceptedOK, NoOut, Gathering, CardSteps
  <2> QED BY <1>5, <2>1, <2>2, <2>3, <2>6, <2>7 DEF SInv
<1>8. CASE decision[i] = "" 
  <2>1. PICK v \in PressVerdicts(a) :
          job' = [src |-> "press", inc |-> i, verdict |-> v, over |-> FALSE, act |-> a, card |-> c]
    BY <1>8 DEF Press
  <2>2. job'.src = "press" /\ inc' = i /\ job'.act = a /\ job'.over = FALSE BY <2>1 DEF inc
  <2>3. decision' = [decision EXCEPT ![i] = a] /\ pc' = "press_read" /\ out' = NoOut
          /\ UNCHANGED keyboards
    BY <1>8 DEF Press
  <2> QED BY <1>7, <1>8, <2>2, <2>3
<1>9. CASE decision[i] # "" BY <1>6, <1>9 DEF Press
<1> QED BY <1>8, <1>9

\* Deleting the evidence starts a job of its own and touches no sanction.
LEMMA DeleteEvidenceStep ==
  ASSUME IInv, NEW i \in Incidents, NEW c \in Attempts, PressDeleteEvidence(i, c)
  PROVE  SInv'
<1>1. pc = "idle" /\ UNCHANGED <<rowVars, memberVars, keyboards, tries, cli, histVars>>
        /\ c \in keyboards[i]
  BY DEF PressDeleteEvidence
<1>2. TypeOK /\ StepsOK /\ VerdictsOK /\ CardsOK /\ AcceptedOK /\ AbsentOK
        /\ SanctionPlaced /\ OverturnTrue /\ CliOK
  BY DEF IInv, CInv, SInv
<1>3. /\ pc' \in {"idle", "forget"} /\ (out' = NoOut \/ UNCHANGED <<pc, job, out>>)
      /\ UNCHANGED <<pc, job, out>> \/ (pc' = "forget" /\ job'.src = "delevi" /\ job'.over = FALSE /\ inc' = i)
  BY <1>1 DEF PressDeleteEvidence, workVars, ReportJob, inc
<1>4. \A k \in Incidents : Live(k)' <=> Live(k) BY <1>1 DEF Live, memberVars, histVars
<1>5. state[i] # "absent" BY <1>1, <1>2 DEF AbsentOK
<1>6. SanctionPlaced'
  <2> SUFFICES ASSUME NEW k \in Incidents, Live(k)' PROVE Placed(k)' BY DEF SanctionPlaced
  <2>1. Placed(k) BY <1>2, <1>4 DEF SanctionPlaced
  <2> QED BY <1>1, <2>1
    DEF Placed, Settled, Unknown, BeingRecorded, StatusOf, rowVars, memberVars
<1>7. AbsentOK' BY <1>1, <1>2, <1>3, <1>4, <1>5 DEF AbsentOK, rowVars, inc
<1>8. OverturnTrue' /\ CliOK' BY <1>1, <1>2, <1>3, <1>4
  DEF OverturnTrue, CliOK, Pressing, rowVars, inc
<1>11. ClaimHeld' /\ FreshUndecided' BY <1>1, <1>3
  DEF ClaimHeld, FreshUndecided, FreshReport, Reporting, EnforcePress, Enforcing
<1>14. FreshRowOK' BY <1>3 DEF FreshRowOK, Gathering, CardSteps
<1>12. NotYetSanctioned' /\ NoneSettledAtApply'
  BY <1>3 DEF NotYetSanctioned, NoneSettledAtApply, Gathering, CardSteps
<1>13. AcceptedOK'
  BY <1>1, <1>2, <1>3, <1>4, JobType
    DEF AcceptedOK, AppliedAction, StatusOf, memberVars, rowVars, inc, FreshReport,
      Promotion, Reporting, NoOut, Gathering, CardSteps
<1> QED BY <1>6, <1>7, <1>8, <1>11, <1>12, <1>13, <1>14 DEF SInv

\* /ham frees the sender or does nothing.
LEMMA HamStep ==
  ASSUME IInv, Ham
  PROVE  SInv'
<1>1. pc = "idle" /\ UNCHANGED <<rowVars, by, channel, adminVars, workVars, cli, histVars>>
  BY DEF Ham
<1>2. CInv /\ SInv BY DEF IInv
<1>3. ASSUME NEW k \in Incidents, Live(k)' PROVE Live(k) /\ member' = member
  BY <1>1, <1>3 DEF Live, Ham, histVars
<1>4. UNCHANGED <<state, dry, decision, audit, keyboards, tries, pc, job, out, torn, crashed>>
  BY <1>1 DEF rowVars, adminVars, workVars, histVars
<1>5. SanctionPlaced'
  BY <1>1, <1>2, <1>3, <1>4
    DEF SInv, SanctionPlaced, Placed, Settled, Unknown, BeingRecorded, StatusOf
<1>7. ClaimHeld' /\ FreshUndecided' /\ FreshRowOK'
  BY <1>2, <1>4
    DEF SInv, ClaimHeld, FreshUndecided, FreshRowOK, Spotless, ActsWithoutEvidence,
      FreshReport, Reporting, EnforcePress, inc
<1>8. AbsentOK' /\ OverturnTrue' BY <1>2, <1>3, <1>4 DEF SInv, AbsentOK, OverturnTrue, inc
<1>9. CliOK' BY <1>1, <1>2, <1>4 DEF SInv, CliOK, inc, Pressing
<1>10. NotYetSanctioned' /\ NoneSettledAtApply' BY <1>1, <1>4
  DEF NotYetSanctioned, NoneSettledAtApply, Gathering, CardSteps
<1>11. inc' = inc /\ inc \in Incidents BY <1>2, <1>4, JobType DEF CInv, inc
<1>12. AcceptedOK'
  BY <1>1, <1>2, <1>3, <1>4, <1>11
    DEF SInv, AcceptedOK, AppliedAction, StatusOf, FreshReport, Promotion, Reporting
<1> QED BY <1>5, <1>7, <1>8, <1>9, <1>10, <1>12 DEF SInv

\* A crash leaves the rows as they are and the worker with nothing to do.
LEMMA CrashStep ==
  ASSUME IInv, Crash
  PROVE  SInv'
<1>1. pc' = "idle" /\ job' = NoJob /\ out' = NoOut /\ crashed' = crashed \cup {inc} BY
  DEF Crash
<1>2. UNCHANGED <<state, dry, decision, audit, keyboards, member, by, channel, cli, torn>>
  BY DEF Crash, rowVars, memberVars, adminVars
<1>3. TypeOK /\ AbsentOK /\ SanctionPlaced /\ OverturnTrue /\ CliOK BY DEF IInv, CInv, SInv
<1>4. ASSUME NEW k \in Incidents, Live(k)' PROVE Live(k) /\ k # inc BY <1>1, <1>2, <1>4
  DEF Live
<1>5. SanctionPlaced'
  <2> SUFFICES ASSUME NEW k \in Incidents, Live(k)' PROVE Placed(k)' BY DEF SanctionPlaced
  <2>1. Settled(k) \/ Unknown(k) BY <1>3, <1>4 DEF SanctionPlaced, Placed
  <2> QED BY <1>2, <2>1 DEF Placed, Settled, Unknown, StatusOf
<1>6. AbsentOK' /\ OverturnTrue' BY <1>1, <1>2, <1>3, <1>4 DEF AbsentOK, OverturnTrue
<1>7. CliOK' BY <1>1, <1>2, <1>3 DEF CliOK, NoJob, Pressing
<1>10. ClaimHeld' /\ FreshUndecided' /\ FreshRowOK'
  BY <1>1
    DEF ClaimHeld, FreshUndecided, FreshRowOK, FreshReport, Reporting, EnforcePress, NoJob
<1>11. NotYetSanctioned' /\ NoneSettledAtApply' /\ AcceptedOK'
  BY <1>1 DEF NotYetSanctioned, NoneSettledAtApply, AcceptedOK, NoOut, Gathering, CardSteps
<1> QED BY <1>5, <1>6, <1>7, <1>10, <1>11 DEF SInv

\* The decide CLI takes a free claim and gives back only its own.
LEMMA DecideStep ==
  ASSUME IInv, NEW i \in Incidents, CliClaim(i) \/ CliFinish(i)
  PROVE  SInv'
<1>1. UNCHANGED <<state, dry, audit, keyboards, tries, member, by, channel, pc, job, out, torn, crashed>>
  BY DEF CliClaim, CliFinish, memberVars, adminVars, workVars, histVars
<1>2. CInv /\ SInv BY DEF IInv
<1>3. decision \in [Incidents -> Acts \cup {""}] /\ inc \in Incidents /\ job.act \in Acts
  BY <1>2, JobType DEF CInv, TypeOK
<1>4. \A k \in Incidents : decision'[k] # decision[k] =>
        /\ k = i /\ state[k] # "absent"
        /\ \/ decision[k] = "" /\ decision'[k] = "confirm"
           \/ decision[k] = "confirm" /\ decision'[k] = "" /\ k \in cli
  <2>1. CASE CliClaim(i) BY <1>3, <2>1 DEF CliClaim
  <2>2. CASE CliFinish(i)
    <3>1. decision[i] = "confirm" BY <1>2, <2>2 DEF SInv, CliOK, CliFinish
    <3>2. state[i] # "absent" BY <1>2, <3>1 DEF SInv, AbsentOK
    <3> QED BY <1>3, <2>2, <3>1, <3>2 DEF CliFinish
  <2> QED BY <2>1, <2>2
<1>5. \A k \in Incidents : Live(k)' <=> Live(k) BY <1>1 DEF Live
<1>7. ClaimHeld' BY <1>1, <1>2, <1>3, <1>4 DEF SInv, ClaimHeld, EnforcePress, inc
<1>8. FreshUndecided'
  <2>1. FreshReport /\ pc # "idle" => decision'[inc] \in {"", "confirm"}
    BY <1>2, <1>3, <1>4 DEF SInv, FreshUndecided
  <2>2. job.src = "press"
          /\ pc \in {"press_read", "press_do", "release"} => decision'[inc] = job.act
    <3>1. inc \in cli => ~Pressing BY <1>2 DEF SInv, CliOK
    <3>2. "" \notin Acts BY DEF Acts
    <3> QED BY <1>2, <1>3, <1>4, <3>1, <3>2 DEF SInv, FreshUndecided, Pressing
  <2> QED BY <1>1, <2>1, <2>2 DEF FreshUndecided, FreshReport, Reporting, inc
<1>9. FreshRowOK' BY <1>1, <1>2
  DEF SInv, FreshRowOK, Spotless, ActsWithoutEvidence, FreshReport, Reporting, inc
<1>10. AbsentOK' BY <1>1, <1>2, <1>3, <1>4, <1>5 DEF SInv, AbsentOK, inc
<1>11. OverturnTrue' BY <1>1, <1>2, <1>4, <1>5 DEF SInv, OverturnTrue, inc
<1>12. SanctionPlaced' BY <1>1, <1>2, <1>5
  DEF SInv, SanctionPlaced, Placed, Settled, Unknown, BeingRecorded, EnforcePress,
    StatusOf, inc
<1>13. NotYetSanctioned' /\ NoneSettledAtApply'
  BY <1>1, <1>2, <1>3, <1>5
    DEF SInv, NotYetSanctioned, NoneSettledAtApply, Unknown, FreshReport, Promotion,
      Reporting, inc
<1>14. AcceptedOK'
  BY <1>1, <1>2, <1>3, <1>5
    DEF SInv, AcceptedOK, AppliedAction, StatusOf, FreshReport, Promotion, Reporting, inc
<1>15. CliOK'
  <2>1. CASE CliClaim(i)
    <3>1. decision'[i] = "confirm" /\ cli' = {i} /\ decision[i] = "" BY <1>3, <2>1
      DEF CliClaim
    <3>2. Pressing => job.src = "press" BY <1>2 DEF CInv, StepsOK, Pressing
    <3>3. Pressing => decision[inc] = job.act BY <1>2, <3>2
      DEF SInv, FreshUndecided, Pressing
    <3>4. i = inc => ~Pressing BY <1>3, <3>1, <3>3 DEF Acts
    <3> QED BY <1>1, <3>1, <3>4 DEF CliOK, inc, Pressing
  <2>2. CASE CliFinish(i) BY <2>2 DEF CliFinish, CliOK
  <2> QED BY <2>1, <2>2
<1> QED BY <1>7, <1>8, <1>9, <1>10, <1>11, <1>12, <1>13, <1>14, <1>15 DEF SInv

-----------------------------------------------------------------------------
(* The theorems. *)

\* The detectors' verdicts are verdicts, none of them a moderator's.
LEMMA VerdictFacts ==
  /\ \A v \in AutoVerdicts : v \in Verdict /\ v.signal # "manual"
  /\ SpamVerdict \in Verdict /\ SpamVerdict.action \in Punitive /\ ~SpamVerdict.dry
  /\ BanVerdict \in Verdict /\ BanVerdict.action \in Punitive /\ ~BanVerdict.dry
  BY VerdictsAssumption DEF SpamVerdict, BanVerdict, Verdict, Action, Punitive

\* Every start of the program satisfies the invariant.
LEMMA InitInv == Init => IInv
<1> SUFFICES ASSUME Init PROVE IInv OBVIOUS
<1>1. TypeOK
  <2>1. MaxTries \in Nat /\ 0 \in 0 .. MaxTries /\ 0 \in 0 .. MaxMishaps BY BoundsAssumption
  <2>2. channel \in BOOLEAN BY ChannelsAssumption DEF Init
  <2> QED BY <2>1, <2>2, NoWorkType DEF Init, TypeOK, States, Action, PCs
<1>2. StepsOK /\ VerdictsOK /\ CardsOK
  BY
    DEF Init, StepsOK, VerdictsOK, CardsOK, NoJob, Promotion, IsOverride, EnforcePress, Gathering,
      CardSteps, Enforcing
<1>3. ClaimHeld /\ FreshRowOK /\ FreshUndecided /\ CliOK
  BY
    DEF Init, ClaimHeld, FreshRowOK, FreshUndecided, CliOK, NoJob, FreshReport, Reporting,
      EnforcePress
<1>4. \A i \in Incidents : ~Live(i) BY DEF Init, Live
<1>5. NoneSettledAtApply /\ OverturnTrue /\ SanctionPlaced /\ AbsentOK
  BY <1>4 DEF Init, NoneSettledAtApply, OverturnTrue, SanctionPlaced, AbsentOK
<1>6. NotYetSanctioned /\ AcceptedOK
  BY DEF Init, NotYetSanctioned, AcceptedOK, NoOut, Gathering, CardSteps
<1> QED BY <1>1, <1>2, <1>3, <1>5, <1>6 DEF IInv, CInv, SInv

\* Every step keeps the jobs in order and the state well-typed.
LEMMA ControlInv == CInv /\ [Next]_vars => CInv'
<1> SUFFICES ASSUME CInv, [Next]_vars PROVE CInv' OBVIOUS
<1>1. TypeOK' BY TypeStep DEF CInv
<1>2. CASE Worker BY <1>1, <1>2, ControlStep DEF CInv
<1>3. ASSUME NEW i \in Incidents, NEW v \in AutoVerdicts, Report("msg", i, v) PROVE CInv'
  BY <1>1, <1>3, VerdictFacts, ReportControl DEF CInv
<1>4. ASSUME NEW i \in Incidents, Report("spam", i, SpamVerdict) \/ Report("ban", i, BanVerdict)
      PROVE  CInv'
  BY <1>1, <1>4, VerdictFacts, ReportControl DEF CInv
<1>5. CASE \/ UNCHANGED vars \/ Ham \/ Crash
           \/ \E i \in Incidents :
                \/ CliClaim(i) \/ CliFinish(i)
                \/ \E c \in Attempts : PressDeleteEvidence(i, c) \/ \E a \in Acts : Press(i, a, c)
  BY <1>1, <1>5, OthersControl DEF CInv
<1> QED BY <1>2, <1>3, <1>4, <1>5 DEF Next, Moderate

\* A step that changes nothing keeps the invariant.
LEMMA StutterStep == SInv /\ UNCHANGED vars => SInv'
<1> SUFFICES ASSUME SInv, UNCHANGED vars PROVE SInv' OBVIOUS
<1>1. UNCHANGED <<state, dry, decision, audit, keyboards, member, by, channel, pc, job, out, cli, torn, crashed>>
  BY DEF vars, rowVars, memberVars, adminVars, workVars, histVars
<1> USE <1>1 DEF inc, Live, FreshReport, Promotion, Reporting, EnforcePress
<1>2. ClaimHeld' /\ FreshUndecided' BY DEF SInv, ClaimHeld, FreshUndecided
<1>3. AbsentOK' /\ OverturnTrue' BY DEF SInv, AbsentOK, OverturnTrue
<1>4. FreshRowOK' BY DEF SInv, FreshRowOK, Spotless, ActsWithoutEvidence
<1>5. NotYetSanctioned' /\ NoneSettledAtApply' BY
  DEF SInv, NotYetSanctioned, NoneSettledAtApply, Unknown
<1>6. AcceptedOK' BY DEF SInv, AcceptedOK, AppliedAction, StatusOf
<1>7. SanctionPlaced' BY
  DEF SInv, SanctionPlaced, Placed, Settled, Unknown, BeingRecorded, StatusOf
<1>8. CliOK' BY DEF SInv, CliOK, Pressing
<1> QED BY <1>2, <1>3, <1>4, <1>5, <1>6, <1>7, <1>8 DEF SInv

\* Every step keeps the invariant, when the Enforce button is configured to punish.
LEMMA SanctionInv == EnforceActions \subseteq Punitive /\ IInv /\ [Next]_vars => SInv'
<1> SUFFICES ASSUME EnforceActions \subseteq Punitive, IInv, [Next]_vars PROVE SInv' OBVIOUS
<1>t. TypeOK /\ StepsOK /\ VerdictsOK /\ ClaimHeld /\ FreshUndecided /\ FreshRowOK /\ SInv
  BY DEF IInv, CInv, SInv
<1>1. CASE Worker
  <2>1. ClaimHeld' /\ FreshUndecided' BY <1>t, <1>1, ClaimStep
  <2>2. FreshRowOK' BY <1>t, <1>1, FreshStep
  <2> QED
    BY <1>1, <2>1, <2>2, AbsentStep, NotYetStep, AcceptedStep, PlacedStep, NoneSettledStep,
             OverturnStep, CliStep DEF SInv
<1>2. ASSUME NEW i \in Incidents, NEW v \in AutoVerdicts, Report("msg", i, v) PROVE SInv'
  BY <1>2, VerdictFacts, ReportSanctions
<1>3. ASSUME NEW i \in Incidents, Report("spam", i, SpamVerdict) \/ Report("ban", i, BanVerdict)
      PROVE  SInv'
  BY <1>3, VerdictFacts, ReportSanctions
<1>4. ASSUME NEW i \in Incidents, NEW c \in Attempts, NEW a \in Acts, Press(i, a, c) PROVE SInv'
  BY <1>4, PressStep
<1>5. ASSUME NEW i \in Incidents, NEW c \in Attempts, PressDeleteEvidence(i, c) PROVE SInv'
  BY <1>5, DeleteEvidenceStep
<1>6. ASSUME NEW i \in Incidents, CliClaim(i) \/ CliFinish(i) PROVE SInv'
  BY <1>6, DecideStep
<1>7. CASE UNCHANGED vars BY <1>t, <1>7, StutterStep
<1> QED BY <1>1, <1>2, <1>3, <1>4, <1>5, <1>6, <1>7, HamStep, CrashStep DEF Next, Moderate

\* What the invariant says of the rows: no sanction in force is hidden from
\* SanctionSince, undo lifts every sanction of an incident at rest, and a
\* decision that overturned one is true.
LEMMA InvImplies == IInv => SanctionVisible /\ UndoLifts /\ OverturnHolds
<1> SUFFICES ASSUME IInv PROVE SanctionVisible /\ UndoLifts /\ OverturnHolds OBVIOUS
<1>1. TypeOK /\ StepsOK /\ VerdictsOK /\ ClaimHeld /\ FreshRowOK /\ SanctionPlaced
        /\ AcceptedOK /\ OverturnTrue
  BY DEF IInv, CInv, SInv
<1>2. ASSUME NEW i \in Incidents, Live(i) PROVE Protected(i)
  <2>1. Placed(i) BY <1>1, <1>2 DEF SanctionPlaced
  <2>2. CASE Settled(i) \/ Unknown(i) BY <2>2 DEF Settled, Unknown, Protected
  <2>3. CASE i = inc /\ (job.over \/ EnforcePress) /\ pc \in Enforcing \cup
               {"over_done", "set_done", "card", "save_card", "finish", "mark_enforced"}
    BY <1>1, <2>3
      DEF StepsOK, Reporting, FreshReport, Promotion, IsOverride, EnforcePress, Gathering,
                     CardSteps, ClaimHeld, Protected, Enforcing
  <2>4. CASE i = inc /\ FreshReport /\ pc \in {"mark_acted", "mark_unknown"}
    <3>1. ~dry[i] /\ state[i] \in {"pending", "evidenced"} /\ audit[i] = AppliedAction
      BY <1>1, <1>2, <2>4
        DEF FreshRowOK, VerdictsOK, Enforcing, Spotless, Live, FreshReport, Reporting,
          AppliedAction
    <3>2. AppliedAction \in Punitive BY <1>1, <1>2, <2>4 DEF VerdictsOK, AcceptedOK
    <3> QED BY <3>1, <3>2 DEF Protected
  <2>5. i = inc
          /\ pc \in {"mark_acted", "mark_unknown"} => FreshReport \/ job.over \/ EnforcePress
    BY <1>1, JobType DEF StepsOK, Enforcing, FreshReport
  <2> QED BY <2>1, <2>2, <2>3, <2>4, <2>5 DEF Placed, BeingRecorded, Enforcing
<1>3. ASSUME NEW i \in Incidents, Live(i), ~WorkingOn(i)
      PROVE  Sanctioned(i) /\ UndoStatus(i) = "free"
  <2>1. Settled(i) \/ Unknown(i) BY <1>1, <1>3
    DEF SanctionPlaced, Placed, BeingRecorded, WorkingOn
  <2> QED BY <1>1, <2>1, UndoFrees
<1>4. ASSUME NEW i \in Incidents, decision[i] \in {"fp", "lift"}, ~WorkingOn(i) PROVE ~Live(i)
  BY <1>1, <1>4 DEF OverturnTrue, WorkingOn
<1> QED BY <1>2, <1>3, <1>4 DEF SanctionVisible, UndoLifts, OverturnHolds

\* Type correctness of the incident machine: the row, the worker of the chat's
\* sequencer and the claim never leave the values the code gives them.
THEOREM TypeCorrect == Spec => []TypeOK
<1>1. Init => CInv BY InitInv DEF IInv
<1>2. CInv => TypeOK BY DEF CInv
<1> QED BY <1>1, <1>2, ControlInv, PTL DEF Spec

\* The inductive invariant, for a chat whose Enforce button punishes.
THEOREM Invariance == EnforceActions \subseteq Punitive => (Spec => []IInv)
<1> SUFFICES ASSUME EnforceActions \subseteq Punitive PROVE Spec => []IInv OBVIOUS
<1>1. IInv /\ [Next]_vars => IInv' BY ControlInv, SanctionInv DEF IInv
<1> QED BY <1>1, InitInv, PTL DEF Spec

\* SanctionSince never misses a sanction that is in force.
THEOREM SanctionAlwaysVisible == EnforceActions \subseteq Punitive => (Spec => []SanctionVisible)
<1> SUFFICES ASSUME EnforceActions \subseteq Punitive PROVE Spec => []SanctionVisible OBVIOUS
<1> QED BY Invariance, InvImplies, PTL

\* Whatever sanction stands when the worker is done, the undo buttons lift it.
THEOREM UndoAlwaysLifts == EnforceActions \subseteq Punitive => (Spec => []UndoLifts)
<1> SUFFICES ASSUME EnforceActions \subseteq Punitive PROVE Spec => []UndoLifts OBVIOUS
<1> QED BY Invariance, InvImplies, PTL

\* A recorded False positive or Lift stays true.
THEOREM OverturnAlwaysHolds == EnforceActions \subseteq Punitive => (Spec => []OverturnHolds)
<1> SUFFICES ASSUME EnforceActions \subseteq Punitive PROVE Spec => []OverturnHolds OBVIOUS
<1> QED BY Invariance, InvImplies, PTL

-----------------------------------------------------------------------------
(* Cards and evidence: what the machine has in the admin chat while it works. *)

\* The registered card was sent and has its buttons; a card about to be
\* registered is newer and has them too.
CardsLive ==
  /\ \A i \in Incidents : card[i] <= tries[i] /\ (card[i] # 0 => card[i] \in keyboards[i])
  /\ pc = "save_card" => card[inc] < tries[inc] /\ tries[inc] \in keyboards[inc]

\* The copy, the record of it and the card that shows it are those of one attempt.
AttemptShown ==
  LET c == tries[inc]
  IN c \in evid[inc] \cap copies[inc] /\ card[inc] = c /\ c \in keyboards[inc]

\* How far the evidence of a message's report has come at each step.
EvidenceGathered ==
  /\ pc \in {"copy", "evidence_failed", "claim", "check_review"} => ~out.copied
  /\ job.src = "msg" /\ out.copied /\ pc = "card" => tries[inc] + 1 \in copies[inc]
  /\ job.src = "msg" /\ out.copied /\ pc = "save_card" => tries[inc] \in copies[inc]
  /\ job.src = "msg" /\ pc = "add_evidence" => tries[inc] \in copies[inc] /\ card[inc] = tries[inc]
  /\ job.src = "msg" /\ pc = "evidenced" => AttemptShown
  /\ /\ job.src = "msg" /\ job.verdict.signal = "detector"
     /\ pc \in {"apply", "mark_acted", "mark_refused", "mark_unknown", "delete"}
     => AttemptShown

EInv == CInv /\ CardsLive /\ EvidenceGathered

\* A worker step keeps the registered card live, and the evidence of a report
\* where its steps need it.
LEMMA EvidenceStep ==
  ASSUME EInv, Worker
  PROVE  CardsLive' /\ EvidenceGathered'
<1>t. /\ inc \in Incidents /\ job.over \in BOOLEAN /\ MaxTries \in Nat
      /\ tries \in [Incidents -> 0 .. MaxTries] /\ card \in [Incidents -> 0 .. MaxTries]
      /\ evid \in [Incidents -> SUBSET Attempts] /\ copies \in [Incidents -> SUBSET Attempts]
      /\ keyboards \in [Incidents -> SUBSET Attempts] /\ out \in Out
  BY JobType, BoundsAssumption DEF EInv, CInv, TypeOK
<1>iv. StepsOK /\ CardsLive /\ EvidenceGathered BY DEF EInv, CInv
<1> USE <1>t, <1>iv
  DEF StepsOK, CardsLive, EvidenceGathered, AttemptShown, Reporting, FreshReport, Promotion,
    EnforcePress, IsOverride, Gathering, CardSteps, Enforcing, inc, Goto, SetState, NoJob,
    NoOut, AfterProcess, AfterEvidence, AfterEnforce, ActsWithoutEvidence, rowVars, adminVars
<1>1. CASE CopyEvidence BY <1>1 DEF CopyEvidence
<1>2. CASE MarkEvidenceFailed BY <1>2 DEF MarkEvidenceFailed
<1>3. CASE SendCard BY <1>3 DEF SendCard, CardFailed
<1>4. CASE SaveCard BY <1>4 DEF SaveCard, CardFailed
<1>5. CASE MarkNotActed BY <1>5 DEF MarkNotActed
<1>6. CASE AddEvidence
  BY <1>6 DEF AddEvidence, EInv, CInv, CardsOK
<1>7. CASE MarkEvidenced BY <1>7 DEF MarkEvidenced
<1>8. CASE FinishDryRun BY <1>8 DEF FinishDryRun
<1>9. CASE Apply BY <1>9 DEF Apply
<1>10. CASE MarkActed BY <1>10 DEF MarkActed
<1>11. CASE MarkSanctionRefused BY <1>11 DEF MarkSanctionRefused
<1>12. CASE MarkSanctionUnknown BY <1>12 DEF MarkSanctionUnknown
<1>13. CASE DeleteOriginals BY <1>13 DEF DeleteOriginals
<1>14. CASE MarkCleaned BY <1>14 DEF MarkCleaned
<1>15. CASE MarkDone BY <1>15 DEF MarkDone
<1>16. CASE Claim BY <1>16 DEF Claim
<1>17. CASE CheckReview BY <1>17 DEF CheckReview
<1>18. CASE OverrideDone BY <1>18 DEF OverrideDone
<1>19. CASE FinishManualOverride BY <1>19 DEF FinishManualOverride
<1>20. CASE PressRead BY <1>20 DEF PressRead, IsCurrent
<1>21. CASE PressUndo BY <1>21 DEF PressUndo
<1>22. CASE PressConfirm BY <1>22 DEF PressConfirm
<1>23. CASE PressEnforce BY <1>23 DEF PressEnforce
<1>24. CASE MarkIncidentEnforced BY <1>24 DEF MarkIncidentEnforced
<1>25. CASE RereadEnforced BY <1>25 DEF RereadEnforced
<1>26. CASE ReleaseClaim BY <1>26 DEF ReleaseClaim
<1>27. CASE ForgetEvidence BY <1>27 DEF ForgetEvidence
<1> QED
  BY <1>1, <1>2, <1>3, <1>4, <1>5, <1>6, <1>7, <1>8, <1>9, <1>10, <1>11, <1>12, <1>13,
    <1>14, <1>15, <1>16, <1>17, <1>18, <1>19, <1>20, <1>21, <1>22, <1>23, <1>24, <1>25,
    <1>26, <1>27
  DEF Worker

\* Whoever else acts leaves them alone as well: a report only starts, a press
\* strips retired cards only, and evidence is deleted while no report is at work.
LEMMA EvidenceOthers ==
  ASSUME EInv, [Next]_vars, ~Worker
  PROVE  CardsLive' /\ EvidenceGathered'
<1>t. /\ inc \in Incidents /\ keyboards \in [Incidents -> SUBSET Attempts]
      /\ StepsOK /\ CardsLive /\ EvidenceGathered
  BY JobType DEF EInv, CInv, TypeOK
<1>1. CASE /\ UNCHANGED <<card, evid, copies, keyboards, tries>>
           /\ \/ UNCHANGED <<pc, job, out>>
              \/ pc' = "idle"
              \/ pc' \in {"copy", "claim"} /\ out' = NoOut
  BY <1>t, <1>1 DEF CardsLive, EvidenceGathered, AttemptShown, inc, NoOut
<1>2. CASE UNCHANGED vars \/ Ham \/ \E i \in Incidents : CliClaim(i) \/ CliFinish(i)
  BY <1>1, <1>2 DEF vars, rowVars, adminVars, workVars, Ham, CliClaim, CliFinish
<1>3. CASE Crash BY <1>1, <1>3 DEF Crash, rowVars, adminVars
<1>4. ASSUME NEW src, NEW i \in Incidents, NEW v, Report(src, i, v)
      PROVE  CardsLive' /\ EvidenceGathered'
  <2>1. /\ UNCHANGED <<card, evid, copies, keyboards, tries>>
        /\ pc' \in {"copy", "claim"} /\ out' = NoOut
    BY <1>4 DEF Report, adminVars
  <2> QED BY <1>1, <2>1
<1>5. ASSUME NEW i \in Incidents, NEW a \in Acts, NEW c \in Attempts, Press(i, a, c)
      PROVE  CardsLive' /\ EvidenceGathered'
  <2>1. /\ UNCHANGED <<card, evid, copies, tries>>
        /\ pc' \in {"idle", "press_read"}
        /\ \/ UNCHANGED keyboards
           \/ ~IsCurrent(i, c) /\ keyboards' = [keyboards EXCEPT ![i] = @ \ {c}]
    BY <1>5 DEF Press, workVars
  <2>2. ASSUME NEW k \in Incidents, card[k] # 0, card[k] \in keyboards[k]
        PROVE  card[k] \in keyboards'[k]
    BY <1>t, <2>1, <2>2 DEF IsCurrent
  <2>3. CardsLive' BY <1>t, <2>1, <2>2 DEF CardsLive
  <2> QED BY <2>1, <2>3 DEF EvidenceGathered
<1>6. ASSUME NEW i \in Incidents, NEW c \in Attempts, PressDeleteEvidence(i, c)
      PROVE  CardsLive' /\ EvidenceGathered'
  <2>1. UNCHANGED <<card, keyboards, tries>> /\ pc' \in {"idle", "forget"}
    BY <1>6 DEF PressDeleteEvidence, rowVars, workVars
  <2> QED BY <1>t, <2>1 DEF CardsLive, EvidenceGathered
<1> QED BY <1>2, <1>3, <1>4, <1>5, <1>6 DEF Next, Moderate

\* The evidence invariant holds from the start and is kept by every step.
LEMMA EvidenceInv == (Init => EInv) /\ (EInv /\ [Next]_vars => EInv')
<1>1. Init => CardsLive /\ EvidenceGathered
  <2> SUFFICES ASSUME Init PROVE CardsLive /\ EvidenceGathered OBVIOUS
  <2>1. pc = "idle" /\ \A i \in Incidents : card[i] = 0 /\ tries[i] = 0 BY DEF Init
  <2> QED BY <2>1 DEF CardsLive, EvidenceGathered
<1>2. Init => CInv BY InitInv DEF IInv
<1>3. ASSUME EInv, [Next]_vars PROVE EInv'
  BY <1>3, ControlInv, EvidenceStep, EvidenceOthers DEF EInv
<1> QED BY <1>1, <1>2, <1>3 DEF EInv

\* Evidence before enforcement: on a detector's judgement the machine calls for
\* a sanction only with the copy in the admin chat, recorded, and shown under the
\* registered card.  Nothing is assumed of the Enforce button's action.
THEOREM EvidenceAlwaysFirst == Spec => []EvidenceFirst
<1>1. EInv => EvidenceFirst BY DEF EInv, EvidenceGathered, AttemptShown, EvidenceFirst
<1> QED BY <1>1, EvidenceInv, PTL DEF Spec

\* The registered card never loses its buttons, whatever is pressed, retried or
\* rolled back on older cards.
THEOREM CurrentCardAlwaysLive == Spec => []CurrentCardLive
<1>1. EInv => CurrentCardLive BY DEF EInv, CardsLive, CurrentCardLive
<1> QED BY <1>1, EvidenceInv, PTL DEF Spec

-----------------------------------------------------------------------------
(* Sanctions Telegram accepted: one per incident. *)

\* The row says that a sanction was applied, so that no path claims it again.
Recorded(i) == ~dry[i] /\ state[i] \in {"acted", "cleaned", "done"} /\ audit[i] \in Punitive

\* An accepted sanction is in the row, or the worker is about to write it.
LandedRecorded ==
  \A i \in landed \ (torn \cup crashed) : Recorded(i) \/ (i = inc /\ BeingRecorded)

\* What the worker has been told by Telegram, at the steps that depend on it.
OutcomeOK ==
  /\ pc \in {"mark_acted", "cleaned", "over_done", "set_done", "mark_enforced", "reread"}
     => out.sanctioned
  /\ pc \in Gathering \cup {"apply", "mark_refused", "mark_unknown", "claim", "check_review",
                            "press_read", "press_do"}
     => ~out.sanctioned
  /\ FreshReport \/ Promotion => (pc \in CardSteps => ~out.sanctioned)

\* Up to the sanction call, and after a refusal or a lost answer, none was accepted.
NoneLanded ==
  /\ Spotless
  /\ \/ pc \in Gathering \cup {"check_review", "apply", "mark_refused", "mark_unknown"}
     \/ pc \in CardSteps /\ (FreshReport \/ Promotion)
  => inc \notin landed

\* An accepted sanction is a punitive one, and its state is written next.
LandedApplied ==
  out.sanctioned /\ Spotless /\ inc \in landed =>
    /\ AppliedAction \in Punitive
    /\ pc = "mark_acted" \/ state[inc] \in {"acted", "cleaned", "done"}

LInv == CInv /\ FreshRowOK /\ OutcomeOK /\ LandedRecorded /\ NoneLanded /\ LandedApplied

\* A worker step keeps what it was told by Telegram where its next steps need it.
LEMMA OutcomeStep ==
  ASSUME CInv, OutcomeOK, Worker
  PROVE  OutcomeOK'
<1>t. job.over \in BOOLEAN /\ out \in Out /\ StepsOK /\ OutcomeOK
  BY JobType DEF CInv, TypeOK
<1> USE <1>t
  DEF StepsOK, OutcomeOK, Reporting, FreshReport, Promotion, EnforcePress, IsOverride, Out,
    Gathering, CardSteps, Enforcing, inc, Goto, SetState, NoJob, NoOut, AfterProcess,
    AfterEvidence, AfterEnforce
<1>1. CASE CopyEvidence BY <1>1 DEF CopyEvidence
<1>2. CASE MarkEvidenceFailed BY <1>2 DEF MarkEvidenceFailed
<1>3. CASE SendCard BY <1>3 DEF SendCard, CardFailed
<1>4. CASE SaveCard BY <1>4 DEF SaveCard, CardFailed
<1>5. CASE MarkNotActed BY <1>5 DEF MarkNotActed
<1>6. CASE AddEvidence BY <1>6 DEF AddEvidence
<1>7. CASE MarkEvidenced BY <1>7 DEF MarkEvidenced
<1>8. CASE FinishDryRun BY <1>8 DEF FinishDryRun
<1>9. CASE Apply BY <1>9 DEF Apply
<1>10. CASE MarkActed BY <1>10 DEF MarkActed
<1>11. CASE MarkSanctionRefused BY <1>11 DEF MarkSanctionRefused
<1>12. CASE MarkSanctionUnknown BY <1>12 DEF MarkSanctionUnknown
<1>13. CASE DeleteOriginals BY <1>13 DEF DeleteOriginals
<1>14. CASE MarkCleaned BY <1>14 DEF MarkCleaned
<1>15. CASE MarkDone BY <1>15 DEF MarkDone
<1>16. CASE Claim BY <1>16 DEF Claim
<1>17. CASE CheckReview BY <1>17 DEF CheckReview
<1>18. CASE OverrideDone BY <1>18 DEF OverrideDone
<1>19. CASE FinishManualOverride BY <1>19 DEF FinishManualOverride
<1>20. CASE PressRead BY <1>20 DEF PressRead
<1>21. CASE PressUndo BY <1>21 DEF PressUndo
<1>22. CASE PressConfirm BY <1>22 DEF PressConfirm
<1>23. CASE PressEnforce BY <1>23 DEF PressEnforce
<1>24. CASE MarkIncidentEnforced BY <1>24 DEF MarkIncidentEnforced
<1>25. CASE RereadEnforced BY <1>25 DEF RereadEnforced
<1>26. CASE ReleaseClaim BY <1>26 DEF ReleaseClaim
<1>27. CASE ForgetEvidence BY <1>27 DEF ForgetEvidence
<1> QED
  BY <1>1, <1>2, <1>3, <1>4, <1>5, <1>6, <1>7, <1>8, <1>9, <1>10, <1>11, <1>12, <1>13,
    <1>14, <1>15, <1>16, <1>17, <1>18, <1>19, <1>20, <1>21, <1>22, <1>23, <1>24, <1>25,
    <1>26, <1>27
  DEF Worker

\* The worker's own incident: an accepted sanction is recorded, or being recorded,
\* after the step as well, and the worker is past its sanction call.
LEMMA LandedSelf ==
  ASSUME LInv, Worker, NEW k \in Incidents, k = inc, k \in landed',
         k \notin (torn \cup crashed)'
  PROVE  /\ Recorded(k)' \/ (k = inc' /\ BeingRecorded')
         /\ pc' # "idle" =>
              /\ pc' \notin Gathering \cup {"check_review", "apply", "mark_refused", "mark_unknown"}
              /\ pc' \in CardSteps => ~(FreshReport' \/ Promotion')
              /\ out'.sanctioned =>
                   /\ AppliedAction' \in Punitive
                   /\ pc' = "mark_acted" \/ state'[k] \in {"acted", "cleaned", "done"}
<1>t. /\ state \in [Incidents -> States] /\ dry \in [Incidents -> BOOLEAN]
      /\ audit \in [Incidents -> Action] /\ job.over \in BOOLEAN /\ out \in Out
  BY JobType DEF LInv, CInv, TypeOK
<1>iv. /\ StepsOK /\ OutcomeOK /\ NoneLanded /\ LandedApplied
       /\ k \in landed /\ k \notin torn \cup crashed => Recorded(k) \/ BeingRecorded
  BY DEF LInv, CInv, LandedRecorded
<1>fe. /\ pc = "mark_acted" /\ FreshReport /\ k \notin torn \cup crashed
       => ~dry[k] /\ audit[k] = AppliedAction
  BY DEF LInv, CInv, FreshRowOK, VerdictsOK, FreshReport, Reporting, AppliedAction, Spotless,
         Enforcing
<1> USE <1>t, <1>iv
  DEF Recorded, BeingRecorded, NoneLanded, LandedApplied, Spotless, Stored, StoreFails,
    StepsOK, OutcomeOK, Reporting, FreshReport, Promotion, EnforcePress, IsOverride, Out,
    Gathering, CardSteps, Enforcing, inc, Goto, SetState, NoJob, NoOut, AfterProcess,
    AfterEvidence, AfterEnforce, AppliedAction, rowVars, histVars
<1>1. CASE CopyEvidence BY <1>1 DEF CopyEvidence
<1>2. CASE MarkEvidenceFailed BY <1>2 DEF MarkEvidenceFailed
<1>3. CASE SendCard BY <1>3 DEF SendCard, CardFailed
<1>4. CASE SaveCard BY <1>4 DEF SaveCard, CardFailed
<1>5. CASE MarkNotActed BY <1>5 DEF MarkNotActed
<1>6. CASE AddEvidence BY <1>6 DEF AddEvidence
<1>7. CASE MarkEvidenced BY <1>7 DEF MarkEvidenced
<1>8. CASE FinishDryRun BY <1>8 DEF FinishDryRun
<1>9. CASE Apply BY <1>9 DEF Apply
<1>10. CASE MarkActed
  BY <1>10, <1>fe DEF MarkActed
<1>11. CASE MarkSanctionRefused BY <1>11 DEF MarkSanctionRefused
<1>12. CASE MarkSanctionUnknown BY <1>12 DEF MarkSanctionUnknown
<1>13. CASE DeleteOriginals BY <1>13 DEF DeleteOriginals
<1>14. CASE MarkCleaned BY <1>14 DEF MarkCleaned
<1>15. CASE MarkDone BY <1>15 DEF MarkDone
<1>16. CASE Claim BY <1>16 DEF Claim, Claimable
<1>17. CASE CheckReview BY <1>17 DEF CheckReview
<1>18. CASE OverrideDone BY <1>18 DEF OverrideDone
<1>19. CASE FinishManualOverride BY <1>19 DEF FinishManualOverride
<1>20. CASE PressRead BY <1>20 DEF PressRead
<1>21. CASE PressUndo BY <1>21 DEF PressUndo
<1>22. CASE PressConfirm BY <1>22 DEF PressConfirm
<1>23. CASE PressEnforce BY <1>23 DEF PressEnforce
<1>24. CASE MarkIncidentEnforced BY <1>24 DEF MarkIncidentEnforced
<1>25. CASE RereadEnforced BY <1>25 DEF RereadEnforced
<1>26. CASE ReleaseClaim BY <1>26 DEF ReleaseClaim
<1>27. CASE ForgetEvidence BY <1>27 DEF ForgetEvidence
<1> QED
  BY <1>1, <1>2, <1>3, <1>4, <1>5, <1>6, <1>7, <1>8, <1>9, <1>10, <1>11, <1>12, <1>13,
    <1>14, <1>15, <1>16, <1>17, <1>18, <1>19, <1>20, <1>21, <1>22, <1>23, <1>24, <1>25,
    <1>26, <1>27
  DEF Worker

\* A worker step keeps every accepted sanction recorded.
LEMMA LandedStep ==
  ASSUME LInv, Worker
  PROVE  LandedRecorded' /\ NoneLanded' /\ LandedApplied'
<1>t. TypeOK /\ inc \in Incidents /\ landed \subseteq Incidents /\ LandedRecorded
  BY JobType DEF LInv, CInv, TypeOK
<1>1. landed' \subseteq landed \cup {inc} /\ torn \cup crashed \subseteq (torn \cup crashed)'
  BY DEF Worker, CopyEvidence, MarkEvidenceFailed, SendCard, SaveCard, MarkNotActed,
         AddEvidence, MarkEvidenced, FinishDryRun, Apply, MarkActed, MarkSanctionRefused,
         MarkSanctionUnknown, DeleteOriginals, MarkCleaned, MarkDone, Claim, CheckReview,
         OverrideDone, FinishManualOverride, PressRead, PressUndo, PressConfirm, PressEnforce,
         MarkIncidentEnforced, RereadEnforced, ReleaseClaim, ForgetEvidence, SetState, Stored,
         StoreFails, histVars
<1>2. LandedRecorded'
  <2> SUFFICES ASSUME NEW k \in landed', k \notin (torn \cup crashed)'
               PROVE  Recorded(k)' \/ (k = inc' /\ BeingRecorded')
    BY DEF LandedRecorded
  <2>1. CASE k = inc BY <1>t, <2>1, LandedSelf
  <2>2. CASE k # inc
    <3>1. k \in Incidents /\ Recorded(k) BY <1>t, <1>1, <2>2 DEF LandedRecorded
    <3> QED BY <1>t, <2>2, <3>1, WorkerLocal DEF Recorded
  <2> QED BY <2>1, <2>2
<1>3. CASE pc' = "idle" /\ out' = NoOut
  BY <1>2, <1>3 DEF NoneLanded, LandedApplied, NoOut, Gathering, CardSteps
<1>4. CASE pc' # "idle" /\ job' = job
  <2>1. inc' = inc BY <1>4 DEF inc
  <2>2. Spotless' /\ inc' \in landed' => inc \in landed' /\ inc \notin (torn \cup crashed)'
    BY <2>1 DEF Spotless
  <2>3. NoneLanded' BY <1>t, <1>4, <2>1, <2>2, LandedSelf DEF NoneLanded
  <2>4. LandedApplied' BY <1>t, <1>4, <2>1, <2>2, LandedSelf DEF LandedApplied
  <2> QED BY <1>2, <2>3, <2>4
<1> QED BY <1>3, <1>4, KeepsJob

\* Nobody else writes the row of an accepted sanction or goes ahead with a second.
LEMMA LandedOthers ==
  ASSUME LInv, [Next]_vars, ~Worker
  PROVE  FreshRowOK' /\ OutcomeOK' /\ LandedRecorded' /\ NoneLanded' /\ LandedApplied'
<1>t. /\ inc \in Incidents /\ landed \subseteq Incidents
      /\ state \in [Incidents -> States] /\ dry \in [Incidents -> BOOLEAN]
      /\ audit \in [Incidents -> Action]
      /\ FreshRowOK /\ OutcomeOK /\ LandedRecorded /\ NoneLanded /\ LandedApplied
  BY JobType DEF LInv, CInv, TypeOK
<1>1. CASE UNCHANGED <<state, dry, audit, pc, job, out, torn, crashed, landed>>
  BY <1>t, <1>1
    DEF FreshRowOK, OutcomeOK, LandedRecorded, NoneLanded, LandedApplied, Recorded,
      BeingRecorded, Spotless, ActsWithoutEvidence, FreshReport, Promotion, Reporting,
      EnforcePress, AppliedAction, inc
<1>2. CASE UNCHANGED vars \/ Ham \/ \E i \in Incidents : CliClaim(i) \/ CliFinish(i)
  BY <1>1, <1>2 DEF vars, rowVars, workVars, histVars, Ham, CliClaim, CliFinish
<1>3. CASE Crash
  <2>1. UNCHANGED <<state, dry, audit, torn, landed>> /\ crashed' = crashed \cup {inc}
          /\ pc' = "idle" /\ job' = NoJob /\ out' = NoOut
    BY <1>3 DEF Crash, rowVars
  <2>2. LandedRecorded' BY <1>t, <2>1 DEF LandedRecorded, Recorded
  <2> QED BY <2>1, <2>2
    DEF FreshRowOK, OutcomeOK, NoneLanded, LandedApplied, FreshReport, Reporting, NoJob,
      NoOut, Gathering, CardSteps
<1>4. ASSUME pc = "idle" PROVE \A k \in landed \ (torn \cup crashed) : Recorded(k)
  BY <1>t, <1>4 DEF LandedRecorded, BeingRecorded
<1>5. ASSUME pc = "idle", UNCHANGED <<state, dry, audit, torn, crashed, landed>>
      PROVE  LandedRecorded'
  BY <1>4, <1>5 DEF LandedRecorded, Recorded
<1>6. ASSUME NEW src, NEW i \in Incidents, NEW v, Report(src, i, v)
      PROVE  FreshRowOK' /\ OutcomeOK' /\ LandedRecorded' /\ NoneLanded' /\ LandedApplied'
  <2>1. pc = "idle" /\ UNCHANGED <<torn, crashed, landed>> /\ out' = NoOut /\ inc' = i
    BY <1>6 DEF Report, ReportJob, histVars, inc
  <2>2. CASE /\ state[i] = "absent" /\ pc' = "copy" /\ job' = ReportJob(src, i, v, FALSE)
             /\ state' = [state EXCEPT ![i] = "pending"]
             /\ dry' = [dry EXCEPT ![i] = v.dry] /\ audit' = [audit EXCEPT ![i] = v.action]
    <3>1. i \notin landed \ (torn \cup crashed) BY <1>4, <2>1, <2>2 DEF Recorded
    <3>2. LandedRecorded' BY <1>t, <1>4, <2>1, <2>2, <3>1 DEF LandedRecorded, Recorded
    <3>3. NoneLanded' BY <2>1, <3>1 DEF NoneLanded, Spotless
    <3>4. state'[i] = "pending" /\ dry'[i] = v.dry /\ audit'[i] = v.action BY <1>t, <2>2
    <3>5. FreshRowOK' BY <2>1, <2>2, <3>4 DEF FreshRowOK, ReportJob, NoOut, CardSteps
    <3> QED BY <2>1, <2>2, <3>2, <3>3, <3>5 DEF OutcomeOK, LandedApplied, NoOut, CardSteps
  <2>3. CASE /\ pc' = "claim" /\ job' = ReportJob(src, i, v, TRUE)
             /\ UNCHANGED <<state, dry, audit>>
    <3>1. LandedRecorded' BY <1>5, <2>1, <2>3
    <3>2. FreshRowOK' BY <2>3 DEF FreshRowOK, FreshReport, ReportJob
    <3> QED BY <2>1, <2>3, <3>1, <3>2
      DEF OutcomeOK, NoneLanded, LandedApplied, NoOut, Gathering, CardSteps
  <2> QED BY <1>6, <2>2, <2>3 DEF Report
<1>7. ASSUME NEW i \in Incidents, NEW c \in Attempts,
             PressDeleteEvidence(i, c) \/ \E a \in Acts : Press(i, a, c)
      PROVE  FreshRowOK' /\ OutcomeOK' /\ LandedRecorded' /\ NoneLanded' /\ LandedApplied'
  <2>1. /\ pc = "idle" /\ UNCHANGED <<state, dry, audit, torn, crashed, landed>>
        /\ UNCHANGED <<pc, job, out>> \/ (pc' \in {"press_read", "forget"} /\ out' = NoOut)
    BY <1>7 DEF PressDeleteEvidence, Press, rowVars, workVars, histVars
  <2>2. CASE UNCHANGED <<pc, job, out>> BY <1>1, <2>1, <2>2
  <2>3. CASE pc' \in {"press_read", "forget"} /\ out' = NoOut
    BY <1>5, <2>1, <2>3
      DEF FreshRowOK, OutcomeOK, NoneLanded, LandedApplied, NoOut, Gathering, CardSteps
  <2> QED BY <2>1, <2>2, <2>3
<1> QED BY <1>2, <1>3, <1>6, <1>7 DEF Next, Moderate

\* The invariant of accepted sanctions holds from the start and is kept by every
\* step.
LEMMA LandedInv == (Init => LInv) /\ (LInv /\ [Next]_vars => LInv')
<1>1. ASSUME Init PROVE LInv
  <2>1. CInv /\ FreshRowOK BY <1>1, InitInv DEF IInv, SInv
  <2>2. pc = "idle" /\ out = NoOut /\ landed = {} BY <1>1 DEF Init
  <2>3. OutcomeOK /\ NoneLanded /\ LandedApplied /\ LandedRecorded
    BY <2>2 DEF OutcomeOK, NoneLanded, LandedApplied, LandedRecorded, NoOut, Gathering, CardSteps
  <2> QED BY <2>1, <2>3 DEF LInv
<1>2. ASSUME LInv, [Next]_vars PROVE LInv'
  <2>1. CInv' BY <1>2, ControlInv DEF LInv
  <2>2. CASE Worker
    <3>1. FreshRowOK' BY <1>2, <2>2, FreshStep DEF LInv, CInv
    <3>2. OutcomeOK' BY <1>2, <2>2, OutcomeStep DEF LInv
    <3> QED BY <1>2, <2>1, <2>2, <3>1, <3>2, LandedStep DEF LInv
  <2>3. CASE ~Worker BY <1>2, <2>1, <2>3, LandedOthers DEF LInv
  <2> QED BY <2>2, <2>3
<1> QED BY <1>1, <1>2

\* One accepted sanction per incident: no duplicate report, command, Enforce press
\* or promotion calls for a sanction that Telegram already accepted.  Nothing is
\* assumed of the Enforce button's action.
THEOREM NeverSanctionsTwice == Spec => []NoSecondSanction
<1>1. LInv => NoSecondSanction BY DEF LInv, NoneLanded, Spotless, NoSecondSanction
<1> QED BY <1>1, LandedInv, PTL DEF Spec

=============================================================================
