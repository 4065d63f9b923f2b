------------------------------ MODULE Learning ------------------------------
(***************************************************************************)
(* What the decisions on incidents teach the Bayes corpus: the one-decision *)
(* claim, the audit samples, the tokens captured with an incident, and the  *)
(* labelled samples with their document counts.                             *)
(*                                                                          *)
(* Two processes share the database: the bot, whose chat worker takes       *)
(* button presses, reports and commands one at a time, and the decide CLI.  *)
(* The daily prune and an import run beside them.  A step is one store      *)
(* transaction.  Cards, undo calls and sanctions are the module Incident;   *)
(* here each of them just succeeds or fails.                                *)
(***************************************************************************)
EXTENDS Naturals, FiniteSets

CONSTANTS Incidents, Texts,   \* incidents, and the token lists they may carry
          NoTokens,           \* no captured tokens
          MaxMishaps          \* bound on crashes and failed store operations

ASSUME NoTokensAssumption == NoTokens \notin Texts
ASSUME FiniteAssumption == IsFiniteSet(Texts) /\ MaxMishaps \in Nat

Labels == {"spam", "ham"}
Acts   == {"fp", "confirm", "lift", "enf"}
Procs  == {"bot", "cli"}

VARIABLES
  raised, decision,       \* the incident row: recorded, decided,
  dry,                    \* observed only, so that Enforce may still act on it, or
  unacted,                \* enforced, with no sanction recorded as applied
  samples,                \* audit samples of an incident
  tokens,                 \* its captured token list
  corpus, imported,       \* labels recorded for a token list; for an imported text
  docs,                   \* bayes_totals.docs
  pc, job,                \* the chat worker and the decide CLI
  captured,               \* history: incidents whose tokens were ever captured,
  learned, dropped,       \* were learned, were dropped unlearned,
  refused,                \* were claimed and completed by decide -no-train,
  overruled,              \* and were learned after that all the same
  mishaps

rowVars    == <<raised, dry, unacted, decision, samples>>
corpusVars == <<corpus, imported, docs>>
histVars   == <<captured, learned, dropped, refused, overruled>>
vars == <<rowVars, tokens, corpusVars, pc, job, histVars, mishaps>>

\* own: the process took the claim itself.  learn: training is not disabled.
Job == [inc : Incidents, act : Acts, text : Texts \cup {NoTokens},
        own : BOOLEAN, learn : BOOLEAN]

PCs == {"idle", "check", "undo", "enforce", "sample", "read", "relabel", "forget",
        "refuse", "release", "release_enforced", "save", "finish"}

TypeOK ==
  /\ raised \subseteq Incidents /\ dry \subseteq Incidents /\ unacted \subseteq Incidents
  /\ decision \in [Incidents -> Acts \cup {""}]
  /\ samples \in [Incidents -> SUBSET Acts]
  /\ tokens \in [Incidents -> Texts \cup {NoTokens}]
  /\ corpus \in [Texts -> SUBSET Labels]
  /\ imported \in [Texts -> SUBSET Labels]
  /\ docs \in [Labels -> 0 .. 2 * Cardinality(Texts)]
  /\ pc \in [Procs -> PCs] /\ job \in [Procs -> Job]
  /\ captured \subseteq Incidents /\ learned \subseteq Incidents
  /\ dropped \subseteq Incidents /\ refused \subseteq Incidents /\ overruled \subseteq Incidents
  /\ mishaps \in 0 .. MaxMishaps

NoJob == [inc |-> CHOOSE i \in Incidents : TRUE, act |-> "fp", text |-> NoTokens,
          own |-> FALSE, learn |-> TRUE]

Init ==
  /\ raised = {} /\ dry = {} /\ unacted = {}
  /\ decision = [i \in Incidents |-> ""]
  /\ samples = [i \in Incidents |-> {}]
  /\ tokens = [i \in Incidents |-> NoTokens]
  /\ corpus = [t \in Texts |-> {}] /\ imported = [t \in Texts |-> {}]
  /\ docs = [l \in Labels |-> 0]
  /\ pc = [p \in Procs |-> "idle"] /\ job = [p \in Procs |-> NoJob]
  /\ captured = {} /\ learned = {} /\ dropped = {} /\ refused = {} /\ overruled = {}
  /\ mishaps = 0

-----------------------------------------------------------------------------
(* Transactions of the store. *)

Fails == mishaps < MaxMishaps /\ mishaps' = mishaps + 1
Works == UNCHANGED mishaps

Opposite(label) == IF label = "spam" THEN "ham" ELSE "spam"

\* bumpBayesTx and dropBayesTx on the document totals, with the floor at zero.
Counted(d, from, moved, to, added) ==
  [l \in Labels |-> IF l = to THEN IF added THEN d[l] + 1 ELSE d[l]
                    ELSE IF l = from /\ moved /\ d[l] > 0 THEN d[l] - 1 ELSE d[l]]

\* Mutant: a repeated label is counted again.
MutCountsAgain(t, to) ==
  /\ corpus' = [corpus EXCEPT ![t] = (@ \ {Opposite(to)}) \cup {to}]
  /\ docs' = Counted(docs, Opposite(to), Opposite(to) \in corpus[t], to, TRUE)
  /\ UNCHANGED imported

\* Mutant: the other label is left beside the new one.
MutSecondOpinion(t, to) ==
  /\ corpus' = [corpus EXCEPT ![t] = @ \cup {to}]
  /\ docs' = Counted(docs, Opposite(to), FALSE, to, to \notin corpus[t])
  /\ UNCHANGED imported

\* RelabelSampleWithOrigin: one transaction moves the sample and its counts.
Relabel(t, to) ==
  /\ corpus' = [corpus EXCEPT ![t] = (@ \ {Opposite(to)}) \cup {to}]
  /\ docs' = Counted(docs, Opposite(to), Opposite(to) \in corpus[t], to, to \notin corpus[t])
  /\ UNCHANGED imported

\* RecordSample for an imported line, whose hash is of another kind.
Import(t, label) ==
  /\ imported' = [imported EXCEPT ![t] = @ \cup {label}]
  /\ docs' = Counted(docs, label, FALSE, label, label \notin imported[t])
  /\ UNCHANGED <<corpus, rowVars, tokens, pc, job, histVars, mishaps>>

Goto(p, s, j) == pc' = [pc EXCEPT ![p] = s]
                 /\ job' = [job EXCEPT ![p] = IF s = "idle" THEN NoJob ELSE j]

-----------------------------------------------------------------------------
(* Incidents come and are taken over. *)

\* InsertPending and the capture of the tokens, which is best effort (/ban carries
\* none).  Nobody can name the incident before its card is out, which comes later:
\* by then it was only observed, or its sanction is recorded, or it is not (copy,
\* card or call failed, or its answer was lost).
Raise(i, t) ==
  /\ pc["bot"] = "idle" /\ i \notin raised
  /\ raised' = raised \cup {i}
  /\ \/ UNCHANGED <<dry, unacted>>
     \/ dry' = dry \cup {i} /\ UNCHANGED unacted
     \/ unacted' = unacted \cup {i} /\ UNCHANGED dry
  /\ tokens' = [tokens EXCEPT ![i] = t]
  /\ captured' = IF t = NoTokens THEN captured ELSE captured \cup {i}
  /\ UNCHANGED <<decision, samples, corpusVars, pc, job, learned, dropped, refused, overruled, mishaps>>

\* ClaimManualOverride: a moderator's command, or an edit that promotes a review
\* and captures the edited text, takes over an incident that applied no sanction.
TakeOver(i, t) ==
  /\ pc["bot"] = "idle" /\ i \in dry \cup unacted /\ decision[i] = ""
  /\ decision' = [decision EXCEPT ![i] = "enf"]
  /\ Goto("bot", IF t = NoTokens THEN "finish" ELSE "save",
          [NoJob EXCEPT !.inc = i, !.act = "enf", !.text = t, !.own = TRUE])
  /\ UNCHANGED <<raised, dry, unacted, samples, tokens, corpusVars, histVars, mishaps>>

SaveTokens(p) ==
  /\ pc[p] = "save"
  /\ \/ /\ Works
        /\ tokens' = [tokens EXCEPT ![job[p].inc] = job[p].text]
        /\ captured' = captured \cup {job[p].inc}
     \/ Fails /\ UNCHANGED <<tokens, captured>>
  /\ Goto(p, "finish", job[p])
  /\ UNCHANGED <<rowVars, corpusVars, learned, dropped, refused, overruled>>

\* FinishManualOverride: enforced or not, the claim is given back.
FinishOverride(p) ==
  /\ pc[p] = "finish"
  /\ \/ /\ Works
        /\ decision' = [decision EXCEPT ![job[p].inc] = IF @ = "enf" THEN "" ELSE @]
        /\ \/ dry' = dry \ {job[p].inc} /\ unacted' = unacted \ {job[p].inc}
           \/ UNCHANGED <<dry, unacted>>
     \/ Fails /\ UNCHANGED <<decision, dry, unacted>>
  /\ Goto(p, "idle", job[p])
  /\ UNCHANGED <<raised, samples, tokens, corpusVars, histVars>>

\* /spam and /ham relabel the message's own tokens, whatever the incident says.
Command(t, to) ==
  /\ pc["bot"] = "idle"
  /\ Relabel(t, to)
  /\ UNCHANGED <<rowVars, tokens, pc, job, histVars, mishaps>>

-----------------------------------------------------------------------------
(* Handler.dispatch and confirmOne. *)

Press(i, a) ==
  /\ pc["bot"] = "idle" /\ i \in raised /\ decision[i] = ""
  /\ decision' = [decision EXCEPT ![i] = a]
  /\ Goto("bot", "check", [NoJob EXCEPT !.inc = i, !.act = a, !.own = TRUE])
  /\ UNCHANGED <<raised, dry, unacted, samples, tokens, corpusVars, histVars, mishaps>>

\* The row is read again and the card checked under the claim; a stale card or
\* an unreadable row gives the claim back.
CheckCard(p) ==
  /\ pc[p] = "check"
  /\ \/ Goto(p, CASE job[p].act \in {"fp", "lift"} -> "undo"
                  [] job[p].act = "confirm" -> "sample"
                  [] job[p].act = "enf" -> "enforce", job[p])
     \/ Goto(p, "release", job[p])
  /\ UNCHANGED <<rowVars, tokens, corpusVars, histVars, mishaps>>

\* Mutant: the audit sample is written before the undo it describes.
MutSampleFirst(p) ==
  /\ pc[p] = "undo"
  /\ samples' = [samples EXCEPT ![job[p].inc] = @ \cup ({job[p].act} \cap {"fp"})]
  /\ Goto(p, "release", job[p])
  /\ UNCHANGED <<raised, dry, unacted, decision, tokens, corpusVars, histVars, mishaps>>

\* The sanction is lifted first, only then is the decision recorded.
Undo(p) ==
  /\ pc[p] = "undo"
  /\ \/ Goto(p, IF job[p].act = "fp" THEN "sample" ELSE "forget", job[p])
     \/ Goto(p, "release", job[p])
  /\ UNCHANGED <<rowVars, tokens, corpusVars, histVars, mishaps>>

\* Enforce: refused for an incident already enforced; a sanction that landed is
\* recorded in the row, or else the claim stays as the only guard left.
Enforce(p) ==
  /\ pc[p] = "enforce"
  /\ \/ UNCHANGED <<dry, mishaps>> /\ Goto(p, "release", job[p])
     \/ /\ job[p].inc \in dry
        /\ \/ dry' = dry \ {job[p].inc} /\ Works /\ Goto(p, "release_enforced", job[p])
           \/ UNCHANGED dry /\ Fails /\ Goto(p, "sample", job[p])
  /\ UNCHANGED <<raised, unacted, decision, samples, tokens, corpusVars, histVars>>

\* ReleaseDecision gives back the claim of this act only; a failure is logged.
Release(p) ==
  /\ pc[p] \in {"release", "release_enforced"}
  /\ \/ Works /\ decision' = [decision EXCEPT ![job[p].inc] = IF @ = job[p].act THEN "" ELSE @]
     \/ Fails /\ UNCHANGED decision
  /\ Goto(p, IF pc[p] = "release" THEN "idle" ELSE "sample", job[p])
  /\ UNCHANGED <<raised, dry, unacted, samples, tokens, corpusVars, histVars>>

\* The CLI claims a confirmation, or completes one that already stands.
CliDecide(i, learn) ==
  /\ pc["cli"] = "idle" /\ i \in raised /\ decision[i] \in {"", "confirm"}
  /\ decision' = [decision EXCEPT ![i] = "confirm"]
  /\ Goto("cli", "sample", [NoJob EXCEPT !.inc = i, !.act = "confirm",
                                         !.own = (decision[i] = ""), !.learn = learn])
  /\ UNCHANGED <<raised, dry, unacted, samples, tokens, corpusVars, histVars, mishaps>>

\* InsertSample.  Only a confirmation that could not be recorded is withdrawn,
\* and only by the process that claimed it.
Sample(p) ==
  /\ pc[p] = "sample"
  /\ \/ /\ Works
        /\ samples' = [samples EXCEPT ![job[p].inc] = @ \cup {job[p].act}]
        /\ Goto(p, IF job[p].learn THEN "read" ELSE "refuse", job[p])
     \/ /\ Fails /\ UNCHANGED samples
        /\ Goto(p, IF job[p].act = "confirm" /\ job[p].own THEN "release" ELSE "idle", job[p])
  /\ UNCHANGED <<raised, dry, unacted, decision, tokens, corpusVars, histVars>>

\* trainIncident: without tokens, or when they cannot be read, nothing is learned.
ReadTokens(p) ==
  /\ pc[p] = "read"
  /\ \/ /\ Works
        /\ LET t == tokens[job[p].inc]
           IN Goto(p, IF t = NoTokens THEN "idle" ELSE "relabel", [job[p] EXCEPT !.text = t])
     \/ Fails /\ Goto(p, "idle", job[p])
  /\ UNCHANGED <<rowVars, tokens, corpusVars, histVars>>

LabelOf(a) == IF a = "fp" THEN "ham" ELSE "spam"

\* Mutant: tokens are forgotten whether or not training succeeded.
MutForgetsUntrained(p) ==
  /\ pc[p] = "relabel"
  /\ \/ Relabel(job[p].text, LabelOf(job[p].act)) /\ learned' = learned \cup {job[p].inc} /\ Works
     \/ Fails /\ UNCHANGED <<corpusVars, learned>>
  /\ Goto(p, "forget", job[p])
  /\ UNCHANGED <<rowVars, tokens, captured, dropped, refused, overruled>>

\* A failed attempt keeps the tokens, so that it can be tried again.
Train(p) ==
  /\ pc[p] = "relabel"
  /\ \/ /\ Works
        /\ Relabel(job[p].text, LabelOf(job[p].act))
        /\ learned' = learned \cup {job[p].inc}
        /\ overruled' = overruled \cup ({job[p].inc} \cap refused)
        /\ Goto(p, "forget", job[p])
     \/ Fails /\ UNCHANGED <<corpusVars, learned, overruled>> /\ Goto(p, "idle", job[p])
  /\ UNCHANGED <<rowVars, tokens, captured, dropped, refused>>

\* DeleteIncidentTokens after training, and for Lift, which drops them unlearned.
ForgetTokens(p) ==
  /\ pc[p] = "forget"
  /\ \/ /\ Works
        /\ tokens' = [tokens EXCEPT ![job[p].inc] = NoTokens]
        /\ dropped' = IF job[p].act = "lift" THEN dropped \cup {job[p].inc} ELSE dropped
     \/ Fails /\ UNCHANGED <<tokens, dropped>>
  /\ Goto(p, "idle", job[p])
  /\ UNCHANGED <<rowVars, corpusVars, captured, learned, refused, overruled>>

\* Mutant: -no-train merely skips the training.
MutRefuseKeepsTokens(p) ==
  /\ pc[p] = "refuse"
  /\ refused' = IF job[p].own THEN refused \cup {job[p].inc} ELSE refused
  /\ Goto(p, "idle", job[p])
  /\ UNCHANGED <<rowVars, tokens, corpusVars, captured, learned, dropped, overruled, mishaps>>

\* decide -no-train drops the tokens, or it reports an error.
Refuse(p) ==
  /\ pc[p] = "refuse"
  /\ \/ /\ Works
        /\ tokens' = [tokens EXCEPT ![job[p].inc] = NoTokens]
        /\ dropped' = dropped \cup {job[p].inc}
        /\ refused' = IF job[p].own THEN refused \cup {job[p].inc} ELSE refused
     \/ Fails /\ UNCHANGED <<tokens, dropped, refused>>
  /\ Goto(p, "idle", job[p])
  /\ UNCHANGED <<rowVars, corpusVars, captured, learned, overruled>>

\* PruneIncidentTokens: tokens nobody reviewed in time.
Prune(i) ==
  /\ tokens[i] # NoTokens
  /\ tokens' = [tokens EXCEPT ![i] = NoTokens]
  /\ dropped' = dropped \cup {i}
  /\ UNCHANGED <<rowVars, corpusVars, pc, job, captured, learned, refused, overruled, mishaps>>

Crash(p) ==
  /\ pc[p] # "idle" /\ Fails
  /\ Goto(p, "idle", job[p])
  /\ UNCHANGED <<rowVars, tokens, corpusVars, histVars>>

Next ==
  \/ \E i \in Incidents :
       \/ \E t \in Texts \cup {NoTokens} : Raise(i, t) \/ TakeOver(i, t)
       \/ \E a \in Acts : Press(i, a)
       \/ \E l \in BOOLEAN : CliDecide(i, l)
       \/ Prune(i)
  \/ \E t \in Texts, l \in Labels : Command(t, l) \/ Import(t, l)
  \/ \E p \in Procs :
       \/ SaveTokens(p) \/ FinishOverride(p) \/ CheckCard(p) \/ Undo(p) \/ Enforce(p)
       \/ Release(p) \/ Sample(p) \/ ReadTokens(p) \/ Train(p) \/ ForgetTokens(p)
       \/ Refuse(p) \/ Crash(p)

Spec == Init /\ [][Next]_vars

-----------------------------------------------------------------------------
(* Properties. *)

\* The totals the Bayes score divides by count exactly the recorded samples,
\* through repeated presses, corrections, imports and two writers; the floor at
\* zero never hides a count that went astray.
CountsMatch ==
  \A l \in Labels :
    docs[l] = Cardinality({t \in Texts : l \in corpus[t]})
              + Cardinality({t \in Texts : l \in imported[t]})

\* A correction replaces the earlier label: no token list is learned both ways,
\* whoever of the buttons, the commands and the CLI labelled it last.
OneLabelPerText == \A t \in Texts : Cardinality(corpus[t]) <= 1

\* The audit describes decisions that took effect: a recorded False positive is
\* the incident's decision, and a recorded Enforce sanctioned.
AuditTrue ==
  \A i \in Incidents :
    /\ "fp" \in samples[i] => decision[i] = "fp"
    /\ "enf" \in samples[i] => decision[i] = "enf" \/ i \notin dry

\* Captured tokens are gone only when the corpus learned from the incident, or a
\* moderator, the CLI or the retention period dropped them: an interrupted or
\* failed confirmation can be completed.
TokensKept ==
  \A i \in captured : tokens[i] = NoTokens => i \in learned \cup dropped

\* What decide -no-train refused has one way left into the corpus: an Enforce press
\* gives its claim back before it trains, so the run may claim the incident while
\* the press already holds the tokens.  They are gone from the store for good; no
\* other button, no later decide run and no promoting edit learns them, and what
\* was learned all the same has the audit sample of an Enforce.
RefusalHolds ==
  \A i \in refused :
    /\ tokens[i] = NoTokens
    /\ \A p \in Procs : pc[p] = "relabel" /\ job[p].inc = i => p = "bot" /\ job[p].act = "enf"
    /\ i \in overruled => "enf" \in samples[i]

\* What the comment on -no-train says of it: it is final, nothing that the flag
\* refused is learned later.
NoTrainFinal == overruled = {}

=============================================================================
