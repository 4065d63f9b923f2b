--------------------------- MODULE LearningProofs ---------------------------
(***************************************************************************)
(* Theorems about Learning, for any incidents, texts and mishaps: the      *)
(* totals count the samples, no text has two labels, the audit is true,    *)
(* captured tokens are kept until learned or dropped, and what -no-train   *)
(* refused is learned by nobody but an Enforce press that held it before.  *)
(*                                                                         *)
(* Corpus and claims are argued apart.  The corpus changes only by Relabel *)
(* and Import, each of which moves a text and its counts together.  The    *)
(* rest hangs on who holds the claim on an incident: Holds says at which   *)
(* steps a process may still give it back, and no two processes hold one.  *)
(***************************************************************************)
EXTENDS Learning, FiniteSetTheorems, TLAPS

-----------------------------------------------------------------------------
(* The inductive invariant. *)

\* The corpus and its counts, with their types.
CorpusOK ==
  /\ corpus \in [Texts -> SUBSET Labels] /\ imported \in [Texts -> SUBSET Labels]
  /\ docs \in [Labels -> Nat]
  /\ CountsMatch
  /\ \A t \in Texts : ~({"spam", "ham"} \subseteq corpus[t])

\* The steps of the decide CLI, which only ever confirms.
CliSteps == {"idle", "sample", "read", "relabel", "forget", "refuse", "release"}

\* Process p may still give its claim back, or relies on nobody else doing so.
Holds(p) ==
  \/ pc[p] \in {"check", "undo", "enforce", "release", "release_enforced", "save", "finish"}
  \/ pc[p] \in {"sample", "read", "relabel"} /\ job[p].act = "fp"
  \/ pc[p] \in {"sample", "read", "relabel", "refuse"} /\ job[p].act = "confirm" /\ job[p].own

RowTypes ==
  /\ raised \subseteq Incidents /\ dry \subseteq raised /\ unacted \subseteq raised
  /\ captured \subseteq raised /\ refused \subseteq raised /\ overruled \subseteq refused
  /\ decision \in [Incidents -> Acts \cup {""}]
  /\ samples \in [Incidents -> SUBSET Acts] /\ \A i \in Incidents \ raised : samples[i] = {}
  /\ tokens \in [Incidents -> Texts \cup {NoTokens}]
  /\ pc \in [Procs -> PCs] /\ job \in [Procs -> Job \cup {NoJob}]

\* Which acts are at which steps.
StepOK(p) ==
  /\ pc[p] # "idle" => /\ job[p] \in Job /\ job[p].inc \in raised
                       /\ job[p].act = "confirm" \/ job[p].learn
  /\ pc[p] \in {"save", "relabel"} => job[p].text \in Texts
  /\ pc[p] \in {"enforce", "release_enforced", "save", "finish"} => job[p].act = "enf"
  /\ pc[p] = "undo" => job[p].act \in {"fp", "lift"}
  /\ pc[p] = "refuse" => job[p].act = "confirm" /\ ~job[p].learn
  /\ pc[p] \in {"sample", "read", "relabel"} => job[p].act # "lift"
  /\ pc[p] \in {"read", "relabel"} => job[p].act \in samples[job[p].inc]
  /\ pc[p] = "forget" => job[p].act = "lift" \/ job[p].inc \in learned

StepsOK ==
  /\ \A p \in Procs : StepOK(p)
  /\ pc["cli"] \in CliSteps /\ (pc["cli"] # "idle" => job["cli"].act = "confirm")
  /\ pc["bot"] # "idle" => job["bot"].own /\ job["bot"].learn

\* A claim that is held stands in the row, and is held once.
ClaimsOK ==
  /\ \A p \in Procs : Holds(p) => decision[job[p].inc] = job[p].act
  /\ Holds("bot") /\ Holds("cli") => job["bot"].inc # job["cli"].inc

\* What an incident refused by -no-train stays like.
RefusedOK ==
  /\ RefusalHolds
  /\ \A i \in refused : /\ decision[i] = "confirm"
                        /\ \A p \in Procs : Holds(p) => job[p].inc # i

\* What the process that may still give a claim back, or is about to record it,
\* knows of the audit.
AuditOK(p) ==
  LET i == job[p].inc
  IN /\ pc[p] \in {"check", "undo", "release"} /\ job[p].act = "fp" => "fp" \notin samples[i]
     /\ pc[p] \in {"check", "enforce", "release", "save", "finish"} /\ job[p].act = "enf"
          => ("enf" \in samples[i] => i \notin dry)
     /\ pc[p] = "release_enforced" => i \notin dry
     /\ pc[p] = "sample" /\ job[p].act = "enf" => decision[i] = "enf" \/ i \notin dry

AuditsOK == AuditTrue /\ \A p \in Procs : AuditOK(p)

ClaimInv == RowTypes /\ StepsOK /\ ClaimsOK /\ RefusedOK /\ AuditsOK /\ TokensKept
LearnInv == CorpusOK /\ ClaimInv

-----------------------------------------------------------------------------
(* The corpus. *)

\* The texts which a labelling f gives the label l.
Under(f, l) == {t \in Texts : l \in f[t]}

LEMMA UnderFinite ==
  ASSUME NEW f, NEW l
  PROVE  IsFiniteSet(Under(f, l)) /\ Cardinality(Under(f, l)) \in Nat
<1>1. Under(f, l) \in SUBSET Texts /\ IsFiniteSet(Texts)
  BY FiniteAssumption DEF Under
<1>2. QED
  BY <1>1, FS_Subset, FS_CardinalityType

\* Labelling one more text counts one more, unless it had the label.
LEMMA LabelCounts ==
  ASSUME NEW f \in [Texts -> SUBSET Labels], NEW t \in Texts, NEW l \in Labels,
         NEW g \in [Texts -> SUBSET Labels], l \in g[t],
         \A u \in Texts \ {t} : g[u] = f[u]
  PROVE  Cardinality(Under(g, l)) =
           IF l \in f[t] THEN Cardinality(Under(f, l)) ELSE Cardinality(Under(f, l)) + 1
<1>1. Under(g, l) = Under(f, l) \cup {t}
  BY DEF Under
<1>2. t \in Under(f, l) <=> l \in f[t]
  BY DEF Under
<1>3. QED
  BY <1>1, <1>2, UnderFinite, FS_AddElement

\* Taking the label from one text counts one less, if it had the label.
LEMMA UnlabelCounts ==
  ASSUME NEW f \in [Texts -> SUBSET Labels], NEW t \in Texts, NEW l \in Labels,
         NEW g \in [Texts -> SUBSET Labels], l \notin g[t],
         \A u \in Texts \ {t} : g[u] = f[u]
  PROVE  Cardinality(Under(g, l)) =
           IF l \in f[t] THEN Cardinality(Under(f, l)) - 1 ELSE Cardinality(Under(f, l))
<1>1. Under(g, l) = Under(f, l) \ {t}
  BY DEF Under
<1>2. t \in Under(f, l) <=> l \in f[t]
  BY DEF Under
<1>3. IsFiniteSet(Under(f, l))
  BY UnderFinite
<1>4. Cardinality(Under(f, l) \ {t}) = IF t \in Under(f, l) THEN Cardinality(Under(f, l)) - 1
                                       ELSE Cardinality(Under(f, l))
  BY <1>3, FS_RemoveElement
<1>5. QED
  BY <1>1, <1>2, <1>4

LEMMA CountsAre ==
  CountsMatch <=> \A l \in Labels : docs[l] = Cardinality(Under(corpus, l)) + Cardinality(Under(imported, l))
BY DEF CountsMatch, Under

\* A relabelled text takes its counts along.
LEMMA RelabelCorpus ==
  ASSUME CorpusOK, NEW t \in Texts, NEW to \in Labels, Relabel(t, to)
  PROVE  CorpusOK'
<1> DEFINE off == Opposite(to)
<1>1. /\ off \in Labels /\ off # to /\ Labels = {to, off}
      /\ corpus' = [corpus EXCEPT ![t] = (corpus[t] \ {off}) \cup {to}] /\ imported' = imported
      /\ docs' = Counted(docs, off, off \in corpus[t], to, to \notin corpus[t])
  BY DEF Relabel, Opposite, Labels
<1>2. /\ corpus' \in [Texts -> SUBSET Labels] /\ imported' \in [Texts -> SUBSET Labels]
      /\ to \in corpus'[t] /\ off \notin corpus'[t]
      /\ \A u \in Texts \ {t} : corpus'[u] = corpus[u]
  BY <1>1 DEF CorpusOK
<1>3. Cardinality(Under(corpus, to)) \in Nat /\ Cardinality(Under(corpus, off)) \in Nat
      /\ Cardinality(Under(imported, to)) \in Nat /\ Cardinality(Under(imported, off)) \in Nat
  BY UnderFinite
<1>4. docs[to] = Cardinality(Under(corpus, to)) + Cardinality(Under(imported, to))
      /\ docs[off] = Cardinality(Under(corpus, off)) + Cardinality(Under(imported, off))
  BY <1>1, CountsAre DEF CorpusOK
<1>5. docs'[to] = Cardinality(Under(corpus', to)) + Cardinality(Under(imported', to))
  <2>1. docs'[to] = IF to \notin corpus[t] THEN docs[to] + 1 ELSE docs[to]
    BY <1>1 DEF Counted
  <2>2. Cardinality(Under(corpus', to)) =
          IF to \in corpus[t] THEN Cardinality(Under(corpus, to)) ELSE Cardinality(Under(corpus, to)) + 1
    BY <1>2, LabelCounts DEF CorpusOK
  <2>3. QED
    BY <2>1, <2>2, <1>1, <1>3, <1>4
<1>6. docs'[off] = Cardinality(Under(corpus', off)) + Cardinality(Under(imported', off))
  <2>1. docs'[off] = IF off \in corpus[t] /\ docs[off] > 0 THEN docs[off] - 1 ELSE docs[off]
    BY <1>1 DEF Counted
  <2>2. Cardinality(Under(corpus', off)) =
          IF off \in corpus[t] THEN Cardinality(Under(corpus, off)) - 1 ELSE Cardinality(Under(corpus, off))
    BY <1>1, <1>2, UnlabelCounts DEF CorpusOK
  <2>3. Cardinality(Under(corpus', off)) \in Nat
    BY UnderFinite
  <2>4. QED
    BY <2>1, <2>2, <2>3, <1>1, <1>3, <1>4
<1>7. CountsMatch'
  BY <1>1, <1>5, <1>6 DEF CountsMatch, Under
<1>8. docs' \in [Labels -> Nat]
  BY <1>1 DEF CorpusOK, Counted
<1>9. \A u \in Texts : ~({"spam", "ham"} \subseteq corpus'[u])
  BY <1>1, <1>2 DEF CorpusOK, Labels
<1>10. QED
  BY <1>2, <1>7, <1>8, <1>9 DEF CorpusOK

\* An imported text is counted the first time.
LEMMA ImportCorpus ==
  ASSUME CorpusOK, NEW t \in Texts, NEW label \in Labels, Import(t, label)
  PROVE  CorpusOK'
<1>1. /\ imported' = [imported EXCEPT ![t] = imported[t] \cup {label}] /\ corpus' = corpus
      /\ docs' = Counted(docs, label, FALSE, label, label \notin imported[t])
  BY DEF Import
<1>2. /\ imported' \in [Texts -> SUBSET Labels] /\ label \in imported'[t]
      /\ \A u \in Texts \ {t} : imported'[u] = imported[u]
  BY <1>1 DEF CorpusOK
<1>3. ASSUME NEW l \in Labels
      PROVE  docs'[l] = Cardinality(Under(corpus', l)) + Cardinality(Under(imported', l))
  <2>1. docs[l] = Cardinality(Under(corpus, l)) + Cardinality(Under(imported, l))
    BY CountsAre DEF CorpusOK
  <2>2. Cardinality(Under(corpus, l)) \in Nat /\ Cardinality(Under(imported, l)) \in Nat
    BY UnderFinite
  <2>3. docs'[l] = IF l = label /\ label \notin imported[t] THEN docs[l] + 1 ELSE docs[l]
    BY <1>1 DEF Counted
  <2>4. CASE l = label
    <3>1. Cardinality(Under(imported', l)) = IF l \in imported[t] THEN Cardinality(Under(imported, l))
                                             ELSE Cardinality(Under(imported, l)) + 1
      BY <1>2, <2>4, LabelCounts DEF CorpusOK
    <3>2. Under(corpus', l) = Under(corpus, l)
      BY <1>1 DEF Under
    <3>3. QED
      BY <2>1, <2>2, <2>3, <2>4, <3>1, <3>2
  <2>5. CASE l # label
    <3>1. Under(imported', l) = Under(imported, l)
      BY <1>1, <2>5 DEF Under, CorpusOK
    <3>2. QED
      BY <1>1, <2>1, <2>2, <2>3, <2>5, <3>1
  <2>6. QED
    BY <2>4, <2>5
<1>4. CountsMatch'
  BY <1>3 DEF CountsMatch, Under
<1>5. docs' \in [Labels -> Nat]
  BY <1>1 DEF CorpusOK, Counted
<1>6. QED
  BY <1>1, <1>2, <1>4, <1>5 DEF CorpusOK

LEMMA CorpusStays ==
  ASSUME CorpusOK, UNCHANGED corpusVars
  PROVE  CorpusOK'
BY DEF CorpusOK, CountsMatch, corpusVars

-----------------------------------------------------------------------------
(* The claims. *)

LEMMA GotoIs ==
  ASSUME RowTypes, NEW p \in Procs, NEW s \in PCs, NEW j, Goto(p, s, j), s # "idle" => j \in Job
  PROVE  /\ pc' \in [Procs -> PCs] /\ job' \in [Procs -> Job \cup {NoJob}]
         /\ pc'[p] = s /\ (s # "idle" => job'[p] = j)
         /\ \A q \in Procs \ {p} : pc'[q] = pc[q] /\ job'[q] = job[q]
BY DEF Goto, RowTypes

\* What p keeps of its job on the way to another step.
SameJob(p) == /\ job'[p].inc = job[p].inc /\ job'[p].act = job[p].act /\ job'[p].own = job[p].own
              /\ job'[p].learn = job[p].learn /\ job'[p] \in Job
Moves(p) ==
  /\ pc' \in [Procs -> PCs] /\ job' \in [Procs -> Job \cup {NoJob}]
  /\ pc'[p] # "idle" => SameJob(p)
  /\ \A q \in Procs \ {p} : pc'[q] = pc[q] /\ job'[q] = job[q]

\* An incident that -no-train refused stays as it is while nobody claims it, samples
\* are only added, and nobody new arrives with its tokens.
LEMMA RefusedStays ==
  ASSUME ClaimInv, refused' = refused,
         \A i \in refused : /\ decision'[i] = decision[i] /\ samples[i] \subseteq samples'[i]
                            /\ tokens[i] = NoTokens => tokens'[i] = NoTokens,
         \A i \in overruled' \ overruled : "enf" \in samples'[i],
         \A q \in Procs : Holds(q)' => job'[q].inc \notin refused,
         \A q \in Procs : pc'[q] = "relabel" =>
            \/ pc[q] = "relabel" /\ job'[q].inc = job[q].inc /\ job'[q].act = job[q].act
            \/ job'[q].inc \notin refused
  PROVE  RefusedOK'
<1>1. RefusalHolds'
  BY DEF ClaimInv, RefusedOK, RefusalHolds
<1>2. ASSUME NEW i \in refused
      PROVE  decision'[i] = "confirm" /\ \A q \in Procs : Holds(q)' => job'[q].inc # i
  BY DEF ClaimInv, RefusedOK
<1>3. QED
  BY <1>1, <1>2 DEF RefusedOK

\* A step that only moves p keeps the invariant if p arrives where its job fits and
\* holds no claim it did not hold before.
LEMMA QuietKeeps ==
  ASSUME ClaimInv, NEW p \in Procs, pc[p] # "idle", Moves(p),
         UNCHANGED <<rowVars, tokens, captured, dropped, refused>>, learned \subseteq learned',
         \A i \in overruled' \ overruled : i \in refused /\ "enf" \in samples[i],
         pc'[p] = "relabel" => tokens[job[p].inc] # NoTokens,
         StepOK(p)', AuditOK(p)', Holds(p)' => Holds(p),
         p = "cli" => pc'[p] \in CliSteps
  PROVE  ClaimInv'
<1> USE DEF Moves, SameJob, rowVars, Procs
<1>1. RowTypes'
  BY DEF ClaimInv, RowTypes
<1>2. StepsOK'
  BY DEF ClaimInv, StepsOK, StepOK
<1>3. Holds(p)' => Holds(p) /\ SameJob(p)
  BY DEF Holds
<1>4. ClaimsOK'
  BY <1>3 DEF ClaimInv, ClaimsOK, Holds
<1>5. RefusedOK'
  <2>1. \A q \in Procs : Holds(q)' => Holds(q) /\ job'[q].inc = job[q].inc
    BY <1>3 DEF Holds
  <2>2. \A q \in Procs : Holds(q)' => job'[q].inc \notin refused
    BY <2>1 DEF ClaimInv, RefusedOK
  <2>3. pc'[p] = "relabel" => job'[p].inc \notin refused
    BY DEF ClaimInv, RefusedOK, RefusalHolds
  <2>4. QED
    BY <2>2, <2>3, RefusedStays
<1>6. AuditsOK'
  BY DEF ClaimInv, AuditsOK, AuditOK, AuditTrue
<1>7. TokensKept'
  BY DEF ClaimInv, TokensKept
<1>8. QED
  BY <1>1, <1>2, <1>4, <1>5, <1>6, <1>7 DEF ClaimInv

LEMMA CheckCardKeeps ==
  ASSUME ClaimInv, NEW p \in Procs, CheckCard(p)
  PROVE  ClaimInv'
<1>1. PICK s \in {"undo", "sample", "enforce", "release"} :
        /\ Goto(p, s, job[p])
        /\ s = "undo" => job[p].act \in {"fp", "lift"}
        /\ s = "sample" => job[p].act = "confirm"
        /\ s = "enforce" => job[p].act = "enf"
  BY DEF CheckCard, ClaimInv, StepsOK, StepOK, Job, Acts
<1>2. pc[p] = "check" /\ UNCHANGED <<rowVars, tokens, histVars>>
  BY DEF CheckCard
<1>3. Moves(p) /\ pc'[p] = s /\ SameJob(p)
  BY <1>1, <1>2, GotoIs DEF ClaimInv, StepsOK, StepOK, PCs, Moves, SameJob
<1>4. p = "bot"
  BY <1>2 DEF ClaimInv, StepsOK, CliSteps, Procs
<1>5. StepOK(p)' /\ AuditOK(p)' /\ (Holds(p)' => Holds(p))
  BY <1>1, <1>2, <1>3 DEF ClaimInv, StepsOK, StepOK, AuditsOK, AuditOK, Holds, SameJob, rowVars, histVars
<1>6. QED
  BY <1>2, <1>3, <1>4, <1>5, QuietKeeps DEF histVars

LEMMA UndoKeeps ==
  ASSUME ClaimInv, NEW p \in Procs, Undo(p)
  PROVE  ClaimInv'
<1>1. PICK s \in {"sample", "forget", "release"} :
        /\ Goto(p, s, job[p])
        /\ s = "sample" => job[p].act = "fp"
        /\ s = "forget" => job[p].act = "lift"
  BY DEF Undo, ClaimInv, StepsOK, StepOK
<1>2. pc[p] = "undo" /\ UNCHANGED <<rowVars, tokens, histVars>>
  BY DEF Undo
<1>3. Moves(p) /\ pc'[p] = s /\ SameJob(p)
  BY <1>1, <1>2, GotoIs DEF ClaimInv, StepsOK, StepOK, PCs, Moves, SameJob
<1>4. p = "bot"
  BY <1>2 DEF ClaimInv, StepsOK, CliSteps, Procs
<1>5. StepOK(p)' /\ AuditOK(p)' /\ (Holds(p)' => Holds(p))
  BY <1>1, <1>2, <1>3 DEF ClaimInv, StepsOK, StepOK, AuditsOK, AuditOK, Holds, SameJob, rowVars, histVars
<1>6. QED
  BY <1>2, <1>3, <1>4, <1>5, QuietKeeps DEF histVars

\* A process that gives up, by a crash or by an error, disturbs nothing.
LEMMA IdleKeeps ==
  ASSUME ClaimInv, NEW p \in Procs, pc[p] # "idle", NEW j, Goto(p, "idle", j),
         UNCHANGED <<rowVars, tokens, histVars>>
  PROVE  ClaimInv'
<1>1. Moves(p) /\ pc'[p] = "idle"
  BY GotoIs DEF ClaimInv, PCs, Moves
<1>2. StepOK(p)' /\ AuditOK(p)' /\ ~Holds(p)'
  BY <1>1 DEF StepOK, AuditOK, Holds
<1>3. QED
  BY <1>1, <1>2, QuietKeeps DEF histVars, CliSteps

LEMMA ReadTokensKeeps ==
  ASSUME ClaimInv, NEW p \in Procs, ReadTokens(p)
  PROVE  ClaimInv'
<1> DEFINE t == tokens[job[p].inc]
<1>1. pc[p] = "read" /\ UNCHANGED <<rowVars, tokens, histVars>>
  BY DEF ReadTokens
<1>2. CASE \E j : Goto(p, "idle", j)
  BY <1>1, <1>2, IdleKeeps
<1>3. CASE t # NoTokens /\ Goto(p, "relabel", [job[p] EXCEPT !.text = t])
  <2>1. job[p] \in Job /\ t \in Texts
    BY <1>1, <1>3 DEF ClaimInv, RowTypes, StepsOK, StepOK, Job
  <2>2. [job[p] EXCEPT !.text = t] \in Job
    BY <2>1 DEF Job
  <2>3. Moves(p) /\ pc'[p] = "relabel" /\ job'[p].text = t /\ SameJob(p)
    BY <1>3, <2>1, <2>2, GotoIs DEF ClaimInv, PCs, Moves, SameJob, Job
  <2>4. StepOK(p)' /\ AuditOK(p)' /\ (Holds(p)' => Holds(p))
    BY <1>1, <2>1, <2>3 DEF ClaimInv, StepsOK, StepOK, AuditOK, Holds, SameJob, rowVars
  <2>5. QED
    BY <1>1, <1>3, <2>3, <2>4, QuietKeeps DEF histVars, CliSteps
<1>4. QED
  BY <1>2, <1>3 DEF ReadTokens

LEMMA TrainKeeps ==
  ASSUME ClaimInv, NEW p \in Procs, Train(p)
  PROVE  ClaimInv'
<1>1. pc[p] = "relabel" /\ UNCHANGED <<rowVars, tokens, captured, dropped, refused>>
  BY DEF Train
<1>2. CASE UNCHANGED <<learned, overruled>> /\ Goto(p, "idle", job[p])
  BY <1>1, <1>2, IdleKeeps DEF histVars
<1>3. CASE /\ learned' = learned \cup {job[p].inc} /\ Goto(p, "forget", job[p])
           /\ overruled' = overruled \cup ({job[p].inc} \cap refused)
  <2>1. Moves(p) /\ pc'[p] = "forget" /\ SameJob(p)
    BY <1>1, <1>3, GotoIs DEF ClaimInv, StepsOK, StepOK, PCs, Moves, SameJob
  <2>2. StepOK(p)' /\ AuditOK(p)' /\ ~Holds(p)'
    BY <1>1, <1>3, <2>1 DEF ClaimInv, StepsOK, StepOK, AuditOK, Holds, SameJob, rowVars
  <2>3. \A i \in overruled' \ overruled : i \in refused /\ "enf" \in samples[i]
    BY <1>1, <1>3 DEF ClaimInv, RefusedOK, RefusalHolds, StepsOK, StepOK
  <2>4. QED
    BY <1>1, <1>3, <2>1, <2>2, <2>3, QuietKeeps DEF CliSteps
<1>4. QED
  BY <1>2, <1>3 DEF Train

\* The two ways in which tokens go: dropped for good, or after they were learned.
LEMMA ForgetKeeps ==
  ASSUME ClaimInv, NEW p \in Procs, ForgetTokens(p)
  PROVE  ClaimInv'
<1>1. pc[p] = "forget" /\ Goto(p, "idle", job[p])
      /\ UNCHANGED <<rowVars, captured, learned, refused, overruled>>
  BY DEF ForgetTokens
<1>2. CASE UNCHANGED <<tokens, dropped>>
  BY <1>1, <1>2, IdleKeeps DEF histVars
<1>3. CASE /\ tokens' = [tokens EXCEPT ![job[p].inc] = NoTokens]
           /\ dropped' = IF job[p].act = "lift" THEN dropped \cup {job[p].inc} ELSE dropped
  <2> USE DEF rowVars, Procs
  <2>1. Moves(p) /\ pc'[p] = "idle"
    BY <1>1, GotoIs DEF ClaimInv, PCs, Moves
  <2>2. job[p].inc \in Incidents
    BY <1>1 DEF ClaimInv, RowTypes, StepsOK, StepOK
  <2>3. RowTypes'
    BY <1>1, <1>3, <2>1 DEF ClaimInv, RowTypes, Moves
  <2>4. StepsOK'
    BY <1>1, <2>1 DEF ClaimInv, StepsOK, StepOK, Moves, CliSteps
  <2>5. ClaimsOK'
    BY <1>1, <2>1 DEF ClaimInv, ClaimsOK, Holds, Moves
  <2>6. RefusedOK'
    <3>1. \A i \in Incidents : tokens[i] = NoTokens => tokens'[i] = NoTokens
      BY <1>3 DEF ClaimInv, RowTypes
    <3>2. \A q \in Procs : Holds(q)' => Holds(q) /\ job'[q] = job[q]
      BY <2>1 DEF Holds, Moves
    <3>3. UNCHANGED <<decision, samples, refused, overruled>> /\ refused \subseteq Incidents
      BY <1>1 DEF ClaimInv, RowTypes
    <3>4. \A q \in Procs : Holds(q)' => job'[q].inc \notin refused
      BY <3>2 DEF ClaimInv, RefusedOK
    <3>5. \A q \in Procs : pc'[q] = "relabel" => pc[q] = "relabel" /\ job'[q] = job[q]
      BY <2>1 DEF Moves
    <3>6. QED
      BY <3>1, <3>3, <3>4, <3>5, RefusedStays
  <2>7. AuditsOK'
    BY <1>1, <2>1 DEF ClaimInv, AuditsOK, AuditOK, AuditTrue, Moves
  <2>8. TokensKept'
    BY <1>1, <1>3, <2>2 DEF ClaimInv, TokensKept, RowTypes, StepsOK, StepOK
  <2>9. QED
    BY <2>3, <2>4, <2>5, <2>6, <2>7, <2>8 DEF ClaimInv
<1>4. QED
  BY <1>2, <1>3 DEF ForgetTokens

LEMMA RefuseKeeps ==
  ASSUME ClaimInv, NEW p \in Procs, Refuse(p)
  PROVE  ClaimInv'
<1>1. pc[p] = "refuse" /\ Goto(p, "idle", job[p])
      /\ UNCHANGED <<rowVars, captured, learned, overruled>>
  BY DEF Refuse
<1>2. CASE UNCHANGED <<tokens, dropped, refused>>
  BY <1>1, <1>2, IdleKeeps DEF histVars
<1>3. CASE /\ tokens' = [tokens EXCEPT ![job[p].inc] = NoTokens]
           /\ dropped' = dropped \cup {job[p].inc}
           /\ refused' = IF job[p].own THEN refused \cup {job[p].inc} ELSE refused
  <2> USE DEF rowVars, Procs
  <2>1. Moves(p) /\ pc'[p] = "idle"
    BY <1>1, GotoIs DEF ClaimInv, PCs, Moves
  <2>2. job[p].inc \in raised /\ job[p].inc \in Incidents /\ job[p].act = "confirm"
    BY <1>1 DEF ClaimInv, RowTypes, StepsOK, StepOK
  <2>3. RowTypes'
    BY <1>1, <1>3, <2>1, <2>2 DEF ClaimInv, RowTypes, Moves
  <2>4. StepsOK'
    BY <1>1, <2>1 DEF ClaimInv, StepsOK, StepOK, Moves, CliSteps
  <2>5. ClaimsOK'
    BY <1>1, <2>1 DEF ClaimInv, ClaimsOK, Holds, Moves
  <2>6. job[p].own => Holds(p) /\ decision[job[p].inc] = "confirm"
    BY <1>1, <2>2 DEF ClaimInv, ClaimsOK, Holds
  <2>7. RefusedOK'
    <3>1. \A i \in Incidents : tokens[i] = NoTokens \/ i = job[p].inc => tokens'[i] = NoTokens
      BY <1>3 DEF ClaimInv, RowTypes
    <3>2. \A q \in Procs : Holds(q)' => q # p /\ Holds(q) /\ job'[q] = job[q]
      BY <2>1 DEF Holds, Moves
    <3>3. job[p].own => \A q \in Procs : Holds(q)' => job'[q].inc # job[p].inc
      BY <2>6, <3>2 DEF ClaimInv, ClaimsOK
    <3>4. decision' = decision /\ refused \subseteq Incidents /\ job[p].inc \in Incidents
      BY <1>1, <2>2 DEF ClaimInv, RowTypes
    <3>5. p = "cli" /\ UNCHANGED <<samples, overruled>>
      BY <1>1 DEF ClaimInv, StepsOK, StepOK
    <3>6. pc'["cli"] = "idle" /\ pc'["bot"] = pc["bot"] /\ job'["bot"] = job["bot"]
      BY <2>1, <3>5 DEF Moves
    <3>7. CASE ~job[p].own
      <4>1. \A q \in Procs : Holds(q)' => job'[q].inc \notin refused
        BY <3>2 DEF ClaimInv, RefusedOK
      <4>2. refused' = refused
        BY <1>3, <3>7
      <4>3. QED
        BY <3>1, <3>4, <3>5, <3>6, <4>1, <4>2, RefusedStays
    <3>8. CASE job[p].own
      <4>1. refused' = refused \cup {job[p].inc}
        BY <1>3, <3>8
      <4>2. ASSUME pc["bot"] = "relabel", job["bot"].inc = job[p].inc
            PROVE  job["bot"].act = "enf"
        <5>1. ~Holds("bot")
          BY <2>6, <3>5, <3>8, <4>2 DEF ClaimInv, ClaimsOK
        <5>2. job["bot"] \in Job /\ job["bot"].own /\ job["bot"].act # "lift"
          BY <4>2 DEF ClaimInv, StepsOK, StepOK
        <5>3. job["bot"].act \in Acts
          BY <5>2 DEF Job
        <5>4. QED
          BY <4>2, <5>1, <5>2, <5>3 DEF Holds, Acts
      <4>3. overruled \subseteq refused
        BY DEF ClaimInv, RowTypes
      <4>4. RefusalHolds'
        BY <3>1, <3>4, <3>5, <3>6, <4>1, <4>2, <4>3 DEF ClaimInv, RefusedOK, RefusalHolds
      <4>5. \A i \in refused' : decision'[i] = "confirm" /\ \A q \in Procs : Holds(q)' => job'[q].inc # i
        BY <2>6, <3>2, <3>3, <3>4, <3>8, <4>1 DEF ClaimInv, RefusedOK
      <4>6. QED
        BY <4>4, <4>5 DEF RefusedOK
    <3>9. QED
      BY <3>7, <3>8
  <2>8. AuditsOK'
    BY <1>1, <2>1 DEF ClaimInv, AuditsOK, AuditOK, AuditTrue, Moves
  <2>9. TokensKept'
    BY <1>1, <1>3, <2>2 DEF ClaimInv, TokensKept, RowTypes
  <2>10. QED
    BY <2>3, <2>4, <2>5, <2>7, <2>8, <2>9 DEF ClaimInv
<1>4. QED
  BY <1>2, <1>3 DEF Refuse

\* Nobody at work notices that tokens expired, or that a command taught the corpus.
LEMMA BesideKeeps ==
  ASSUME ClaimInv, UNCHANGED <<rowVars, pc, job, captured, learned, refused, overruled>>,
         \/ UNCHANGED <<tokens, dropped>>
         \/ \E i \in Incidents : /\ tokens' = [tokens EXCEPT ![i] = NoTokens]
                                 /\ dropped' = dropped \cup {i}
  PROVE  ClaimInv'
<1> USE DEF rowVars, Procs
<1>1. RowTypes'
  BY DEF ClaimInv, RowTypes
<1>2. StepsOK' /\ ClaimsOK'
  BY DEF ClaimInv, StepsOK, StepOK, ClaimsOK, Holds
<1>3. RefusedOK'
  <2>1. \A i \in Incidents : tokens[i] = NoTokens => tokens'[i] = NoTokens
    BY DEF ClaimInv, RowTypes
  <2>2. \A q \in Procs : Holds(q)' <=> Holds(q)
    BY DEF Holds
  <2>3. refused \subseteq Incidents /\ \A q \in Procs : Holds(q)' => job'[q].inc \notin refused
    BY <2>2 DEF ClaimInv, RefusedOK, RowTypes
  <2>4. QED
    BY <2>1, <2>3, RefusedStays
<1>4. AuditsOK'
  BY DEF ClaimInv, AuditsOK, AuditOK, AuditTrue
<1>5. TokensKept'
  BY DEF ClaimInv, TokensKept, RowTypes
<1>6. QED
  BY <1>1, <1>2, <1>3, <1>4, <1>5 DEF ClaimInv

LEMMA RaiseKeeps ==
  ASSUME ClaimInv, NEW i \in Incidents, NEW t \in Texts \cup {NoTokens}, Raise(i, t)
  PROVE  ClaimInv'
<1> USE DEF Raise, Procs
<1>1. RowTypes'
  BY DEF ClaimInv, RowTypes
<1>2. StepsOK'
  BY DEF ClaimInv, StepsOK, StepOK
<1>3. ClaimsOK'
  BY DEF ClaimInv, ClaimsOK, Holds
<1>4. RefusedOK'
  <2>1. \A j \in refused : j # i /\ tokens'[j] = tokens[j]
    BY DEF ClaimInv, RowTypes
  <2>2. \A q \in Procs : Holds(q)' <=> Holds(q)
    BY DEF Holds
  <2>3. \A q \in Procs : Holds(q)' => job'[q].inc \notin refused
    BY <2>2 DEF ClaimInv, RefusedOK
  <2>4. QED
    BY <2>1, <2>3, RefusedStays
<1>5. AuditsOK'
  <2>1. samples[i] = {}
    BY DEF ClaimInv, RowTypes
  <2>2. QED
    BY <2>1 DEF ClaimInv, AuditsOK, AuditOK, AuditTrue, StepsOK, StepOK
<1>6. TokensKept'
  <2>1. tokens'[i] = t /\ \A j \in captured : j # i /\ tokens'[j] = tokens[j]
    BY DEF ClaimInv, RowTypes
  <2>2. QED
    BY <2>1 DEF ClaimInv, TokensKept
<1>7. QED
  BY <1>1, <1>2, <1>3, <1>4, <1>5, <1>6 DEF ClaimInv

\* p, which was idle, claims the undecided incident i for the act a with the job j.
Claims(p, i, a, s, j) ==
  /\ pc[p] = "idle" /\ decision[i] = "" /\ decision' = [decision EXCEPT ![i] = a]
  /\ j \in Job /\ j.inc = i /\ j.act = a /\ Goto(p, s, j)
  /\ a = "confirm" \/ j.learn
  /\ p = "bot" => j.own /\ j.learn
  /\ \/ p = "bot" /\ s \in {"check", "save", "finish"}
     \/ p = "cli" /\ s = "sample" /\ a = "confirm"
  /\ s \in {"save", "finish"} => a = "enf"
  /\ s = "save" => j.text \in Texts
  /\ UNCHANGED <<raised, dry, unacted, samples, tokens, histVars>>

\* Nobody held the incident, and the audit has nothing of it that the claim could turn
\* untrue.
LEMMA ClaimKeeps ==
  ASSUME ClaimInv, NEW p \in Procs, NEW i \in raised, NEW a \in Acts, NEW s, NEW j,
         Claims(p, i, a, s, j)
  PROVE  ClaimInv'
<1>1. /\ pc' \in [Procs -> PCs] /\ job' \in [Procs -> Job \cup {NoJob}]
      /\ pc'[p] = s /\ job'[p] = j /\ s # "idle" /\ j \in Job /\ j.inc = i /\ j.act = a
      /\ \A q \in Procs \ {p} : pc'[q] = pc[q] /\ job'[q] = job[q]
  <2>1. s \in PCs /\ s # "idle" /\ Goto(p, s, j) /\ j \in Job /\ j.inc = i /\ j.act = a
    BY DEF Claims, PCs
  <2>2. QED
    BY <2>1, GotoIs DEF ClaimInv
<1>2. i \in Incidents /\ decision'[i] = a /\ \A k \in Incidents \ {i} : decision'[k] = decision[k]
  BY DEF Claims, ClaimInv, RowTypes
<1>3. UNCHANGED <<raised, dry, unacted, samples, tokens, captured, learned, dropped, refused, overruled>>
  BY DEF Claims, histVars
<1>4. RowTypes'
  <2>1. decision' \in [Incidents -> Acts \cup {""}]
    BY DEF Claims, ClaimInv, RowTypes
  <2>2. QED
    BY <1>1, <1>3, <2>1 DEF ClaimInv, RowTypes
<1>5. StepsOK'
  <2>1. StepOK(p)'
    BY <1>1, <1>3 DEF StepOK, Claims
  <2>2. ASSUME NEW q \in Procs \ {p}
        PROVE  StepOK(q)'
    <3>1. StepOK(q) /\ pc'[q] = pc[q] /\ job'[q] = job[q]
      BY <1>1 DEF ClaimInv, StepsOK
    <3>2. QED
      BY <1>3, <3>1 DEF StepOK
  <2>3. pc'["cli"] \in CliSteps /\ (pc'["cli"] # "idle" => job'["cli"].act = "confirm")
        /\ (pc'["bot"] # "idle" => job'["bot"].own /\ job'["bot"].learn)
    BY <1>1 DEF Claims, ClaimInv, StepsOK, CliSteps, Procs
  <2>4. QED
    BY <2>1, <2>2, <2>3 DEF StepsOK
<1>6. ASSUME NEW q \in Procs \ {p}, Holds(q)'
      PROVE  Holds(q) /\ job'[q] = job[q] /\ job[q].inc \in Incidents /\ job[q].inc # i
             /\ decision[job[q].inc] = job[q].act
  <2>1. Holds(q) /\ job'[q] = job[q]
    BY <1>1, <1>6 DEF Holds
  <2>2. job[q] \in Job /\ decision[job[q].inc] = job[q].act
    BY <2>1 DEF ClaimInv, ClaimsOK, StepsOK, StepOK, Holds
  <2>3. job[q].inc \in Incidents /\ job[q].act # "" /\ decision[i] = ""
    BY <2>2 DEF Job, Acts, Claims
  <2>4. QED
    BY <2>1, <2>2, <2>3
<1>7. ClaimsOK'
  <2>1. ASSUME NEW q \in Procs, Holds(q)'
        PROVE  decision'[job'[q].inc] = job'[q].act
    <3>1. CASE q = p
      BY <1>1, <1>2, <3>1
    <3>2. CASE q # p
      BY <1>2, <1>6, <2>1, <3>2
    <3>3. QED
      BY <3>1, <3>2
  <2>2. Holds("bot")' /\ Holds("cli")' => job'["bot"].inc # job'["cli"].inc
    <3>1. CASE p = "bot"
      BY <1>1, <1>6, <3>1 DEF Procs
    <3>2. CASE p = "cli"
      BY <1>1, <1>6, <3>2 DEF Procs
    <3>3. QED
      BY <3>1, <3>2 DEF Procs
  <2>3. QED
    BY <2>1, <2>2 DEF ClaimsOK
<1>8. RefusedOK'
  <2>1. refused \subseteq Incidents /\ i \notin refused
    BY DEF Claims, ClaimInv, RowTypes, RefusedOK
  <2>2. ASSUME NEW k \in refused, NEW q \in Procs, Holds(q)'
        PROVE  job'[q].inc # k
    <3>1. CASE q = p
      BY <1>1, <2>1, <3>1
    <3>2. CASE q # p
      <4>1. Holds(q) /\ job'[q] = job[q]
        BY <1>6, <2>2, <3>2
      <4>2. QED
        BY <4>1 DEF ClaimInv, RefusedOK
    <3>3. QED
      BY <3>1, <3>2
  <2>3. \A q \in Procs : pc'[q] = "relabel" => pc[q] = "relabel" /\ job'[q] = job[q]
    BY <1>1 DEF Claims
  <2>4. QED
    BY <1>2, <1>3, <2>1, <2>2, <2>3, RefusedStays
<1>9. AuditsOK'
  <2>1. AuditTrue'
    BY <1>2, <1>3 DEF Claims, ClaimInv, AuditsOK, AuditTrue
  <2>2. AuditOK(p)'
    <3>1. "fp" \notin samples[i] /\ ("enf" \in samples[i] => i \notin dry)
      BY <1>2 DEF Claims, ClaimInv, AuditsOK, AuditTrue
    <3>2. QED
      BY <1>1, <1>2, <1>3, <3>1 DEF AuditOK, Claims
  <2>3. ASSUME NEW q \in Procs \ {p}
        PROVE  AuditOK(q)'
    <3>1. AuditOK(q) /\ pc'[q] = pc[q] /\ job'[q] = job[q]
      BY <1>1 DEF ClaimInv, AuditsOK
    <3>2. decision[job[q].inc] = "enf" => decision'[job[q].inc] = "enf" \/ pc[q] = "idle"
      <4>1. pc[q] # "idle" => job[q].inc \in Incidents
        BY DEF ClaimInv, StepsOK, StepOK, RowTypes
      <4>2. QED
        BY <1>2, <4>1 DEF Claims
    <3>3. QED
      BY <1>3, <3>1, <3>2 DEF AuditOK
  <2>4. QED
    BY <2>1, <2>2, <2>3 DEF AuditsOK
<1>10. TokensKept'
  BY <1>3 DEF ClaimInv, TokensKept
<1>11. QED
  BY <1>4, <1>5, <1>7, <1>8, <1>9, <1>10 DEF ClaimInv

LEMMA TakeOverKeeps ==
  ASSUME ClaimInv, NEW i \in Incidents, NEW t \in Texts \cup {NoTokens}, TakeOver(i, t)
  PROVE  ClaimInv'
<1> DEFINE j == [NoJob EXCEPT !.inc = i, !.act = "enf", !.text = t, !.own = TRUE]
<1> DEFINE s == IF t = NoTokens THEN "finish" ELSE "save"
<1>1. j \in Job /\ j.inc = i /\ j.act = "enf" /\ j.text = t /\ j.learn /\ j.own
  BY DEF NoJob, Job, Acts
<1>2. i \in raised /\ "enf" \in Acts /\ "bot" \in Procs
  BY DEF TakeOver, ClaimInv, RowTypes, Acts, Procs
<1>3. Claims("bot", i, "enf", s, j)
  BY <1>1 DEF TakeOver, Claims
<1>4. QED
  BY <1>2, <1>3, ClaimKeeps

LEMMA PressKeeps ==
  ASSUME ClaimInv, NEW i \in Incidents, NEW a \in Acts, Press(i, a)
  PROVE  ClaimInv'
<1> DEFINE j == [NoJob EXCEPT !.inc = i, !.act = a, !.own = TRUE]
<1>1. j \in Job /\ j.inc = i /\ j.act = a /\ j.learn /\ j.own
  BY DEF NoJob, Job
<1>2. i \in raised /\ "bot" \in Procs
  BY DEF Press, Procs
<1>3. Claims("bot", i, a, "check", j)
  BY <1>1 DEF Press, Claims
<1>4. QED
  BY <1>2, <1>3, ClaimKeeps

LEMMA CliDecideKeeps ==
  ASSUME ClaimInv, NEW i \in Incidents, NEW learn \in BOOLEAN, CliDecide(i, learn)
  PROVE  ClaimInv'
<1> DEFINE j == [NoJob EXCEPT !.inc = i, !.act = "confirm", !.own = (decision[i] = ""), !.learn = learn]
<1>1. j \in Job /\ j.inc = i /\ j.act = "confirm" /\ j.own = (decision[i] = "")
  BY DEF NoJob, Job, Acts
<1>2. "cli" \in Procs /\ "confirm" \in Acts /\ i \in raised
  BY DEF Procs, Acts, CliDecide
<1>3. CASE decision[i] = ""
  <2>1. Claims("cli", i, "confirm", "sample", j)
    BY <1>1, <1>3 DEF CliDecide, Claims
  <2>2. QED
    BY <1>2, <2>1, ClaimKeeps
<1>4. CASE decision[i] = "confirm"
  <2> USE DEF Procs, histVars
  <2>1. decision' = decision /\ UNCHANGED <<raised, dry, unacted, samples, tokens, histVars>>
    BY <1>4 DEF CliDecide, ClaimInv, RowTypes
  <2>2. /\ pc' \in [Procs -> PCs] /\ job' \in [Procs -> Job \cup {NoJob}]
        /\ pc'["cli"] = "sample" /\ job'["cli"] = j /\ pc'["bot"] = pc["bot"] /\ job'["bot"] = job["bot"]
    BY <1>1, <1>2, GotoIs DEF CliDecide, ClaimInv, PCs
  <2>3. ~Holds("cli")' /\ (Holds("bot")' <=> Holds("bot"))
    BY <1>1, <1>4, <2>2 DEF Holds
  <2>4. RowTypes'
    BY <2>1, <2>2 DEF ClaimInv, RowTypes
  <2>5. StepsOK'
    <3>1. StepOK("cli")'
      BY <1>1, <1>2, <2>1, <2>2 DEF StepOK
    <3>2. StepOK("bot")'
      BY <2>1, <2>2 DEF ClaimInv, StepsOK, StepOK
    <3>3. pc["bot"] # "idle" => job["bot"].own /\ job["bot"].learn
      BY DEF ClaimInv, StepsOK
    <3>4. QED
      BY <1>1, <2>2, <3>1, <3>2, <3>3 DEF StepsOK, CliSteps
  <2>6. ClaimsOK'
    BY <2>1, <2>2, <2>3 DEF ClaimInv, ClaimsOK
  <2>7. RefusedOK'
    <3>1. \A q \in Procs : Holds(q)' => job'[q].inc \notin refused
      BY <2>2, <2>3 DEF ClaimInv, RefusedOK
    <3>2. QED
      BY <2>1, <2>2, <3>1, RefusedStays
  <2>8. AuditsOK'
    <3>1. AuditOK("cli")'
      BY <1>1, <2>2 DEF AuditOK
    <3>2. AuditOK("bot")'
      BY <2>1, <2>2 DEF ClaimInv, AuditsOK, AuditOK
    <3>3. QED
      BY <2>1, <3>1, <3>2 DEF ClaimInv, AuditsOK, AuditTrue
  <2>9. QED
    BY <2>1, <2>4, <2>5, <2>6, <2>7, <2>8 DEF ClaimInv, TokensKept
<1>5. QED
  BY <1>3, <1>4 DEF CliDecide

\* p gives its claim back and goes to s; the incident may have been enforced meanwhile.
GivesBack(p, s) ==
  /\ pc[p] \in {"release", "release_enforced", "finish"} /\ Goto(p, s, job[p])
  /\ decision' = [decision EXCEPT ![job[p].inc] = ""]
  /\ dry' \subseteq dry /\ unacted' \subseteq unacted
  /\ s = "idle" \/ (s = "sample" /\ pc[p] = "release_enforced")
  /\ UNCHANGED <<raised, samples, tokens, histVars>>

\* The audit has nothing of the incident that rested on the claim, and nobody else held it.
LEMMA GiveBackKeeps ==
  ASSUME ClaimInv, NEW p \in Procs, NEW s, GivesBack(p, s)
  PROVE  ClaimInv'
<1> DEFINE i == job[p].inc
<1>1. /\ pc' \in [Procs -> PCs] /\ job' \in [Procs -> Job \cup {NoJob}]
      /\ pc'[p] = s /\ (s # "idle" => job'[p] = job[p]) /\ job[p] \in Job
      /\ \A q \in Procs \ {p} : pc'[q] = pc[q] /\ job'[q] = job[q]
  <2>1. s \in PCs /\ Goto(p, s, job[p]) /\ job[p] \in Job
    BY DEF GivesBack, PCs, ClaimInv, StepsOK, StepOK
  <2>2. QED
    BY <2>1, GotoIs DEF ClaimInv
<1>2. Holds(p) /\ decision[i] = job[p].act /\ i \in Incidents /\ i \in raised /\ job[p].act \in Acts
  <2>1. Holds(p)
    BY DEF GivesBack, Holds
  <2>2. i \in raised
    BY DEF GivesBack, ClaimInv, StepsOK, StepOK
  <2>3. QED
    BY <1>1, <2>1, <2>2 DEF ClaimInv, ClaimsOK, Job
<1>3. decision'[i] = "" /\ \A k \in Incidents \ {i} : decision'[k] = decision[k]
  BY <1>2 DEF GivesBack, ClaimInv, RowTypes
<1>4. /\ dry' \subseteq dry /\ unacted' \subseteq unacted
      /\ UNCHANGED <<raised, samples, tokens, captured, learned, dropped, refused, overruled>>
  BY DEF GivesBack, histVars
<1>5. RowTypes'
  <2>1. decision' \in [Incidents -> Acts \cup {""}]
    BY <1>2 DEF GivesBack, ClaimInv, RowTypes
  <2>2. QED
    BY <1>1, <1>4, <2>1 DEF ClaimInv, RowTypes
<1>6. StepsOK'
  <2>1. StepOK(p)'
    BY <1>1, <1>2, <1>4 DEF StepOK, StepsOK, ClaimInv, GivesBack
  <2>2. ASSUME NEW q \in Procs \ {p}
        PROVE  StepOK(q)'
    <3>1. StepOK(q) /\ pc'[q] = pc[q] /\ job'[q] = job[q]
      BY <1>1 DEF ClaimInv, StepsOK
    <3>2. QED
      BY <1>4, <3>1 DEF StepOK
  <2>3. pc'["cli"] \in CliSteps /\ (pc'["cli"] # "idle" => job'["cli"].act = "confirm")
        /\ (pc'["bot"] # "idle" => job'["bot"].own /\ job'["bot"].learn)
    BY <1>1 DEF GivesBack, ClaimInv, StepsOK, StepOK, CliSteps, Procs
  <2>4. QED
    BY <2>1, <2>2, <2>3 DEF StepsOK
<1>7. ASSUME NEW q \in Procs, Holds(q)'
      PROVE  q # p /\ Holds(q) /\ job'[q] = job[q] /\ job[q].inc \in Incidents /\ job[q].inc # i
             /\ decision[job[q].inc] = job[q].act
  <2>1. q # p
    BY <1>1, <1>7 DEF Holds, GivesBack, ClaimInv, StepsOK, StepOK
  <2>2. Holds(q) /\ job'[q] = job[q]
    BY <1>1, <1>7, <2>1 DEF Holds
  <2>3. job[q].inc \in Incidents /\ decision[job[q].inc] = job[q].act
    BY <2>2 DEF ClaimInv, ClaimsOK, StepsOK, StepOK, RowTypes, Holds
  <2>4. job[q].inc # i
    BY <1>2, <2>1, <2>2 DEF ClaimInv, ClaimsOK, Procs
  <2>5. QED
    BY <2>1, <2>2, <2>3, <2>4
<1>8. ClaimsOK'
  <2>1. ASSUME NEW q \in Procs, Holds(q)'
        PROVE  decision'[job'[q].inc] = job'[q].act
    BY <1>3, <1>7, <2>1
  <2>2. ~(Holds("bot")' /\ Holds("cli")')
    BY <1>7 DEF Procs
  <2>3. QED
    BY <2>1, <2>2 DEF ClaimsOK
<1>9. RefusedOK'
  <2>1. refused \subseteq Incidents /\ i \notin refused
    BY <1>2 DEF ClaimInv, RowTypes, RefusedOK
  <2>2. ASSUME NEW k \in refused, NEW q \in Procs, Holds(q)'
        PROVE  job'[q].inc # k
    <3>1. Holds(q) /\ job'[q] = job[q]
      BY <1>7, <2>2
    <3>2. QED
      BY <3>1 DEF ClaimInv, RefusedOK
  <2>3. \A q \in Procs : pc'[q] = "relabel" => pc[q] = "relabel" /\ job'[q] = job[q]
    BY <1>1 DEF GivesBack
  <2>4. QED
    BY <1>3, <1>4, <2>1, <2>2, <2>3, RefusedStays
<1>10. AuditsOK'
  <2>1. "fp" \notin samples[i] /\ ("enf" \in samples[i] => i \notin dry)
    <3>1. AuditOK(p) /\ ("fp" \in samples[i] => decision[i] = "fp")
          /\ ("enf" \in samples[i] => decision[i] = "enf" \/ i \notin dry)
      BY <1>2 DEF ClaimInv, AuditsOK, AuditTrue
    <3>2. pc[p] = "release" \/ job[p].act = "enf"
      BY DEF GivesBack, ClaimInv, StepsOK, StepOK
    <3>3. QED
      BY <1>2, <3>1, <3>2 DEF AuditOK, GivesBack
  <2>2. AuditTrue'
    BY <1>3, <1>4, <2>1 DEF ClaimInv, AuditsOK, AuditTrue
  <2>3. AuditOK(p)'
    BY <1>1, <1>4 DEF AuditOK, GivesBack, ClaimInv, AuditsOK
  <2>4. ASSUME NEW q \in Procs \ {p}
        PROVE  AuditOK(q)'
    <3>1. AuditOK(q) /\ pc'[q] = pc[q] /\ job'[q] = job[q]
      BY <1>1 DEF ClaimInv, AuditsOK
    <3>2. pc[q] = "sample" /\ job[q].act = "enf" =>
            decision'[job[q].inc] = "enf" \/ job[q].inc \notin dry
      <4>1. ASSUME pc[q] = "sample", job[q].act = "enf"
            PROVE  p = "cli" /\ job[q].inc \in Incidents /\ (decision[job[q].inc] = "enf" \/ job[q].inc \notin dry)
        BY <3>1, <4>1 DEF AuditOK, ClaimInv, StepsOK, StepOK, RowTypes, Procs
      <4>2. p = "cli" => decision[i] = "confirm"
        BY <1>2 DEF GivesBack, ClaimInv, StepsOK
      <4>3. QED
        BY <1>3, <4>1, <4>2
    <3>3. QED
      BY <1>4, <3>1, <3>2 DEF AuditOK
  <2>5. QED
    BY <2>2, <2>3, <2>4 DEF AuditsOK
<1>11. TokensKept'
  BY <1>4 DEF ClaimInv, TokensKept
<1>12. QED
  BY <1>5, <1>6, <1>8, <1>9, <1>10, <1>11 DEF ClaimInv

LEMMA FinishKeeps ==
  ASSUME ClaimInv, NEW p \in Procs, FinishOverride(p)
  PROVE  ClaimInv'
<1>1. pc[p] = "finish" /\ Goto(p, "idle", job[p]) /\ UNCHANGED <<raised, samples, tokens, histVars>>
  BY DEF FinishOverride
<1>2. CASE UNCHANGED <<decision, dry, unacted>>
  BY <1>1, <1>2, IdleKeeps DEF rowVars
<1>3. CASE /\ decision' = [decision EXCEPT ![job[p].inc] = IF @ = "enf" THEN "" ELSE @]
           /\ dry' \subseteq dry /\ unacted' \subseteq unacted
  <2>1. job[p].act = "enf"
    BY <1>1 DEF ClaimInv, StepsOK, StepOK
  <2>2. decision[job[p].inc] = "enf"
    BY <1>1, <2>1 DEF ClaimInv, ClaimsOK, Holds
  <2>3. decision' = [decision EXCEPT ![job[p].inc] = ""]
    BY <1>3, <2>2
  <2>4. GivesBack(p, "idle")
    BY <1>1, <1>3, <2>3 DEF GivesBack
  <2>5. QED
    BY <2>4, GiveBackKeeps
<1>4. QED
  BY <1>2, <1>3 DEF FinishOverride

LEMMA ReleaseKeeps ==
  ASSUME ClaimInv, NEW p \in Procs, Release(p)
  PROVE  ClaimInv'
<1> DEFINE s == IF pc[p] = "release" THEN "idle" ELSE "sample"
<1>1. pc[p] \in {"release", "release_enforced"} /\ Goto(p, s, job[p])
      /\ UNCHANGED <<raised, dry, unacted, samples, tokens, histVars>>
  BY DEF Release
<1>2. CASE UNCHANGED decision
  <2>1. CASE pc[p] = "release"
    BY <1>1, <1>2, <2>1, IdleKeeps DEF rowVars
  <2>2. CASE pc[p] = "release_enforced"
    <3>1. Moves(p) /\ pc'[p] = "sample" /\ SameJob(p)
      BY <1>1, <2>2, GotoIs DEF ClaimInv, StepsOK, StepOK, PCs, Moves, SameJob
    <3>2. StepOK(p)' /\ AuditOK(p)' /\ (Holds(p)' => Holds(p))
      BY <1>1, <1>2, <2>2, <3>1 DEF ClaimInv, StepsOK, StepOK, AuditsOK, AuditOK, Holds, SameJob
    <3>3. QED
      BY <1>1, <1>2, <2>2, <3>1, <3>2, QuietKeeps DEF rowVars, histVars, CliSteps
  <2>3. QED
    BY <1>1, <2>1, <2>2
<1>3. CASE decision' = [decision EXCEPT ![job[p].inc] = IF @ = job[p].act THEN "" ELSE @]
  <2>1. decision[job[p].inc] = job[p].act
    BY <1>1 DEF ClaimInv, ClaimsOK, Holds
  <2>2. decision' = [decision EXCEPT ![job[p].inc] = ""]
    BY <1>3, <2>1
  <2>3. GivesBack(p, s)
    BY <1>1, <2>2 DEF GivesBack
  <2>4. QED
    BY <2>3, GiveBackKeeps
<1>4. QED
  BY <1>2, <1>3 DEF Release

\* A promoting edit captures its text for an incident which nobody refused: its claim
\* is held.
LEMMA SaveTokensKeeps ==
  ASSUME ClaimInv, NEW p \in Procs, SaveTokens(p)
  PROVE  ClaimInv'
<1> DEFINE i == job[p].inc
<1>1. pc[p] = "save" /\ Goto(p, "finish", job[p])
      /\ UNCHANGED <<rowVars, learned, dropped, refused, overruled>>
  BY DEF SaveTokens
<1>2. Moves(p) /\ pc'[p] = "finish" /\ SameJob(p) /\ job'[p] = job[p]
  BY <1>1, GotoIs DEF ClaimInv, StepsOK, StepOK, PCs, Moves, SameJob
<1>3. /\ p = "bot" /\ Holds(p) /\ job[p] \in Job /\ job[p].learn /\ i \in raised /\ i \in Incidents
      /\ job[p].text \in Texts /\ job[p].act = "enf"
  BY <1>1 DEF ClaimInv, RowTypes, StepsOK, StepOK, CliSteps, Procs, Holds
<1>4. StepOK(p)' /\ AuditOK(p)'
  BY <1>1, <1>2, <1>3 DEF StepOK, AuditOK, AuditsOK, ClaimInv, rowVars
<1>5. CASE UNCHANGED <<tokens, captured>>
  BY <1>1, <1>2, <1>3, <1>4, <1>5, QuietKeeps
<1>6. CASE tokens' = [tokens EXCEPT ![i] = job[p].text] /\ captured' = captured \cup {i}
  <2> USE DEF rowVars, Procs
  <2>1. tokens'[i] \in Texts /\ \A k \in Incidents \ {i} : tokens'[k] = tokens[k]
    BY <1>3, <1>6 DEF ClaimInv, RowTypes
  <2>2. RowTypes'
    BY <1>1, <1>2, <1>3, <1>6 DEF ClaimInv, RowTypes, Moves
  <2>3. StepsOK'
    BY <1>1, <1>2, <1>3, <1>4 DEF ClaimInv, StepsOK, StepOK, Moves
  <2>4. \A q \in Procs : Holds(q)' => Holds(q) /\ job'[q] = job[q]
    BY <1>2, <1>3 DEF Holds, Moves
  <2>5. ClaimsOK'
    BY <1>1, <2>4 DEF ClaimInv, ClaimsOK
  <2>6. RefusedOK'
    <3>1. refused \subseteq Incidents /\ i \notin refused
      BY <1>3 DEF ClaimInv, RowTypes, RefusedOK
    <3>2. \A q \in Procs : pc'[q] = "relabel" => pc[q] = "relabel" /\ job'[q] = job[q]
      BY <1>2 DEF Moves
    <3>3. \A q \in Procs : Holds(q)' => job'[q].inc \notin refused
      BY <2>4 DEF ClaimInv, RefusedOK
    <3>4. QED
      BY <1>1, <2>1, <3>1, <3>2, <3>3, RefusedStays
  <2>7. AuditsOK'
    BY <1>1, <1>2, <1>3, <1>4 DEF ClaimInv, AuditsOK, AuditOK, AuditTrue, Moves
  <2>8. TokensKept'
    <3>1. captured \subseteq Incidents
      BY DEF ClaimInv, RowTypes
    <3>2. QED
      BY <1>1, <1>6, <2>1, <3>1, NoTokensAssumption DEF ClaimInv, TokensKept
  <2>9. QED
    BY <2>2, <2>3, <2>5, <2>6, <2>7, <2>8 DEF ClaimInv
<1>7. QED
  BY <1>5, <1>6 DEF SaveTokens

\* Whoever relied on the incident being unenforced is the one who enforced it.
LEMMA EnforceKeeps ==
  ASSUME ClaimInv, NEW p \in Procs, Enforce(p)
  PROVE  ClaimInv'
<1> DEFINE i == job[p].inc
<1>1. pc[p] = "enforce" /\ UNCHANGED <<raised, unacted, decision, samples, tokens, histVars>>
  BY DEF Enforce
<1>2. /\ p = "bot" /\ Holds(p) /\ job[p] \in Job /\ i \in raised /\ job[p].act = "enf"
      /\ decision[i] = "enf"
  BY <1>1 DEF ClaimInv, ClaimsOK, StepsOK, StepOK, CliSteps, Procs, Holds
<1>3. CASE UNCHANGED dry /\ \E s \in {"release", "sample"} : Goto(p, s, job[p])
  <2>1. PICK s \in {"release", "sample"} : Goto(p, s, job[p])
    BY <1>3
  <2>2. Moves(p) /\ pc'[p] = s /\ SameJob(p) /\ job'[p] = job[p]
    BY <1>2, <2>1, GotoIs DEF ClaimInv, PCs, Moves, SameJob
  <2>3. StepOK(p)' /\ AuditOK(p)'
    BY <1>1, <1>2, <1>3, <2>2 DEF StepOK, StepsOK, AuditOK, AuditsOK, ClaimInv
  <2>4. QED
    BY <1>1, <1>2, <1>3, <2>2, <2>3, QuietKeeps DEF rowVars, histVars
<1>4. CASE dry' = dry \ {i} /\ Goto(p, "release_enforced", job[p])
  <2> USE DEF Procs, histVars
  <2>1. Moves(p) /\ pc'[p] = "release_enforced" /\ SameJob(p) /\ job'[p] = job[p]
    BY <1>2, <1>4, GotoIs DEF ClaimInv, PCs, Moves, SameJob
  <2>2. RowTypes'
    BY <1>1, <1>4, <2>1 DEF ClaimInv, RowTypes, Moves
  <2>3. StepsOK'
    BY <1>1, <1>2, <2>1 DEF ClaimInv, StepsOK, StepOK, Moves
  <2>4. \A q \in Procs : Holds(q)' => Holds(q) /\ job'[q] = job[q]
    BY <1>2, <2>1 DEF Holds, Moves
  <2>5. ClaimsOK'
    BY <1>1, <2>4 DEF ClaimInv, ClaimsOK
  <2>6. RefusedOK'
    <3>1. \A q \in Procs : Holds(q)' => job'[q].inc \notin refused
      BY <2>4 DEF ClaimInv, RefusedOK
    <3>2. \A q \in Procs : pc'[q] = "relabel" => pc[q] = "relabel" /\ job'[q] = job[q]
      BY <2>1 DEF Moves
    <3>3. QED
      BY <1>1, <3>1, <3>2, RefusedStays
  <2>7. AuditsOK'
    BY <1>1, <1>2, <1>4, <2>1 DEF ClaimInv, AuditsOK, AuditOK, AuditTrue, Moves
  <2>8. TokensKept'
    BY <1>1 DEF ClaimInv, TokensKept
  <2>9. QED
    BY <2>2, <2>3, <2>5, <2>6, <2>7, <2>8 DEF ClaimInv
<1>5. QED
  BY <1>3, <1>4 DEF Enforce

\* The audit sample of a False positive is written under its claim, and of an Enforce
\* by the one process that enforces.
LEMMA SampleKeeps ==
  ASSUME ClaimInv, NEW p \in Procs, Sample(p)
  PROVE  ClaimInv'
<1> DEFINE i == job[p].inc
<1>1. pc[p] = "sample" /\ UNCHANGED <<raised, dry, unacted, decision, tokens, histVars>>
  BY DEF Sample
<1>2. job[p] \in Job /\ i \in raised /\ i \in Incidents /\ job[p].act \in Acts
  BY <1>1 DEF ClaimInv, RowTypes, StepsOK, StepOK, Job
<1>3. CASE UNCHANGED samples /\ Goto(p, "idle", job[p])
  BY <1>1, <1>3, IdleKeeps DEF rowVars
<1>4. CASE UNCHANGED samples /\ job[p].act = "confirm" /\ job[p].own /\ Goto(p, "release", job[p])
  <2>1. Moves(p) /\ pc'[p] = "release" /\ SameJob(p) /\ job'[p] = job[p]
    BY <1>2, <1>4, GotoIs DEF ClaimInv, PCs, Moves, SameJob
  <2>2. StepOK(p)' /\ AuditOK(p)' /\ Holds(p)
    BY <1>1, <1>2, <1>4, <2>1 DEF StepOK, StepsOK, AuditOK, ClaimInv, Holds
  <2>3. QED
    BY <1>1, <1>4, <2>1, <2>2, QuietKeeps DEF rowVars, histVars, CliSteps
<1>5. CASE /\ samples' = [samples EXCEPT ![i] = @ \cup {job[p].act}]
           /\ Goto(p, IF job[p].learn THEN "read" ELSE "refuse", job[p])
  <2> USE DEF Procs, histVars
  <2>1. samples'[i] = samples[i] \cup {job[p].act} /\ \A k \in Incidents \ {i} : samples'[k] = samples[k]
    BY <1>2, <1>5 DEF ClaimInv, RowTypes
  <2>2. PICK s \in {"read", "refuse"} : Goto(p, s, job[p]) /\ (s = "refuse" => ~job[p].learn)
    BY <1>5
  <2>3. Moves(p) /\ pc'[p] = s /\ job'[p] = job[p]
    BY <1>2, <2>2, GotoIs DEF ClaimInv, PCs, Moves, SameJob
  <2>4. RowTypes'
    <3>1. samples' \in [Incidents -> SUBSET Acts] /\ \A k \in Incidents \ raised : samples'[k] = {}
      BY <1>2, <1>5, <2>1 DEF ClaimInv, RowTypes
    <3>2. QED
      BY <1>1, <2>3, <3>1 DEF ClaimInv, RowTypes, Moves
  <2>5. StepsOK'
    <3>1. StepOK(p)'
      BY <1>1, <1>2, <2>1, <2>2, <2>3 DEF ClaimInv, StepsOK, StepOK
    <3>2. ASSUME NEW q \in Procs \ {p}
          PROVE  StepOK(q)'
      <4>1. StepOK(q) /\ pc'[q] = pc[q] /\ job'[q] = job[q]
        BY <2>3 DEF ClaimInv, StepsOK, Moves
      <4>2. \A k \in Incidents : samples[k] \subseteq samples'[k]
        BY <2>1
      <4>3. raised \subseteq Incidents
        BY DEF ClaimInv, RowTypes
      <4>4. QED
        BY <1>1, <4>1, <4>2, <4>3 DEF StepOK
    <3>3. QED
      BY <1>1, <2>2, <2>3, <3>1, <3>2 DEF ClaimInv, StepsOK, Moves, CliSteps
  <2>6. \A q \in Procs : Holds(q)' => Holds(q) /\ job'[q] = job[q]
    BY <1>1, <2>3 DEF Holds, Moves
  <2>7. ClaimsOK'
    BY <1>1, <2>6 DEF ClaimInv, ClaimsOK
  <2>8. RefusedOK'
    <3>1. \A q \in Procs : Holds(q)' => job'[q].inc \notin refused
      BY <2>6 DEF ClaimInv, RefusedOK
    <3>2. \A q \in Procs : pc'[q] = "relabel" => pc[q] = "relabel" /\ job'[q] = job[q]
      BY <2>3 DEF Moves
    <3>3. refused \subseteq Incidents
      BY DEF ClaimInv, RowTypes
    <3>4. QED
      BY <1>1, <2>1, <3>1, <3>2, <3>3, RefusedStays
  <2>9. AuditsOK'
    <3>1. /\ job[p].act = "fp" => Holds(p) /\ decision[i] = "fp"
          /\ job[p].act = "enf" => decision[i] = "enf" \/ i \notin dry
      BY <1>1 DEF ClaimInv, ClaimsOK, AuditsOK, AuditOK, Holds
    <3>2. AuditTrue'
      BY <1>1, <2>1, <3>1 DEF ClaimInv, AuditsOK, AuditTrue
    <3>3. AuditOK(p)'
      BY <2>3 DEF AuditOK
    <3>4. ASSUME NEW q \in Procs \ {p}
          PROVE  AuditOK(q)'
      <4>1. AuditOK(q) /\ pc'[q] = pc[q] /\ job'[q] = job[q]
        BY <2>3 DEF ClaimInv, AuditsOK, Moves
      <4>2. pc[q] # "idle" => job[q].inc \in Incidents
        BY DEF ClaimInv, RowTypes, StepsOK, StepOK
      <4>3. Holds(q) /\ job[p].act = "fp" => job[q].inc # i
        BY <3>1 DEF ClaimInv, ClaimsOK
      <4>4. pc[q] # "idle" /\ job[q].act = "enf" => job[p].act = "confirm"
        BY <1>1 DEF ClaimInv, StepsOK
      <4>5. pc[q] \in {"check", "undo", "release"} /\ job[q].act = "fp" => "fp" \notin samples'[job[q].inc]
        BY <2>1, <4>1, <4>2, <4>3 DEF AuditOK, Holds
      <4>6. pc[q] # "idle" /\ job[q].act = "enf" => ("enf" \in samples'[job[q].inc] => "enf" \in samples[job[q].inc])
        BY <2>1, <4>2, <4>4
      <4>7. QED
        BY <1>1, <4>1, <4>5, <4>6 DEF AuditOK
    <3>5. QED
      BY <3>2, <3>3, <3>4 DEF AuditsOK
  <2>10. QED
    BY <1>1, <2>4, <2>5, <2>7, <2>8, <2>9 DEF ClaimInv, TokensKept
<1>6. QED
  BY <1>3, <1>4, <1>5 DEF Sample

-----------------------------------------------------------------------------
(* The invariant holds. *)

LEMMA InitInv ==
  ASSUME Init
  PROVE  LearnInv
<1>1. CountsMatch
  <2>1. ASSUME NEW l \in Labels
        PROVE  /\ {t \in Texts : l \in corpus[t]} = {} /\ {t \in Texts : l \in imported[t]} = {}
               /\ docs[l] = 0
    BY DEF Init
  <2>2. Cardinality({}) = 0
    BY FS_EmptySet, Zenon
  <2>3. QED
    BY <2>1, <2>2 DEF CountsMatch
<1>2. CorpusOK
  BY <1>1 DEF Init, CorpusOK
<1>3. RowTypes
  BY DEF Init, RowTypes, PCs
<1>4. \A p \in Procs : pc[p] = "idle" /\ ~Holds(p)
  BY DEF Init, Holds
<1>5. StepsOK
  BY <1>4 DEF StepsOK, StepOK, CliSteps, Procs
<1>6. ClaimsOK
  BY <1>4 DEF ClaimsOK, Procs
<1>7. RefusedOK /\ TokensKept
  BY DEF Init, RefusedOK, RefusalHolds, TokensKept
<1>8. AuditsOK
  BY <1>4 DEF Init, AuditsOK, AuditTrue, AuditOK
<1>9. QED
  BY <1>2, <1>3, <1>5, <1>6, <1>7, <1>8 DEF LearnInv, ClaimInv

LEMMA ClaimStep ==
  ASSUME ClaimInv, Next
  PROVE  ClaimInv'
<1>1. CASE \E i \in Incidents, t \in Texts \cup {NoTokens} : Raise(i, t) \/ TakeOver(i, t)
  BY <1>1, RaiseKeeps, TakeOverKeeps
<1>2. CASE \E i \in Incidents, a \in Acts : Press(i, a)
  BY <1>2, PressKeeps
<1>3. CASE \E i \in Incidents, l \in BOOLEAN : CliDecide(i, l)
  BY <1>3, CliDecideKeeps
<1>4. CASE \E i \in Incidents : Prune(i)
  BY <1>4, BesideKeeps DEF Prune
<1>5. CASE \E t \in Texts, l \in Labels : Command(t, l) \/ Import(t, l)
  BY <1>5, BesideKeeps DEF Command, Import, histVars
<1>6. CASE \E p \in Procs : SaveTokens(p) \/ FinishOverride(p) \/ CheckCard(p) \/ Undo(p) \/ Enforce(p)
  BY <1>6, SaveTokensKeeps, FinishKeeps, CheckCardKeeps, UndoKeeps, EnforceKeeps
<1>7. CASE \E p \in Procs : Release(p) \/ Sample(p) \/ ReadTokens(p) \/ Train(p) \/ ForgetTokens(p)
  BY <1>7, ReleaseKeeps, SampleKeeps, ReadTokensKeeps, TrainKeeps, ForgetKeeps
<1>8. CASE \E p \in Procs : Refuse(p) \/ Crash(p)
  BY <1>8, RefuseKeeps, IdleKeeps DEF Crash
<1>9. QED
  BY <1>1, <1>2, <1>3, <1>4, <1>5, <1>6, <1>7, <1>8 DEF Next

\* The corpus changes by a relabelling or an import, and by nothing else.
LEMMA CorpusStep ==
  ASSUME CorpusOK, ClaimInv, Next
  PROVE  CorpusOK'
<1>1. CASE \E t \in Texts, l \in Labels : Relabel(t, l)
  BY <1>1, RelabelCorpus
<1>2. CASE \E t \in Texts, l \in Labels : Import(t, l)
  BY <1>2, ImportCorpus
<1>3. CASE UNCHANGED corpusVars
  BY <1>3, CorpusStays
<1>4. ASSUME NEW p \in Procs, Train(p)
      PROVE  UNCHANGED corpusVars \/ \E t \in Texts, l \in Labels : Relabel(t, l)
  <2>1. job[p].text \in Texts /\ LabelOf(job[p].act) \in Labels
    BY <1>4 DEF Train, ClaimInv, StepsOK, StepOK, LabelOf, Labels
  <2>2. QED
    BY <1>4, <2>1 DEF Train
<1>5. ASSUME NEW i \in Incidents
      PROVE  /\ \A t : Raise(i, t) \/ TakeOver(i, t) => UNCHANGED corpusVars
             /\ \A a : Press(i, a) \/ CliDecide(i, a) => UNCHANGED corpusVars
             /\ Prune(i) => UNCHANGED corpusVars
  BY DEF Raise, TakeOver, Press, CliDecide, Prune
<1>6. ASSUME NEW p \in Procs
      PROVE  SaveTokens(p) \/ FinishOverride(p) \/ CheckCard(p) \/ Undo(p) \/ Enforce(p)
               \/ Release(p) \/ Sample(p) \/ ReadTokens(p) \/ ForgetTokens(p) \/ Refuse(p) \/ Crash(p)
             => UNCHANGED corpusVars
  BY DEF SaveTokens, FinishOverride, CheckCard, Undo, Enforce, Release, Sample, ReadTokens, ForgetTokens,
         Refuse, Crash
<1>7. \A t \in Texts, l \in Labels : Command(t, l) => Relabel(t, l)
  BY DEF Command
<1>8. QED
  BY <1>1, <1>2, <1>3, <1>4, <1>5, <1>6, <1>7 DEF Next

\* The corpus and claim invariants of the learning store hold for every set of
\* incidents and texts, over any interleaving of the bot, the decide CLI, the prune
\* and imports, with any number of crashes and failed transactions.
THEOREM LearningInvariant == Spec => []LearnInv
<1>1. Init => LearnInv
  BY InitInv
<1>2. LearnInv /\ [Next]_vars => LearnInv'
  <2>1. ASSUME LearnInv, Next
        PROVE  LearnInv'
    BY <2>1, ClaimStep, CorpusStep DEF LearnInv
  <2>2. ASSUME LearnInv, UNCHANGED vars
        PROVE  LearnInv'
    <3>1. CorpusOK'
      BY <2>2, CorpusStays DEF LearnInv, vars
    <3>2. ClaimInv'
      BY <2>2, BesideKeeps DEF LearnInv, vars, histVars
    <3>3. QED
      BY <3>1, <3>2 DEF LearnInv
  <2>3. QED
    BY <2>1, <2>2
<1>3. QED
  BY <1>1, <1>2, PTL DEF Spec

\* bayes_totals.docs equals the number of recorded samples of each label, whatever
\* buttons, commands, the CLI and imports did to them: RelabelSampleWithOrigin and
\* RecordSample move a sample and its counts in one transaction.
THEOREM TotalsCount == Spec => []CountsMatch
<1>1. LearnInv => CountsMatch
  BY DEF LearnInv, CorpusOK
<1>2. QED
  BY <1>1, LearningInvariant, PTL

\* No token list is ever recorded as spam and as ham: each correction removes the
\* label it replaces, whoever set that one.
THEOREM LabelsExclude == Spec => []OneLabelPerText
<1>1. ASSUME LearnInv, NEW t \in Texts
      PROVE  Cardinality(corpus[t]) <= 1
  <2>1. corpus[t] = {} \/ corpus[t] = {"spam"} \/ corpus[t] = {"ham"}
    BY <1>1 DEF LearnInv, CorpusOK, Labels
  <2>2. Cardinality({}) = 0 /\ Cardinality({"spam"}) = 1 /\ Cardinality({"ham"}) = 1
    BY FS_EmptySet, FS_Singleton, Zenon
  <2>3. QED
    BY <2>1, <2>2
<1>2. LearnInv => OneLabelPerText
  BY <1>1 DEF OneLabelPerText
<1>3. QED
  BY <1>2, LearningInvariant, PTL

\* The audit samples describe decisions that took effect: a claim that Handler.dispatch
\* or the CLI gives back has left no sample that rested on it.
THEOREM AuditHolds == Spec => []AuditTrue
<1>1. LearnInv => AuditTrue
  BY DEF LearnInv, ClaimInv, AuditsOK
<1>2. QED
  BY <1>1, LearningInvariant, PTL

\* trainIncident and the promoting edit never lose captured tokens that were neither
\* learned nor dropped on purpose, however the process was interrupted.
THEOREM TokensSurvive == Spec => []TokensKept
<1>1. LearnInv => TokensKept
  BY DEF LearnInv, ClaimInv
<1>2. QED
  BY <1>1, LearningInvariant, PTL

\* Once decide -no-train has claimed and completed an incident its tokens are gone from
\* the store and stay gone, and the only process that can still learn them is the chat
\* worker in an Enforce press that had read them before: the claim the run leaves behind
\* keeps every other button, later run and promoting edit out.
THEOREM NoTrainStays == Spec => []RefusalHolds
<1>1. LearnInv => RefusalHolds
  BY DEF LearnInv, ClaimInv, RefusedOK
<1>2. QED
  BY <1>1, LearningInvariant, PTL

=============================================================================
