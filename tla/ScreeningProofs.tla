--------------------------- MODULE ScreeningProofs ---------------------------
(***************************************************************************)
(* Theorems about Screening, for any accounts, messages, configs, windows, *)
(* thresholds and LLM providers: an administrator is immune, an incident   *)
(* is what the operator and the providers allow, trust is earned by        *)
(* distinct messages, and a flood is noticed across an outage.             *)
(*                                                                         *)
(* The message in hand, the trust counter and the windows are argued apart *)
(* (JobInv, TrustOK, WindowInv); each needs only the types of the others.  *)
(***************************************************************************)
EXTENDS Screening, FiniteSetTheorems, WellFoundedInduction, TLAPS

-----------------------------------------------------------------------------
(* The inductive invariant. *)

PCs == {"idle", "lookup", "judge", "poll", "wait", "review", "linked", "settle", "gate", "handle"}
JobType == [pc : PCs, parts : Seq(Message), edited : BOOLEAN, cfg : Configs, admins : SUBSET Users,
            verdict : Verdicts, dry : BOOLEAN, admin : BOOLEAN, cfgs : SUBSET Configs, open : BOOLEAN]
VoteType == [Providers -> Answers \cup {"none"}]
OneAuthor(parts) == parts # <<>> /\ \A i \in DOMAIN parts : parts[i].account = parts[1].account

JobTypes ==
  /\ job \in JobType /\ (job.pc # "idle" => OneAuthor(job.parts))
  /\ cfg \in Configs /\ row \in Rows /\ votes \in VoteType /\ got \in VoteType

\* Somebody who stayed an administrator is past the gate only on the way to being let be.
ImmuneOK == job.admin => job.pc \in {"lookup", "review", "settle"} /\ job.parts[1].account \in roster \ untold

\* A chat that is enabled now was enabled when the message was taken up.
OpenOK ==
  /\ job.pc # "idle" => job.cfg \in job.cfgs /\ (job.open \/ (row.found /\ ~row.enabled))
  /\ job.pc = "handle" => job.open
  /\ ~job.dry => /\ job.pc = "handle" /\ job.verdict # "review"
                 /\ ~job.cfg.force /\ (job.cfg.enforce \/ ~(row.found /\ row.dry))

Spam(answers) == {p \in Providers : answers[p] = "spam"}

\* What the worker took from the channel was sent, and there is no vote without voters.
VoteOK ==
  /\ \A p \in Providers : got[p] # "none" => got[p] = votes[p]
  /\ job.pc \in {"poll", "wait"} => Providers # {}
  /\ job.verdict = "llm" => /\ job.pc \in {"linked", "gate", "handle"}
                            /\ Spam(votes) # {} /\ (policy = "all" => Spam(votes) = Providers)

JobInv == JobTypes /\ ImmuneOK /\ OpenOK /\ VoteOK

\* The counter counts the texts it knows, and these were let pass.
TrustOK ==
  /\ trust \in [Accounts -> Nat] /\ known \in [Accounts -> SUBSET STRING] /\ clean \in [Accounts -> SUBSET STRING]
  /\ \A a \in Accounts : /\ IsFiniteSet(clean[a]) /\ known[a] \subseteq clean[a]
                         /\ trust[a] = Cardinality(known[a])

DupType == [id : Nat, text : STRING, age : Nat]
ShortType == [id : Nat, age : Nat]
LogType == [id : Nat, account : Accounts, text : STRING, age : Nat, fate : {"judged", "deferred"},
            short : BOOLEAN, trusted : BOOLEAN]

WindowTypes ==
  /\ dup \in [Accounts -> SUBSET DupType] /\ short \in [Accounts -> SUBSET ShortType]
  /\ log \subseteq LogType /\ handled \in Nat
  /\ \A a \in Accounts : IsFiniteSet(dup[a]) /\ IsFiniteSet(short[a])

\* Every entry of the log is of a message of its own, taken up before the one in hand.
NumberOK ==
  /\ \A e \in log : e.id <= handled /\ (job.pc \in {"lookup", "judge"} => e.id < handled)
  /\ \A e, f \in log : e.id = f.id => e = f

\* What was let past the windows or deferred is in them for as long as it counts.
InDup(e) == \E d \in dup[e.account] : d.id = e.id /\ d.text = e.text /\ d.age = e.age
InShort(e) == \E d \in short[e.account] : d.id = e.id /\ d.age = e.age
TracedOK ==
  \A e \in log : /\ DupThreshold > 0 /\ e.age <= DupWindow => InDup(e)
                 /\ e.short /\ e.age <= ShortWindow => InShort(e)

WindowInv == WindowTypes /\ NumberOK /\ TracedOK /\ FloodNoticed

ScreeningInv == JobInv /\ TrustOK /\ WindowInv

-----------------------------------------------------------------------------
(* The judged message. *)

LEMMA LeastIs ==
  ASSUME NEW S, S \subseteq Nat, S # {}
  PROVE  \E x \in S : \A y \in S : x <= y
<1> DEFINE R == OpToRel(<, Nat)
<1>1. IsWellFoundedOn(R, Nat)
  BY NatLessThanWellFounded
<1>2. \A x \in Nat, y \in Nat : x < y => <<x, y>> \in R
  BY DEF OpToRel
<1> HIDE DEF R
<1>3. PICK x \in S : \A y \in S : ~ (<<y, x>> \in R)
  BY <1>1, WFMin
<1>4. ASSUME NEW y \in S PROVE x <= y
  <2>1. x \in Nat /\ y \in Nat
    OBVIOUS
  <2>2. ~(y < x)
    BY <1>2, <1>3, <2>1
  <2>3. QED
    BY <2>1, <2>2
<1>5. QED
  BY <1>4

\* The part that is judged is some part, so the album's author is its author.
LEMMA JudgedIs ==
  ASSUME NEW parts \in Seq(Message), OneAuthor(parts)
  PROVE  /\ Judged(parts).account = parts[1].account /\ Judged(parts).account \in Accounts
         /\ Judged(parts).text \in STRING
<1> DEFINE texted == {i \in DOMAIN parts : parts[i].text # NoText}
           first == IF texted = {} THEN 1 ELSE CHOOSE i \in texted : \A j \in texted : i <= j
<1>1. first \in DOMAIN parts /\ 1 \in DOMAIN parts
  <2>1. texted \subseteq Nat
    OBVIOUS
  <2>2. texted # {} => \E i \in texted : \A j \in texted : i <= j
    BY <2>1, LeastIs
  <2>3. QED
    BY <2>2 DEF OneAuthor
<1> HIDE DEF first
<1>2. parts[first] \in Message /\ parts[first].account = parts[1].account
  BY <1>1 DEF OneAuthor
<1>3. Judged(parts).account = parts[first].account /\ Judged(parts).text = parts[first].text
  <2>1. Judged(parts) = [parts[first] EXCEPT
          !.hits = @ \cup ({"document"} \cap UNION {parts[i].hits : i \in DOMAIN parts}),
          !.media = \E i \in DOMAIN parts : parts[i].media,
          !.keyboard = \E i \in DOMAIN parts : parts[i].keyboard,
          !.viaBot = \E i \in DOMAIN parts : parts[i].viaBot]
    BY DEF Judged, first
  <2>2. QED
    BY <1>2, <2>1 DEF Message
<1>4. QED
  BY <1>2, <1>3 DEF Message

LEMMA MIs ==
  ASSUME JobTypes, job.pc # "idle"
  PROVE  M.account = job.parts[1].account /\ M.account \in Accounts /\ M.text \in STRING
<1>1. job.parts \in Seq(Message) /\ OneAuthor(job.parts)
  BY DEF JobTypes, JobType
<1>2. QED
  BY <1>1, JudgedIs DEF M

-----------------------------------------------------------------------------
(* How the message in hand moves. *)

LEMMA IdleIs ==
  /\ Idle \in JobType /\ Idle.pc = "idle" /\ Idle.verdict = "none"
  /\ Idle.dry = TRUE /\ Idle.admin = FALSE
<1>1. (CHOOSE c \in Configs : TRUE) \in Configs
  BY ConfigsAssumption
<1>2. <<>> \in Seq(Message) /\ {} \in SUBSET Users /\ {} \in SUBSET Configs
  OBVIOUS
<1>3. QED
  BY <1>1, <1>2 DEF Idle, JobType, PCs, Verdicts

\* Only the verdict and the place change.
Moves(v, pc) ==
  /\ job' \in JobType /\ job'.pc = pc /\ job'.verdict = v /\ job'.parts = job.parts
  /\ job'.cfg = job.cfg /\ job'.dry = job.dry /\ job'.admin = job.admin
  /\ job'.cfgs = job.cfgs /\ job'.open = job.open

LEMMA GotoIs ==
  ASSUME job \in JobType, NEW pc \in PCs, Goto(pc)
  PROVE  Moves(job.verdict, pc)
BY DEF Goto, Moves, JobType

LEMMA RuledIs ==
  ASSUME job \in JobType, NEW v \in Verdicts, NEW pc \in PCs, Ruled(v, pc)
  PROVE  Moves(v, pc)
BY DEF Ruled, Moves, JobType

\* A move between the gates of the worker.
LEMMA MoveKeeps ==
  ASSUME JobInv, NEW v, NEW pc \in PCs \ {"idle", "handle"}, Moves(v, pc),
         job.pc \notin {"idle", "handle"}, UNCHANGED <<cfg, row, roster, untold>>,
         job.admin => pc \in {"lookup", "review", "settle"},
         votes' \in VoteType, got' \in VoteType, VoteOK'
  PROVE  JobInv'
<1>1. JobTypes'
  BY DEF JobInv, JobTypes, Moves
<1>2. ImmuneOK'
  BY DEF JobInv, ImmuneOK, Moves
<1>3. OpenOK'
  BY DEF JobInv, OpenOK, Moves
<1>4. QED
  BY <1>1, <1>2, <1>3 DEF JobInv

\* A move that has nothing to do with the vote.
LEMMA CalmVote ==
  ASSUME JobInv, NEW v, NEW pc, Moves(v, pc), UNCHANGED <<votes, got, policy>>,
         pc \in {"poll", "wait"} => Providers # {},
         v = "llm" => job.verdict = "llm" /\ pc \in {"linked", "gate", "handle"}
  PROVE  votes' \in VoteType /\ got' \in VoteType /\ VoteOK'
BY DEF JobInv, JobTypes, VoteOK, Moves, Spam

LEMMA NoVoteIs == NoVote \in VoteType /\ \A p \in Providers : NoVote[p] = "none"
BY DEF NoVote, VoteType

LEMMA DoneKeeps ==
  ASSUME JobInv, Done, UNCHANGED <<cfg, row>>
  PROVE  JobInv'
<1>1. job' = Idle /\ votes' = NoVote /\ got' = NoVote
  BY DEF Done
<1>2. JobTypes'
  BY <1>1, IdleIs, NoVoteIs DEF JobInv, JobTypes
<1>3. ImmuneOK' /\ OpenOK'
  BY <1>1, IdleIs DEF ImmuneOK, OpenOK
<1>4. VoteOK'
  BY <1>1, IdleIs, NoVoteIs DEF VoteOK
<1>5. QED
  BY <1>2, <1>3, <1>4 DEF JobInv

-----------------------------------------------------------------------------
(* The worker's steps. *)

LEMMA TakeJob ==
  ASSUME JobInv, NEW post \in Posts, Take(post)
  PROVE  JobInv'
<1> DEFINE o == ~row.found \/ row.enabled
           a == post.parts[1].account \in roster \ untold
           j == [Idle EXCEPT !.pc = "lookup", !.parts = post.parts, !.edited = post.edited, !.cfg = cfg,
                             !.admin = a, !.cfgs = {cfg}, !.open = o]
<1>1. /\ job' = j /\ RegisterChat(cfg) /\ UNCHANGED <<cfg, roster, untold, votes, got, policy>>
      /\ job.pc = "idle"
  BY DEF Take, llm
<1>2. /\ post.parts \in Seq(Message) /\ OneAuthor(post.parts) /\ post.edited \in BOOLEAN
  BY PostsAssumption DEF OneAuthor
<1>3. o \in BOOLEAN /\ a \in BOOLEAN /\ cfg \in Configs /\ row \in Rows
  BY DEF JobInv, JobTypes
<1>4. a = (post.parts[1].account \in roster \ untold) /\ o = (~row.found \/ row.enabled)
  OBVIOUS
<1> HIDE DEF o, a
<1>5. /\ j \in JobType /\ j.pc = "lookup" /\ j.parts = post.parts /\ j.cfg = cfg /\ j.admin = a
      /\ j.cfgs = {cfg} /\ j.open = o /\ j.dry = TRUE /\ j.verdict = "none"
  BY <1>2, <1>3, IdleIs DEF JobType, PCs
<1> HIDE DEF j
<1>6. row' \in Rows /\ (row.found => row' = row) /\ (~row.found => row'.enabled \/ ~row'.found)
  <2>1. cfg.startDry \in BOOLEAN
    BY <1>3, ConfigsAssumption DEF Config
  <2>2. [enabled |-> TRUE, dry |-> cfg.startDry, found |-> TRUE] \in Rows
    BY <2>1 DEF Rows
  <2>3. row' = row \/ (~row.found /\ row' = [enabled |-> TRUE, dry |-> cfg.startDry, found |-> TRUE])
    BY <1>1 DEF RegisterChat
  <2>4. CASE row' = row
    BY <1>3, <2>4
  <2>5. CASE ~row.found /\ row' = [enabled |-> TRUE, dry |-> cfg.startDry, found |-> TRUE]
    BY <2>2, <2>5
  <2>6. QED
    BY <2>3, <2>4, <2>5
<1>7. JobTypes'
  BY <1>1, <1>2, <1>5, <1>6 DEF JobInv, JobTypes
<1>8. ImmuneOK'
  BY <1>1, <1>4, <1>5 DEF ImmuneOK
<1>9. OpenOK'
  BY <1>1, <1>4, <1>5, <1>6 DEF OpenOK
<1>10. VoteOK'
  BY <1>1, <1>5 DEF JobInv, VoteOK
<1>11. QED
  BY <1>7, <1>8, <1>9, <1>10 DEF JobInv

\* Neither the resolved list nor a stale one lets the gate miss an administrator.
LEMMA LookupJob ==
  ASSUME JobInv, Lookup
  PROVE  JobInv'
<1>1. /\ job.pc = "lookup" /\ UNCHANGED <<cfg, row, roster, untold, policy, votes, got>>
      /\ job \in JobType /\ M.account = job.parts[1].account
  BY MIs DEF Lookup, store, llm, JobInv, JobTypes
<1>2. job.verdict # "llm" /\ (job.admin => M.account \in roster \ untold) /\ job.verdict \in Verdicts
  BY <1>1 DEF JobInv, VoteOK, ImmuneOK, JobType
<1>3. PICK v \in Verdicts, pc \in {"review", "judge", "settle"} :
        Moves(v, pc) /\ v # "llm" /\ (job.admin => pc # "judge")
  <2>1. ASSUME NEW admins \in SUBSET Users, Resolved(admins),
               job' = [job EXCEPT !.admins = admins, !.pc = IF M.account \in admins THEN "review" ELSE "judge"]
        PROVE  \E pc \in {"review", "judge"} : Moves(job.verdict, pc) /\ (job.admin => pc # "judge")
    <3> DEFINE pc == IF M.account \in admins THEN "review" ELSE "judge"
    <3>1. pc \in {"review", "judge"} /\ (job.admin => pc # "judge")
      BY <1>2, <2>1 DEF Resolved
    <3>2. job' = [job EXCEPT !.admins = admins, !.pc = pc]
      BY <2>1
    <3> HIDE DEF pc
    <3>3. Moves(job.verdict, pc)
      BY <1>1, <3>1, <3>2 DEF Moves, JobType, PCs
    <3>4. QED
      BY <3>1, <3>3
  <2>2. CASE Goto("review")
    <3>1. Moves(job.verdict, "review")
      BY <1>1, <2>2, GotoIs DEF PCs
    <3>2. QED
      BY <1>2, <3>1
  <2>3. CASE Ruled("deferred", "settle")
    <3>1. Moves("deferred", "settle") /\ "deferred" \in Verdicts
      BY <1>1, <2>3, RuledIs DEF PCs, Verdicts
    <3>2. QED
      BY <3>1
  <2>4. QED
    BY <1>2, <2>1, <2>2, <2>3 DEF Lookup
<1>4. votes' \in VoteType /\ got' \in VoteType /\ VoteOK'
  BY <1>1, <1>3, CalmVote
<1>5. pc \in PCs \ {"idle", "handle"} /\ (job.admin => pc \in {"lookup", "review", "settle"})
  BY <1>3 DEF PCs
<1>6. QED
  BY <1>1, <1>3, <1>4, <1>5, MoveKeeps

LEMMA JudgeJob ==
  ASSUME JobInv, Judge
  PROVE  JobInv'
<1>1. /\ job.pc = "judge" /\ UNCHANGED <<cfg, row, roster, untold, policy, votes, got>> /\ job \in JobType
  BY DEF Judge, store, llm, JobInv, JobTypes
<1>2. ~job.admin
  BY <1>1 DEF JobInv, ImmuneOK
<1>3. PICK v \in {"none", "hit", "borderline"}, pc \in {"linked", "poll", "review"} :
        Ruled(v, pc) /\ (pc = "poll" => Providers # {})
  <2>1. PICK trusted \in BOOLEAN, score \in Scores :
          LET bayes == IF trusted THEN "none" ELSE Bayes(M, score)
          IN \/ Ruled("hit", "linked")
             \/ Ruled(bayes, CASE bayes = "hit" -> "linked"
                               [] bayes = "borderline" -> "poll"
                               [] OTHER -> "review")
    BY DEF Judge
  <2>2. Bayes(M, score) \in {"none", "hit", "borderline"} /\ (Bayes(M, score) = "borderline" => Providers # {})
    BY DEF Bayes
  <2> DEFINE bayes == IF trusted THEN "none" ELSE Bayes(M, score)
             next == CASE bayes = "hit" -> "linked" [] bayes = "borderline" -> "poll" [] OTHER -> "review"
  <2>3. bayes \in {"none", "hit", "borderline"} /\ next \in {"linked", "poll", "review"}
        /\ (next = "poll" => Providers # {})
    BY <2>2
  <2>4. Ruled("hit", "linked") \/ Ruled(bayes, next)
    BY <2>1
  <2> HIDE DEF bayes, next
  <2>5. QED
    BY <2>3, <2>4
<1>4. Moves(v, pc)
  BY <1>1, <1>3, RuledIs DEF Verdicts, PCs
<1>5. votes' \in VoteType /\ got' \in VoteType /\ VoteOK'
  BY <1>1, <1>3, <1>4, CalmVote
<1>6. pc \in PCs \ {"idle", "handle"}
  BY <1>3 DEF PCs
<1>7. QED
  BY <1>1, <1>2, <1>4, <1>5, <1>6, MoveKeeps

\* A provider answers once, so that what was taken from the channel stays what was sent.
LEMMA AnswerJob ==
  ASSUME JobInv, NEW p \in Providers, Answer(p)
  PROVE  JobInv'
<1>1. /\ job.pc \in {"poll", "wait"} /\ votes[p] = "none" /\ UNCHANGED <<cfg, row, roster, untold, policy, job, got>>
      /\ \E a \in Answers : votes' = [votes EXCEPT ![p] = a]
  BY DEF Answer, store
<1>2. votes' \in VoteType /\ \A q \in Providers : q # p => votes'[q] = votes[q]
  BY <1>1 DEF JobInv, JobTypes, VoteType
<1>3. got[p] = "none"
  BY <1>1 DEF JobInv, VoteOK
<1>4. VoteOK'
  BY <1>1, <1>2, <1>3 DEF JobInv, VoteOK
<1>5. JobTypes' /\ ImmuneOK' /\ OpenOK'
  BY <1>1, <1>2 DEF JobInv, JobTypes, ImmuneOK, OpenOK
<1>6. QED
  BY <1>4, <1>5 DEF JobInv

\* Consensus is reached on answers, and answers are votes: silence never counts as spam.
LEMMA AdjudicatedJob ==
  ASSUME JobInv, job.pc \in {"poll", "wait"}, NEW answers \in VoteType,
         \A q \in Providers : answers[q] # "none" => answers[q] = votes[q],
         Adjudicated(answers), UNCHANGED <<cfg, row, roster, untold, policy>>
  PROVE  JobInv'
<1>1. job \in JobType /\ ~job.admin /\ votes \in VoteType /\ Providers # {}
  BY DEF JobInv, JobTypes, ImmuneOK, VoteOK
<1>2. CASE Consensus(answers) /\ Ruled("llm", "linked") /\ votes' = votes /\ got' = NoVote
  <2>1. Moves("llm", "linked")
    BY <1>1, <1>2, RuledIs DEF Verdicts, PCs
  <2>2. Spam(votes) # {} /\ (policy = "all" => Spam(votes) = Providers)
    BY <1>1, <1>2 DEF Consensus, Spam
  <2>3. got' \in VoteType /\ VoteOK'
    BY <1>2, <2>1, <2>2, NoVoteIs DEF VoteOK, Moves, Spam
  <2>4. QED
    BY <1>1, <1>2, <2>1, <2>3, MoveKeeps DEF PCs
<1>3. CASE Ruled("borderline", "review") /\ votes' = NoVote /\ got' = NoVote
  <2>1. Moves("borderline", "review")
    BY <1>1, <1>3, RuledIs DEF Verdicts, PCs
  <2>2. got' \in VoteType /\ votes' \in VoteType /\ VoteOK'
    BY <1>3, <2>1, NoVoteIs DEF VoteOK, Moves
  <2>3. QED
    BY <1>1, <2>1, <2>2, MoveKeeps DEF PCs
<1>4. QED
  BY <1>2, <1>3 DEF Adjudicated

LEMMA VoteJob ==
  ASSUME JobInv, Poll \/ Wait
  PROVE  JobInv'
<1>1. /\ job.pc \in {"poll", "wait"} /\ UNCHANGED <<cfg, row, roster, untold, policy>>
      /\ job \in JobType /\ ~job.admin /\ votes \in VoteType /\ got \in VoteType /\ job.verdict # "llm"
      /\ Providers # {} /\ \A q \in Providers : got[q] # "none" => got[q] = votes[q]
  BY DEF Poll, Wait, store, JobInv, JobTypes, ImmuneOK, VoteOK
<1>2. ASSUME NEW p \in Providers, Receive(p)
      PROVE  JobInv'
  <2> DEFINE answers == [got EXCEPT ![p] = votes[p]]
  <2>1. answers \in VoteType /\ \A q \in Providers : answers[q] # "none" => answers[q] = votes[q]
    BY <1>1 DEF VoteType
  <2>2. Adjudicated(answers) \/ (got' = answers /\ Goto("poll") /\ votes' = votes)
    BY <1>2 DEF Receive
  <2> HIDE DEF answers
  <2>3. CASE Adjudicated(answers)
    BY <1>1, <2>1, <2>3, AdjudicatedJob
  <2>4. CASE got' = answers /\ Goto("poll") /\ votes' = votes
    <3>1. Moves(job.verdict, "poll")
      BY <1>1, <2>4, GotoIs DEF PCs
    <3>2. VoteOK'
      BY <1>1, <2>1, <2>4, <3>1 DEF VoteOK, Moves
    <3>3. QED
      BY <1>1, <2>1, <2>4, <3>1, <3>2, MoveKeeps DEF PCs
  <2>5. QED
    BY <2>2, <2>3, <2>4
<1>3. CASE Goto("wait") /\ UNCHANGED llm
  <2>1. Moves(job.verdict, "wait")
    BY <1>1, <1>3, GotoIs DEF PCs
  <2>2. votes' \in VoteType /\ got' \in VoteType /\ VoteOK'
    BY <1>1, <1>3, <2>1, CalmVote DEF llm
  <2>3. QED
    BY <1>1, <2>1, <2>2, MoveKeeps DEF PCs
<1>4. CASE Adjudicated(got)
  BY <1>1, <1>4, AdjudicatedJob
<1>5. QED
  BY <1>2, <1>3, <1>4 DEF Poll, Wait

\* ReviewCandidate needs a list of its own that does not name the author.
LEMMA ReviewJob ==
  ASSUME JobInv, Review
  PROVE  JobInv'
<1>1. /\ job.pc = "review" /\ UNCHANGED <<cfg, row, roster, untold, policy, votes, got>>
      /\ job \in JobType /\ M.account = job.parts[1].account /\ job.verdict # "llm"
      /\ job.admin => M.account \in roster \ untold
  BY MIs DEF Review, store, llm, JobInv, JobTypes, VoteOK, ImmuneOK
<1>2. (Ruled("review", "linked") /\ ~job.admin) \/ Goto("settle")
  BY <1>1 DEF Review, Resolved
<1>3. CASE Ruled("review", "linked") /\ ~job.admin
  <2>1. Moves("review", "linked")
    BY <1>1, <1>3, RuledIs DEF Verdicts, PCs
  <2>2. votes' \in VoteType /\ got' \in VoteType /\ VoteOK'
    BY <1>1, <2>1, CalmVote
  <2>3. QED
    BY <1>1, <1>3, <2>1, <2>2, MoveKeeps DEF PCs
<1>4. CASE Goto("settle")
  <2>1. Moves(job.verdict, "settle")
    BY <1>1, <1>4, GotoIs DEF PCs
  <2>2. votes' \in VoteType /\ got' \in VoteType /\ VoteOK'
    BY <1>1, <2>1, CalmVote
  <2>3. QED
    BY <1>1, <2>1, <2>2, MoveKeeps DEF PCs
<1>5. QED
  BY <1>2, <1>3, <1>4

LEMMA LinkedJob ==
  ASSUME JobInv, Linked
  PROVE  JobInv'
<1>1. job.pc = "linked" /\ UNCHANGED <<cfg, row, roster, untold, policy>> /\ job \in JobType /\ ~job.admin
  BY DEF Linked, store, JobInv, JobTypes, ImmuneOK
<1>2. CASE Goto("gate") /\ UNCHANGED llm
  <2>1. Moves(job.verdict, "gate")
    BY <1>1, <1>2, GotoIs DEF PCs
  <2>2. votes' \in VoteType /\ got' \in VoteType /\ VoteOK'
    BY <1>1, <1>2, <2>1, CalmVote DEF llm
  <2>3. QED
    BY <1>1, <2>1, <2>2, MoveKeeps DEF PCs
<1>3. QED
  BY <1>1, <1>2, DoneKeeps DEF Linked

\* The row that the gate reads is enabled, so it was when the message was taken up.
LEMMA GateJob ==
  ASSUME JobInv, Gate
  PROVE  JobInv'
<1>1. /\ job.pc = "gate" /\ UNCHANGED <<cfg, row, roster, untold, policy>> /\ job \in JobType /\ ~job.admin
      /\ row \in Rows /\ job.cfg \in Config /\ OneAuthor(job.parts)
  BY ConfigsAssumption DEF Gate, store, JobInv, JobTypes, ImmuneOK, JobType
<1>2. CASE Done
  BY <1>1, <1>2, DoneKeeps
<1>3. CASE /\ ~row.found \/ row.enabled
           /\ job' = [job EXCEPT !.pc = "handle",
                        !.dry = \/ DryRunFor(job.cfg, IF row.found THEN row.dry ELSE job.cfg.startDry)
                                \/ job.verdict = "review"]
           /\ UNCHANGED llm
  <2> DEFINE d == \/ DryRunFor(job.cfg, IF row.found THEN row.dry ELSE job.cfg.startDry)
                  \/ job.verdict = "review"
  <2>1. d \in BOOLEAN /\ job' = [job EXCEPT !.pc = "handle", !.dry = d]
    BY <1>3
  <2>2. ~d => job.verdict # "review" /\ ~job.cfg.force /\ (job.cfg.enforce \/ ~(row.found /\ row.dry))
    BY DEF DryRunFor
  <2> HIDE DEF d
  <2>3. /\ job' \in JobType /\ job'.pc = "handle" /\ job'.dry = d /\ job'.verdict = job.verdict
        /\ job'.parts = job.parts /\ job'.cfg = job.cfg /\ job'.admin = job.admin
        /\ job'.cfgs = job.cfgs /\ job'.open = job.open
    BY <1>1, <2>1 DEF JobType, PCs
  <2>4. JobTypes' /\ ImmuneOK'
    BY <1>1, <1>3, <2>3 DEF JobInv, JobTypes, ImmuneOK, llm
  <2>5. OpenOK'
    BY <1>1, <1>3, <2>2, <2>3 DEF JobInv, OpenOK
  <2>6. VoteOK'
    BY <1>1, <1>3, <2>3 DEF JobInv, VoteOK, llm, Spam
  <2>7. QED
    BY <2>4, <2>5, <2>6 DEF JobInv
<1>4. QED
  BY <1>2, <1>3 DEF Gate

-----------------------------------------------------------------------------
(* What happens beside the worker. *)

LEMMA ReloadJob ==
  ASSUME JobInv, Reload
  PROVE  JobInv'
<1>1. UNCHANGED <<row, roster, untold, policy, votes, got>>
  BY DEF Reload, store, llm
<1>2. PICK c \in Configs : /\ cfg' = c
                           /\ job' = IF job.pc = "idle" THEN job ELSE [job EXCEPT !.cfgs = @ \cup {c}]
  BY DEF Reload
<1>3. /\ job' \in JobType /\ job'.pc = job.pc /\ job'.dry = job.dry /\ job'.verdict = job.verdict
      /\ job'.parts = job.parts /\ job'.cfg = job.cfg /\ job'.admin = job.admin
      /\ job.cfgs \subseteq job'.cfgs /\ job'.open = job.open
  <2>1. job \in JobType /\ job.cfgs \cup {c} \in SUBSET Configs
    BY DEF JobInv, JobTypes, JobType
  <2>2. QED
    BY <1>2, <2>1 DEF JobType
<1>4. JobTypes' /\ ImmuneOK'
  BY <1>1, <1>2, <1>3 DEF JobInv, JobTypes, ImmuneOK
<1>5. OpenOK'
  BY <1>1, <1>3 DEF JobInv, OpenOK
<1>6. VoteOK'
  BY <1>1, <1>3 DEF JobInv, VoteOK, Spam
<1>7. QED
  BY <1>4, <1>5, <1>6 DEF JobInv

LEMMA DisableJob ==
  ASSUME JobInv, DisableChat
  PROVE  JobInv'
<1>1. UNCHANGED <<cfg, roster, untold, policy, job, votes, got>> /\ row.enabled /\ row' = [row EXCEPT !.enabled = FALSE]
  BY DEF DisableChat, llm
<1>2. row \in Rows /\ row # NoRow
  BY <1>1 DEF JobInv, JobTypes, NoRow
<1>3. row' \in Rows /\ row'.found = TRUE /\ row.found = TRUE /\ row'.enabled = FALSE /\ row'.dry = row.dry
  BY <1>1, <1>2 DEF Rows
<1>4. JobTypes' /\ ImmuneOK' /\ OpenOK'
  BY <1>1, <1>3 DEF JobInv, JobTypes, ImmuneOK, OpenOK
<1>5. VoteOK'
  BY <1>1 DEF JobInv, VoteOK, Spam
<1>6. QED
  BY <1>4, <1>5 DEF JobInv

LEMMA AdminsJob ==
  ASSUME JobInv, ChangeAdmins
  PROVE  JobInv'
<1>1. UNCHANGED <<cfg, row, policy, votes, got>>
  BY DEF ChangeAdmins, store, llm
<1>2. PICK u \in Users :
        /\ roster' = IF u \in roster THEN roster \ {u} ELSE roster \cup {u}
        /\ untold' \in {untold \ {u}, untold \cup {u}}
        /\ job' = [job EXCEPT !.admin = @ /\ job.parts[1].account # u]
  BY DEF ChangeAdmins
<1> DEFINE a == job.admin /\ job.parts[1].account # u
<1>3. a \in BOOLEAN /\ job' = [job EXCEPT !.admin = a] /\ (a => job.admin /\ job.parts[1].account # u)
  BY <1>2
<1> HIDE DEF a
<1>4. /\ job' \in JobType /\ job'.pc = job.pc /\ job'.dry = job.dry /\ job'.verdict = job.verdict
      /\ job'.parts = job.parts /\ job'.cfg = job.cfg /\ job'.admin = a
      /\ job'.cfgs = job.cfgs /\ job'.open = job.open
  BY <1>3 DEF JobInv, JobTypes, JobType
<1>5. JobTypes' /\ OpenOK'
  BY <1>1, <1>2, <1>4 DEF JobInv, JobTypes, OpenOK
<1>6. ImmuneOK'
  BY <1>2, <1>3, <1>4 DEF JobInv, ImmuneOK
<1>7. VoteOK'
  BY <1>1, <1>4 DEF JobInv, VoteOK, Spam
<1>8. QED
  BY <1>5, <1>6, <1>7 DEF JobInv

\* The bot learns of changes it had missed.
LEMMA LearnJob ==
  ASSUME JobInv, LearnAdmins
  PROVE  JobInv'
<1>1. UNCHANGED <<cfg, row, roster, policy, job, votes, got>> /\ untold' = {}
  BY DEF LearnAdmins, store, llm
<1>2. QED
  BY <1>1 DEF JobInv, JobTypes, ImmuneOK, OpenOK, VoteOK, Spam

LEMMA StillJob ==
  ASSUME JobInv, UNCHANGED <<cfg, row, roster, untold, policy, job, votes, got>>
  PROVE  JobInv'
BY DEF JobInv, JobTypes, ImmuneOK, OpenOK, VoteOK, Spam

LEMMA JobStep ==
  ASSUME JobInv, [Next]_vars
  PROVE  JobInv'
<1>1. CASE \E post \in Posts : Take(post)
  BY <1>1, TakeJob
<1>2. CASE Lookup \/ Judge \/ Poll \/ Wait \/ Review \/ Linked \/ Gate
  BY <1>2, LookupJob, JudgeJob, VoteJob, ReviewJob, LinkedJob, GateJob
<1>3. CASE Settle \/ Handle \/ Crash
  BY <1>3, DoneKeeps DEF Settle, Handle, Crash, store
<1>4. CASE \E p \in Providers : Answer(p)
  BY <1>4, AnswerJob
<1>5. CASE Reload \/ DisableChat \/ ChangeAdmins \/ LearnAdmins
  BY <1>5, ReloadJob, DisableJob, AdminsJob, LearnJob
<1>6. CASE Sweep \/ Tick \/ UNCHANGED vars
  BY <1>6, StillJob DEF Sweep, Tick, vars, store, llm
<1>7. QED
  BY <1>1, <1>2, <1>3, <1>4, <1>5, <1>6 DEF Next

-----------------------------------------------------------------------------
(* Trust. *)

\* A message that counts is one that was let pass, and its text is new to the counter.
LEMMA SettleTrust ==
  ASSUME JobTypes, TrustOK, Settle
  PROVE  TrustOK'
<1>1. PICK a \in Accounts, t \in STRING : a = M.account /\ t = M.text /\ a = job.parts[1].account
  BY MIs DEF Settle
<1>2. /\ clean[a] \subseteq STRING /\ IsFiniteSet(clean[a]) /\ known[a] \subseteq clean[a]
      /\ trust[a] \in Nat /\ trust[a] = Cardinality(known[a])
  BY DEF TrustOK
<1>3. IsFiniteSet(known[a]) /\ IsFiniteSet(clean[a] \cup {t})
  BY <1>2, FS_Subset, FS_AddElement
<1>4. /\ clean' \in [Accounts -> SUBSET STRING]
      /\ \A b \in Accounts : IsFiniteSet(clean'[b]) /\ clean[b] \subseteq clean'[b]
  <2>1. clean' = clean \/ clean' = [clean EXCEPT ![a] = clean[a] \cup {t}]
    BY <1>1 DEF Settle
  <2>2. CASE clean' = clean
    BY <2>2 DEF TrustOK
  <2>3. CASE clean' = [clean EXCEPT ![a] = clean[a] \cup {t}]
    <3>1. clean' \in [Accounts -> SUBSET STRING] /\ clean'[a] = clean[a] \cup {t}
          /\ \A b \in Accounts : b # a => clean'[b] = clean[b]
      BY <1>2, <2>3 DEF TrustOK
    <3>2. QED
      BY <1>3, <3>1 DEF TrustOK
  <2>4. QED
    BY <2>1, <2>2, <2>3
<1>5. CASE UNCHANGED <<trust, known>>
  BY <1>4, <1>5 DEF TrustOK
<1>6. CASE EarnsTrust /\ BumpTrustDistinct(a, t, job.cfg.limit) /\ ~UNCHANGED <<trust, known>>
  <2>1. /\ t \notin known[a] /\ trust' = [trust EXCEPT ![a] = @ + 1] /\ known' = [known EXCEPT ![a] = @ \cup {t}]
    BY <1>6 DEF BumpTrustDistinct
  <2>2. clean' = [clean EXCEPT ![a] = @ \cup {t}]
    BY <1>1, <1>6 DEF Settle, EarnsTrust
  <2>3. Cardinality(known[a] \cup {t}) = Cardinality(known[a]) + 1
    BY <1>3, <2>1, FS_AddElement
  <2>4. /\ trust' \in [Accounts -> Nat] /\ known' \in [Accounts -> SUBSET STRING]
        /\ trust'[a] = trust[a] + 1 /\ known'[a] = known[a] \cup {t} /\ clean'[a] = clean[a] \cup {t}
        /\ \A b \in Accounts : b # a => trust'[b] = trust[b] /\ known'[b] = known[b]
    <3>1. known[a] \cup {t} \in SUBSET STRING /\ trust[a] + 1 \in Nat
      <4>1. known[a] \cup {t} \in SUBSET STRING
        BY <1>2, Zenon
      <4>2. trust[a] + 1 \in Nat
        BY <1>2
      <4>3. QED
        BY <4>1, <4>2
    <3>2. trust' \in [Accounts -> Nat] /\ trust'[a] = trust[a] + 1
          /\ \A b \in Accounts : b # a => trust'[b] = trust[b]
      BY <2>1, <3>1 DEF TrustOK
    <3>3. known' \in [Accounts -> SUBSET STRING] /\ known'[a] = known[a] \cup {t}
          /\ \A b \in Accounts : b # a => known'[b] = known[b]
      BY <2>1, <3>1 DEF TrustOK
    <3>4. clean'[a] = clean[a] \cup {t}
      BY <2>2 DEF TrustOK
    <3>5. QED
      BY <3>2, <3>3, <3>4
  <2>5. ASSUME NEW b \in Accounts
        PROVE  known'[b] \subseteq clean'[b] /\ trust'[b] = Cardinality(known'[b])
    <3>1. CASE b = a
      BY <1>2, <2>3, <2>4, <3>1
    <3>2. CASE b # a
      BY <1>4, <2>4, <3>2 DEF TrustOK
    <3>3. QED
      BY <3>1, <3>2
  <2>6. QED
    BY <1>4, <2>4, <2>5 DEF TrustOK
<1>7. QED
  BY <1>1, <1>5, <1>6 DEF Settle

LEMMA TrustStep ==
  ASSUME JobTypes, TrustOK, [Next]_vars
  PROVE  TrustOK'
<1>1. CASE UNCHANGED <<trust, known, clean>>
  BY <1>1 DEF TrustOK
<1>2. ASSUME NEW post \in Posts, Take(post)
      PROVE  UNCHANGED <<trust, known, clean>>
  BY <1>2 DEF Take
<1>3. CASE Lookup \/ Judge \/ Poll \/ Wait \/ Review \/ Linked \/ Gate \/ Handle
  BY <1>1, <1>3 DEF Lookup, Judge, Poll, Wait, Review, Linked, Gate, Handle, store
<1>4. ASSUME NEW p \in Providers, Answer(p)
      PROVE  UNCHANGED <<trust, known, clean>>
  BY <1>4 DEF Answer, store
<1>5. CASE Reload \/ DisableChat \/ ChangeAdmins \/ LearnAdmins \/ Sweep \/ Tick \/ Crash
  BY <1>1, <1>5 DEF Reload, DisableChat, ChangeAdmins, LearnAdmins, Sweep, Tick, Crash, store
<1>6. CASE UNCHANGED vars
  BY <1>1, <1>6 DEF vars, store
<1>7. QED
  BY <1>1, <1>2, <1>3, <1>4, <1>5, <1>6, SettleTrust DEF Next

-----------------------------------------------------------------------------
(* The windows. *)

\* A set that a function of S reaches has no more elements than S.
LEMMA ImageCount ==
  ASSUME NEW S, IsFiniteSet(S), NEW T, NEW f, DOMAIN f = S, f = [x \in S |-> f[x]],
         \A y \in T : \E x \in S : f[x] = y
  PROVE  IsFiniteSet(T) /\ Cardinality(T) <= Cardinality(S)
<1> DEFINE R == {f[x] : x \in S}
<1>1. f \in Surjection(S, R)
  BY DEF Surjection
<1>2. IsFiniteSet(R) /\ Cardinality(R) <= Cardinality(S)
  BY <1>1, FS_Surjection
<1>3. T \in SUBSET R
  OBVIOUS
<1> HIDE DEF R
<1>4. IsFiniteSet(T) /\ Cardinality(T) <= Cardinality(R)
  BY <1>2, <1>3, FS_Subset
<1>5. Cardinality(T) \in Nat /\ Cardinality(R) \in Nat /\ Cardinality(S) \in Nat
  BY <1>2, <1>4, FS_CardinalityType
<1>6. QED
  BY <1>2, <1>4, <1>5

LEMMA Bounds ==
  /\ DupThreshold \in Nat /\ ShortThreshold \in Nat /\ DupWindow \in Nat /\ ShortWindow \in Nat
  /\ SweepMaxAge \in Nat /\ DupWindow <= SweepMaxAge /\ ShortWindow <= SweepMaxAge /\ SweepMaxAge > 0
<1>1. DupThreshold \in Nat /\ ShortThreshold \in Nat /\ DupWindow \in Nat /\ ShortWindow \in Nat
  BY ScreeningBounds
<1>2. QED
  BY <1>1 DEF SweepMaxAge

\* What counts against an entry of the log L.
Back(L, e) == {b \in L : b.account = e.account /\ b.id <= e.id}
Copies(L, e) == {b \in Back(L, e) : b.text = e.text /\ b.age <= DupWindow}
Shorts(L, e) == {b \in Back(L, e) : b.short /\ b.age <= ShortWindow}
Noticed(L, e) ==
  /\ DupThreshold > 0 => Cardinality(Copies(L, e)) < DupThreshold
  /\ e.short /\ ~e.trusted => Cardinality(Shorts(L, e)) < ShortThreshold

LEMMA FloodIs == FloodNoticed <=> \A e \in log : e.fate = "judged" /\ e.age = 0 => Noticed(log, e)
BY DEF FloodNoticed, Noticed, Copies, Shorts, Back

\* A window forgets nothing that still counts.
WindowsKeep ==
  /\ dup' \in [Accounts -> SUBSET DupType] /\ short' \in [Accounts -> SUBSET ShortType]
  /\ \A a \in Accounts : /\ IsFiniteSet(dup'[a]) /\ IsFiniteSet(short'[a])
                         /\ \A d \in dup[a] : d.age <= DupWindow => d \in dup'[a]
                         /\ \A d \in short[a] : d.age <= ShortWindow => d \in short'[a]

LEMMA PruneFinite ==
  ASSUME NEW S, IsFiniteSet(S), NEW w
  PROVE  IsFiniteSet(Prune(S, w))
<1>1. Prune(S, w) \in SUBSET S
  BY DEF Prune
<1>2. QED
  BY <1>1, FS_Subset

LEMMA RecordedDup ==
  ASSUME WindowInv, NEW m, m.account \in Accounts, m.text \in STRING, RecordAndCountDup(m)
  PROVE  /\ dup' \in [Accounts -> SUBSET DupType]
         /\ \A a \in Accounts : IsFiniteSet(dup'[a]) /\ \A d \in dup[a] : d.age <= DupWindow => d \in dup'[a]
         /\ DupEligible(m) => dup'[m.account] = WithDup(m)
         /\ IsFiniteSet(WithDup(m))
<1> DEFINE n == [id |-> handled, text |-> m.text, age |-> 0]
<1>1. /\ dup \in [Accounts -> SUBSET DupType] /\ handled \in Nat
      /\ \A a \in Accounts : IsFiniteSet(dup[a])
  BY DEF WindowInv, WindowTypes
<1>2. n \in DupType /\ WithDup(m) = Prune(dup[m.account], DupWindow) \cup {n}
  BY <1>1 DEF WithDup, DupType
<1> HIDE DEF n
<1>3. WithDup(m) \in SUBSET DupType /\ \A d \in dup[m.account] : d.age <= DupWindow => d \in WithDup(m)
  BY <1>1, <1>2 DEF Prune
<1>4. IsFiniteSet(WithDup(m))
  <2>1. IsFiniteSet(Prune(dup[m.account], DupWindow))
    BY <1>1, PruneFinite
  <2>2. IsFiniteSet(Prune(dup[m.account], DupWindow) \cup {n})
    BY <2>1, FS_AddElement
  <2>3. QED
    BY <1>2, <2>2, Zenon
<1>5. CASE DupEligible(m) /\ dup' = [dup EXCEPT ![m.account] = WithDup(m)]
  <2>1. /\ dup' \in [Accounts -> SUBSET DupType] /\ dup'[m.account] = WithDup(m)
        /\ \A a \in Accounts : a # m.account => dup'[a] = dup[a]
    BY <1>1, <1>3, <1>5
  <2>2. QED
    BY <1>1, <1>3, <1>4, <2>1
<1>6. CASE ~DupEligible(m) /\ dup' = dup
  BY <1>1, <1>4, <1>6
<1>7. QED
  BY <1>5, <1>6 DEF RecordAndCountDup

LEMMA RecordedShort ==
  ASSUME WindowInv, NEW m, m.account \in Accounts, RecentShortCount(m)
  PROVE  /\ short' \in [Accounts -> SUBSET ShortType]
         /\ \A a \in Accounts : IsFiniteSet(short'[a]) /\ \A d \in short[a] : d.age <= ShortWindow => d \in short'[a]
         /\ ShortFloodEligible(m) => short'[m.account] = WithShort(m)
         /\ IsFiniteSet(WithShort(m))
<1> DEFINE n == [id |-> handled, age |-> 0]
<1>1. /\ short \in [Accounts -> SUBSET ShortType] /\ handled \in Nat
      /\ \A a \in Accounts : IsFiniteSet(short[a])
  BY DEF WindowInv, WindowTypes
<1>2. n \in ShortType /\ WithShort(m) = Prune(short[m.account], ShortWindow) \cup {n}
  BY <1>1 DEF WithShort, ShortType
<1> HIDE DEF n
<1>3. WithShort(m) \in SUBSET ShortType /\ \A d \in short[m.account] : d.age <= ShortWindow => d \in WithShort(m)
  BY <1>1, <1>2 DEF Prune
<1>4. IsFiniteSet(WithShort(m))
  <2>1. IsFiniteSet(Prune(short[m.account], ShortWindow))
    BY <1>1, PruneFinite
  <2>2. IsFiniteSet(Prune(short[m.account], ShortWindow) \cup {n})
    BY <2>1, FS_AddElement
  <2>3. QED
    BY <1>2, <2>2, Zenon
<1>5. CASE ShortFloodEligible(m) /\ short' = [short EXCEPT ![m.account] = WithShort(m)]
  <2>1. /\ short' \in [Accounts -> SUBSET ShortType] /\ short'[m.account] = WithShort(m)
        /\ \A a \in Accounts : a # m.account => short'[a] = short[a]
    BY <1>1, <1>3, <1>5
  <2>2. QED
    BY <1>1, <1>3, <1>4, <2>1
<1>6. CASE ~ShortFloodEligible(m) /\ short' = short
  BY <1>1, <1>4, <1>6
<1>7. QED
  BY <1>5, <1>6 DEF RecentShortCount

\* The windows change, the log does not.
LEMMA QuietWindow ==
  ASSUME WindowInv, WindowsKeep, UNCHANGED <<log, handled>>,
         job'.pc \in {"lookup", "judge"} => job.pc \in {"lookup", "judge"}
  PROVE  WindowInv'
<1>1. WindowTypes'
  BY DEF WindowInv, WindowTypes, WindowsKeep
<1>2. NumberOK'
  BY DEF WindowInv, NumberOK
<1>3. TracedOK'
  <2> SUFFICES ASSUME NEW e \in log
               PROVE  /\ DupThreshold > 0 /\ e.age <= DupWindow => InDup(e)'
                      /\ e.short /\ e.age <= ShortWindow => InShort(e)'
    BY DEF TracedOK
  <2>1. e.account \in Accounts
    BY DEF WindowInv, WindowTypes, LogType
  <2>2. DupThreshold > 0 /\ e.age <= DupWindow => InDup(e)'
    BY <2>1 DEF WindowInv, TracedOK, InDup, WindowsKeep
  <2>3. e.short /\ e.age <= ShortWindow => InShort(e)'
    BY <2>1 DEF WindowInv, TracedOK, InShort, WindowsKeep
  <2>4. QED
    BY <2>2, <2>3
<1>4. FloodNoticed'
  BY DEF WindowInv, FloodNoticed
<1>5. QED
  BY <1>1, <1>2, <1>3, <1>4 DEF WindowInv

LEMMA StillWindow ==
  ASSUME WindowInv, UNCHANGED <<dup, short, log, handled>>,
         job'.pc \in {"lookup", "judge"} => job.pc \in {"lookup", "judge"}
  PROVE  WindowInv'
<1>1. WindowsKeep
  BY DEF WindowInv, WindowTypes, WindowsKeep
<1>2. QED
  BY <1>1, QuietWindow

\* Entries of a log that each have their number in a finite set of events are no more
\* than the events.
LEMMA Numbered ==
  ASSUME NEW B, NEW D, IsFiniteSet(D), \A b \in B : \E d \in D : d.id = b.id,
         \A b, c \in B : b.id = c.id => b = c
  PROVE  Cardinality(B) \in Nat /\ Cardinality(D) \in Nat /\ Cardinality(B) <= Cardinality(D)
<1> DEFINE f == [d \in D |-> CHOOSE b \in B : b.id = d.id]
<1>1. \A b \in B : \E d \in D : f[d] = b
  OBVIOUS
<1>2. DOMAIN f = D /\ f = [d \in D |-> f[d]]
  OBVIOUS
<1> HIDE DEF f
<1>3. IsFiniteSet(B) /\ Cardinality(B) <= Cardinality(D)
  BY <1>1, <1>2, ImageCount
<1>4. QED
  BY <1>3, FS_CardinalityType

\* A message is recorded and goes on, so that an entry is made for it.
Logs(m, e) ==
  /\ m.account \in Accounts /\ m.text \in STRING /\ RecordAndCountDup(m) /\ RecentShortCount(m)
  /\ DupEligible(m) \/ ShortFloodEligible(m)
  /\ e \in LogType /\ e.id = handled /\ e.account = m.account /\ e.text = m.text /\ e.age = 0
  /\ e.short = ShortFloodEligible(m) /\ log' = log \cup {e} /\ UNCHANGED handled
  /\ e.fate = "judged" => /\ DupEligible(m) => DupCount(m) < DupThreshold
                          /\ e.short /\ ~e.trusted => Cardinality(WithShort(m)) < ShortThreshold

LEMMA LogsWindow ==
  ASSUME WindowInv, NEW m, NEW e, Logs(m, e), job.pc \in {"lookup", "judge"}, job'.pc \notin {"lookup", "judge"}
  PROVE  WindowInv'
<1>1. /\ e \in LogType /\ e.id = handled /\ e.account = m.account /\ e.text = m.text /\ e.age = 0
      /\ e.short = ShortFloodEligible(m) /\ log' = log \cup {e} /\ handled' = handled
      /\ m.account \in Accounts /\ m.text \in STRING /\ handled \in Nat /\ log \subseteq LogType
  BY DEF Logs, WindowInv, WindowTypes
<1>2. /\ dup' \in [Accounts -> SUBSET DupType]
      /\ \A a \in Accounts : IsFiniteSet(dup'[a]) /\ \A d \in dup[a] : d.age <= DupWindow => d \in dup'[a]
      /\ DupEligible(m) => dup'[m.account] = WithDup(m)
      /\ IsFiniteSet(WithDup(m))
  BY RecordedDup DEF Logs
<1>3. /\ short' \in [Accounts -> SUBSET ShortType]
      /\ \A a \in Accounts : IsFiniteSet(short'[a]) /\ \A d \in short[a] : d.age <= ShortWindow => d \in short'[a]
      /\ ShortFloodEligible(m) => short'[m.account] = WithShort(m)
      /\ IsFiniteSet(WithShort(m))
  BY RecordedShort DEF Logs
<1>4. DupThreshold > 0 => DupEligible(m)
  BY DEF Logs, DupEligible, ShortFloodEligible
<1>5. WindowTypes'
  BY <1>1, <1>2, <1>3 DEF WindowTypes
<1>6. \A b \in log : b.id < handled /\ b.id \in Nat /\ b.account \in Accounts
  BY <1>1 DEF WindowInv, NumberOK, LogType
<1>7. NumberOK'
  <2>1. \A b \in log' : b.id <= handled'
    BY <1>1, <1>6
  <2>2. \A b, c \in log' : b.id = c.id => b = c
    BY <1>1, <1>6 DEF WindowInv, NumberOK
  <2>3. QED
    BY <2>1, <2>2 DEF NumberOK
<1>8. TracedOK'
  <2>1. ASSUME NEW b \in log
        PROVE  /\ DupThreshold > 0 /\ b.age <= DupWindow => InDup(b)'
               /\ b.short /\ b.age <= ShortWindow => InShort(b)'
    <3>1. b.account \in Accounts
      BY <1>6
    <3>2. DupThreshold > 0 /\ b.age <= DupWindow => InDup(b)'
      BY <1>2, <3>1 DEF WindowInv, TracedOK, InDup
    <3>3. b.short /\ b.age <= ShortWindow => InShort(b)'
      BY <1>3, <3>1 DEF WindowInv, TracedOK, InShort
    <3>4. QED
      BY <3>2, <3>3
  <2>2. DupThreshold > 0 => InDup(e)'
    <3> DEFINE d == [id |-> handled, text |-> m.text, age |-> 0]
    <3>1. d \in WithDup(m)
      BY DEF WithDup
    <3>2. d.id = e.id /\ d.text = e.text /\ d.age = e.age
      BY <1>1
    <3> HIDE DEF d
    <3>3. QED
      BY <1>1, <1>2, <1>4, <3>1, <3>2 DEF InDup
  <2>3. e.short => InShort(e)'
    <3> DEFINE d == [id |-> handled, age |-> 0]
    <3>1. d \in WithShort(m)
      BY DEF WithShort
    <3>2. d.id = e.id /\ d.age = e.age
      BY <1>1
    <3> HIDE DEF d
    <3>3. QED
      BY <1>1, <1>3, <3>1, <3>2 DEF InShort
  <2>4. QED
    BY <1>1, <2>1, <2>2, <2>3 DEF TracedOK
<1>9. ASSUME NEW b \in log, b.fate = "judged", b.age = 0
      PROVE  Noticed(log', b)
  <2>1. Noticed(log, b)
    BY <1>9, FloodIs DEF WindowInv
  <2>2. Back(log', b) = Back(log, b)
    BY <1>1, <1>6 DEF Back
  <2>3. QED
    BY <2>1, <2>2 DEF Noticed, Copies, Shorts
<1>10. ASSUME e.fate = "judged"
       PROVE  Noticed(log', e)
  <2>1. \A b, c \in log' : b.id = c.id => b = c
    BY <1>7 DEF NumberOK
  <2>2. ASSUME DupThreshold > 0
        PROVE  Cardinality(Copies(log', e)) < DupThreshold
    <3> DEFINE D == {d \in WithDup(m) : d.text = m.text}
               B == Copies(log', e)
    <3>1. IsFiniteSet(D)
      <4>1. D \in SUBSET WithDup(m)
        OBVIOUS
      <4>2. QED
        BY <1>2, <4>1, FS_Subset
    <3>2. \A b \in B : \E d \in D : d.id = b.id
      <4> SUFFICES ASSUME NEW b \in B PROVE \E d \in D : d.id = b.id
        OBVIOUS
      <4>1. b \in log' /\ b.account = m.account /\ b.text = m.text /\ b.age <= DupWindow
        BY <1>1 DEF Copies, Back
      <4>2. InDup(b)'
        BY <1>8, <2>2, <4>1 DEF TracedOK
      <4>3. PICK d \in dup'[m.account] : d.id = b.id /\ d.text = b.text
        BY <4>1, <4>2 DEF InDup
      <4>4. QED
        BY <1>2, <1>4, <2>2, <4>1, <4>3
    <3>3. \A b, c \in B : b.id = c.id => b = c
      BY <2>1 DEF Copies, Back
    <3>4. Cardinality(D) < DupThreshold
      BY <1>4, <1>10, <2>2 DEF Logs, DupCount
    <3> HIDE DEF D, B
    <3>5. Cardinality(B) \in Nat /\ Cardinality(D) \in Nat /\ Cardinality(B) <= Cardinality(D)
      BY <3>1, <3>2, <3>3, Numbered
    <3>6. Cardinality(B) < DupThreshold
      BY <3>4, <3>5, Bounds
    <3>7. QED
      BY <3>6 DEF B
  <2>3. ASSUME e.short, ~e.trusted
        PROVE  Cardinality(Shorts(log', e)) < ShortThreshold
    <3> DEFINE D == WithShort(m)
               B == Shorts(log', e)
    <3>1. \A b \in B : \E d \in D : d.id = b.id
      <4> SUFFICES ASSUME NEW b \in B PROVE \E d \in D : d.id = b.id
        OBVIOUS
      <4>1. b \in log' /\ b.account = m.account /\ b.short /\ b.age <= ShortWindow
        BY <1>1 DEF Shorts, Back
      <4>2. InShort(b)'
        BY <1>8, <4>1 DEF TracedOK
      <4>3. PICK d \in short'[m.account] : d.id = b.id
        BY <4>1, <4>2 DEF InShort
      <4>4. QED
        BY <1>1, <1>3, <2>3, <4>3
    <3>2. \A b, c \in B : b.id = c.id => b = c
      BY <2>1 DEF Shorts, Back
    <3>3. Cardinality(D) < ShortThreshold /\ IsFiniteSet(D)
      BY <1>3, <1>10, <2>3 DEF Logs
    <3> HIDE DEF D, B
    <3>4. Cardinality(B) \in Nat /\ Cardinality(D) \in Nat /\ Cardinality(B) <= Cardinality(D)
      BY <3>1, <3>2, <3>3, Numbered
    <3>5. Cardinality(B) < ShortThreshold
      BY <3>3, <3>4, Bounds
    <3>6. QED
      BY <3>5 DEF B
  <2>4. QED
    BY <2>2, <2>3 DEF Noticed
<1>11. FloodNoticed'
  <2>1. \A b \in log' : b.fate = "judged" /\ b.age = 0 => Noticed(log', b)
    BY <1>1, <1>9, <1>10
  <2>2. QED
    BY <2>1 DEF FloodNoticed, Noticed, Copies, Shorts, Back
<1>12. QED
  BY <1>5, <1>7, <1>8, <1>11 DEF WindowInv

\* The windows are recorded in, in part or not at all, and nothing is logged.
LEMMA RecordsWindow ==
  ASSUME WindowInv, NEW m, m.account \in Accounts, m.text \in STRING,
         RecordAndCountDup(m) \/ UNCHANGED dup, RecentShortCount(m) \/ UNCHANGED short,
         UNCHANGED <<log, handled>>, job'.pc \in {"lookup", "judge"} => job.pc \in {"lookup", "judge"}
  PROVE  WindowInv'
<1>1. /\ dup' \in [Accounts -> SUBSET DupType]
      /\ \A a \in Accounts : IsFiniteSet(dup'[a]) /\ \A d \in dup[a] : d.age <= DupWindow => d \in dup'[a]
  BY RecordedDup DEF WindowInv, WindowTypes
<1>2. /\ short' \in [Accounts -> SUBSET ShortType]
      /\ \A a \in Accounts : IsFiniteSet(short'[a]) /\ \A d \in short[a] : d.age <= ShortWindow => d \in short'[a]
  BY RecordedShort DEF WindowInv, WindowTypes
<1>3. WindowsKeep
  BY <1>1, <1>2 DEF WindowsKeep
<1>4. QED
  BY <1>3, QuietWindow

LEMMA NotedWindow ==
  ASSUME WindowInv, NEW m, m.account \in Accounts, m.text \in STRING,
         RecordAndCountDup(m), RecentShortCount(m),
         NEW fate \in {"judged", "deferred"}, NEW trusted \in BOOLEAN, Noted(m, fate, trusted),
         fate = "judged" => /\ DupEligible(m) => DupCount(m) < DupThreshold
                            /\ ShortFloodEligible(m) /\ ~trusted => Cardinality(WithShort(m)) < ShortThreshold,
         UNCHANGED handled, job.pc \in {"lookup", "judge"}, job'.pc \notin {"lookup", "judge"}
  PROVE  WindowInv'
<1>1. CASE log' = log
  BY <1>1, RecordsWindow
<1>2. CASE log' # log
  <2> DEFINE sh == ShortFloodEligible(m)
             e == [id |-> handled, account |-> m.account, text |-> m.text, age |-> 0,
                   fate |-> fate, short |-> sh, trusted |-> trusted]
  <2>1. (DupEligible(m) \/ ShortFloodEligible(m)) /\ log' = log \cup {e}
    BY <1>2 DEF Noted
  <2>2. sh \in BOOLEAN /\ handled \in Nat
    BY DEF ShortFloodEligible, WindowInv, WindowTypes
  <2>3. sh = ShortFloodEligible(m)
    OBVIOUS
  <2> HIDE DEF sh
  <2>4. /\ e \in LogType /\ e.id = handled /\ e.account = m.account /\ e.text = m.text /\ e.age = 0
        /\ e.fate = fate /\ e.short = sh /\ e.trusted = trusted
    BY <2>2 DEF LogType
  <2> HIDE DEF e
  <2>5. Logs(m, e)
    BY <2>1, <2>3, <2>4 DEF Logs
  <2>6. QED
    BY <2>5, LogsWindow
<1>3. QED
  BY <1>1, <1>2

-----------------------------------------------------------------------------
(* The steps that touch the windows. *)

LEMMA TakeWindow ==
  ASSUME WindowInv, NEW post \in Posts, Take(post)
  PROVE  WindowInv'
<1>1. handled' = handled + 1 /\ UNCHANGED <<dup, short, log>> /\ handled \in Nat
  BY DEF Take, windows, WindowInv, WindowTypes
<1>2. WindowTypes' /\ TracedOK' /\ FloodNoticed'
  BY <1>1 DEF WindowInv, WindowTypes, TracedOK, InDup, InShort, FloodNoticed
<1>3. NumberOK'
  <2>1. \A e \in log : e.id <= handled /\ e.id \in Nat
    BY DEF WindowInv, NumberOK, WindowTypes, LogType
  <2>2. QED
    BY <1>1, <2>1 DEF WindowInv, NumberOK
<1>4. QED
  BY <1>2, <1>3 DEF WindowInv

\* A message that is deferred is observed like one that is judged.
LEMMA LookupWindow ==
  ASSUME JobTypes, WindowInv, Lookup
  PROVE  WindowInv'
<1>1. job.pc = "lookup" /\ handled' = handled /\ job \in JobType
  BY DEF Lookup, JobTypes
<1>2. PICK m : m = M
  OBVIOUS
<1>3. m.account \in Accounts /\ m.text \in STRING
  BY <1>1, <1>2, MIs
<1>4. CASE UNCHANGED <<windows, log>>
  BY <1>1, <1>4, StillWindow DEF windows
<1>5. CASE ObserveBehavior(m) /\ Noted(m, "deferred", FALSE) /\ Ruled("deferred", "settle")
  <2>1. Moves("deferred", "settle")
    BY <1>1, <1>5, RuledIs DEF PCs, Verdicts
  <2>2. job'.pc \notin {"lookup", "judge"}
    BY <2>1 DEF Moves
  <2>3. RecordAndCountDup(m) /\ RecentShortCount(m)
    BY <1>5 DEF ObserveBehavior
  <2>4. QED
    BY <1>1, <1>3, <1>5, <2>2, <2>3, NotedWindow
<1>6. QED
  BY <1>2, <1>4, <1>5 DEF Lookup

LEMMA CountsAre ==
  ASSUME WindowInv, NEW m, m.account \in Accounts, m.text \in STRING,
         RecordAndCountDup(m), RecentShortCount(m)
  PROVE  DupCount(m) \in Nat /\ Cardinality(WithShort(m)) \in Nat
<1>1. IsFiniteSet(WithDup(m)) /\ IsFiniteSet(WithShort(m))
  BY RecordedDup, RecordedShort
<1>2. {e \in WithDup(m) : e.text = m.text} \in SUBSET WithDup(m)
  OBVIOUS
<1>3. QED
  BY <1>1, <1>2, FS_Subset, FS_CardinalityType DEF DupCount

LEMMA JudgeWindow ==
  ASSUME JobTypes, WindowInv, Judge
  PROVE  WindowInv'
<1>1. job.pc = "judge" /\ handled' = handled /\ job \in JobType
  BY DEF Judge, JobTypes
<1>2. PICK m : m = M
  OBVIOUS
<1>3. m.account \in Accounts /\ m.text \in STRING
  BY <1>1, <1>2, MIs
<1>4. PICK trusted \in BOOLEAN :
        \/ UNCHANGED <<windows, log>>
        \/ /\ CheckBehavior(m, Behavior(m, job.edited, trusted))
           /\ IF Behavior(m, job.edited, trusted) # "none" THEN UNCHANGED log ELSE Noted(m, "judged", trusted)
  BY <1>2 DEF Judge
<1>5. \E v, pc : Ruled(v, pc) /\ pc \in {"linked", "poll", "review"}
  <2>1. PICK t \in BOOLEAN, score \in Scores :
          LET bayes == IF t THEN "none" ELSE Bayes(M, score)
          IN \/ Ruled("hit", "linked")
             \/ Ruled(bayes, CASE bayes = "hit" -> "linked"
                               [] bayes = "borderline" -> "poll"
                               [] OTHER -> "review")
    BY DEF Judge
  <2>2. QED
    BY <2>1
<1>6. job'.pc \notin {"lookup", "judge"}
  BY <1>1, <1>5 DEF Ruled, JobType
<1> DEFINE b == Behavior(m, job.edited, trusted)
<1>7. CASE UNCHANGED <<windows, log>>
  BY <1>1, <1>6, <1>7, StillWindow DEF windows
<1>8. CASE CheckBehavior(m, b) /\ b # "none" /\ UNCHANGED log
  <2>1. (RecordAndCountDup(m) \/ UNCHANGED dup) /\ (RecentShortCount(m) \/ UNCHANGED short)
    BY <1>8 DEF CheckBehavior, windows
  <2>2. QED
    BY <1>1, <1>3, <1>6, <1>8, <2>1, RecordsWindow
<1>9. CASE CheckBehavior(m, b) /\ b = "none" /\ Noted(m, "judged", trusted)
  <2>1. RecordAndCountDup(m) /\ RecentShortCount(m)
    BY <1>9 DEF CheckBehavior
  <2>2. /\ ~(DupEligible(m) /\ DupCount(m) >= DupThreshold)
        /\ ~(ShortFloodEligible(m) /\ ~trusted /\ Cardinality(WithShort(m)) >= ShortThreshold)
    BY <1>9 DEF Behavior
  <2>3. DupCount(m) \in Nat /\ Cardinality(WithShort(m)) \in Nat
    BY <1>3, <2>1, CountsAre
  <2>4. /\ DupEligible(m) => DupCount(m) < DupThreshold
        /\ ShortFloodEligible(m) /\ ~trusted => Cardinality(WithShort(m)) < ShortThreshold
    BY <2>2, <2>3, Bounds
  <2>5. QED
    BY <1>1, <1>3, <1>6, <1>9, <2>1, <2>4, NotedWindow
<1>10. QED
  BY <1>4, <1>7, <1>8, <1>9

\* The sweep's horizon is past both windows.
LEMMA SweepWindow ==
  ASSUME WindowInv, Sweep
  PROVE  WindowInv'
<1>1. /\ dup' = [a \in Accounts |-> Prune(dup[a], SweepMaxAge)]
      /\ short' = [a \in Accounts |-> Prune(short[a], SweepMaxAge)]
      /\ UNCHANGED <<job, log, handled>>
  BY DEF Sweep
<1>2. ASSUME NEW a \in Accounts
      PROVE  /\ IsFiniteSet(Prune(dup[a], SweepMaxAge)) /\ IsFiniteSet(Prune(short[a], SweepMaxAge))
             /\ Prune(dup[a], SweepMaxAge) \in SUBSET DupType /\ Prune(short[a], SweepMaxAge) \in SUBSET ShortType
             /\ \A d \in dup[a] : d.age <= DupWindow => d \in Prune(dup[a], SweepMaxAge)
             /\ \A d \in short[a] : d.age <= ShortWindow => d \in Prune(short[a], SweepMaxAge)
  <2>1. /\ IsFiniteSet(dup[a]) /\ IsFiniteSet(short[a]) /\ dup[a] \subseteq DupType /\ short[a] \subseteq ShortType
    BY DEF WindowInv, WindowTypes
  <2>2. (\A d \in dup[a] : d.age \in Nat) /\ (\A d \in short[a] : d.age \in Nat)
    BY <2>1 DEF DupType, ShortType
  <2>3. IsFiniteSet(Prune(dup[a], SweepMaxAge)) /\ IsFiniteSet(Prune(short[a], SweepMaxAge))
    BY <2>1, PruneFinite
  <2>4. Prune(dup[a], SweepMaxAge) \in SUBSET DupType /\ Prune(short[a], SweepMaxAge) \in SUBSET ShortType
    BY <2>1 DEF Prune
  <2>5. \A d \in dup[a] : d.age <= DupWindow => d \in Prune(dup[a], SweepMaxAge)
    BY <2>2, Bounds DEF Prune
  <2>6. \A d \in short[a] : d.age <= ShortWindow => d \in Prune(short[a], SweepMaxAge)
    BY <2>2, Bounds DEF Prune
  <2>7. QED
    BY <2>3, <2>4, <2>5, <2>6
<1>3. WindowsKeep
  BY <1>1, <1>2 DEF WindowsKeep
<1>4. QED
  BY <1>1, <1>3, QuietWindow

Aged(e) == [e EXCEPT !.age = IF @ > SweepMaxAge THEN @ ELSE @ + 1]
Older(events) == {Aged(e) : e \in events}

LEMMA AgedDup ==
  ASSUME NEW d \in DupType
  PROVE  /\ Aged(d) \in DupType /\ Aged(d).id = d.id /\ Aged(d).text = d.text
         /\ Aged(d).age = IF d.age > SweepMaxAge THEN d.age ELSE d.age + 1
BY Bounds DEF Aged, DupType

LEMMA AgedShort ==
  ASSUME NEW d \in ShortType
  PROVE  /\ Aged(d) \in ShortType /\ Aged(d).id = d.id
         /\ Aged(d).age = IF d.age > SweepMaxAge THEN d.age ELSE d.age + 1
BY Bounds DEF Aged, ShortType

LEMMA AgedLog ==
  ASSUME NEW e \in LogType
  PROVE  /\ Aged(e) \in LogType /\ Aged(e).id = e.id /\ Aged(e).text = e.text /\ Aged(e).account = e.account
         /\ Aged(e).short = e.short /\ Aged(e).age = IF e.age > SweepMaxAge THEN e.age ELSE e.age + 1
         /\ e.age \in Nat
BY Bounds DEF Aged, LogType

LEMMA OlderFinite ==
  ASSUME NEW S, IsFiniteSet(S)
  PROVE  IsFiniteSet(Older(S))
<1> DEFINE f == [e \in S |-> Aged(e)]
<1>1. \A y \in Older(S) : \E x \in S : f[x] = y
  BY DEF Older
<1>2. DOMAIN f = S /\ f = [x \in S |-> f[x]]
  OBVIOUS
<1> HIDE DEF f
<1>3. QED
  BY <1>1, <1>2, ImageCount

\* The log and the windows grow old together; a tick later no entry is of this moment.
LEMMA TickWindow ==
  ASSUME WindowInv, Tick
  PROVE  WindowInv'
<1>1. /\ dup' = [a \in Accounts |-> Older(dup[a])] /\ short' = [a \in Accounts |-> Older(short[a])]
      /\ log' = Prune(Older(log), SweepMaxAge) /\ UNCHANGED <<job, handled>>
  BY DEF Tick, Older, Aged
<1>2. /\ dup \in [Accounts -> SUBSET DupType] /\ short \in [Accounts -> SUBSET ShortType]
      /\ log \subseteq LogType /\ handled \in Nat
      /\ \A a \in Accounts : IsFiniteSet(dup[a]) /\ IsFiniteSet(short[a])
  BY DEF WindowInv, WindowTypes
<1>3. \A q \in log' : \E e \in log : q = Aged(e)
  BY <1>1 DEF Prune, Older
<1>4. WindowTypes'
  <2>1. ASSUME NEW a \in Accounts
        PROVE  Older(dup[a]) \in SUBSET DupType /\ Older(short[a]) \in SUBSET ShortType
    BY <1>2, AgedDup, AgedShort DEF Older
  <2>2. \A a \in Accounts : IsFiniteSet(Older(dup[a])) /\ IsFiniteSet(Older(short[a]))
    BY <1>2, OlderFinite
  <2>3. log' \subseteq LogType
    BY <1>2, <1>3, AgedLog
  <2>4. QED
    BY <1>1, <1>2, <2>1, <2>2, <2>3 DEF WindowTypes
<1>5. NumberOK'
  <2>1. \A q \in log' : \E e \in log : q = Aged(e) /\ q.id = e.id
    BY <1>2, <1>3, AgedLog
  <2>2. QED
    BY <1>1, <2>1 DEF WindowInv, NumberOK
<1>6. TracedOK'
  <2> SUFFICES ASSUME NEW q \in log'
               PROVE  /\ DupThreshold > 0 /\ q.age <= DupWindow => InDup(q)'
                      /\ q.short /\ q.age <= ShortWindow => InShort(q)'
    BY DEF TracedOK
  <2>1. PICK e \in log : q = Aged(e)
    BY <1>3
  <2>2. /\ e \in LogType /\ q.id = e.id /\ q.text = e.text /\ q.account = e.account
        /\ q.short = e.short /\ q.age = (IF e.age > SweepMaxAge THEN e.age ELSE e.age + 1) /\ e.age \in Nat
        /\ e.account \in Accounts
    BY <1>2, <2>1, AgedLog DEF LogType
  <2>3. ASSUME DupThreshold > 0, q.age <= DupWindow
        PROVE  InDup(q)'
    <3>1. e.age <= DupWindow
      BY <2>2, <2>3, Bounds
    <3>2. PICK d \in dup[e.account] : d.id = e.id /\ d.text = e.text /\ d.age = e.age
      BY <2>3, <3>1 DEF WindowInv, TracedOK, InDup
    <3>3. d \in DupType
      BY <1>2, <2>2, <3>2
    <3>4. Aged(d).id = q.id /\ Aged(d).text = q.text /\ Aged(d).age = q.age
      BY <2>2, <3>2, <3>3, AgedDup
    <3>5. Aged(d) \in dup'[q.account]
      BY <1>1, <2>2, <3>2 DEF Older
    <3>6. QED
      BY <3>4, <3>5 DEF InDup
  <2>4. ASSUME q.short, q.age <= ShortWindow
        PROVE  InShort(q)'
    <3>1. e.age <= ShortWindow /\ e.short
      BY <2>2, <2>4, Bounds
    <3>2. PICK d \in short[e.account] : d.id = e.id /\ d.age = e.age
      BY <3>1 DEF WindowInv, TracedOK, InShort
    <3>3. d \in ShortType
      BY <1>2, <2>2, <3>2
    <3>4. Aged(d).id = q.id /\ Aged(d).age = q.age
      BY <2>2, <3>2, <3>3, AgedShort
    <3>5. Aged(d) \in short'[q.account]
      BY <1>1, <2>2, <3>2 DEF Older
    <3>6. QED
      BY <3>4, <3>5 DEF InShort
  <2>5. QED
    BY <2>3, <2>4
<1>7. FloodNoticed'
  <2>1. \A q \in log' : q.age # 0
    BY <1>2, <1>3, AgedLog, Bounds
  <2>2. QED
    BY <2>1 DEF FloodNoticed
<1>8. QED
  BY <1>4, <1>5, <1>6, <1>7 DEF WindowInv

\* A process that starts has empty windows, and nothing is asked of them.
NewProcess ==
  /\ dup = [a \in Accounts |-> {}] /\ short = [a \in Accounts |-> {}] /\ log = {} /\ handled \in Nat

LEMMA StartsWell == NewProcess => WindowInv
<1> SUFFICES ASSUME NewProcess PROVE WindowInv
  OBVIOUS
<1>1. WindowTypes
  <2>1. IsFiniteSet({})
    BY FS_EmptySet
  <2>2. \A a \in Accounts : dup[a] = {} /\ short[a] = {}
    BY DEF NewProcess
  <2>3. \A a \in Accounts : IsFiniteSet(dup[a]) /\ IsFiniteSet(short[a])
    BY <2>1, <2>2, Zenon
  <2>4. QED
    BY <2>3 DEF NewProcess, WindowTypes
<1>2. NumberOK /\ TracedOK /\ FloodNoticed
  BY DEF NewProcess, NumberOK, TracedOK, FloodNoticed
<1>3. QED
  BY <1>1, <1>2 DEF WindowInv

LEMMA CrashWindow ==
  ASSUME WindowInv, Crash
  PROVE  WindowInv'
<1>1. NewProcess'
  BY DEF Crash, NewProcess, WindowInv, WindowTypes
<1>2. QED
  BY <1>1, StartsWell, PTL

LEMMA WindowStep ==
  ASSUME JobTypes, WindowInv, [Next]_vars
  PROVE  WindowInv'
<1>1. CASE \E post \in Posts : Take(post)
  BY <1>1, TakeWindow
<1>2. CASE Lookup \/ Judge \/ Sweep \/ Tick \/ Crash
  BY <1>2, LookupWindow, JudgeWindow, SweepWindow, TickWindow, CrashWindow
<1>3. ASSUME UNCHANGED <<dup, short, log, handled>>, job'.pc \notin {"lookup", "judge"} \/ job'.pc = job.pc
      PROVE  WindowInv'
  BY <1>3, StillWindow
<1>4. job \in JobType
  BY DEF JobTypes
<1>5. CASE Poll \/ Wait
  <2>1. job'.pc \in {"poll", "wait", "linked", "review"}
    BY <1>4, <1>5 DEF Poll, Wait, Receive, Adjudicated, Goto, Ruled, JobType
  <2>2. UNCHANGED <<dup, short, log, handled>>
    BY <1>5 DEF Poll, Wait, windows
  <2>3. QED
    BY <1>3, <2>1, <2>2
<1>6. CASE Review
  <2>1. job'.pc \in {"linked", "settle"}
    BY <1>4, <1>6 DEF Review, Goto, Ruled, JobType
  <2>2. QED
    BY <1>3, <1>6, <2>1 DEF Review, windows
<1>7. CASE Linked
  <2>1. job'.pc \in {"gate", "idle"}
    BY <1>4, <1>7, IdleIs DEF Linked, Goto, Done, JobType
  <2>2. QED
    BY <1>3, <1>7, <2>1 DEF Linked, windows
<1>8. CASE Gate
  <2>1. job'.pc \in {"handle", "idle"}
    BY <1>4, <1>8, IdleIs DEF Gate, Done, JobType
  <2>2. QED
    BY <1>3, <1>8, <2>1 DEF Gate, windows
<1>9. CASE Settle \/ Handle
  <2>1. job'.pc = "idle"
    BY <1>9, IdleIs DEF Settle, Handle, Done
  <2>2. QED
    BY <1>3, <1>9, <2>1 DEF Settle, Handle, windows
<1>10. ASSUME NEW p \in Providers, Answer(p)
       PROVE  WindowInv'
  BY <1>3, <1>10 DEF Answer, windows
<1>11. CASE Reload \/ DisableChat \/ ChangeAdmins \/ LearnAdmins
  <2>1. job'.pc = job.pc
    BY <1>4, <1>11 DEF Reload, DisableChat, ChangeAdmins, LearnAdmins, JobType
  <2>2. QED
    BY <1>3, <1>11, <2>1 DEF Reload, DisableChat, ChangeAdmins, LearnAdmins, windows
<1>12. CASE UNCHANGED vars
  BY <1>3, <1>12 DEF vars, windows
<1>13. QED
  BY <1>1, <1>2, <1>5, <1>6, <1>7, <1>8, <1>9, <1>10, <1>11, <1>12 DEF Next

-----------------------------------------------------------------------------
(* The theorems. *)

\* The inductive invariant holds in every reachable state: of the message in hand, the
\* trust counter and the windows.
THEOREM ScreeningInvariant == Spec => []ScreeningInv
<1>1. Init => ScreeningInv
  <2> SUFFICES ASSUME Init PROVE ScreeningInv
    OBVIOUS
  <2>1. NoRow \in Rows
    BY DEF Rows
  <2>2. JobTypes /\ ImmuneOK /\ OpenOK
    BY <2>1, IdleIs, NoVoteIs DEF Init, JobTypes, ImmuneOK, OpenOK
  <2>3. VoteOK
    BY IdleIs, NoVoteIs DEF Init, VoteOK
  <2>4. TrustOK
    <3>1. IsFiniteSet({}) /\ Cardinality({}) = 0
      BY FS_EmptySet
    <3>2. \A a \in Accounts : trust[a] = 0 /\ known[a] = {} /\ clean[a] = {}
      BY DEF Init
    <3>3. \A a \in Accounts : IsFiniteSet(clean[a]) /\ trust[a] = Cardinality(known[a])
      BY <3>1, <3>2, Zenon
    <3>4. QED
      BY <3>2, <3>3 DEF Init, TrustOK
  <2>5. WindowInv
    BY StartsWell DEF Init, NewProcess
  <2>6. QED
    BY <2>2, <2>3, <2>4, <2>5 DEF ScreeningInv, JobInv
<1>2. ScreeningInv /\ [Next]_vars => ScreeningInv'
  BY JobStep, TrustStep, WindowStep DEF ScreeningInv, JobInv
<1>3. QED
  BY <1>1, <1>2, PTL DEF Spec

\* Cascade.Decide's gate and ReviewCandidate's own never let an incident be raised against
\* somebody who stayed an administrator, whatever lookups failed meanwhile.
THEOREM AdminsImmune == Spec => []AdminImmune
<1>1. ScreeningInv => AdminImmune
  BY DEF ScreeningInv, JobInv, ImmuneOK, AdminImmune, Raised
<1>2. QED
  BY <1>1, ScreeningInvariant, PTL

\* process raises an incident only in a chat that was open, acts only where a config in
\* force lets it, and on an LLM's word only when answers that arrived meet the policy.
THEOREM ActsJustified == Spec => []Justified
<1>1. ScreeningInv => Justified
  <2> SUFFICES ASSUME ScreeningInv, job.pc = "handle"
               PROVE  OperatorObeyed /\ LLMConsensus
    BY DEF Justified, Raised
  <2>1. OperatorObeyed
    BY DEF ScreeningInv, JobInv, OpenOK, OperatorObeyed
  <2>2. LLMConsensus
    BY DEF ScreeningInv, JobInv, VoteOK, LLMConsensus, Spam
  <2>3. QED
    BY <2>1, <2>2
<1>2. QED
  BY <1>1, ScreeningInvariant, PTL

\* BumpTrustDistinct never counts more than the distinct texts of fresh messages that
\* process let pass, over crashes and failed writes.
THEOREM TrustIsEarned == Spec => []TrustEarned
<1>1. ScreeningInv => TrustEarned
  <2> SUFFICES ASSUME ScreeningInv, NEW a \in Accounts
               PROVE  trust[a] <= Cardinality(clean[a])
    BY DEF TrustEarned
  <2>1. IsFiniteSet(clean[a]) /\ known[a] \in SUBSET clean[a] /\ trust[a] = Cardinality(known[a])
    BY DEF ScreeningInv, TrustOK
  <2>2. QED
    BY <2>1, FS_Subset
<1>2. QED
  BY <1>1, ScreeningInvariant, PTL

\* MemHistory with the cascade's deferral: a message let past the windows is never one
\* copy, or one short message, too many of what its author posted within the window,
\* counting what an outage of the administrator lookup deferred.
THEOREM FloodsNoticed == Spec => []FloodNoticed
<1>1. ScreeningInv => FloodNoticed
  BY DEF ScreeningInv, WindowInv
<1>2. QED
  BY <1>1, ScreeningInvariant, PTL
=============================================================================
