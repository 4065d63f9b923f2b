--------------------------- MODULE CaptchaProofs ---------------------------
(***************************************************************************)
(* Theorems about Captcha, for any number of attempts, retries and mishaps:*)
(* it implements ChallengeLife, nobody is punished for a button they never *)
(* got, an attempt is passed by its own button, no sanction of moderation  *)
(* is lifted by it, and nobody it restricted is forgotten.                 *)
(*                                                                         *)
(* The goroutines work from copies of the row that may be outdated.        *)
(* LifeInv says what a copy is worth at each step: which state it was read *)
(* in, and which facts of its attempt can no longer change.  CareInv, on   *)
(* top of it, ties the copies and the row to the member and the sanction.  *)
(***************************************************************************)
EXTENDS Captcha, TLAPS

Shape == [state : {"none"} \cup Active \cup Final, attempt : Nat,
          mode : {"", "button", "join_request"}, action : Actions, tries : Nat,
          prompt : BOOLEAN, due : BOOLEAN]

\* The action of a failure is known, and only a release needs no button.
Decided(r, sent) ==
  /\ r.action \in {"unrestrict", "kick", "keep_muted", "decline"}
  /\ r.action # "unrestrict" => r.attempt \in sent

\* What the copy r is worth to a goroutine at step s, where the buttons of the
\* attempts sent were delivered and those of done were pressed.
Copy(s, r, sent, done) ==
  /\ s # "idle" => r.state \in Active
  /\ s \in {"send", "save", "gate", "check_timeout"} => r.state = "challenged"
  /\ s = "fail" => r.state \in {"new", "challenged"}
  /\ s \in {"fail", "check_timeout"} \/ r.state = "failing" => Decided(r, sent)
  /\ s = "save" \/ r.prompt => r.attempt \in sent
  /\ s \in {"check_press", "mark"} => r.attempt \in done

CopiesOK ==
  /\ pc \in [Procs -> PCs] /\ snap \in [Procs -> Shape]
  /\ \A p \in Procs : Copy(pc[p], snap[p], asked, pressed)

RowOK ==
  /\ row \in Shape
  /\ row.prompt => row.attempt \in asked
  /\ row.state \in {"failing", "failed"} => Decided(row, asked)
  /\ PassedByOwnButton

LifeInv == CopiesOK /\ RowOK

-----------------------------------------------------------------------------
(* The moves of a goroutine. *)

LEMMA NoRowShape == NoRow \in Shape
BY DEF NoRow, Shape, Actions

\* What a copy is worth does not get less when more buttons are delivered or pressed.
LEMMA CopyGrows ==
  ASSUME NEW s, NEW r, NEW sent, NEW done, NEW sent2, NEW done2,
         Copy(s, r, sent, done), sent \subseteq sent2, done \subseteq done2
  PROVE  Copy(s, r, sent2, done2)
BY DEF Copy, Decided

\* A goroutine that goes on with a copy good enough for its next step disturbs
\* nobody else's.
LEMMA GotoKeeps ==
  ASSUME CopiesOK, NEW p \in Procs, NEW s \in PCs, NEW r \in Shape, Goto(p, s, r),
         s # "idle" => Copy(s, r, asked', pressed'),
         asked \subseteq asked', pressed \subseteq pressed'
  PROVE  CopiesOK'
<1> DEFINE to == IF s = "idle" THEN NoRow ELSE r
<1>1. to \in Shape
  BY NoRowShape
<1>2. pc' = [pc EXCEPT ![p] = s] /\ snap' = [snap EXCEPT ![p] = to]
  BY DEF Goto
<1>3. pc' \in [Procs -> PCs] /\ snap' \in [Procs -> Shape]
  BY <1>1, <1>2 DEF CopiesOK
<1>4. ASSUME NEW q \in Procs
      PROVE  Copy(pc'[q], snap'[q], asked', pressed')
  <2>1. CASE q # p
    <3>1. pc'[q] = pc[q] /\ snap'[q] = snap[q]
      BY <2>1, <1>2 DEF CopiesOK
    <3>2. QED
      BY <3>1, CopyGrows DEF CopiesOK
  <2>2. CASE q = p
    <3>1. pc'[q] = s /\ snap'[q] = to
      BY <2>2, <1>2 DEF CopiesOK
    <3>2. Copy("idle", NoRow, asked', pressed')
      BY DEF Copy, NoRow
    <3>3. QED
      BY <3>1, <3>2
  <2>3. QED
    BY <2>1, <2>2
<1>5. QED
  BY <1>3, <1>4 DEF CopiesOK

LEMMA DoneKeeps ==
  ASSUME CopiesOK, NEW p \in Procs, Done(p), asked \subseteq asked', pressed \subseteq pressed'
  PROVE  CopiesOK'
BY NoRowShape, GotoKeeps DEF Done, PCs

\* Nothing of the goroutines or of the history changes.
LEMMA CopiesStay ==
  ASSUME CopiesOK, UNCHANGED <<pc, snap, asked, pressed>>
  PROVE  CopiesOK'
BY DEF CopiesOK

LEMMA RowStays ==
  ASSUME RowOK, UNCHANGED <<row, pressed>>, asked \subseteq asked'
  PROVE  RowOK'
BY DEF RowOK, PassedByOwnButton, Decided

LEMMA InitLife == Init => LifeInv /\ Life!Init
<1> SUFFICES ASSUME Init PROVE LifeInv /\ Life!Init
  OBVIOUS
<1>1. CopiesOK
  BY NoRowShape DEF Init, CopiesOK, Copy, PCs, NoRow
<1>2. RowOK
  BY NoRowShape DEF Init, RowOK, PassedByOwnButton, NoRow
<1>3. Life!Init
  BY DEF Init, Life!Init, NoRow
<1>4. QED
  BY <1>1, <1>2, <1>3 DEF LifeInv

-----------------------------------------------------------------------------
(* One lemma per action: it keeps the invariant, and moves the row as the life *)
(* cycle allows.                                                               *)

Kept == LifeInv' /\ [Life!Next]_(Life!life)

\* A step that leaves the state of the row and the presses alone.
LEMMA Stutters ==
  ASSUME UNCHANGED <<row, pressed>>
  PROVE  [Life!Next]_(Life!life)
BY DEF Life!life

LEMMA BeginKeeps ==
  ASSUME LifeInv, NEW m \in Modes, Begin(m)
  PROVE  Kept
<1> DEFINE r == BeginCaptcha(m)
<1> DEFINE p == Challenger(r.attempt)
<1> DEFINE s == IF m = "button" THEN "restrict" ELSE "challenge"
<1>1. r \in Shape /\ r.state = "new" /\ r.attempt = row.attempt + 1 /\ ~r.prompt
  <2>1. m \in {"button", "join_request"}
    BY ModesAssumption
  <2>2. row.attempt \in Nat
    BY DEF LifeInv, RowOK, Shape
  <2>3. r \in Shape
    <3>1. "new" \in {"none"} \cup Active \cup Final /\ "" \in Actions
      BY DEF Active, Actions
    <3>2. m \in {"", "button", "join_request"}
      BY <2>1
    <3>3. row.attempt + 1 \in Nat
      BY <2>2
    <3>4. QED
      BY <3>1, <3>2, <3>3 DEF BeginCaptcha, Shape
  <2>4. r.state = "new" /\ r.attempt = row.attempt + 1
    BY DEF BeginCaptcha
  <2>5. r.prompt = FALSE
    BY DEF BeginCaptcha
  <2>6. QED
    BY <2>3, <2>4, <2>5
<1>2. p \in Procs
  BY <1>1 DEF Begin, CanBegin, Procs
<1>3. row' = r /\ pc' = [pc EXCEPT ![p] = s] /\ snap' = [snap EXCEPT ![p] = r]
      /\ UNCHANGED <<asked, pressed>>
  BY DEF Begin
<1>4. CopiesOK'
  <2>1. Copy(s, r, asked', pressed')
    BY <1>1 DEF Copy, Active
  <2>2. pc' \in [Procs -> PCs] /\ snap' \in [Procs -> Shape]
    BY <1>1, <1>2, <1>3 DEF LifeInv, CopiesOK, PCs
  <2>3. \A q \in Procs : Copy(pc'[q], snap'[q], asked', pressed')
    BY <1>2, <1>3, <2>1 DEF LifeInv, CopiesOK
  <2>4. QED
    BY <2>2, <2>3 DEF CopiesOK
<1>5. RowOK'
  BY <1>1, <1>3 DEF RowOK, PassedByOwnButton
<1>6. Life!Begin
  BY <1>1, <1>3 DEF Begin, CanBegin, Life!Begin
<1>7. QED
  BY <1>4, <1>5, <1>6 DEF Kept, LifeInv, Life!Next

LEMMA MemberChangeKeeps ==
  ASSUME LifeInv, NEW to \in Members, OnMemberChange(to)
  PROVE  Kept
<1>1. CopiesOK'
  BY CopiesStay DEF LifeInv, OnMemberChange
<1>2. CASE row.state \in {"new", "challenged"}
  <2>1. row' = [row EXCEPT !.state = "cancelled"] /\ UNCHANGED <<asked, pressed>>
    BY <1>2 DEF OnMemberChange
  <2>2. row' \in Shape /\ row'.state = "cancelled" /\ row'.attempt = row.attempt
        /\ row'.prompt = row.prompt
    BY <2>1 DEF LifeInv, RowOK, Shape, Final
  <2>3. RowOK'
    BY <2>1, <2>2 DEF LifeInv, RowOK, PassedByOwnButton
  <2>4. Life!Conclude
    BY <1>2, <2>1, <2>2 DEF Life!Conclude, Life!Becomes
  <2>5. QED
    BY <1>1, <2>3, <2>4 DEF Kept, LifeInv, Life!Next
<1>3. CASE row.state \notin {"new", "challenged"}
  <2>1. UNCHANGED <<row, asked, pressed>>
    BY <1>3 DEF OnMemberChange
  <2>2. QED
    BY <1>1, <2>1, RowStays, Stutters DEF Kept, LifeInv
<1>4. QED
  BY <1>2, <1>3

LEMMA TickKeeps ==
  ASSUME LifeInv, Tick
  PROVE  Kept
<1>1. row' = [row EXCEPT !.due = TRUE] /\ UNCHANGED <<pc, snap, asked, pressed>>
  BY DEF Tick, hist
<1>2. row' \in Shape /\ row'.state = row.state /\ row'.attempt = row.attempt
      /\ row'.prompt = row.prompt /\ row'.action = row.action
  BY <1>1 DEF LifeInv, RowOK, Shape
<1>3. RowOK'
  BY <1>1, <1>2 DEF LifeInv, RowOK, PassedByOwnButton, Decided
<1>4. QED
  BY <1>1, <1>2, <1>3, CopiesStay DEF Kept, LifeInv, Life!life

\* The member and the sanction change; the challenge does not.
LEMMA OutsideKeeps ==
  ASSUME LifeInv, KnownRequest \/ OwnMove \/ RecordSanction \/ Sanction
  PROVE  Kept
<1>1. UNCHANGED <<row, pc, snap, asked, pressed>>
  BY DEF KnownRequest, OwnMove, RecordSanction, Sanction, hist
<1>2. QED
  BY <1>1, CopiesStay, RowStays, Stutters DEF Kept, LifeInv

LEMMA PressKeeps ==
  ASSUME LifeInv, NEW a \in Attempts, Press(a)
  PROVE  Kept
<1> DEFINE s == IF row.mode = "button" THEN "check_press" ELSE "mark"
<1>1. Goto(Presser, s, row) /\ pressed' = pressed \cup {a} /\ UNCHANGED <<row, asked>>
      /\ row.attempt = a /\ row.state = "challenged"
  BY DEF Press
<1>2. Copy(s, row, asked', pressed')
  BY <1>1 DEF LifeInv, RowOK, Copy, Active
<1>3. CopiesOK'
  <2>1. Presser \in Procs /\ s \in PCs /\ row \in Shape
    BY DEF Procs, PCs, LifeInv, RowOK
  <2>2. asked \subseteq asked' /\ pressed \subseteq pressed'
    BY <1>1
  <2>3. QED
    BY <1>1, <1>2, <2>1, <2>2, GotoKeeps DEF LifeInv
<1>4. RowOK'
  BY <1>1 DEF LifeInv, RowOK, PassedByOwnButton, Decided
<1>5. Life!Press
  BY <1>1 DEF Life!Press
<1>6. QED
  BY <1>3, <1>4, <1>5 DEF Kept, LifeInv, Life!Next

LEMMA SweepReadKeeps ==
  ASSUME LifeInv, SweepRead
  PROVE  Kept
<1>1. Goto(Sweeper, "route", row) /\ UNCHANGED <<row, asked, pressed>> /\ row.state \in Active
  BY DEF SweepRead, DueCaptchas, hist
<1>2. Copy("route", row, asked', pressed')
  BY <1>1 DEF LifeInv, RowOK, Copy
<1>3. Sweeper \in Procs /\ "route" \in PCs /\ row \in Shape
  BY DEF Procs, PCs, LifeInv, RowOK
<1>4. CopiesOK'
  BY <1>1, <1>2, <1>3, GotoKeeps DEF LifeInv
<1>5. QED
  BY <1>1, <1>4, RowStays, Stutters DEF Kept, LifeInv

LEMMA CrashKeeps ==
  ASSUME LifeInv, Crash
  PROVE  Kept
<1>1. UNCHANGED <<row, asked, pressed>>
  BY DEF Crash, hist
<1>2. CopiesOK'
  BY NoRowShape DEF Crash, CopiesOK, Copy, PCs, NoRow
<1>3. QED
  BY <1>1, <1>2, RowStays, Stutters DEF Kept, LifeInv

-----------------------------------------------------------------------------
(* The steps of the goroutines. *)

\* A goroutine goes on, and the row stays as it is.
LEMMA GoesOn ==
  ASSUME LifeInv, NEW p \in Procs, NEW s \in PCs, NEW r \in Shape, Goto(p, s, r),
         s # "idle" => Copy(s, r, asked', pressed'),
         UNCHANGED <<row, pressed>>, asked \subseteq asked'
  PROVE  Kept
<1>1. CopiesOK'
  BY GotoKeeps DEF LifeInv
<1>2. QED
  BY <1>1, RowStays, Stutters DEF Kept, LifeInv

LEMMA Ends ==
  ASSUME LifeInv, NEW p \in Procs, Done(p), UNCHANGED <<row, asked, pressed>>
  PROVE  Kept
<1>1. CopiesOK'
  BY DoneKeeps DEF LifeInv
<1>2. QED
  BY <1>1, RowStays, Stutters DEF Kept, LifeInv

\* Where a goroutine goes on with the copy it has.
LEMMA CopyAt ==
  ASSUME LifeInv, NEW p \in Procs
  PROVE  snap[p] \in Shape /\ Copy(pc[p], snap[p], asked, pressed)
BY DEF LifeInv, CopiesOK

\* Steps that need no more of a copy than that it was active.
Plain == {"restrict", "challenge", "route", "check", "lift", "pass", "ban", "unban",
          "decline", "retry", "finish", "give_up", "cancel"}

LEMMA PlainCopy ==
  ASSUME NEW s \in PCs, NEW t \in Plain, NEW r, Copy(s, r, asked, pressed), s # "idle"
  PROVE  Copy(t, r, asked, pressed)
BY DEF Copy, Plain

\* The row is left alone and the goroutine goes to such a step, or ends.
LEMMA PlainStep ==
  ASSUME LifeInv, NEW p \in Procs, pc[p] # "idle", NEW t \in Plain \cup {"idle"},
         Goto(p, t, snap[p]), UNCHANGED <<row, asked, pressed>>
  PROVE  Kept
<1>1. snap[p] \in Shape /\ Copy(pc[p], snap[p], asked, pressed) /\ pc[p] \in PCs
  BY CopyAt DEF LifeInv, CopiesOK
<1>2. t # "idle" => Copy(t, snap[p], asked', pressed')
  BY <1>1, PlainCopy
<1>3. t \in PCs
  BY DEF Plain, PCs
<1>4. QED
  BY <1>1, <1>2, <1>3, GoesOn

LEMMA TelegramKeeps ==
  ASSUME LifeInv, NEW p \in Procs, Restrict(p) \/ Lift(p) \/ Ban(p) \/ Unban(p) \/ Decline(p)
  PROVE  Kept
<1>1. UNCHANGED <<row, asked, pressed>> /\ pc[p] # "idle"
  BY DEF Restrict, Lift, Ban, Unban, Decline, hist
<1>2. \E t \in Plain \cup {"idle"} : Goto(p, t, snap[p])
  BY DEF Restrict, Lift, Ban, Unban, Decline, Plain
<1>3. QED
  BY <1>1, <1>2, PlainStep

LEMMA StoreFailsKeeps ==
  ASSUME LifeInv, NEW p \in Procs, StoreFails(p)
  PROVE  Kept
BY Ends DEF StoreFails

LEMMA CheckKeeps ==
  ASSUME LifeInv, NEW p \in Procs, CheckSanction(p)
  PROVE  Kept
<1>1. UNCHANGED <<row, asked, pressed>> /\ pc[p] \in {"check", "check_press", "check_timeout"}
  BY DEF CheckSanction, hist
<1>2. snap[p] \in Shape /\ Copy(pc[p], snap[p], asked, pressed)
  BY CopyAt
<1>3. CASE pc[p] = "check_press" /\ ~Protected(snap[p].attempt)
  <2>1. Goto(p, "mark", snap[p])
    BY <1>3 DEF CheckSanction
  <2>2. Copy("mark", snap[p], asked', pressed')
    BY <1>1, <1>2, <1>3 DEF Copy
  <2>3. QED
    BY <1>1, <1>2, <2>1, <2>2, GoesOn DEF PCs
<1>4. CASE pc[p] = "check_timeout" /\ ~Protected(snap[p].attempt)
  <2>1. Goto(p, "fail", snap[p])
    BY <1>4 DEF CheckSanction
  <2>2. Copy("fail", snap[p], asked', pressed')
    BY <1>1, <1>2, <1>4 DEF Copy
  <2>3. QED
    BY <1>1, <1>2, <2>1, <2>2, GoesOn DEF PCs
<1>5. CASE pc[p] = "check" \/ Protected(snap[p].attempt)
  <2>1. Goto(p, "cancel", snap[p]) \/ Goto(p, "lift", snap[p])
    BY <1>1, <1>5 DEF CheckSanction
  <2>2. QED
    BY <1>1, <2>1, PlainStep DEF Plain
<1>6. QED
  BY <1>1, <1>3, <1>4, <1>5

\* What a copy and the row know of an unanswered or failed attempt carries over to
\* the release.
LEMMA Release ==
  ASSUME NEW r \in Shape, NEW x \in Actions
  PROVE  /\ [r EXCEPT !.action = x] \in Shape
         /\ [r EXCEPT !.action = x].action = x
         /\ [r EXCEPT !.action = x].state = r.state
         /\ [r EXCEPT !.action = x].attempt = r.attempt
         /\ [r EXCEPT !.action = x].prompt = r.prompt
         /\ [r EXCEPT !.action = x].mode = r.mode
BY DEF Shape

LEMMA NewState ==
  ASSUME NEW r \in Shape, NEW x \in Active \cup Final
  PROVE  /\ [r EXCEPT !.state = x] \in Shape
         /\ [r EXCEPT !.state = x].state = x
         /\ [r EXCEPT !.state = x].action = r.action
         /\ [r EXCEPT !.state = x].attempt = r.attempt
         /\ [r EXCEPT !.state = x].prompt = r.prompt
         /\ [r EXCEPT !.state = x].mode = r.mode
BY DEF Shape

LEMMA ChallengeKeeps ==
  ASSUME LifeInv, NEW p \in Procs, Challenge(p)
  PROVE  Kept
<1>1. UNCHANGED <<asked, pressed>> /\ pc[p] = "challenge"
  BY DEF Challenge, hist
<1>2. snap[p] \in Shape /\ Copy(pc[p], snap[p], asked, pressed) /\ row \in Shape
  BY CopyAt DEF LifeInv, RowOK
<1>3. CASE Mine(p, {"new"})
  <2> DEFINE r == [snap[p] EXCEPT !.state = "challenged"]
  <2>1. row' = [row EXCEPT !.state = "challenged"] /\ Goto(p, "send", r) /\ row.state = "new"
    BY <1>3 DEF Challenge, Mine
  <2>2. "challenged" \in Active \cup Final
    BY DEF Active
  <2>3. r \in Shape /\ r.state = "challenged" /\ r.attempt = snap[p].attempt
        /\ r.prompt = snap[p].prompt
    BY <1>2, <2>2, NewState
  <2>4. row' \in Shape /\ row'.state = "challenged" /\ row'.attempt = row.attempt
        /\ row'.prompt = row.prompt
    BY <1>2, <2>1, <2>2, NewState
  <2>5. Copy("send", r, asked', pressed')
    BY <1>1, <1>2, <2>3 DEF Copy, Active
  <2>6. CopiesOK'
    BY <1>1, <2>1, <2>3, <2>5, GotoKeeps DEF LifeInv, PCs
  <2>7. RowOK'
    BY <1>1, <2>4 DEF LifeInv, RowOK, PassedByOwnButton
  <2>8. Life!Prompt
    BY <1>1, <2>1, <2>4 DEF Life!Prompt, Life!Becomes
  <2>9. QED
    BY <2>6, <2>7, <2>8 DEF Kept, LifeInv, Life!Next
<1>4. CASE ~Mine(p, {"new"})
  BY <1>1, <1>4, Ends DEF Challenge
<1>5. QED
  BY <1>3, <1>4

\* A prompt that failed: the release needs no button.
LEMMA UnpromptedKeeps ==
  ASSUME LifeInv, NEW p \in Procs, pc[p] \in {"send", "save"}, Unprompted(p),
         UNCHANGED <<row, pressed>>, asked \subseteq asked'
  PROVE  Kept
<1>1. snap[p] \in Shape /\ Copy(pc[p], snap[p], asked, pressed)
  BY CopyAt
<1>2. CASE snap[p].mode = "button"
  <2> DEFINE r == [snap[p] EXCEPT !.action = "unrestrict"]
  <2>1. Goto(p, "fail", r)
    BY <1>2 DEF Unprompted
  <2>2. "unrestrict" \in Actions
    BY DEF Actions
  <2>3. r \in Shape /\ r.action = "unrestrict" /\ r.state = snap[p].state
        /\ r.attempt = snap[p].attempt /\ r.prompt = snap[p].prompt
    BY <1>1, <2>2, Release
  <2>4. Copy("fail", r, asked', pressed')
    BY <1>1, <2>3 DEF Copy, Decided, Active
  <2>5. QED
    BY <2>1, <2>3, <2>4, GoesOn DEF PCs
<1>3. CASE snap[p].mode # "button"
  <2>1. Goto(p, "cancel", snap[p])
    BY <1>3 DEF Unprompted
  <2>2. Copy("cancel", snap[p], asked', pressed')
    BY <1>1 DEF Copy, Decided
  <2>3. QED
    BY <1>1, <2>1, <2>2, GoesOn DEF PCs
<1>4. QED
  BY <1>2, <1>3

LEMMA SendKeeps ==
  ASSUME LifeInv, NEW p \in Procs, Send(p)
  PROVE  Kept
<1>1. UNCHANGED <<row, pressed>> /\ pc[p] = "send" /\ asked \subseteq asked'
  BY DEF Send
<1>2. snap[p] \in Shape /\ Copy(pc[p], snap[p], asked, pressed)
  BY CopyAt
<1>3. CASE asked' = asked \cup {snap[p].attempt} /\ Goto(p, "save", snap[p])
  <2>1. Copy("save", snap[p], asked', pressed')
    BY <1>1, <1>2, <1>3 DEF Copy, Decided
  <2>2. QED
    BY <1>1, <1>2, <1>3, <2>1, GoesOn DEF PCs
<1>4. CASE Unprompted(p)
  BY <1>1, <1>4, UnpromptedKeeps
<1>5. QED
  BY <1>3, <1>4 DEF Send

LEMMA SavePromptKeeps ==
  ASSUME LifeInv, NEW p \in Procs, SavePrompt(p)
  PROVE  Kept
<1>1. UNCHANGED <<asked, pressed>> /\ pc[p] = "save"
  BY DEF SavePrompt, hist
<1>2. CASE /\ row.attempt = snap[p].attempt
           /\ row' = [row EXCEPT !.prompt = TRUE, !.due = @ /\ row.state # "challenged"]
           /\ Done(p)
  <2>1. row' \in Shape /\ row'.state = row.state /\ row'.attempt = row.attempt
        /\ row'.action = row.action
    BY <1>2 DEF LifeInv, RowOK, Shape
  <2>2. row'.attempt \in asked
    BY <1>1, <1>2, <2>1, CopyAt DEF Copy
  <2>3. RowOK'
    BY <1>1, <2>1, <2>2 DEF LifeInv, RowOK, PassedByOwnButton, Decided
  <2>4. CopiesOK'
    BY <1>1, <1>2, DoneKeeps DEF LifeInv
  <2>5. QED
    BY <1>1, <2>1, <2>3, <2>4 DEF Kept, LifeInv, Life!life
<1>3. CASE Unprompted(p) /\ UNCHANGED row
  BY <1>1, <1>3, UnpromptedKeeps
<1>4. QED
  BY <1>2, <1>3 DEF SavePrompt

LEMMA MarkKeeps ==
  ASSUME LifeInv, NEW p \in Procs, Mark(p)
  PROVE  Kept
<1>1. UNCHANGED <<asked, pressed>> /\ pc[p] = "mark"
  BY DEF Mark, hist
<1>2. snap[p] \in Shape /\ Copy(pc[p], snap[p], asked, pressed) /\ row \in Shape
  BY CopyAt DEF LifeInv, RowOK
<1>3. CASE Mine(p, {"challenged"})
  <2> DEFINE r == [snap[p] EXCEPT !.state = "passing"]
  <2>1. PICK s \in {"check", "lift"} :
          /\ row' = [row EXCEPT !.state = "passing", !.due = TRUE]
          /\ Goto(p, s, r)
    BY <1>3 DEF Mark
  <2>2. row.attempt = snap[p].attempt /\ row.state = "challenged"
    BY <1>3 DEF Mine
  <2>3. row.attempt \in pressed
    BY <1>1, <1>2, <2>2 DEF Copy
  <2>4. "passing" \in Active \cup Final
    BY DEF Active
  <2>5. r \in Shape /\ r.state = "passing" /\ r.attempt = snap[p].attempt
        /\ r.prompt = snap[p].prompt
    BY <1>2, <2>4, NewState
  <2>6. row' \in Shape /\ row'.state = "passing" /\ row'.attempt = row.attempt
        /\ row'.prompt = row.prompt
    BY <1>2, <2>1 DEF Shape, Active
  <2>7. Copy(s, r, asked', pressed')
    BY <1>1, <1>2, <2>5 DEF Copy, Active
  <2>8. CopiesOK'
    BY <1>1, <2>1, <2>5, <2>7, GotoKeeps DEF LifeInv, PCs
  <2>9. RowOK'
    BY <1>1, <2>3, <2>6 DEF LifeInv, RowOK, PassedByOwnButton
  <2>10. Life!Accept
    BY <1>1, <2>2, <2>3, <2>6 DEF Life!Accept, Life!Becomes
  <2>11. QED
    BY <2>8, <2>9, <2>10 DEF Kept, LifeInv, Life!Next
<1>4. CASE ~Mine(p, {"challenged"})
  BY <1>1, <1>4, Ends DEF Mark
<1>5. QED
  BY <1>3, <1>4

\* fail() begins with a step that needs no more of its copy.
LEMMA FailStepPlain ==
  ASSUME NEW r, NEW sent, Decided(r, sent)
  PROVE  FailStep(r) \in Plain
BY DEF FailStep, Decided, Plain

LEMMA FailKeeps ==
  ASSUME LifeInv, NEW p \in Procs, FailCaptcha(p)
  PROVE  Kept
<1>1. UNCHANGED <<asked, pressed>> /\ pc[p] = "fail"
  BY DEF FailCaptcha, hist
<1>2. snap[p] \in Shape /\ Copy(pc[p], snap[p], asked, pressed) /\ row \in Shape
  BY CopyAt DEF LifeInv, RowOK
<1>3. CASE Mine(p, {snap[p].state})
  <2> DEFINE r == [row EXCEPT !.state = "failing", !.action = snap[p].action]
  <2>1. row' = r /\ Goto(p, FailStep(r), r)
    BY <1>3 DEF FailCaptcha
  <2>2. row.attempt = snap[p].attempt /\ row.state \in {"new", "challenged"}
    BY <1>1, <1>2, <1>3 DEF Mine, Copy
  <2>3. r \in Shape /\ r.state = "failing" /\ r.attempt = row.attempt
        /\ r.prompt = row.prompt /\ r.action = snap[p].action
    BY <1>2 DEF Shape, Active
  <2>4. Decided(r, asked)
    BY <1>1, <1>2, <2>2, <2>3 DEF Copy, Decided
  <2>5. FailStep(r) \in Plain
    BY <2>4, FailStepPlain
  <2>6. Copy(FailStep(r), r, asked', pressed')
    BY <1>1, <2>3, <2>4, <2>5 DEF LifeInv, RowOK, Copy, Plain, Active
  <2>7. FailStep(r) \in PCs
    BY <2>5 DEF Plain, PCs
  <2>8. CopiesOK'
    BY <1>1, <2>1, <2>3, <2>6, <2>7, GotoKeeps DEF LifeInv
  <2>9. RowOK'
    BY <1>1, <2>1, <2>3, <2>4 DEF LifeInv, RowOK, PassedByOwnButton
  <2>10. Life!Fail
    BY <1>1, <2>1, <2>2, <2>3 DEF Life!Fail, Life!Becomes
  <2>11. QED
    BY <2>8, <2>9, <2>10 DEF Kept, LifeInv, Life!Next
<1>4. CASE ~Mine(p, {snap[p].state})
  BY <1>1, <1>4, Ends DEF FailCaptcha
<1>5. QED
  BY <1>3, <1>4

\* The sweep takes up what its copy calls for.
LEMMA RouteKeeps ==
  ASSUME LifeInv, NEW p \in Procs, Route(p)
  PROVE  Kept
<1> DEFINE r == snap[p]
<1>1. UNCHANGED <<row, asked, pressed>> /\ pc[p] = "route"
  BY DEF Route, hist
<1>2. r \in Shape /\ Copy("route", r, asked, pressed) /\ r.state \in Active
  BY <1>1, CopyAt DEF Copy
<1>3. CASE r.state = "new" /\ ~inflight /\ r.mode = "button"
  <2> DEFINE x == [r EXCEPT !.action = "unrestrict"]
  <2>1. Goto(p, "fail", x)
    BY <1>3 DEF Route
  <2>2. "unrestrict" \in Actions
    BY DEF Actions
  <2>3. x \in Shape /\ x.action = "unrestrict" /\ x.state = r.state
        /\ x.attempt = r.attempt /\ x.prompt = r.prompt
    BY <1>2, <2>2, Release
  <2>4. Copy("fail", x, asked', pressed')
    BY <1>1, <1>2, <1>3, <2>3 DEF Copy, Decided, Active
  <2>5. QED
    BY <1>1, <2>1, <2>3, <2>4, GoesOn DEF PCs
<1>4. CASE r.state = "new" /\ (inflight \/ r.mode # "button")
  <2>1. Done(p) \/ Goto(p, "cancel", r)
    BY <1>4 DEF Route
  <2>2. QED
    BY <1>1, <2>1, Ends, PlainStep DEF Plain
<1>5. CASE r.state = "challenged"
  <2>1. Done(p) \/ Goto(p, "gate", r)
    BY <1>5 DEF Route
  <2>2. Copy("gate", r, asked', pressed')
    BY <1>1, <1>2, <1>5 DEF Copy
  <2>3. QED
    BY <1>1, <1>2, <2>1, <2>2, Ends, GoesOn DEF PCs
<1>6. CASE r.state = "failing"
  <2>1. Goto(p, FailStep(r), r)
    BY <1>6 DEF Route
  <2>2. FailStep(r) \in Plain
    BY <1>2, <1>6, FailStepPlain DEF Copy
  <2>3. QED
    BY <1>1, <2>1, <2>2, PlainStep
<1>7. CASE r.state = "passing"
  <2>1. Goto(p, "check", r) \/ Goto(p, "cancel", r) \/ Goto(p, "lift", r)
    BY <1>7 DEF Route
  <2>2. QED
    BY <1>1, <2>1, PlainStep DEF Plain
<1>8. QED
  BY <1>2, <1>3, <1>4, <1>5, <1>6, <1>7 DEF Active

LEMMA GateKeeps ==
  ASSUME LifeInv, NEW p \in Procs, Gate(p)
  PROVE  Kept
<1>1. UNCHANGED <<row, asked, pressed>> /\ pc[p] = "gate"
  BY DEF Gate, hist
<1>2. snap[p] \in Shape /\ Copy("gate", snap[p], asked, pressed)
  BY <1>1, CopyAt
<1>3. PICK off \in BOOLEAN, onFail \in OnFails :
        LET open == off \/ ~snap[p].prompt
        IN IF snap[p].mode = "button"
           THEN IF open THEN Goto(p, "fail", [snap[p] EXCEPT !.action = "unrestrict"])
                ELSE Goto(p, "check_timeout", [snap[p] EXCEPT !.action = onFail])
           ELSE IF open \/ onFail # "kick" THEN Goto(p, "cancel", snap[p])
                ELSE Goto(p, "fail", [snap[p] EXCEPT !.action = "decline"])
  BY DEF Gate
<1>4. onFail \in {"kick", "keep_muted"}
  BY OnFailsAssumption
\* A punishment is decided for a copy that has a button only.
<1>5. ASSUME NEW s \in {"fail", "check_timeout"},
             NEW x \in {"unrestrict", "kick", "keep_muted", "decline"},
             x = "unrestrict" \/ snap[p].prompt,
             Goto(p, s, [snap[p] EXCEPT !.action = x])
      PROVE  Kept
  <2> DEFINE r == [snap[p] EXCEPT !.action = x]
  <2>1. x \in Actions
    BY DEF Actions
  <2>2. r \in Shape /\ r.action = x /\ r.state = snap[p].state
        /\ r.attempt = snap[p].attempt /\ r.prompt = snap[p].prompt
    BY <1>2, <2>1, Release
  <2>3. Copy(s, r, asked', pressed')
    BY <1>1, <1>2, <1>5, <2>2 DEF Copy, Decided, Active
  <2>4. QED
    BY <1>1, <1>5, <2>2, <2>3, GoesOn DEF PCs
<1>6. CASE snap[p].mode = "button" /\ (off \/ ~snap[p].prompt)
  <2>1. Goto(p, "fail", [snap[p] EXCEPT !.action = "unrestrict"])
    BY <1>3, <1>6
  <2>2. QED
    BY <2>1, <1>5
<1>7. CASE snap[p].mode = "button" /\ ~(off \/ ~snap[p].prompt)
  <2>1. Goto(p, "check_timeout", [snap[p] EXCEPT !.action = onFail])
    BY <1>3, <1>7
  <2>2. QED
    BY <2>1, <1>4, <1>5, <1>7
<1>8. CASE snap[p].mode # "button" /\ (off \/ ~snap[p].prompt \/ onFail # "kick")
  <2>1. Goto(p, "cancel", snap[p])
    BY <1>3, <1>8
  <2>2. QED
    BY <2>1, <1>1, PlainStep DEF Plain
<1>9. CASE snap[p].mode # "button" /\ ~(off \/ ~snap[p].prompt \/ onFail # "kick")
  <2>1. Goto(p, "fail", [snap[p] EXCEPT !.action = "decline"])
    BY <1>3, <1>9
  <2>2. QED
    BY <2>1, <1>5, <1>9
<1>10. QED
  BY <1>6, <1>7, <1>8, <1>9

LEMMA RetryKeeps ==
  ASSUME LifeInv, NEW p \in Procs, RetryCaptcha(p)
  PROVE  Kept
<1>1. UNCHANGED <<asked, pressed>> /\ Done(p)
  BY DEF RetryCaptcha, hist
<1>2. CASE row' = [row EXCEPT !.tries = @ + 1, !.due = FALSE]
  <2>1. row \in Shape
    BY DEF LifeInv, RowOK
  <2>2. row' \in Shape /\ row'.state = row.state /\ row'.attempt = row.attempt
        /\ row'.action = row.action /\ row'.prompt = row.prompt
    <3>1. row.tries \in Nat
      BY <2>1 DEF Shape
    <3>2. row.tries + 1 \in Nat
      BY <3>1
    <3>3. QED
      BY <1>2, <2>1, <3>2 DEF Shape
  <2>3. RowOK'
    BY <1>1, <2>2 DEF LifeInv, RowOK, PassedByOwnButton, Decided
  <2>4. CopiesOK'
    BY <1>1, DoneKeeps DEF LifeInv
  <2>5. QED
    BY <1>1, <2>2, <2>3, <2>4 DEF Kept, LifeInv, Life!life
<1>3. CASE row' = row
  BY <1>1, <1>3, Ends
<1>4. QED
  BY <1>2, <1>3 DEF RetryCaptcha

\* A goroutine writes the outcome the row calls for and ends.
LEMMA Concludes ==
  ASSUME LifeInv, NEW p \in Procs, Done(p), UNCHANGED <<asked, pressed>>,
         NEW x \in Final, row' = [row EXCEPT !.state = x],
         \/ x = "passed" /\ row.state = "passing"
         \/ x = "failed" /\ row.state = "failing"
         \/ x = "cancelled" /\ row.state \in Active
  PROVE  Kept
<1>1. row' \in Shape /\ row'.state = x /\ row'.action = row.action
      /\ row'.attempt = row.attempt /\ row'.prompt = row.prompt
  BY NewState DEF LifeInv, RowOK
<1>2. RowOK'
  BY <1>1 DEF LifeInv, RowOK, PassedByOwnButton, Decided, Final
<1>3. CopiesOK'
  BY DoneKeeps DEF LifeInv
<1>4. Life!Conclude
  BY <1>1 DEF Life!Conclude, Life!Becomes, Active
<1>5. QED
  BY <1>2, <1>3, <1>4 DEF Kept, LifeInv, Life!Next

LEMMA OutcomeKeeps ==
  ASSUME LifeInv, NEW p \in Procs, Pass(p) \/ Finish(p) \/ Cancel(p)
  PROVE  Kept
<1>1. UNCHANGED <<asked, pressed>> /\ Done(p) /\ pc[p] # "idle"
  BY DEF Pass, Finish, Cancel, hist
<1>2. CASE row' = row
  BY <1>1, <1>2, Ends
<1>3. CASE Pass(p) /\ Mine(p, {"passing"})
  <2>1. row' = [row EXCEPT !.state = "passed"] /\ row.state = "passing"
    BY <1>3 DEF Pass, Mine
  <2>2. QED
    BY <1>1, <2>1, Concludes DEF Final
<1>4. CASE Finish(p) /\ Mine(p, {"failing"})
  <2>1. PICK x \in {"cancelled", "failed"} :
          row' = [row EXCEPT !.state = x] /\ row.state = "failing"
    BY <1>4 DEF Finish, Mine
  <2>2. QED
    BY <1>1, <2>1, Concludes DEF Final, Active
<1>5. CASE Cancel(p) /\ Mine(p, {snap[p].state})
  <2>1. row' = [row EXCEPT !.state = "cancelled"] /\ row.state = snap[p].state
    BY <1>5 DEF Cancel, Mine
  <2>2. snap[p].state \in Active
    BY <1>1, CopyAt DEF Copy
  <2>3. QED
    BY <1>1, <2>1, <2>2, Concludes DEF Final
<1>6. QED
  BY <1>2, <1>3, <1>4, <1>5 DEF Pass, Finish, Cancel

-----------------------------------------------------------------------------
(* The theorems. *)

LEMMA StepKeeps == LifeInv /\ [Next]_vars => Kept
<1> SUFFICES ASSUME LifeInv, [Next]_vars PROVE Kept
  OBVIOUS
<1>1. CASE UNCHANGED vars
  <2>1. UNCHANGED <<row, pc, snap, asked, pressed>>
    BY <1>1 DEF vars, hist
  <2>2. QED
    BY <2>1, CopiesStay, RowStays, Stutters DEF Kept, LifeInv
<1>2. ASSUME NEW p \in Procs, Run(p)
      PROVE  Kept
  BY <1>2, TelegramKeeps, ChallengeKeeps, SendKeeps, SavePromptKeeps, MarkKeeps, RouteKeeps,
     GateKeeps, FailKeeps, CheckKeeps, RetryKeeps, OutcomeKeeps, StoreFailsKeeps DEF Run
<1>3. QED
  BY <1>1, <1>2, BeginKeeps, OutsideKeeps, MemberChangeKeeps, TickKeeps, PressKeeps,
     SweepReadKeeps, CrashKeeps DEF Next

\* However the press, the sweep and the challenges of several attempts interleave,
\* each of them works from a copy that is worth what Copy says, and the row is
\* consistent.  (the fences of updateCaptcha, SetCaptchaPrompt)
THEOREM CopiesWorth == Spec => []LifeInv
<1>1. Init => LifeInv
  BY InitLife
<1>2. LifeInv /\ [Next]_vars => LifeInv'
  BY StepKeeps DEF Kept
<1>3. QED
  BY <1>1, <1>2, PTL DEF Spec

\* The captcha keeps the promise of ChallengeLife for any number of attempts,
\* crashes and failed calls.  (BeginCaptcha and the transitions of store/captcha.go)
THEOREM CaptchaImplementsLife == Spec => ImplementsLife
<1>1. Init => Life!Init
  BY InitLife
<1>2. LifeInv /\ [Next]_vars => [Life!Next]_(Life!life)
  BY StepKeeps DEF Kept
<1>3. QED
  BY <1>1, <1>2, CopiesWorth, PTL DEF Spec, ImplementsLife, Life!Spec

\* A challenge is passed only by the button of its own attempt.  (decidePress,
\* MarkCaptchaPassing)
THEOREM CaptchaOwnButton == Spec => []PassedByOwnButton
<1>1. LifeInv => PassedByOwnButton
  BY DEF LifeInv, RowOK
<1>2. QED
  BY <1>1, CopiesWorth, PTL

\* Nobody is punished for not pressing a button that was never delivered.
\* (sweepChallenged, SetCaptchaPrompt)
THEOREM CaptchaNoPunish == Spec => []NoPunishWithoutPrompt
<1>1. LifeInv => NoPunishWithoutPrompt
  BY DEF LifeInv, RowOK, Decided, NoPunishWithoutPrompt
<1>2. QED
  BY <1>1, CopiesWorth, PTL

-----------------------------------------------------------------------------
(* Sanctions are respected and nobody is forgotten.  The row, the copies, the  *)
(* member and the sanction are tied together by a second invariant.            *)

\* What goroutine p at step s, with the copy r, knows of the row w.
Held(p, s, r, w) ==
  /\ \/ s \in {"route", "gate", "check_timeout", "ban", "unban", "decline"}
     \/ r.action \in {"kick", "keep_muted", "decline"}
     => p = Sweeper
  /\ s \in {"check", "lift"} => \/ r.state = "passing"
                                \/ r.state = "failing" /\ r.action = "unrestrict"
  /\ s = "pass" => r.state = "passing"
  /\ s \in {"ban", "unban"} => r.state = "failing" /\ r.action = "kick"
  /\ s = "decline" => r.state = "failing" /\ r.action = "decline"
  /\ s \in {"finish", "give_up"} => r.state = "failing"
  /\ s = "restrict" => r.mode = "button"
  /\ r.action = "kick" => r.mode = "button"
  /\ r.action = "decline" => r.mode # "button"
  /\ r.attempt <= w.attempt
  /\ r.attempt = w.attempt /\ s # "idle" => r.mode = w.mode
  /\ r.attempt = w.attempt /\ r.state = "failing" =>
       w.state \in {"failing"} \cup Final /\ w.action = r.action
  /\ r.attempt = w.attempt /\ r.state = "passing" => w.state \in {"passing"} \cup Final
  /\ r.state = "failing" /\ r.action = "kick" => w.attempt = r.attempt /\ w.state = "failing"

HeldOK == \A p \in Procs : Held(p, pc[p], snap[p], row)

\* An action is named by a failure only, and suits the mode.
ActionOK(w) ==
  /\ w.state \in {"new", "challenged", "passing"} => w.action = ""
  /\ w.action = "kick" => w.mode = "button"
  /\ w.action = "decline" => w.mode # "button"

\* A sanction of this attempt that no release was too far gone to see.
Live == sanction.phase \in {"recorded", "applied"} /\ sanction.at = row.attempt /\ ~raced

\* A step past the last check of a release.
Past(s, r) ==
  \/ s = "lift" /\ r.mode = "button"
  \/ r.action = "kick" /\ s \in {"fail", "route", "ban", "unban"}

Kicks(w) == w.state = "failing" /\ w.action = "kick"

SanctionOK ==
  /\ sanction \in [at : Nat, phase : {"none", "recorded", "applied", "undone"}]
  /\ sanction.at <= row.attempt
  /\ sanction.phase # "none" /\ sanction.at = row.attempt => row.mode = "button"
  /\ Live => /\ sanction.phase = "applied" => member \in {"muted", "banned"}
             /\ \A p \in Procs : ~Past(pc[p], snap[p])
             /\ ~Kicks(row)

\* Somebody is restricted by the captcha alone.
Loose == member \in {"muted", "banned"} /\ ~excused /\ sanction.phase # "applied"

\* The row w still has to release them, whom Telegram holds as m.
ToRelease(w, m) == w.state \in Active /\ w.mode = "button" /\ (m = "banned" => Kicks(w))

\* The step s with the copy r does not end the row w before that.
NotEnding(s, r, w, m) ==
  /\ s = "pass" /\ r.attempt = w.attempt => w.state # "passing"
  /\ s = "finish" /\ r.attempt = w.attempt /\ r.action # "keep_muted" => w.state # "failing"
  /\ s = "unban" => m # "muted"

LooseOK ==
  Loose => /\ ToRelease(row, member)
           /\ \A p \in Procs : NotEnding(pc[p], snap[p], row, member)

CareInv == HeldOK /\ ActionOK(row) /\ SanctionOK /\ LooseOK

-----------------------------------------------------------------------------
(* What a step of one goroutine leaves the others with. *)

\* How a row may change under the copies.
Moved(w, v) ==
  \/ v.attempt > w.attempt /\ w.state # "failing"
  \/ /\ v.attempt = w.attempt /\ v.mode = w.mode
     /\ \/ v.state = w.state /\ v.action = w.action
        \/ w.state \in {"new", "challenged"}
        \/ w.state \in {"passing", "failing"} /\ v.state \in Final /\ v.action = w.action

LEMMA HeldMoves ==
  ASSUME NEW p, NEW s, NEW r \in Shape, NEW w \in Shape, NEW v \in Shape,
         Held(p, s, r, w), Moved(w, v),
         Kicks(w) /\ v.state \in Final => ~Kicks(r)
  PROVE  Held(p, s, r, v)
<1>1. r.attempt \in Nat /\ w.attempt \in Nat /\ v.attempt \in Nat
  BY DEF Shape
<1>2. CASE v.attempt > w.attempt /\ w.state # "failing"
  <2>1. r.attempt < v.attempt
    BY <1>1, <1>2 DEF Held
  <2>2. ~(r.state = "failing" /\ r.action = "kick")
    BY <1>2 DEF Held
  <2>3. QED
    BY <1>1, <2>1, <2>2 DEF Held
<1>3. CASE v.attempt = w.attempt /\ v.mode = w.mode
  <2>1. CASE v.state = w.state /\ v.action = w.action
    BY <1>3, <2>1 DEF Held
  <2>2. CASE w.state \in {"new", "challenged"}
    BY <1>3, <2>2 DEF Held, Final
  <2>3. CASE w.state \in {"passing", "failing"} /\ v.state \in Final /\ v.action = w.action
    BY <1>3, <2>3 DEF Held, Final, Kicks
  <2>4. QED
    BY <1>2, <2>1, <2>2, <2>3, <1>1 DEF Moved
<1>4. QED
  BY <1>2, <1>3 DEF Moved

\* A goroutine is at step s with the copy r; the others are where they were.
Sets(p, s, r) ==
  /\ pc' = [pc EXCEPT ![p] = s]
  /\ snap' = [snap EXCEPT ![p] = IF s = "idle" THEN NoRow ELSE r]

LEMMA GotoSets ==
  ASSUME NEW p, NEW s, NEW r, Goto(p, s, r)
  PROVE  Sets(p, s, r)
BY DEF Goto, Sets

LEMMA DoneSets ==
  ASSUME NEW p, Done(p)
  PROVE  Sets(p, "idle", NoRow)
BY DEF Done, Goto, Sets

LEMMA Others ==
  ASSUME LifeInv, NEW p \in Procs, NEW s, NEW r, Sets(p, s, r), NEW q \in Procs
  PROVE  \/ q # p /\ pc'[q] = pc[q] /\ snap'[q] = snap[q]
         \/ q = p /\ pc'[q] = s /\ snap'[q] = IF s = "idle" THEN NoRow ELSE r
BY DEF Sets, LifeInv, CopiesOK

LEMMA Types ==
  ASSUME LifeInv, NEW p \in Procs
  PROVE  /\ snap[p] \in Shape /\ row \in Shape
         /\ snap[p].attempt \in Nat /\ row.attempt \in Nat
BY DEF LifeInv, CopiesOK, RowOK, Shape

LEMMA IdleHeld ==
  ASSUME NEW p, NEW w \in Shape
  PROVE  Held(p, "idle", NoRow, w)
<1>1. NoRow.state = "none" /\ NoRow.action = "" /\ NoRow.attempt = 0
  BY DEF NoRow
<1>2. w.attempt \in Nat
  BY DEF Shape
<1>3. NoRow.attempt <= w.attempt
  <2>1. 0 <= w.attempt
    BY <1>2
  <2>2. QED
    BY <1>1, <2>1
<1>4. /\ NoRow.state \notin {"failing", "passing"}
      /\ NoRow.action \notin {"kick", "keep_muted", "decline"}
  BY <1>1
<1>5. QED
  BY <1>3, <1>4 DEF Held

LEMMA HeldStep ==
  ASSUME LifeInv, HeldOK, NEW p \in Procs, NEW s, NEW r, Sets(p, s, r),
         row' \in Shape, Moved(row, row'),
         Kicks(row) /\ row'.state \in Final => p = Sweeper,
         s # "idle" => Held(p, s, r, row')
  PROVE  HeldOK'
<1> SUFFICES ASSUME NEW q \in Procs
             PROVE  Held(q, pc'[q], snap'[q], row')
  BY DEF HeldOK
<1>1. CASE q # p /\ pc'[q] = pc[q] /\ snap'[q] = snap[q]
  <2>1. snap[q] \in Shape /\ row \in Shape /\ Held(q, pc[q], snap[q], row)
    BY Types DEF HeldOK
  <2>2. Kicks(row) /\ row'.state \in Final => ~Kicks(snap[q])
    BY <1>1, <2>1 DEF Kicks, Held
  <2>3. Held(q, pc[q], snap[q], row')
    BY <2>1, <2>2, HeldMoves
  <2>4. QED
    BY <1>1, <2>3
<1>2. CASE q = p /\ pc'[q] = s /\ snap'[q] = IF s = "idle" THEN NoRow ELSE r
  BY <1>2, IdleHeld
<1>3. QED
  BY <1>1, <1>2, Others

LEMMA SanctionStep ==
  ASSUME LifeInv, SanctionOK, NEW p \in Procs, NEW s, NEW r, Sets(p, s, r),
         UNCHANGED <<sanction, raced>>, row'.attempt = row.attempt, row'.mode = row.mode,
         Live => ~Past(s, r) /\ ~Kicks(row'),
         Live /\ sanction.phase = "applied" => member' \in {"muted", "banned"}
  PROVE  SanctionOK'
<1>1. Live' => Live
  BY DEF Live
<1>2. ASSUME Live', NEW q \in Procs
      PROVE  ~Past(pc'[q], snap'[q])
  <2>1. ~Past("idle", NoRow) /\ ~Past(pc[q], snap[q]) /\ ~Past(s, r)
    BY <1>1, <1>2 DEF Past, NoRow, SanctionOK
  <2>2. CASE q # p /\ pc'[q] = pc[q] /\ snap'[q] = snap[q]
    BY <2>1, <2>2
  <2>3. CASE q = p /\ pc'[q] = s /\ snap'[q] = IF s = "idle" THEN NoRow ELSE r
    BY <2>1, <2>3
  <2>4. QED
    BY <2>2, <2>3, Others
<1>3. Live' => ~Kicks(row)' /\ (sanction'.phase = "applied" => member' \in {"muted", "banned"})
  BY <1>1 DEF Kicks
<1>4. QED
  BY <1>2, <1>3 DEF SanctionOK

\* Nobody ends a row the others have not moved to that end.
LEMMA NotEndingMoves ==
  ASSUME NEW p, NEW s, NEW r \in Shape, NEW w \in Shape, NEW v \in Shape, NEW m,
         Held(p, s, r, w), Moved(w, v), NotEnding(s, r, w, m)
  PROVE  NotEnding(s, r, v, m)
<1>1. r.attempt \in Nat /\ w.attempt \in Nat /\ v.attempt \in Nat
  BY DEF Shape
<1>2. CASE v.attempt > w.attempt
  BY <1>1, <1>2 DEF Held, NotEnding
<1>3. CASE v.attempt = w.attempt
  BY <1>1, <1>3 DEF Held, NotEnding, Moved, Final
<1>4. QED
  BY <1>2, <1>3 DEF Moved

LEMMA LooseStep ==
  ASSUME LifeInv, HeldOK, LooseOK, NEW p \in Procs, NEW s, NEW r, Sets(p, s, r),
         row' \in Shape, Moved(row, row'),
         Loose' => Loose /\ member' = member,
         Loose' => ToRelease(row', member'),
         Loose' /\ s # "idle" => NotEnding(s, r, row', member')
  PROVE  LooseOK'
<1>1. ASSUME Loose', NEW q \in Procs
      PROVE  NotEnding(pc'[q], snap'[q], row', member')
  <2>1. CASE q # p /\ pc'[q] = pc[q] /\ snap'[q] = snap[q]
    <3>1. snap[q] \in Shape /\ row \in Shape /\ Held(q, pc[q], snap[q], row)
      BY Types DEF HeldOK
    <3>2. NotEnding(pc[q], snap[q], row, member)
      BY <1>1 DEF LooseOK
    <3>3. NotEnding(pc[q], snap[q], row', member)
      BY <3>1, <3>2, NotEndingMoves
    <3>4. QED
      BY <1>1, <2>1, <3>3
  <2>2. CASE q = p /\ pc'[q] = s /\ snap'[q] = IF s = "idle" THEN NoRow ELSE r
    <3>1. NotEnding("idle", NoRow, row', member')
      BY DEF NotEnding
    <3>2. QED
      BY <1>1, <2>2, <3>1
  <2>3. QED
    BY <2>1, <2>2, Others
<1>2. Loose' => ToRelease(row, member)'
  BY DEF ToRelease, Kicks
<1>3. (\A q \in Procs : NotEnding(pc[q], snap[q], row, member))' \/ ~Loose'
  BY <1>1 DEF NotEnding
<1>4. QED
  BY <1>2, <1>3 DEF LooseOK

-----------------------------------------------------------------------------
(* Steps that leave the row, or all but its state, as it is. *)

Cares == CareInv'

\* A goroutine goes on and leaves the row and the sanction alone.
LEMMA CaresOn ==
  ASSUME LifeInv, CareInv, NEW p \in Procs, NEW s, NEW r, Sets(p, s, r),
         UNCHANGED <<row, sanction, raced>>, excused => excused',
         s # "idle" => Held(p, s, r, row),
         Live => ~Past(s, r),
         Live /\ sanction.phase = "applied" => member' \in {"muted", "banned"},
         Loose' => member' = member,
         Loose' /\ s # "idle" => NotEnding(s, r, row, member)
  PROVE  Cares
<1>1. row \in Shape /\ Moved(row, row')
  BY Types DEF Moved
<1>2. ~(Kicks(row) /\ row'.state \in Final)
  BY DEF Kicks, Final
<1>3. HeldOK'
  BY <1>1, <1>2, HeldStep DEF CareInv
<1>4. SanctionOK'
  <2>1. Live => ~Kicks(row')
    BY DEF CareInv, SanctionOK
  <2>2. QED
    BY <2>1, SanctionStep DEF CareInv
<1>5. LooseOK'
  <2>1. Loose' => Loose
    BY DEF Loose
  <2>2. Loose' => ToRelease(row', member')
    BY <2>1 DEF CareInv, LooseOK
  <2>3. QED
    BY <1>1, <2>1, <2>2, LooseStep DEF CareInv
<1>6. ActionOK(row)'
  BY DEF CareInv, ActionOK
<1>7. QED
  BY <1>3, <1>4, <1>5, <1>6 DEF Cares, CareInv

\* The person stays as they are.
LEMMA CaresQuietly ==
  ASSUME LifeInv, CareInv, NEW p \in Procs, NEW s, NEW r, Sets(p, s, r),
         UNCHANGED <<row, sanction, raced, member>>, excused => excused',
         s # "idle" => Held(p, s, r, row),
         Live => ~Past(s, r),
         Loose' /\ s # "idle" => NotEnding(s, r, row, member)
  PROVE  Cares
<1>1. Live /\ sanction.phase = "applied" => member' \in {"muted", "banned"}
  BY DEF CareInv, SanctionOK
<1>2. QED
  BY <1>1, CaresOn

LEMMA CaresEnding ==
  ASSUME LifeInv, CareInv, NEW p \in Procs, Done(p),
         UNCHANGED <<row, sanction, raced, member>>, excused => excused'
  PROVE  Cares
<1>1. Sets(p, "idle", NoRow) /\ ~Past("idle", NoRow)
  BY DoneSets DEF Past, NoRow
<1>2. QED
  BY <1>1, CaresQuietly

LEMMA HeldAt ==
  ASSUME LifeInv, CareInv, NEW p \in Procs
  PROVE  Held(p, pc[p], snap[p], row)
BY DEF CareInv, HeldOK

\* Steps for which the copy the goroutine has is good enough.
Open == {"challenge", "save", "check_press", "mark", "retry", "cancel"}

LEMMA OpenHeld ==
  ASSUME NEW p, NEW s, NEW r, NEW w, Held(p, s, r, w), s # "idle", NEW t \in Open
  PROVE  Held(p, t, r, w) /\ ~Past(t, r) /\ \A m : NotEnding(t, r, w, m)
<1>1. ~Past(t, r) /\ \A m : NotEnding(t, r, w, m)
  BY DEF Past, NotEnding, Open
<1>2. /\ t # "idle" /\ t \notin {"route", "gate", "check_timeout", "ban", "unban", "decline"}
      /\ t \notin {"check", "lift", "pass", "ban", "unban", "decline", "finish", "give_up", "restrict"}
  BY DEF Open
<1>3. Held(p, t, r, w)
  BY <1>2 DEF Held
<1>4. QED
  BY <1>1, <1>3

\* A goroutine takes the copy it has to such a step, or ends, and nothing else happens.
LEMMA CaresOpenly ==
  ASSUME LifeInv, CareInv, NEW p \in Procs, pc[p] # "idle", NEW t \in Open \cup {"idle"},
         Goto(p, t, snap[p]),
         UNCHANGED <<row, sanction, raced>>, excused => excused',
         Live /\ sanction.phase = "applied" => member' \in {"muted", "banned"},
         Loose' => member' = member
  PROVE  Cares
<1>1. Sets(p, t, snap[p]) /\ Held(p, pc[p], snap[p], row)
  BY GotoSets, HeldAt
<1>2. CASE t \in Open
  <2>1. /\ Held(p, t, snap[p], row) /\ ~Past(t, snap[p])
        /\ NotEnding(t, snap[p], row, member)
    BY <1>1, <1>2, OpenHeld
  <2>2. QED
    BY <1>1, <2>1, CaresOn
<1>3. CASE t = "idle"
  <2>1. ~Past("idle", snap[p])
    BY DEF Past
  <2>2. QED
    BY <1>1, <1>3, <2>1, CaresOn
<1>4. QED
  BY <1>2, <1>3

-----------------------------------------------------------------------------
(* The person, the admins and moderation. *)

\* Nothing of the goroutines changes, and the row at most as Moved allows.
LEMMA HeldStays ==
  ASSUME LifeInv, HeldOK, UNCHANGED <<pc, snap>>, row' \in Shape, Moved(row, row'),
         ~(Kicks(row) /\ row'.state \in Final)
  PROVE  HeldOK'
<1> SUFFICES ASSUME NEW q \in Procs
             PROVE  Held(q, pc[q], snap[q], row')
  BY DEF HeldOK
<1>1. snap[q] \in Shape /\ row \in Shape /\ Held(q, pc[q], snap[q], row)
  BY Types DEF HeldOK
<1>2. QED
  BY <1>1, HeldMoves

LEMMA BeginCares ==
  ASSUME LifeInv, CareInv, LifeInv', NEW m \in Modes, Begin(m)
  PROVE  Cares
<1> DEFINE r == BeginCaptcha(m)
<1> DEFINE p == Challenger(r.attempt)
<1> DEFINE s == IF m = "button" THEN "restrict" ELSE "challenge"
<1>1. /\ r.state = "new" /\ r.attempt = row.attempt + 1 /\ r.action = "" /\ r.mode = m
      /\ row.attempt \in Nat
  BY DEF BeginCaptcha, LifeInv, RowOK, Shape
<1>2. p \in Procs
  BY <1>1 DEF Begin, CanBegin, Procs
<1>3. /\ row' = r /\ UNCHANGED sanction /\ ~excused' /\ row.state \in {"none", "failed", "cancelled"}
      /\ member' \in {"free", "pending"} /\ Sets(p, s, r)
  BY DEF Begin, CanBegin, Sets
<1>4. /\ row' \in Shape /\ row'.state = "new" /\ row'.attempt = row.attempt + 1
      /\ row'.action = "" /\ row'.mode = m
  BY <1>1, <1>3 DEF LifeInv, RowOK
<1>5. row.attempt \in Nat
  BY <1>1
<1>6. row'.attempt = row.attempt + 1
  BY <1>4
<1>7. Moved(row, row')
  <2>1. row'.attempt > row.attempt
    BY <1>5, <1>6
  <2>2. QED
    BY <1>3, <2>1 DEF Moved
<1>8. HeldOK'
  <2>1. Held(p, s, row', row')
    <3>1. row'.attempt <= row'.attempt
      BY <1>5, <1>6
    <3>2. QED
      BY <1>4, <3>1 DEF Held
  <2>2. ~(Kicks(row) /\ row'.state \in Final)
    BY <1>3 DEF Kicks
  <2>3. QED
    BY <1>2, <1>3, <1>4, <1>7, <2>1, <2>2, HeldStep DEF CareInv
<1>9. ActionOK(row)'
  BY <1>4 DEF ActionOK
<1>10. SanctionOK'
  <2>1. sanction.at \in Nat /\ sanction.at <= row.attempt
    BY DEF CareInv, SanctionOK
  <2>2. sanction'.at < row'.attempt /\ sanction'.at \in Nat /\ row'.attempt \in Nat
    BY <1>3, <1>5, <1>6, <2>1
  <2>3. QED
    BY <1>3, <2>1, <2>2 DEF CareInv, SanctionOK, Live
<1>11. LooseOK'
  BY <1>3 DEF LooseOK, Loose
<1>12. QED
  BY <1>8, <1>9, <1>10, <1>11 DEF Cares, CareInv

\* Somebody who comes or goes on their own account was neither muted nor banned, and is not.
LEMMA OwnMoveCares ==
  ASSUME LifeInv, CareInv, KnownRequest \/ OwnMove
  PROVE  Cares
<1>1. /\ UNCHANGED <<row, sanction, pc, snap, raced>> /\ member \in {"out", "free", "pending"}
      /\ member' \in {"out", "free", "pending"}
  BY DEF KnownRequest, OwnMove, hist
<1>2. HeldOK' /\ ActionOK(row)' /\ LooseOK'
  BY <1>1 DEF CareInv, HeldOK, Held, ActionOK, LooseOK, Loose
<1>3. SanctionOK'
  BY <1>1 DEF CareInv, SanctionOK, Live, Past, Kicks
<1>4. QED
  BY <1>2, <1>3 DEF Cares, CareInv

LEMMA MemberChangeCares ==
  ASSUME LifeInv, CareInv, NEW to \in Members, OnMemberChange(to)
  PROVE  Cares
<1>1. /\ UNCHANGED <<pc, snap, raced>> /\ excused' = TRUE
      /\ row' = IF row.state \in {"new", "challenged"} THEN [row EXCEPT !.state = "cancelled"] ELSE row
      /\ sanction' = IF sanction.phase = "applied" THEN [sanction EXCEPT !.phase = "undone"] ELSE sanction
  BY DEF OnMemberChange
<1>2. /\ row' \in Shape /\ row'.attempt = row.attempt /\ row'.mode = row.mode
      /\ row'.action = row.action
      /\ \/ row'.state = row.state
         \/ row.state \in {"new", "challenged"} /\ row'.state = "cancelled"
  BY <1>1, NewState DEF LifeInv, RowOK, Final
<1>3. HeldOK'
  <2>1. Moved(row, row') /\ ~(Kicks(row) /\ row'.state \in Final)
    BY <1>2 DEF Moved, Kicks, Final
  <2>2. QED
    BY <1>1, <1>2, <2>1, HeldStays DEF CareInv
<1>4. ActionOK(row)'
  BY <1>2 DEF CareInv, ActionOK
<1>5. SanctionOK'
  <2>1. CASE sanction.phase = "applied"
    <3>1. sanction'.at = sanction.at \/ sanction' = sanction
      BY <1>1, <2>1
    <3>2. QED
      BY <1>1, <1>2, <2>1 DEF CareInv, SanctionOK, Live
  <2>2. CASE sanction.phase # "applied"
    <3>1. sanction' = sanction
      BY <1>1, <2>2
    <3>2. Live' => Live
      BY <1>1, <1>2, <3>1 DEF Live
    <3>3. Kicks(row)' => Kicks(row)
      BY <1>2 DEF Kicks
    <3>4. QED
      BY <1>1, <1>2, <2>2, <3>1, <3>2, <3>3 DEF CareInv, SanctionOK, Past
  <2>3. QED
    BY <2>1, <2>2
<1>6. LooseOK'
  BY <1>1 DEF LooseOK, Loose
<1>7. QED
  BY <1>3, <1>4, <1>5, <1>6 DEF Cares, CareInv

LEMMA RecordCares ==
  ASSUME LifeInv, CareInv, RecordSanction
  PROVE  Cares
<1>1. /\ UNCHANGED <<row, member, pc, snap, excused>> /\ row.mode = "button"
      /\ sanction.phase # "applied"
      /\ sanction' = [at |-> row.attempt, phase |-> "recorded"]
      /\ raced' = (raced \/ (\E p \in Procs : Committed(p)) \/ (row.state = "failing" /\ row.action = "kick"))
  BY DEF RecordSanction
<1>2. row.attempt \in Nat /\ sanction'.at = row.attempt /\ sanction'.phase = "recorded"
  BY <1>1 DEF LifeInv, RowOK, Shape
<1>3. HeldOK' /\ ActionOK(row)'
  BY <1>1 DEF CareInv, HeldOK, Held, ActionOK
<1>4. SanctionOK'
  <2>1. ASSUME ~raced', NEW p \in Procs PROVE ~Past(pc[p], snap[p])
    BY <1>1, <2>1 DEF Committed, Past
  <2>2. ~raced' => ~Kicks(row)
    BY <1>1 DEF Kicks
  <2>3. QED
    BY <1>1, <1>2, <2>1, <2>2 DEF SanctionOK, Live, Past, Kicks
<1>5. LooseOK'
  BY <1>1 DEF CareInv, LooseOK, Loose, ToRelease, NotEnding, Kicks
<1>6. QED
  BY <1>3, <1>4, <1>5 DEF Cares, CareInv

LEMMA SanctionCares ==
  ASSUME LifeInv, CareInv, Sanction
  PROVE  Cares
<1>1. UNCHANGED <<row, pc, snap, raced, excused>>
  BY DEF Sanction, hist
<1>2. row.attempt \in Nat /\ sanction.at \in Nat
  BY DEF LifeInv, RowOK, Shape, CareInv, SanctionOK
<1>3. HeldOK' /\ ActionOK(row)'
  BY <1>1 DEF CareInv, HeldOK, Held, ActionOK
<1>4. sanction \in [at : Nat, phase : {"none", "recorded", "applied", "undone"}]
  BY DEF CareInv, SanctionOK
<1>5. CASE /\ sanction.phase = "recorded" /\ member' \in Sanctions
           /\ sanction' = [sanction EXCEPT !.phase = "applied"]
  <2>1. sanction'.phase = "applied" /\ sanction'.at = sanction.at
        /\ sanction' \in [at : Nat, phase : {"none", "recorded", "applied", "undone"}]
    BY <1>4, <1>5
  <2>2. member' \in {"muted", "banned"}
    BY <1>5, SanctionsAssumption
  <2>3. Live' => Live
    BY <1>1, <1>5, <2>1 DEF Live
  <2>4. SanctionOK'
    BY <1>1, <1>5, <2>1, <2>2, <2>3 DEF CareInv, SanctionOK, Past, Kicks
  <2>5. LooseOK'
    BY <2>1 DEF LooseOK, Loose
  <2>6. QED
    BY <1>3, <2>4, <2>5 DEF Cares, CareInv
<1>6. CASE sanction.phase = "recorded" /\ sanction' = [at |-> 0, phase |-> "none"] /\ UNCHANGED member
  <2>1. SanctionOK'
    BY <1>1, <1>2, <1>6 DEF SanctionOK, Live
  <2>2. LooseOK'
    BY <1>1, <1>6 DEF CareInv, LooseOK, Loose, ToRelease, NotEnding, Kicks
  <2>3. QED
    BY <1>3, <2>1, <2>2 DEF Cares, CareInv
<1>7. CASE /\ sanction.phase = "applied"
           /\ sanction' = [sanction EXCEPT !.phase = "undone"]
           /\ member' = IF member = "banned" THEN "out" ELSE Unrestricted
  <2>1. sanction'.phase = "undone" /\ sanction'.at = sanction.at
        /\ sanction' \in [at : Nat, phase : {"none", "recorded", "applied", "undone"}]
    BY <1>4, <1>7
  <2>2. SanctionOK'
    BY <1>1, <1>7, <2>1 DEF CareInv, SanctionOK, Live
  <2>3. LooseOK'
    BY <1>7 DEF LooseOK, Loose, Unrestricted
  <2>4. QED
    BY <1>3, <2>2, <2>3 DEF Cares, CareInv
<1>8. QED
  BY <1>5, <1>6, <1>7 DEF Sanction

LEMMA TickCares ==
  ASSUME LifeInv, CareInv, Tick
  PROVE  Cares
<1>1. row' = [row EXCEPT !.due = TRUE] /\ UNCHANGED <<pc, snap, member, sanction, raced, excused>>
  BY DEF Tick, hist
<1>2. row' \in Shape /\ row'.state = row.state /\ row'.attempt = row.attempt
      /\ row'.mode = row.mode /\ row'.action = row.action
  BY <1>1 DEF LifeInv, RowOK, Shape
<1>3. HeldOK'
  <2>1. Moved(row, row') /\ ~(Kicks(row) /\ row'.state \in Final)
    BY <1>2 DEF Moved, Kicks, Final
  <2>2. QED
    BY <1>1, <1>2, <2>1, HeldStays DEF CareInv
<1>4. ActionOK(row)'
  BY <1>2 DEF CareInv, ActionOK
<1>5. SanctionOK'
  BY <1>1, <1>2 DEF CareInv, SanctionOK, Live, Past, Kicks
<1>6. LooseOK'
  BY <1>1, <1>2 DEF CareInv, LooseOK, Loose, ToRelease, NotEnding, Kicks
<1>7. QED
  BY <1>3, <1>4, <1>5, <1>6 DEF Cares, CareInv

LEMMA CrashCares ==
  ASSUME LifeInv, CareInv, Crash
  PROVE  Cares
<1>1. /\ UNCHANGED <<row, member, sanction, raced, excused>>
      /\ pc' = [p \in Procs |-> "idle"] /\ snap' = [p \in Procs |-> NoRow]
  BY DEF Crash, hist
<1>2. ASSUME NEW q \in Procs
      PROVE  pc'[q] = "idle" /\ snap'[q] = NoRow
  BY <1>1
<1>3. row \in Shape
  BY DEF LifeInv, RowOK
<1>4. HeldOK'
  BY <1>1, <1>2, <1>3, IdleHeld DEF HeldOK
<1>5. ActionOK(row)'
  BY <1>1 DEF CareInv, ActionOK
<1>6. SanctionOK'
  <2>1. \A q \in Procs : ~Past(pc'[q], snap'[q])
    BY <1>2 DEF Past, NoRow
  <2>2. QED
    BY <1>1, <2>1 DEF CareInv, SanctionOK, Live, Kicks
<1>7. LooseOK'
  <2>1. \A q \in Procs : NotEnding(pc'[q], snap'[q], row', member')
    BY <1>2 DEF NotEnding
  <2>2. QED
    BY <1>1, <2>1 DEF CareInv, LooseOK, Loose, ToRelease, Kicks
<1>8. QED
  BY <1>4, <1>5, <1>6, <1>7 DEF Cares, CareInv

-----------------------------------------------------------------------------
(* The steps of the goroutines that leave the row alone. *)

LEMMA OwnAttempt ==
  ASSUME LifeInv
  PROVE  row.attempt <= row.attempt
<1>1. row.attempt \in Nat
  BY DEF LifeInv, RowOK, Shape
<1>2. QED
  BY <1>1

LEMMA PressCares ==
  ASSUME LifeInv, CareInv, NEW a \in Attempts, Press(a)
  PROVE  Cares
<1> DEFINE s == IF row.mode = "button" THEN "check_press" ELSE "mark"
<1>1. /\ Goto(Presser, s, row) /\ row.state = "challenged"
      /\ UNCHANGED <<row, member, sanction, raced, excused>>
  BY DEF Press
<1>2. row.action = ""
  BY <1>1 DEF CareInv, ActionOK
<1>3. row.attempt <= row.attempt
  BY OwnAttempt
<1>4. Held(Presser, s, row, row)
  BY <1>1, <1>2, <1>3 DEF Held
<1>5. ~Past(s, row) /\ NotEnding(s, row, row, member)
  BY DEF Past, NotEnding
<1>6. Presser \in Procs /\ Sets(Presser, s, row)
  BY <1>1, GotoSets DEF Procs
<1>7. QED
  BY <1>1, <1>4, <1>5, <1>6, CaresQuietly

LEMMA SweepReadCares ==
  ASSUME LifeInv, CareInv, SweepRead
  PROVE  Cares
<1>1. /\ Goto(Sweeper, "route", row) /\ row.state \in Active
      /\ UNCHANGED <<row, member, sanction, raced, excused>>
  BY DEF SweepRead, DueCaptchas, hist
<1>2. ActionOK(row)
  BY DEF CareInv
<1>3. row.attempt <= row.attempt
  BY OwnAttempt
<1>4. Held(Sweeper, "route", row, row)
  BY <1>1, <1>2, <1>3 DEF Held, ActionOK
<1>5. Live => ~Past("route", row)
  <2>1. row.action = "kick" => Kicks(row)
    BY <1>1, <1>2 DEF ActionOK, Kicks, Active
  <2>2. QED
    BY <2>1 DEF Past, CareInv, SanctionOK
<1>6. NotEnding("route", row, row, member)
  BY DEF NotEnding
<1>7. Sweeper \in Procs /\ Sets(Sweeper, "route", row)
  BY <1>1, GotoSets DEF Procs
<1>8. QED
  BY <1>1, <1>4, <1>5, <1>6, <1>7, CaresQuietly

LEMMA StoreFailsCares ==
  ASSUME LifeInv, CareInv, NEW p \in Procs, StoreFails(p)
  PROVE  Cares
<1>1. Done(p) /\ UNCHANGED <<row, member, sanction, raced>> /\ (excused => excused')
  BY DEF StoreFails
<1>2. QED
  BY <1>1, CaresEnding

\* fail() goes past the last check only with a kick.
LEMMA FailStepHeld ==
  ASSUME NEW p, NEW r, NEW w, Held(p, "route", r, w) \/ Held(p, "fail", r, w), r.state = "failing",
         r.action \in {"unrestrict", "kick", "keep_muted", "decline"}
  PROVE  /\ Held(p, FailStep(r), r, w)
         /\ Past(FailStep(r), r) => r.action = "kick"
         /\ \A m : NotEnding(FailStep(r), r, w, m)
<1> DEFINE s == FailStep(r)
<1>1. /\ s \in {"give_up", "check", "ban", "decline", "finish"}
      /\ s = "check" => r.action = "unrestrict"
      /\ s = "ban" => r.action = "kick"
      /\ s = "decline" => r.action = "decline"
      /\ s = "finish" => r.action = "keep_muted"
  BY DEF FailStep
<1> HIDE DEF s
<1>2. Held(p, s, r, w)
  <2>1. CASE r.action = "unrestrict"
    BY <1>1, <2>1 DEF Held
  <2>2. CASE r.action # "unrestrict"
    <3>1. p = Sweeper
      BY <2>2 DEF Held
    <3>2. QED
      BY <1>1, <2>2, <3>1 DEF Held
  <2>3. QED
    BY <2>1, <2>2
<1>3. Past(s, r) => r.action = "kick"
  BY <1>1 DEF Past
<1>4. \A m : NotEnding(s, r, w, m)
  BY <1>1 DEF NotEnding
<1>5. QED
  BY <1>1, <1>2, <1>3, <1>4 DEF s

\* A copy that was given up in favour of the person.
LEMMA HeldRelease ==
  ASSUME NEW p, NEW s, NEW r \in Shape, NEW w, NEW m, Held(p, s, r, w), s # "idle",
         r.state \in {"new", "challenged"}
  PROVE  /\ Held(p, "fail", [r EXCEPT !.action = "unrestrict"], w)
         /\ ~Past("fail", [r EXCEPT !.action = "unrestrict"])
         /\ NotEnding("fail", [r EXCEPT !.action = "unrestrict"], w, m)
<1> DEFINE c == [r EXCEPT !.action = "unrestrict"]
<1>1. "unrestrict" \in Actions
  BY DEF Actions
<1>2. c.action = "unrestrict" /\ c.state = r.state /\ c.attempt = r.attempt /\ c.mode = r.mode
  BY <1>1, Release
<1> HIDE DEF c
<1>3. Held(p, "fail", c, w)
  BY <1>2 DEF Held
<1>4. ~Past("fail", c) /\ NotEnding("fail", c, w, m)
  BY <1>2 DEF Past, NotEnding
<1>5. QED
  BY <1>3, <1>4 DEF c

LEMMA UnpromptedCares ==
  ASSUME LifeInv, CareInv, NEW p \in Procs, pc[p] \in {"send", "save"}, Unprompted(p),
         UNCHANGED <<row, sanction, raced, member, excused>>
  PROVE  Cares
<1>1. snap[p] \in Shape /\ Held(p, pc[p], snap[p], row) /\ snap[p].state = "challenged"
  BY Types, HeldAt, CopyAt DEF Copy
<1>2. CASE snap[p].mode = "button"
  <2> DEFINE r == [snap[p] EXCEPT !.action = "unrestrict"]
  <2>1. Sets(p, "fail", r)
    BY <1>2, GotoSets DEF Unprompted
  <2>2. Held(p, "fail", r, row) /\ ~Past("fail", r) /\ NotEnding("fail", r, row, member)
    BY <1>1, HeldRelease
  <2>3. QED
    BY <2>1, <2>2, CaresQuietly
<1>3. CASE snap[p].mode # "button"
  <2>1. Goto(p, "cancel", snap[p])
    BY <1>3 DEF Unprompted
  <2>2. Live /\ sanction.phase = "applied" => member' \in {"muted", "banned"}
    BY DEF CareInv, SanctionOK
  <2>3. QED
    BY <2>1, <2>2, CaresOpenly DEF Open
<1>4. QED
  BY <1>2, <1>3

LEMMA SendCares ==
  ASSUME LifeInv, CareInv, NEW p \in Procs, Send(p)
  PROVE  Cares
<1>1. UNCHANGED <<row, member, sanction, raced, excused>> /\ pc[p] = "send"
  BY DEF Send
<1>2. CASE Goto(p, "save", snap[p])
  <2>1. Live /\ sanction.phase = "applied" => member' \in {"muted", "banned"}
    BY <1>1 DEF CareInv, SanctionOK
  <2>2. QED
    BY <1>1, <1>2, <2>1, CaresOpenly DEF Open
<1>3. CASE Unprompted(p)
  BY <1>1, <1>3, UnpromptedCares
<1>4. QED
  BY <1>2, <1>3 DEF Send

LEMMA GateCares ==
  ASSUME LifeInv, CareInv, NEW p \in Procs, Gate(p)
  PROVE  Cares
<1>1. UNCHANGED <<row, member, sanction, raced, excused>> /\ pc[p] = "gate"
  BY DEF Gate, hist
<1>2. /\ snap[p] \in Shape /\ Held(p, "gate", snap[p], row) /\ snap[p].state = "challenged"
      /\ p = Sweeper
  BY <1>1, Types, HeldAt, CopyAt DEF Copy, Held
<1>3. PICK off \in BOOLEAN, onFail \in OnFails :
        LET open == off \/ ~snap[p].prompt
        IN IF snap[p].mode = "button"
           THEN IF open THEN Goto(p, "fail", [snap[p] EXCEPT !.action = "unrestrict"])
                ELSE Goto(p, "check_timeout", [snap[p] EXCEPT !.action = onFail])
           ELSE IF open \/ onFail # "kick" THEN Goto(p, "cancel", snap[p])
                ELSE Goto(p, "fail", [snap[p] EXCEPT !.action = "decline"])
  BY DEF Gate
<1>4. onFail \in {"kick", "keep_muted"}
  BY OnFailsAssumption
<1>5. ASSUME NEW s \in {"fail", "check_timeout"},
             NEW x \in {"unrestrict", "kick", "keep_muted", "decline"},
             x # "kick" \/ s = "check_timeout",
             x = "kick" => snap[p].mode = "button", x = "decline" => snap[p].mode # "button",
             Goto(p, s, [snap[p] EXCEPT !.action = x])
      PROVE  Cares
  <2> DEFINE r == [snap[p] EXCEPT !.action = x]
  <2>1. Held(p, s, r, row) /\ ~Past(s, r) /\ NotEnding(s, r, row, member)
    <3>1. x \in Actions
      BY DEF Actions
    <3>2. r.action = x /\ r.state = snap[p].state /\ r.attempt = snap[p].attempt
          /\ r.mode = snap[p].mode
      BY <1>2, <3>1, Release
    <3> HIDE DEF r
    <3>3. Held(p, s, r, row)
      BY <1>2, <1>5, <3>2 DEF Held
    <3>4. ~Past(s, r) /\ NotEnding(s, r, row, member)
      BY <1>5, <3>2 DEF Past, NotEnding
    <3>5. QED
      BY <3>3, <3>4
  <2>2. Sets(p, s, r)
    BY <1>5, GotoSets
  <2>3. QED
    BY <1>1, <2>1, <2>2, CaresQuietly
<1>6. CASE snap[p].mode = "button" /\ (off \/ ~snap[p].prompt)
  <2>1. Goto(p, "fail", [snap[p] EXCEPT !.action = "unrestrict"])
    BY <1>3, <1>6
  <2>2. QED
    BY <2>1, <1>5
<1>7. CASE snap[p].mode = "button" /\ ~(off \/ ~snap[p].prompt)
  <2>1. Goto(p, "check_timeout", [snap[p] EXCEPT !.action = onFail])
    BY <1>3, <1>7
  <2>2. QED
    BY <2>1, <1>4, <1>5, <1>7
<1>8. CASE snap[p].mode # "button" /\ (off \/ ~snap[p].prompt \/ onFail # "kick")
  <2>1. Goto(p, "cancel", snap[p])
    BY <1>3, <1>8
  <2>2. Live /\ sanction.phase = "applied" => member' \in {"muted", "banned"}
    BY <1>1 DEF CareInv, SanctionOK
  <2>3. QED
    BY <1>1, <2>1, <2>2, CaresOpenly DEF Open
<1>9. CASE snap[p].mode # "button" /\ ~(off \/ ~snap[p].prompt \/ onFail # "kick")
  <2>1. Goto(p, "fail", [snap[p] EXCEPT !.action = "decline"])
    BY <1>3, <1>9
  <2>2. QED
    BY <2>1, <1>5, <1>9
<1>10. QED
  BY <1>6, <1>7, <1>8, <1>9

LEMMA RouteCares ==
  ASSUME LifeInv, CareInv, NEW p \in Procs, Route(p)
  PROVE  Cares
<1> DEFINE r == snap[p]
<1>1. UNCHANGED <<row, member, sanction, raced, excused>> /\ pc[p] = "route"
  BY DEF Route, hist
<1>2. r \in Shape /\ Held(p, "route", r, row) /\ Copy("route", r, asked, pressed) /\ r.state \in Active
  BY <1>1, Types, HeldAt, CopyAt DEF Copy
<1>3. Live /\ sanction.phase = "applied" => member' \in {"muted", "banned"}
  BY <1>1 DEF CareInv, SanctionOK
<1>4. ASSUME NEW t \in {"cancel", "idle"}, Goto(p, t, r)
      PROVE  Cares
  BY <1>1, <1>3, <1>4, CaresOpenly DEF Open
<1>5. ASSUME Done(p) PROVE Cares
  BY <1>1, <1>5, CaresEnding
<1>6. CASE r.state = "new"
  <2>1. CASE ~inflight /\ r.mode = "button"
    <3> DEFINE x == [r EXCEPT !.action = "unrestrict"]
    <3>1. Sets(p, "fail", x)
      BY <1>6, <2>1, GotoSets DEF Route
    <3>2. Held(p, "fail", x, row) /\ ~Past("fail", x) /\ NotEnding("fail", x, row, member)
      BY <1>2, <1>6, HeldRelease
    <3>3. QED
      BY <1>1, <3>1, <3>2, CaresQuietly
  <2>2. CASE ~(~inflight /\ r.mode = "button")
    <3>1. Done(p) \/ Goto(p, "cancel", r)
      BY <1>6, <2>2 DEF Route
    <3>2. QED
      BY <1>4, <1>5, <3>1
  <2>3. QED
    BY <2>1, <2>2
<1>7. CASE r.state = "challenged"
  <2>1. Done(p) \/ Goto(p, "gate", r)
    BY <1>7 DEF Route
  <2>2. CASE Goto(p, "gate", r)
    <3>1. Held(p, "gate", r, row) /\ ~Past("gate", r) /\ NotEnding("gate", r, row, member)
      BY <1>2 DEF Held, Past, NotEnding
    <3>2. Sets(p, "gate", r)
      BY <2>2, GotoSets
    <3>3. QED
      BY <1>1, <3>1, <3>2, CaresQuietly
  <2>3. QED
    BY <1>5, <2>1, <2>2
<1>8. CASE r.state = "failing"
  <2>1. Goto(p, FailStep(r), r)
    BY <1>8 DEF Route
  <2>2. r.action \in {"unrestrict", "kick", "keep_muted", "decline"}
    BY <1>2, <1>8 DEF Copy, Decided
  <2>3. /\ Held(p, FailStep(r), r, row) /\ (Past(FailStep(r), r) => r.action = "kick")
        /\ NotEnding(FailStep(r), r, row, member)
    BY <1>2, <1>8, <2>2, FailStepHeld
  <2>4. Live => r.action # "kick"
    BY <1>1 DEF CareInv, SanctionOK, Past
  <2>5. Sets(p, FailStep(r), r)
    BY <2>1, GotoSets
  <2>6. QED
    BY <1>1, <2>3, <2>4, <2>5, CaresQuietly
<1>9. CASE r.state = "passing"
  <2>1. \/ r.mode = "button" /\ Goto(p, "check", r)
        \/ Goto(p, "cancel", r)
        \/ r.mode # "button" /\ Goto(p, "lift", r)
    BY <1>9 DEF Route
  <2>2. ASSUME NEW t \in {"check", "lift"}, t = "lift" => r.mode # "button", Goto(p, t, r)
        PROVE  Cares
    <3>1. r.action \notin {"kick", "keep_muted", "decline"} \/ p = Sweeper
      BY <1>2 DEF Held
    <3>2. Held(p, t, r, row) /\ ~Past(t, r) /\ NotEnding(t, r, row, member)
      BY <1>2, <1>9, <2>2 DEF Held, Past, NotEnding
    <3>3. Sets(p, t, r)
      BY <2>2, GotoSets
    <3>4. t # "idle"
      OBVIOUS
    <3>5. QED
      BY <1>1, <3>2, <3>3, <3>4, CaresQuietly
  <2>3. QED
    BY <1>4, <2>1, <2>2
<1>10. QED
  BY <1>2, <1>6, <1>7, <1>8, <1>9 DEF Active

\* A live sanction stops the press, the timeout and the release at their last check.
LEMMA CheckCares ==
  ASSUME LifeInv, CareInv, NEW p \in Procs, CheckSanction(p)
  PROVE  Cares
<1> DEFINE r == snap[p]
<1>1. UNCHANGED <<row, member, sanction, raced, excused>> /\ pc[p] \in {"check", "check_press", "check_timeout"}
  BY DEF CheckSanction, hist
<1>2. Held(p, pc[p], r, row) /\ r.attempt \in Nat /\ row.attempt \in Nat
  BY HeldAt, Types
<1>3. Live /\ sanction.phase = "applied" => member' \in {"muted", "banned"}
  BY <1>1 DEF CareInv, SanctionOK
<1>4. Live => Protected(r.attempt)
  <2>1. r.attempt <= row.attempt
    BY <1>2 DEF Held
  <2>2. QED
    BY <1>2, <2>1 DEF Live, Protected
<1>5. CASE Protected(r.attempt)
  <2>1. Goto(p, "cancel", r)
    BY <1>1, <1>5 DEF CheckSanction
  <2>2. QED
    BY <1>1, <1>3, <2>1, CaresOpenly DEF Open
<1>6. CASE ~Protected(r.attempt)
  <2>1. \/ pc[p] = "check_press" /\ Goto(p, "mark", r)
        \/ pc[p] = "check_timeout" /\ Goto(p, "fail", r)
        \/ pc[p] = "check" /\ (Goto(p, "cancel", r) \/ Goto(p, "lift", r))
    BY <1>1, <1>6 DEF CheckSanction
  <2>2. ASSUME NEW t \in {"mark", "cancel"}, Goto(p, t, r) PROVE Cares
    BY <1>1, <1>3, <2>2, CaresOpenly DEF Open
  <2>3. CASE pc[p] = "check_timeout" /\ Goto(p, "fail", r)
    <3>1. Held(p, "fail", r, row) /\ NotEnding("fail", r, row, member)
      BY <1>2, <2>3 DEF Held, NotEnding
    <3>2. Sets(p, "fail", r)
      BY <2>3, GotoSets
    <3>3. QED
      BY <1>1, <1>4, <1>6, <3>1, <3>2, CaresQuietly
  <2>4. CASE pc[p] = "check" /\ Goto(p, "lift", r)
    <3>1. Held(p, "lift", r, row) /\ NotEnding("lift", r, row, member)
      BY <1>2, <2>4 DEF Held, NotEnding
    <3>2. Sets(p, "lift", r)
      BY <2>4, GotoSets
    <3>3. QED
      BY <1>1, <1>4, <1>6, <3>1, <3>2, CaresQuietly
  <2>5. QED
    BY <2>1, <2>2, <2>3, <2>4
<1>7. QED
  BY <1>5, <1>6

-----------------------------------------------------------------------------
(* Calls to Telegram. *)

\* A mute that lands while the attempt is new has the row to release it; one that
\* lands later is excused.
LEMMA RestrictCares ==
  ASSUME LifeInv, CareInv, NEW p \in Procs, Restrict(p)
  PROVE  Cares
<1>1. /\ UNCHANGED <<row, sanction, raced>> /\ pc[p] = "restrict"
      /\ excused' = (excused \/ ~Mine(p, {"new"})) /\ member' \in {member, Restricted}
  BY DEF Restrict
<1>2. PICK t \in {"challenge", "cancel"} : Goto(p, t, snap[p])
  BY DEF Restrict
<1>3. Live /\ sanction.phase = "applied" => member' \in {"muted", "banned"}
  BY <1>1 DEF CareInv, SanctionOK, Restricted
<1>4. CASE Loose' => member' = member
  BY <1>1, <1>2, <1>3, <1>4, CaresOpenly DEF Open
<1>5. CASE Loose' /\ member' # member
  <2>1. /\ ~excused /\ row.attempt = snap[p].attempt /\ row.state = "new"
        /\ member = "free" /\ member' = "muted" /\ sanction.phase # "applied"
    BY <1>1, <1>5 DEF Loose, Mine, Restricted
  <2>2. Held(p, "restrict", snap[p], row) /\ row \in Shape /\ Sets(p, t, snap[p])
    BY <1>1, <1>2, HeldAt, Types, GotoSets
  <2>3. /\ Held(p, t, snap[p], row) /\ ~Past(t, snap[p])
        /\ NotEnding(t, snap[p], row, member')
    BY <2>2, OpenHeld DEF Open
  <2>4. HeldOK'
    <3>1. Moved(row, row') /\ row' \in Shape /\ ~(Kicks(row) /\ row'.state \in Final)
      BY <1>1, <2>1, <2>2 DEF Moved, Kicks
    <3>2. Held(p, t, snap[p], row')
      BY <1>1, <2>3
    <3>3. QED
      BY <2>2, <3>1, <3>2, HeldStep DEF CareInv
  <2>5. SanctionOK'
    <3>1. ~Kicks(row')
      BY <1>1, <2>1 DEF Kicks
    <3>2. QED
      BY <1>1, <1>3, <2>2, <2>3, <3>1, SanctionStep DEF CareInv
  <2>6. ToRelease(row, member)'
    <3>1. row.mode = "button"
      BY <2>1, <2>2 DEF Held
    <3>2. QED
      BY <1>1, <2>1, <3>1 DEF ToRelease, Active
  <2>7. ASSUME NEW q \in Procs PROVE NotEnding(pc'[q], snap'[q], row', member')
    <3>1. CASE q # p /\ pc'[q] = pc[q] /\ snap'[q] = snap[q]
      <4>1. pc[q] # "unban"
        BY <2>1, HeldAt DEF Held
      <4>2. QED
        BY <1>1, <2>1, <3>1, <4>1 DEF NotEnding
    <3>2. CASE q = p /\ pc'[q] = t /\ snap'[q] = snap[p]
      BY <1>1, <2>3, <3>2
    <3>3. QED
      BY <2>2, <3>1, <3>2, Others
  <2>8. LooseOK'
    BY <2>6, <2>7 DEF LooseOK
  <2>9. ActionOK(row)'
    BY <1>1 DEF CareInv, ActionOK
  <2>10. QED
    BY <2>4, <2>5, <2>8, <2>9 DEF Cares, CareInv
<1>6. QED
  BY <1>4, <1>5

\* A release frees whom it was meant for: the others were not held by this attempt.
LEMMA LiftCares ==
  ASSUME LifeInv, CareInv, NEW p \in Procs, Lift(p)
  PROVE  Cares
<1> DEFINE r == snap[p]
<1> DEFINE after == IF r.mode = "button" THEN Unrestricted ELSE Approved
<1>1. UNCHANGED <<row, sanction, raced, excused>> /\ pc[p] = "lift" /\ member' \in {member, after}
  BY DEF Lift, hist
<1>2. Held(p, "lift", r, row)
  BY <1>1, HeldAt
<1>3. Live /\ sanction.phase = "applied" => member' \in {"muted", "banned"}
  <2>1. Live => r.mode # "button"
    BY <1>1 DEF CareInv, SanctionOK, Past
  <2>2. QED
    BY <1>1, <2>1 DEF CareInv, SanctionOK, Approved
<1>4. Loose' => member' = member
  BY <1>1 DEF Loose, Unrestricted, Approved
<1>5. CASE \E t \in {"retry", "idle"} : Goto(p, t, r)
  BY <1>1, <1>3, <1>4, <1>5, CaresOpenly DEF Open
<1>6. CASE member' = after /\ Goto(p, IF r.state = "passing" THEN "pass" ELSE "finish", r)
  <2> DEFINE t == IF r.state = "passing" THEN "pass" ELSE "finish"
  <2>1. Sets(p, t, r)
    BY <1>6, GotoSets
  <2>2. Held(p, t, r, row)
    BY <1>2 DEF Held
  <2>3. ~Past(t, r)
    BY DEF Past
  <2>4. Loose' => NotEnding(t, r, row, member)
    <3> SUFFICES ASSUME Loose', r.attempt = row.attempt
                 PROVE  NotEnding(t, r, row, member)
      BY DEF NotEnding
    <3>1. Loose /\ ToRelease(row, member)
      BY <1>1, <1>4 DEF Loose, CareInv, LooseOK
    <3>2. r.mode = "button"
      BY <1>2, <3>1 DEF Held, ToRelease
    <3>3. member = "banned"
      BY <1>4, <1>6, <3>1, <3>2 DEF Loose, Unrestricted
    <3>4. row.state = "failing" /\ row.action = "kick"
      BY <3>1, <3>3 DEF ToRelease, Kicks
    <3>5. FALSE
      BY <1>2, <3>4 DEF Held, Final
    <3>6. QED
      BY <3>5
  <2>5. QED
    BY <1>1, <1>3, <1>4, <2>1, <2>2, <2>3, <2>4, CaresOn
<1>7. QED
  BY <1>5, <1>6 DEF Lift

\* Only the sweep kicks, and the row remains to undo the ban of the kick.
LEMMA BanCares ==
  ASSUME LifeInv, CareInv, NEW p \in Procs, Ban(p)
  PROVE  Cares
<1> DEFINE r == snap[p]
<1>1. UNCHANGED <<row, sanction, raced, excused>> /\ pc[p] = "ban" /\ member' \in {member, "banned"}
  BY DEF Ban, hist
<1>2. /\ Held(p, "ban", r, row) /\ r \in Shape /\ row \in Shape
      /\ r.state = "failing" /\ r.action = "kick" /\ p = Sweeper
  BY <1>1, HeldAt, Types DEF Held
<1>3. row.attempt = r.attempt /\ Kicks(row) /\ row.mode = "button"
  BY <1>2 DEF Held, Kicks
<1>4. ~Live
  BY <1>3 DEF CareInv, SanctionOK
<1>5. PICK t \in {"unban", "retry"} : Goto(p, t, r) /\ (t = "unban" => member' = "banned")
  BY DEF Ban
<1>6. Held(p, t, r, row) /\ Sets(p, t, r) /\ t # "idle"
  BY <1>2, <1>5, GotoSets DEF Held
<1>7. HeldOK'
  <2>1. Moved(row, row') /\ row' \in Shape
    BY <1>1, <1>2 DEF Moved
  <2>2. Held(p, t, r, row')
    BY <1>1, <1>6
  <2>3. QED
    BY <1>2, <1>6, <2>1, <2>2, HeldStep DEF CareInv
<1>8. SanctionOK'
  BY <1>1, <1>4, <1>6, SanctionStep DEF CareInv
<1>9. LooseOK'
  <2> SUFFICES ASSUME Loose'
               PROVE  ToRelease(row', member') /\ \A q \in Procs : NotEnding(pc'[q], snap'[q], row', member')
    BY DEF LooseOK, ToRelease, NotEnding, Kicks
  <2>1. ToRelease(row', member')
    BY <1>1, <1>3 DEF ToRelease, Kicks, Active
  <2>2. ASSUME NEW q \in Procs PROVE NotEnding(pc'[q], snap'[q], row', member')
    <3>1. CASE q # p /\ pc'[q] = pc[q] /\ snap'[q] = snap[q]
      <4>1. Held(q, pc[q], snap[q], row)
        BY HeldAt
      <4>2. snap[q].action # "kick" /\ pc[q] # "unban"
        BY <1>2, <3>1, <4>1 DEF Held
      <4>3. ~(pc[q] = "finish" /\ snap[q].attempt = row.attempt)
        BY <1>3, <4>1, <4>2 DEF Held, Kicks
      <4>4. row.state # "passing"
        BY <1>3 DEF Kicks
      <4>5. QED
        BY <1>1, <3>1, <4>2, <4>3, <4>4 DEF NotEnding
    <3>2. CASE q = p /\ pc'[q] = t /\ snap'[q] = r
      BY <1>5, <3>2 DEF NotEnding
    <3>3. QED
      BY <1>6, <3>1, <3>2, Others
  <2>3. QED
    BY <2>1, <2>2
<1>10. ActionOK(row)'
  BY <1>1 DEF CareInv, ActionOK
<1>11. QED
  BY <1>7, <1>8, <1>9, <1>10 DEF Cares, CareInv

LEMMA UnbanCares ==
  ASSUME LifeInv, CareInv, NEW p \in Procs, Unban(p)
  PROVE  Cares
<1> DEFINE r == snap[p]
<1>1. /\ UNCHANGED <<row, sanction, raced, excused>> /\ pc[p] = "unban"
      /\ member' \in {member, IF member = "banned" THEN "out" ELSE member}
  BY DEF Unban, hist
<1>2. Held(p, "unban", r, row) /\ r.state = "failing" /\ r.action = "kick"
  BY <1>1, HeldAt DEF Held
<1>3. ~Live
  BY <1>1, <1>2 DEF CareInv, SanctionOK, Past
<1>4. Loose' => member' = member
  BY <1>1 DEF Loose
<1>5. CASE Goto(p, "retry", r)
  BY <1>1, <1>3, <1>4, <1>5, CaresOpenly DEF Open
<1>6. CASE Goto(p, "finish", r) /\ member' = IF member = "banned" THEN "out" ELSE member
  <2>1. Sets(p, "finish", r) /\ Held(p, "finish", r, row)
    BY <1>2, <1>6, GotoSets DEF Held
  <2>2. ~Loose'
    <3>1. Loose' => Loose /\ member = "muted"
      BY <1>1, <1>4, <1>6 DEF Loose
    <3>2. Loose => member # "muted"
      BY <1>1 DEF CareInv, LooseOK, NotEnding
    <3>3. QED
      BY <3>1, <3>2
  <2>3. QED
    BY <1>1, <1>3, <2>1, <2>2, CaresOn
<1>7. QED
  BY <1>5, <1>6 DEF Unban

LEMMA DeclineCares ==
  ASSUME LifeInv, CareInv, NEW p \in Procs, Decline(p)
  PROVE  Cares
<1> DEFINE r == snap[p]
<1>1. UNCHANGED <<row, sanction, raced, excused>> /\ pc[p] = "decline" /\ member' \in {member, Declined}
  BY DEF Decline, hist
<1>2. Held(p, "decline", r, row) /\ r.state = "failing" /\ r.action = "decline"
  BY <1>1, HeldAt DEF Held
<1>3. Live /\ sanction.phase = "applied" => member' \in {"muted", "banned"}
  BY <1>1 DEF CareInv, SanctionOK, Declined
<1>4. Loose' => member' = member
  BY <1>1 DEF Loose, Declined
<1>5. CASE Goto(p, "retry", r)
  BY <1>1, <1>3, <1>4, <1>5, CaresOpenly DEF Open
<1>6. CASE Goto(p, "finish", r)
  <2>1. Sets(p, "finish", r) /\ Held(p, "finish", r, row) /\ ~Past("finish", r)
    BY <1>2, <1>6, GotoSets DEF Held, Past
  <2>2. Loose' => NotEnding("finish", r, row, member)
    <3>1. Loose' => row.mode = "button"
      BY <1>1, <1>4 DEF Loose, CareInv, LooseOK, ToRelease
    <3>2. r.attempt = row.attempt => r.mode = row.mode /\ r.mode # "button"
      BY <1>2 DEF Held
    <3>3. QED
      BY <3>1, <3>2 DEF NotEnding
  <2>3. QED
    BY <1>1, <1>3, <1>4, <2>1, <2>2, CaresOn
<1>7. QED
  BY <1>5, <1>6 DEF Decline

-----------------------------------------------------------------------------
(* Writes of the row. *)

\* The row moves, and the person and the sanction stay.
LEMMA CaresWriting ==
  ASSUME LifeInv, CareInv, NEW p \in Procs, NEW s, NEW r, Sets(p, s, r),
         UNCHANGED <<member, sanction, raced>>, excused => excused',
         row' \in Shape, Moved(row, row'), row'.attempt = row.attempt, row'.mode = row.mode,
         Kicks(row) /\ row'.state \in Final => p = Sweeper,
         s # "idle" => Held(p, s, r, row'),
         ActionOK(row'),
         Live => ~Past(s, r) /\ ~Kicks(row'),
         Loose' => ToRelease(row', member),
         Loose' /\ s # "idle" => NotEnding(s, r, row', member)
  PROVE  Cares
<1>1. HeldOK'
  BY HeldStep DEF CareInv
<1>2. Live /\ sanction.phase = "applied" => member' \in {"muted", "banned"}
  BY DEF CareInv, SanctionOK
<1>3. SanctionOK'
  BY <1>2, SanctionStep DEF CareInv
<1>4. Loose' => Loose
  BY DEF Loose
<1>5. LooseOK'
  BY <1>4, LooseStep DEF CareInv
<1>6. ActionOK(row)'
  BY DEF ActionOK
<1>7. QED
  BY <1>1, <1>3, <1>5, <1>6 DEF Cares, CareInv

\* The same of a goroutine that ends with its write.
LEMMA CaresWritingLast ==
  ASSUME LifeInv, CareInv, NEW p \in Procs, Done(p),
         UNCHANGED <<member, sanction, raced>>, excused => excused',
         row' \in Shape, Moved(row, row'), row'.attempt = row.attempt, row'.mode = row.mode,
         Kicks(row) /\ row'.state \in Final => p = Sweeper,
         ActionOK(row'),
         Live => ~Kicks(row'),
         Loose' => ToRelease(row', member)
  PROVE  Cares
<1>1. Sets(p, "idle", NoRow) /\ ~Past("idle", NoRow)
  BY DoneSets DEF Past, NoRow
<1>2. QED
  BY <1>1, CaresWriting

LEMMA ChallengeCares ==
  ASSUME LifeInv, CareInv, NEW p \in Procs, Challenge(p)
  PROVE  Cares
<1>1. UNCHANGED <<member, sanction, raced, excused>> /\ pc[p] = "challenge"
  BY DEF Challenge, hist
<1>2. snap[p] \in Shape /\ row \in Shape /\ Held(p, "challenge", snap[p], row)
  BY <1>1, Types, HeldAt
<1>3. CASE Mine(p, {"new"})
  <2> DEFINE r == [snap[p] EXCEPT !.state = "challenged"]
  <2>1. /\ row' = [row EXCEPT !.state = "challenged"] /\ Sets(p, "send", r) /\ row.state = "new"
        /\ row.attempt = snap[p].attempt
    BY <1>3, GotoSets DEF Challenge, Mine
  <2>2. "challenged" \in Active \cup Final
    BY DEF Active
  <2>3. r.state = "challenged" /\ r.attempt = snap[p].attempt
        /\ r.action = snap[p].action /\ r.mode = snap[p].mode
    BY <1>2, <2>2, NewState
  <2>4. row' \in Shape /\ row'.state = "challenged" /\ row'.attempt = row.attempt
        /\ row'.action = row.action /\ row'.mode = row.mode
    BY <1>2, <2>1, <2>2, NewState
  <2> HIDE DEF r
  <2>5. Held(p, "send", r, row')
    BY <1>2, <2>3, <2>4 DEF Held
  <2>6. Moved(row, row') /\ ActionOK(row') /\ ~Kicks(row')
    BY <2>1, <2>4 DEF Moved, ActionOK, Kicks, CareInv
  <2>7. ~Past("send", r) /\ NotEnding("send", r, row', member) /\ "send" # "idle"
    BY DEF Past, NotEnding
  <2>8. Loose' => ToRelease(row', member)
    BY <1>1, <2>1, <2>4 DEF Loose, CareInv, LooseOK, ToRelease, Kicks, Active
  <2>9. ~(Kicks(row) /\ row'.state \in Final)
    BY <2>1 DEF Kicks
  <2>10. QED
    BY <1>1, <2>1, <2>4, <2>5, <2>6, <2>7, <2>8, <2>9, CaresWriting
<1>4. CASE ~Mine(p, {"new"})
  BY <1>1, <1>4, CaresEnding DEF Challenge
<1>5. QED
  BY <1>3, <1>4

\* The row keeps its state, its attempt and its action.
LEMMA CaresSaving ==
  ASSUME LifeInv, CareInv, NEW p \in Procs, Done(p), UNCHANGED <<member, sanction, raced, excused>>,
         row' \in Shape, row'.state = row.state, row'.attempt = row.attempt,
         row'.action = row.action, row'.mode = row.mode
  PROVE  Cares
<1>1. Moved(row, row') /\ ActionOK(row') /\ (Kicks(row') => Kicks(row))
  BY DEF Moved, ActionOK, Kicks, CareInv
<1>2. ~(Kicks(row) /\ row'.state \in Final)
  BY DEF Kicks, Final
<1>3. Live => ~Kicks(row')
  BY <1>1 DEF CareInv, SanctionOK
<1>4. Loose' => ToRelease(row', member)
  BY DEF Loose, CareInv, LooseOK, ToRelease, Kicks
<1>5. QED
  BY <1>1, <1>2, <1>3, <1>4, CaresWritingLast

LEMMA SavePromptCares ==
  ASSUME LifeInv, CareInv, NEW p \in Procs, SavePrompt(p)
  PROVE  Cares
<1>1. UNCHANGED <<member, sanction, raced, excused>> /\ pc[p] = "save"
  BY DEF SavePrompt, hist
<1>2. CASE Done(p) /\ row' = [row EXCEPT !.prompt = TRUE, !.due = @ /\ row.state # "challenged"]
  <2>1. row' \in Shape /\ row'.state = row.state /\ row'.attempt = row.attempt
        /\ row'.action = row.action /\ row'.mode = row.mode
    BY <1>2 DEF LifeInv, RowOK, Shape
  <2>2. QED
    BY <1>1, <1>2, <2>1, CaresSaving
<1>3. CASE Unprompted(p) /\ UNCHANGED row
  BY <1>1, <1>3, UnpromptedCares
<1>4. QED
  BY <1>2, <1>3 DEF SavePrompt

LEMMA RetryCares ==
  ASSUME LifeInv, CareInv, NEW p \in Procs, RetryCaptcha(p)
  PROVE  Cares
<1>1. UNCHANGED <<member, sanction, raced, excused>> /\ Done(p)
  BY DEF RetryCaptcha, hist
<1>2. CASE row' = [row EXCEPT !.tries = @ + 1, !.due = FALSE]
  <2>1. row \in Shape
    BY DEF LifeInv, RowOK
  <2>2. row.tries \in Nat
    BY <2>1 DEF Shape
  <2>3. row.tries + 1 \in Nat
    BY <2>2
  <2>4. row' \in Shape /\ row'.state = row.state /\ row'.attempt = row.attempt
        /\ row'.action = row.action /\ row'.mode = row.mode
    BY <1>2, <2>1, <2>3 DEF Shape
  <2>5. QED
    BY <1>1, <2>4, CaresSaving
<1>3. CASE row' = row
  BY <1>1, <1>3, CaresEnding
<1>4. QED
  BY <1>2, <1>3 DEF RetryCaptcha

\* A press that was marked asks about sanctions once more before it releases.
LEMMA MarkCares ==
  ASSUME LifeInv, CareInv, NEW p \in Procs, Mark(p)
  PROVE  Cares
<1>1. UNCHANGED <<member, sanction, raced, excused>> /\ pc[p] = "mark"
  BY DEF Mark, hist
<1>2. snap[p] \in Shape /\ row \in Shape /\ Held(p, "mark", snap[p], row)
  BY <1>1, Types, HeldAt
<1>3. CASE Mine(p, {"challenged"})
  <2> DEFINE r == [snap[p] EXCEPT !.state = "passing"]
  <2> DEFINE v == [row EXCEPT !.state = "passing", !.due = TRUE]
  <2>1. "passing" \in Active \cup Final
    BY DEF Active
  <2>2. v \in Shape /\ v.state = "passing" /\ v.attempt = row.attempt
        /\ v.action = row.action /\ v.mode = row.mode
    BY <1>2 DEF Shape, Active
  <2>3. PICK t \in {"check", "lift"} :
          row' = v /\ Goto(p, t, r) /\ (t = "lift" => row.mode # "button")
    BY <1>3, <2>2 DEF Mark
  <2>4. row.attempt = snap[p].attempt /\ row.state = "challenged"
    BY <1>3 DEF Mine
  <2>5. r.state = "passing" /\ r.attempt = snap[p].attempt
        /\ r.action = snap[p].action /\ r.mode = snap[p].mode
    BY <1>2, <2>1, NewState
  <2>6. Sets(p, t, r)
    BY <2>3, GotoSets
  <2> HIDE DEF r, v
  <2>7. r.mode = row.mode
    BY <1>2, <2>4, <2>5 DEF Held
  <2>8. Held(p, t, r, row')
    BY <1>2, <2>2, <2>3, <2>5 DEF Held
  <2>9. Moved(row, row') /\ ActionOK(row') /\ ~Kicks(row')
    BY <2>2, <2>3, <2>4 DEF Moved, ActionOK, Kicks, CareInv
  <2>10. ~Past(t, r)
    BY <2>3, <2>7 DEF Past
  <2>11. NotEnding(t, r, row', member) /\ t # "idle"
    BY DEF NotEnding
  <2>12. Loose' => ToRelease(row', member)
    BY <1>1, <2>2, <2>3, <2>4 DEF Loose, CareInv, LooseOK, ToRelease, Kicks, Active
  <2>13. ~(Kicks(row) /\ row'.state \in Final)
    BY <2>4 DEF Kicks
  <2>14. QED
    BY <1>1, <2>2, <2>3, <2>6, <2>8, <2>9, <2>10, <2>11, <2>12, <2>13, CaresWriting
<1>4. CASE ~Mine(p, {"challenged"})
  BY <1>1, <1>4, CaresEnding DEF Mark
<1>5. QED
  BY <1>3, <1>4

LEMMA FailCares ==
  ASSUME LifeInv, CareInv, NEW p \in Procs, FailCaptcha(p)
  PROVE  Cares
<1>1. UNCHANGED <<member, sanction, raced, excused>> /\ pc[p] = "fail"
  BY DEF FailCaptcha, hist
<1>2. /\ snap[p] \in Shape /\ row \in Shape /\ Held(p, "fail", snap[p], row)
      /\ snap[p].state \in {"new", "challenged"}
      /\ snap[p].action \in {"unrestrict", "kick", "keep_muted", "decline"}
  BY <1>1, Types, HeldAt, CopyAt DEF Copy, Decided
<1>3. CASE Mine(p, {snap[p].state})
  <2> DEFINE r == [row EXCEPT !.state = "failing", !.action = snap[p].action]
  <2>1. row' = r /\ Sets(p, FailStep(r), r)
    BY <1>3, GotoSets DEF FailCaptcha
  <2>2. row.attempt = snap[p].attempt /\ row.state \in {"new", "challenged"}
    BY <1>2, <1>3 DEF Mine
  <2>3. r \in Shape /\ r.state = "failing" /\ r.attempt = row.attempt
        /\ r.mode = row.mode /\ r.action = snap[p].action
    BY <1>2 DEF Shape, Active, Actions
  <2> HIDE DEF r
  <2>4. r.mode = snap[p].mode
    BY <1>2, <2>2, <2>3 DEF Held
  <2>5. Held(p, "fail", r, r)
    <3>1. r.attempt <= r.attempt
      <4>1. r.attempt \in Nat
        BY <2>3 DEF Shape
      <4>2. QED
        BY <4>1
    <3>2. QED
      BY <1>2, <2>3, <2>4, <3>1 DEF Held
  <2>6. /\ Held(p, FailStep(r), r, r) /\ (Past(FailStep(r), r) => r.action = "kick")
        /\ NotEnding(FailStep(r), r, r, member)
    BY <1>2, <2>3, <2>5, FailStepHeld
  <2>7. Live => snap[p].action # "kick"
    BY <1>1 DEF CareInv, SanctionOK, Past
  <2>8. Moved(row, r) /\ ActionOK(r)
    BY <1>2, <2>2, <2>3, <2>4 DEF Moved, ActionOK, Held
  <2>9. Live => ~Past(FailStep(r), r) /\ ~Kicks(r)
    BY <2>3, <2>6, <2>7 DEF Kicks
  <2>10. Loose' => ToRelease(r, member)
    BY <1>1, <2>2, <2>3 DEF Loose, CareInv, LooseOK, ToRelease, Kicks, Active
  <2>11. ~(Kicks(row) /\ r.state \in Final)
    BY <2>2 DEF Kicks
  <2>12. QED
    BY <1>1, <2>1, <2>3, <2>6, <2>8, <2>9, <2>10, <2>11, CaresWriting
<1>4. CASE ~Mine(p, {snap[p].state})
  BY <1>1, <1>4, CaresEnding DEF FailCaptcha
<1>5. QED
  BY <1>3, <1>4

\* A row is ended by the goroutine that holds its outcome.
LEMMA OutcomeCares ==
  ASSUME LifeInv, CareInv, NEW p \in Procs, Pass(p) \/ Finish(p) \/ Cancel(p)
  PROVE  Cares
<1>1. /\ UNCHANGED <<member, sanction, raced>> /\ Done(p) /\ pc[p] # "idle"
      /\ excused => excused'
  <2>1. CASE Pass(p)
    BY <2>1 DEF Pass, hist
  <2>2. CASE Finish(p)
    BY <2>2 DEF Finish
  <2>3. CASE Cancel(p)
    BY <2>3 DEF Cancel
  <2>4. QED
    BY <2>1, <2>2, <2>3
<1>2. snap[p] \in Shape /\ row \in Shape /\ Held(p, pc[p], snap[p], row)
  BY Types, HeldAt
<1>3. CASE row' = row
  BY <1>1, <1>3, CaresEnding
<1>4. ASSUME NEW x \in Final, row' = [row EXCEPT !.state = x], row.state \in Active,
             row.attempt = snap[p].attempt, row.state = "failing" => snap[p].state = "failing",
             ~Loose'
      PROVE  Cares
  <2>1. row' \in Shape /\ row'.state = x /\ row'.action = row.action
        /\ row'.attempt = row.attempt /\ row'.mode = row.mode
    BY <1>2, <1>4, NewState
  <2>2. Kicks(row) => p = Sweeper
    BY <1>2, <1>4 DEF Kicks, Held
  <2>3. Moved(row, row') /\ ActionOK(row') /\ ~Kicks(row')
    BY <1>4, <2>1 DEF Moved, ActionOK, Kicks, CareInv, Active, Final
  <2>4. QED
    BY <1>1, <1>4, <2>1, <2>2, <2>3, CaresWritingLast
<1>5. CASE Pass(p) /\ Mine(p, {"passing"})
  <2>1. /\ row' = [row EXCEPT !.state = "passed"] /\ row.state = "passing" /\ pc[p] = "pass"
        /\ row.attempt = snap[p].attempt /\ UNCHANGED excused
    BY <1>5 DEF Pass, Mine, hist
  <2>2. ~Loose
    BY <2>1 DEF CareInv, LooseOK, NotEnding
  <2>3. QED
    BY <1>1, <1>4, <2>1, <2>2 DEF Final, Active, Loose
<1>6. CASE Finish(p) /\ Mine(p, {"failing"})
  <2>1. PICK x \in {"cancelled", "failed"} : row' = [row EXCEPT !.state = x]
    BY <1>6 DEF Finish
  <2>2. /\ row.state = "failing" /\ row.attempt = snap[p].attempt
        /\ pc[p] \in {"finish", "give_up"}
        /\ excused' = (excused \/ pc[p] = "give_up" \/ snap[p].action = "keep_muted")
    BY <1>6 DEF Finish, Mine
  <2>3. snap[p].state = "failing"
    BY <1>2, <2>2 DEF Held
  <2>4. ~Loose'
    <3>1. Loose' => Loose /\ pc[p] = "finish" /\ snap[p].action # "keep_muted"
      BY <1>1, <2>2 DEF Loose
    <3>2. QED
      BY <2>2, <3>1 DEF CareInv, LooseOK, NotEnding
  <2>5. QED
    BY <1>4, <2>1, <2>2, <2>3, <2>4 DEF Final, Active
<1>7. CASE Cancel(p) /\ Mine(p, {snap[p].state})
  <2>1. /\ row' = [row EXCEPT !.state = "cancelled"] /\ row.state = snap[p].state
        /\ row.attempt = snap[p].attempt /\ excused'
    BY <1>7 DEF Cancel, Mine
  <2>2. snap[p].state \in Active
    BY <1>1, CopyAt DEF Copy
  <2>3. QED
    BY <1>4, <2>1, <2>2 DEF Final, Loose
<1>8. QED
  BY <1>3, <1>5, <1>6, <1>7 DEF Pass, Finish, Cancel

-----------------------------------------------------------------------------
(* The theorems. *)

LEMMA InitCares == Init => CareInv
<1> SUFFICES ASSUME Init PROVE CareInv
  OBVIOUS
<1>1. /\ row = NoRow /\ sanction = [at |-> 0, phase |-> "none"] /\ member = "out"
      /\ \A p \in Procs : pc[p] = "idle" /\ snap[p] = NoRow
  BY DEF Init
<1>2. HeldOK
  BY <1>1, NoRowShape, IdleHeld DEF HeldOK
<1>3. ActionOK(row)
  BY <1>1 DEF ActionOK, NoRow
<1>4. SanctionOK
  <2>1. sanction.at = 0 /\ sanction.phase = "none" /\ row.attempt = 0
    BY <1>1 DEF NoRow
  <2>2. sanction.at <= row.attempt
    BY <2>1
  <2>3. QED
    BY <1>1, <2>1, <2>2 DEF SanctionOK, Live
<1>5. LooseOK
  BY <1>1 DEF LooseOK, Loose
<1>6. QED
  BY <1>2, <1>3, <1>4, <1>5 DEF CareInv

LEMMA CaresStep == LifeInv /\ LifeInv' /\ CareInv /\ [Next]_vars => CareInv'
<1> SUFFICES ASSUME LifeInv, LifeInv', CareInv, [Next]_vars PROVE Cares
  BY DEF Cares
<1>1. CASE UNCHANGED vars
  BY <1>1 DEF vars, hist, Cares, CareInv, HeldOK, Held, ActionOK, SanctionOK, Live, Past, Kicks,
              LooseOK, Loose, ToRelease, NotEnding
<1>2. ASSUME NEW p \in Procs, Run(p)
      PROVE  Cares
  BY <1>2, RestrictCares, ChallengeCares, SendCares, SavePromptCares, MarkCares, RouteCares,
     GateCares, FailCares, CheckCares, LiftCares, BanCares, UnbanCares, DeclineCares, RetryCares,
     OutcomeCares, StoreFailsCares DEF Run
<1>3. QED
  BY <1>1, <1>2, BeginCares, OwnMoveCares, MemberChangeCares, RecordCares, SanctionCares,
     TickCares, PressCares, SweepReadCares, CrashCares DEF Next

\* The invariant that ties the row, the copies of it, the member and the sanction
\* together holds over any interleaving of press, sweep, challenges, moderation and
\* admins.
THEOREM CareInvariant == Spec => []CareInv
<1>1. Init => CareInv
  BY InitCares
<1>2. LifeInv /\ LifeInv' /\ CareInv /\ [Next]_vars => CareInv'
  BY CaresStep
<1>3. QED
  BY <1>1, <1>2, CopiesWorth, PTL DEF Spec

\* The captcha lifts no sanction of moderation, unless it was recorded after the
\* last SanctionSince of the release under way.  (decidePress, sweepChallenged,
\* sweepPassing and fail of watch/captcha.go)
THEOREM CaptchaSparesSanctions == Spec => []SanctionRespected
<1>1. CareInv => SanctionRespected
  BY DEF CareInv, SanctionOK, Live, SanctionRespected
<1>2. QED
  BY <1>1, CareInvariant, PTL

\* Whoever the captcha restricted is released before their challenge ends, unless the
\* code gives up, keeps them muted or leaves them to the admins.  (fail, finishFail,
\* giveUp, sweepPassing)
THEOREM CaptchaForgetsNobody == Spec => []NobodyForgotten
<1>1. CareInv => NobodyForgotten
  BY DEF CareInv, LooseOK, Loose, ToRelease, NobodyForgotten, Active, Final
<1>2. QED
  BY <1>1, CareInvariant, PTL

=============================================================================
