--------------------------- MODULE ChallengeLife ---------------------------
(***************************************************************************)
(* What the captcha promises of one person's challenges, without saying    *)
(* who does the work: attempts follow one another, each is answered or     *)
(* not, and its outcome is final.                                          *)
(***************************************************************************)
EXTENDS Naturals

VARIABLES state,    \* of the latest attempt
          attempt,  \* its number
          pressed   \* attempts whose own button was pressed

life == <<state, attempt, pressed>>

Init == state = "none" /\ attempt = 0 /\ pressed = {}

\* A new attempt replaces none, or one that ended without being passed.
Begin ==
  /\ state \in {"none", "failed", "cancelled"}
  /\ state' = "new" /\ attempt' = attempt + 1
  /\ UNCHANGED pressed

Becomes(from, to) == state \in from /\ state' = to /\ UNCHANGED <<attempt, pressed>>

Prompt == Becomes({"new"}, "challenged")

Press == state = "challenged" /\ pressed' = pressed \cup {attempt} /\ UNCHANGED <<state, attempt>>

\* Only a press of this attempt's button lets somebody in.
Accept == attempt \in pressed /\ Becomes({"challenged"}, "passing")

Fail == Becomes({"new", "challenged"}, "failing")

\* An outcome is reached once: what is passing never fails, what is failing never
\* passes, and everything open can be called off.
Conclude ==
  \/ Becomes({"passing"}, "passed")
  \/ Becomes({"failing"}, "failed")
  \/ Becomes({"new", "challenged", "passing", "failing"}, "cancelled")

Next == Begin \/ Prompt \/ Press \/ Accept \/ Fail \/ Conclude
Spec == Init /\ [][Next]_life
=============================================================================
