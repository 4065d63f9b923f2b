----------------------------- MODULE MCIncident -----------------------------
(* Incident on a small instance for TLC. *)
EXTENDS Incident

\* One verdict per path through the machine: sent to review, judged in an
\* observing chat, enforced on the detector's own judgement, on a blocklist
\* hit, and a deletion without a sanction.
MCVerdicts ==
  { [action |-> "quarantine",  dry |-> TRUE,  signal |-> "detector"],
    [action |-> "delete_mute", dry |-> TRUE,  signal |-> "detector"],
    [action |-> "delete_mute", dry |-> FALSE, signal |-> "detector"],
    [action |-> "ban",         dry |-> FALSE, signal |-> "blocklist"],
    [action |-> "delete_only", dry |-> FALSE, signal |-> "detector"] }

\* The verdicts of the run with crashes and store failures: a review that an
\* edit may promote, and a live verdict on the detector's judgement.
MCFaultVerdicts ==
  { v \in MCVerdicts : v.signal = "detector"
                       /\ v.action \in {"quarantine", "delete_mute"}
                       /\ v.dry = (v.action = "quarantine") }

=============================================================================
