----------------------------- MODULE AdminCache -----------------------------
(***************************************************************************)
(* The administrator list of one chat (internal/telegram/admincache.go):    *)
(* a TTL cache over getChatAdministrators with one request in flight, a     *)
(* generation count that an invalidation bumps, a back-off after a failure  *)
(* and a stale list within a grace period.  A list is the number of the     *)
(* roster version Telegram answered with.                                   *)
(*                                                                          *)
(* Callers are the goroutines that look the list up; a step is a critical   *)
(* section of the cache's mutex, or Telegram taking its answer.             *)
(***************************************************************************)
EXTENDS Naturals, FiniteSets

CONSTANTS Callers,
          NoCall,      \* no request is in flight
          TTL,         \* the cache's ttl, in ticks of the clock
          MaxChanges,  \* bound on roster changes
          MaxTime,     \* bound on the clock
          MaxPanics    \* bound on panics of the port call

ASSUME NoCallAssumption == NoCall \notin Callers
ASSUME CacheBounds == TTL \in Nat \ {0} /\ MaxChanges \in Nat /\ MaxTime \in Nat
                      /\ MaxPanics \in Nat

NoList   == 0                      \* the nil slice
Versions == 1 .. MaxChanges + 1
Grace    == 2 * TTL

VARIABLES
  roster,         \* version of the roster at Telegram
  told,           \* latest version an update told the bot of
  now,            \* the clock
  entry,          \* the cached entry
  gen,            \* how often the chat was invalidated
  inflight,       \* the caller that leads the request in flight
  pc, call,       \* where each caller is, and what a leader captured and fetched
  since, got,     \* history: what was told when a lookup began, what it got
  outage,         \* history: the last request that failed, its generation and time
  panics

vars == <<roster, told, now, entry, gen, inflight, pc, call, since, got, outage, panics>>

\* ok: the map has an entry.  ids is NoList in one that records a failure only.
Entry == [ok : BOOLEAN, ids : Versions \cup {NoList}, fetchedAt : 0 .. MaxTime,
          failed : BOOLEAN, failedAt : 0 .. MaxTime]
NoEntry == [ok |-> FALSE, ids |-> NoList, fetchedAt |-> 0, failed |-> FALSE, failedAt |-> 0]

\* The entry a successful request installs: it remembers no failure.
Listed(l) == [ok |-> TRUE, ids |-> l, fetchedAt |-> now, failed |-> FALSE, failedAt |-> 0]

\* What a leader holds during its request: generation and entry at its start,
\* and Telegram's answer.
Call == [gen : Nat, prev : Entry, ans : Versions \cup {NoList}]
NoAnswer == [gen |-> 0, prev |-> NoEntry, ans |-> NoList]

\* A result: a list or none, an error or none, and how old the list is.  No list
\* without an error would say that the chat has no admins, and expose them all.
Result == {r \in [ids : Versions \cup {NoList}, err : BOOLEAN, age : 0 .. MaxTime] :
             r.ids = NoList => r.err}
Failure == [ids |-> NoList, err |-> TRUE, age |-> 0]

TypeOK ==
  /\ roster \in Versions /\ told \in Versions /\ now \in 0 .. MaxTime
  /\ entry \in Entry /\ gen \in Nat /\ inflight \in Callers \cup {NoCall}
  /\ pc \in [Callers -> {"idle", "fetch", "commit", "wait"}]
  /\ call \in [Callers -> Call]
  /\ since \in [Callers -> Versions] /\ got \in [Callers -> Result]
  /\ outage \in [failed : BOOLEAN, gen : Nat, at : 0 .. MaxTime]
  /\ panics \in 0 .. MaxPanics

Init ==
  /\ roster = 1 /\ told = 1 /\ now = 0
  /\ entry = NoEntry /\ gen = 0 /\ inflight = NoCall
  /\ pc = [p \in Callers |-> "idle"] /\ call = [p \in Callers |-> NoAnswer]
  /\ since = [p \in Callers |-> 1] /\ got = [p \in Callers |-> Failure]
  /\ outage = [failed |-> FALSE, gen |-> 0, at |-> 0]
  /\ panics = 0

-----------------------------------------------------------------------------

Age(e) == now - e.fetchedAt

\* Mutant: the grace period never ends.
MutStale(e) == [ids |-> e.ids, err |-> TRUE, age |-> IF e.ids = NoList THEN 0 ELSE Age(e)]

\* adminEntry.stale: the error always, and the list with it within the grace period.
Stale(e) ==
  IF e.ids # NoList /\ Age(e) < Grace THEN [ids |-> e.ids, err |-> TRUE, age |-> Age(e)]
  ELSE Failure

Fresh(e) == e.ok /\ e.ids # NoList /\ Age(e) < TTL

BackingOff(e) == e.ok /\ e.failed /\ now - e.failedAt < TTL

\* The first critical section of AdminIdentities: answer from the entry, join the
\* request in flight, or lead a new one.
Lookup(p) ==
  /\ pc[p] = "idle"
  /\ since' = [since EXCEPT ![p] = told]
  /\ \/ /\ Fresh(entry)
        /\ got' = [got EXCEPT ![p] = [ids |-> entry.ids, err |-> FALSE, age |-> Age(entry)]]
        /\ UNCHANGED <<inflight, pc, call>>
     \/ /\ ~Fresh(entry) /\ BackingOff(entry)
        /\ got' = [got EXCEPT ![p] = Stale(entry)]
        /\ UNCHANGED <<inflight, pc, call>>
     \/ /\ ~Fresh(entry) /\ ~BackingOff(entry) /\ inflight # NoCall
        /\ pc' = [pc EXCEPT ![p] = "wait"]
        /\ UNCHANGED <<inflight, call, got>>
     \/ /\ ~Fresh(entry) /\ ~BackingOff(entry) /\ inflight = NoCall
        /\ inflight' = p
        /\ pc' = [pc EXCEPT ![p] = "fetch"]
        /\ call' = [call EXCEPT ![p] = [gen |-> gen, prev |-> entry, ans |-> NoList]]
        /\ UNCHANGED got
  /\ UNCHANGED <<roster, told, now, entry, gen, outage, panics>>

\* GetChatAdministrators: Telegram answers with the roster of the moment, or the
\* call fails (an answer that names nobody counts as failed).
Fetch(p) ==
  /\ pc[p] = "fetch"
  /\ pc' = [pc EXCEPT ![p] = "commit"]
  /\ call' = [call EXCEPT ![p].ans = roster] \/ UNCHANGED call
  /\ UNCHANGED <<roster, told, now, entry, gen, inflight, since, got, outage, panics>>

\* The result goes to the leader and to everyone who joined its request.
Publish(p, r) ==
  /\ inflight' = NoCall
  /\ got' = [q \in Callers |-> IF q = p \/ pc[q] = "wait" THEN r ELSE got[q]]
  /\ pc' = [q \in Callers |-> IF q = p \/ pc[q] = "wait" THEN "idle" ELSE pc[q]]
  /\ call' = [call EXCEPT ![p] = NoAnswer]

Noted(p) ==
  outage' = IF call[p].ans = NoList THEN [failed |-> TRUE, gen |-> call[p].gen, at |-> now]
            ELSE outage

\* Mutant: the commit does not look at the generation.
MutCommitIgnoresGen(p) ==
  /\ pc[p] = "commit"
  /\ IF call[p].ans = NoList
     THEN /\ entry' = [entry EXCEPT !.ok = TRUE, !.failed = TRUE, !.failedAt = now]
          /\ Publish(p, IF call[p].prev.ok THEN Stale(call[p].prev) ELSE Failure)
     ELSE /\ entry' = Listed(call[p].ans)
          /\ Publish(p, [ids |-> call[p].ans, err |-> FALSE, age |-> 0])
  /\ Noted(p)
  /\ UNCHANGED <<roster, told, now, gen, since, panics>>

\* Mutant: a failure is recorded only beside a cached list.
MutCommitForgetsFailure(p) ==
  /\ pc[p] = "commit"
  /\ LET invalidated == call[p].gen # gen
         failed == call[p].ans = NoList
     IN IF failed
        THEN /\ entry' = IF invalidated \/ ~entry.ok THEN entry
                         ELSE [entry EXCEPT !.failed = TRUE, !.failedAt = now]
             /\ Publish(p, IF ~invalidated /\ call[p].prev.ok THEN Stale(call[p].prev) ELSE Failure)
        ELSE /\ entry' = IF invalidated THEN entry
                         ELSE Listed(call[p].ans)
             /\ Publish(p, IF invalidated THEN Failure
                           ELSE [ids |-> call[p].ans, err |-> FALSE, age |-> 0])
  /\ Noted(p)
  /\ UNCHANGED <<roster, told, now, gen, since, panics>>

\* commitLocked and the publication, in one critical section.  A failure is
\* remembered even without a list; an invalidation since the start of the request
\* makes its answer worthless and its failure forgotten.
Commit(p) ==
  /\ pc[p] = "commit"
  /\ LET invalidated == call[p].gen # gen
         failed == call[p].ans = NoList
     IN IF failed
        THEN /\ entry' = IF invalidated THEN entry
                         ELSE [entry EXCEPT !.ok = TRUE, !.failed = TRUE, !.failedAt = now]
             /\ Publish(p, IF ~invalidated /\ call[p].prev.ok THEN Stale(call[p].prev) ELSE Failure)
        ELSE /\ entry' = IF invalidated THEN entry
                         ELSE Listed(call[p].ans)
             /\ Publish(p, IF invalidated THEN Failure
                           ELSE [ids |-> call[p].ans, err |-> FALSE, age |-> 0])
  /\ Noted(p)
  /\ UNCHANGED <<roster, told, now, gen, since, panics>>

\* Mutant: a panic leaves the call in the map and its channel open.
MutAbort(p) ==
  /\ pc[p] = "fetch" /\ panics < MaxPanics
  /\ panics' = panics + 1
  /\ pc' = [pc EXCEPT ![p] = "idle"] /\ got' = [got EXCEPT ![p] = Failure]
  /\ UNCHANGED <<roster, told, now, entry, gen, inflight, call, since, outage>>

\* The port call panics: the deferred function releases whoever waits, with an error.
Abort(p) ==
  /\ pc[p] = "fetch" /\ panics < MaxPanics
  /\ panics' = panics + 1
  /\ Publish(p, Failure)
  /\ UNCHANGED <<roster, told, now, entry, gen, since, outage>>

\* Mutant: the request in flight is forgotten with the entry.
MutInvalidate(v) ==
  /\ told < v /\ v <= roster
  /\ told' = v
  /\ entry' = NoEntry /\ gen' = gen + 1 /\ inflight' = NoCall
  /\ UNCHANGED <<roster, now, pc, call, since, got, outage, panics>>

\* A chat_member or my_chat_member update reports the roster as of version v.
Invalidate(v) ==
  /\ told < v /\ v <= roster
  /\ told' = v
  /\ entry' = NoEntry /\ gen' = gen + 1
  /\ UNCHANGED <<roster, now, inflight, pc, call, since, got, outage, panics>>

\* An admin is promoted, demoted or renamed.
Change ==
  /\ roster \in 1 .. MaxChanges /\ roster' = roster + 1
  /\ UNCHANGED <<told, now, entry, gen, inflight, pc, call, since, got, outage, panics>>

Tick ==
  /\ now < MaxTime /\ now' = now + 1
  /\ UNCHANGED <<roster, told, entry, gen, inflight, pc, call, since, got, outage, panics>>

Next ==
  \/ \E p \in Callers : Lookup(p) \/ Fetch(p) \/ Commit(p) \/ Abort(p)
  \/ \E v \in Versions : Invalidate(v)
  \/ Change \/ Tick

Spec == Init /\ [][Next]_vars

\* A request ends (its context and the client's timeout bound it) and the
\* goroutine that made it goes on.
FairSpec == Spec /\ \A p \in Callers : WF_vars(Fetch(p) \/ Commit(p))

-----------------------------------------------------------------------------
(* Properties. *)

\* No lookup is answered with a list that predates a roster change the bot had
\* been told of when the lookup began, with or without an error: not from the
\* cache, not from a request another caller had started before the change, and
\* not as a stale fallback.  Cascade.Decide grants or denies immunity by it.
NeverOutdated ==
  \A p \in Callers : pc[p] = "idle" /\ got[p].ids # NoList => got[p].ids >= since[p]

\* A list without an error is younger than the TTL; one with an error, which can
\* only grant immunity, is within the grace period.
AgeBounded ==
  \A p \in Callers : got[p].ids # NoList =>
    got[p].age < (IF got[p].err THEN Grace ELSE TTL)

\* Concurrent misses share one request, also across invalidations and panics.
SingleFlight == \A p, q \in Callers : pc[p] \in {"fetch", "commit"} /\ pc[q] \in {"fetch", "commit"} => p = q

\* Nobody leads a new request within a TTL of one that failed, unless the chat was
\* invalidated since that one began: an outage costs one request per TTL, however
\* many messages arrive and whether or not there is a list to fall back on.
BacksOff ==
  [][inflight = NoCall /\ inflight' # NoCall
       => ~(outage.failed /\ outage.gen = gen /\ now - outage.at < TTL)]_vars

\* Every lookup gets an answer: nobody waits for ever on a request that failed,
\* was invalidated or panicked.
LookupEnds == \A p \in Callers : pc[p] # "idle" ~> pc[p] = "idle"

=============================================================================
