-------------------------- MODULE AdminCacheProofs --------------------------
(***************************************************************************)
(* Proofs about the administrator cache, for any set of callers, any TTL    *)
(* and any number of roster changes, clock ticks and panics.                *)
(***************************************************************************)
EXTENDS AdminCache, TLAPS

Leading(p) == pc[p] \in {"fetch", "commit"}

\* Updates report what happened, and a lookup began before what is told by now.
ToldOK == told <= roster /\ \A p \in Callers : since[p] <= told

\* The cache holds nothing that is known to be outdated.
EntryOK == /\ entry.ids # NoList => entry.ids >= told
           /\ entry.fetchedAt <= now /\ entry.failedAt <= now

\* What a leader captured is good as long as the generation is the one it saw.
CallsOK ==
  \A p \in Callers :
    /\ call[p].gen <= gen /\ call[p].prev.fetchedAt <= now
    /\ pc[p] # "commit" => call[p].ans = NoList
    /\ Leading(p) /\ call[p].gen = gen =>
         /\ call[p].prev.ids # NoList => call[p].prev.ids >= told
         /\ call[p].ans # NoList => call[p].ans >= told

\* The call in the map is that of whoever leads.
FlightOK == \A p \in Callers : Leading(p) => inflight = p

Recent == outage.failed /\ outage.gen = gen /\ now - outage.at < TTL

\* A recent failure is in the entry, and nobody is asking again.
OutageOK ==
  /\ outage.gen <= gen /\ outage.at <= now
  /\ Recent => /\ entry.ok /\ entry.failed /\ entry.failedAt = outage.at
               /\ \A p \in Callers : ~Leading(p)
               /\ inflight = NoCall

\* The inductive invariant.
IInv == /\ TypeOK /\ ToldOK /\ EntryOK /\ CallsOK /\ FlightOK /\ OutageOK
        /\ NeverOutdated /\ AgeBounded

\* The invariant holds of a cache nobody used yet (NewAdminCache).
LEMMA InitInv == Init => IInv
<1> SUFFICES ASSUME Init PROVE IInv
  OBVIOUS
<1> USE NoCallAssumption, CacheBounds
<1>1. TypeOK
  BY DEF Init, TypeOK, NoEntry, Entry, NoAnswer, Call, Failure, Result, Versions, NoList
<1>2. ToldOK /\ EntryOK /\ CallsOK /\ FlightOK /\ OutageOK
  BY DEF Init, ToldOK, EntryOK, CallsOK, FlightOK, OutageOK, Recent, Leading, NoEntry, NoAnswer, NoList
<1>3. NeverOutdated /\ AgeBounded
  BY DEF Init, NeverOutdated, AgeBounded, Failure, NoList
<1> QED
  BY <1>1, <1>2, <1>3 DEF IInv

\* adminEntry.stale returns an error, and a list only if the entry holds it and
\* the grace period is not over.
LEMMA StaleFacts ==
  ASSUME NEW e \in Entry, now \in 0 .. MaxTime, e.fetchedAt <= now
  PROVE  /\ Stale(e) \in Result /\ Stale(e).err
         /\ Stale(e).ids # NoList =>
              Stale(e).ids = e.ids /\ Stale(e).age < Grace
<1> USE CacheBounds
<1>1. Age(e) \in 0 .. MaxTime
  BY DEF Age, Entry
<1> QED
  BY <1>1 DEF Stale, Failure, Result, Entry, NoList, Versions

\* The critical section in which a lookup begins (AdminIdentities).
LEMMA LookupInv == ASSUME IInv, NEW p \in Callers, Lookup(p) PROVE IInv'
<1> USE NoCallAssumption, CacheBounds DEF IInv
<1>1. entry \in Entry /\ now \in 0 .. MaxTime /\ entry.fetchedAt <= now
  BY DEF TypeOK, EntryOK
<1>2. Age(entry) \in 0 .. MaxTime
  BY <1>1 DEF Age, Entry
<1>3. Stale(entry) \in Result /\ Stale(entry).err
      /\ (Stale(entry).ids # NoList => Stale(entry).ids = entry.ids /\ Stale(entry).age < Grace)
  BY <1>1, StaleFacts
<1>4. CASE Fresh(entry)
  <2>0. /\ got' = [got EXCEPT ![p] = [ids |-> entry.ids, err |-> FALSE, age |-> Age(entry)]]
        /\ UNCHANGED <<inflight, pc, call, roster, told, now, entry, gen, outage, panics>>
        /\ since' = [since EXCEPT ![p] = told]
    BY <1>4 DEF Lookup
  <2> DEFINE r == [ids |-> entry.ids, err |-> FALSE, age |-> Age(entry)]
  <2>1. r \in Result /\ r.age < TTL /\ r.ids >= told
    BY <1>1, <1>2, <1>4 DEF Fresh, Result, Entry, EntryOK, NoList, Versions
  <2> HIDE DEF r
  <2>2. TypeOK'
    BY <2>0, <2>1 DEF TypeOK, r
  <2>3. ToldOK' /\ EntryOK' /\ CallsOK' /\ FlightOK' /\ OutageOK'
    BY <2>0 DEF TypeOK, ToldOK, EntryOK, CallsOK, FlightOK, OutageOK, Recent, Leading, Versions
  <2>4. NeverOutdated' /\ AgeBounded'
    BY <2>0, <2>1 DEF TypeOK, NeverOutdated, AgeBounded, r
  <2> QED
    BY <2>2, <2>3, <2>4
<1>5. CASE ~Fresh(entry) /\ BackingOff(entry)
  <2>0. /\ got' = [got EXCEPT ![p] = Stale(entry)]
        /\ UNCHANGED <<inflight, pc, call, roster, told, now, entry, gen, outage, panics>>
        /\ since' = [since EXCEPT ![p] = told]
    BY <1>5 DEF Lookup
  <2>2. TypeOK'
    BY <2>0, <1>3 DEF TypeOK
  <2>3. ToldOK' /\ EntryOK' /\ CallsOK' /\ FlightOK' /\ OutageOK'
    BY <2>0 DEF TypeOK, ToldOK, EntryOK, CallsOK, FlightOK, OutageOK, Recent, Leading, Versions
  <2>4. NeverOutdated' /\ AgeBounded'
    BY <2>0, <1>3 DEF TypeOK, NeverOutdated, AgeBounded, EntryOK
  <2> QED
    BY <2>2, <2>3, <2>4
<1>6. CASE ~Fresh(entry) /\ ~BackingOff(entry) /\ inflight # NoCall
  <2>0. /\ pc' = [pc EXCEPT ![p] = "wait"]
        /\ UNCHANGED <<inflight, call, got, roster, told, now, entry, gen, outage, panics>>
        /\ since' = [since EXCEPT ![p] = told]
    BY <1>6 DEF Lookup
  <2>2. TypeOK'
    BY <2>0 DEF TypeOK
  <2>3. ToldOK' /\ EntryOK' /\ FlightOK'
    BY <2>0 DEF TypeOK, ToldOK, EntryOK, FlightOK, Leading, Versions
  <2>4. CallsOK' /\ OutageOK'
    BY <2>0 DEF TypeOK, CallsOK, OutageOK, Recent, Leading, Lookup
  <2>5. NeverOutdated' /\ AgeBounded'
    BY <2>0 DEF TypeOK, NeverOutdated, AgeBounded
  <2> QED
    BY <2>2, <2>3, <2>4, <2>5
<1>7. CASE ~Fresh(entry) /\ ~BackingOff(entry) /\ inflight = NoCall
  <2> DEFINE c == [gen |-> gen, prev |-> entry, ans |-> NoList]
  <2>0. /\ inflight' = p /\ pc' = [pc EXCEPT ![p] = "fetch"]
        /\ call' = [call EXCEPT ![p] = c]
        /\ UNCHANGED <<got, roster, told, now, entry, gen, outage, panics>>
        /\ since' = [since EXCEPT ![p] = told]
    BY <1>7 DEF Lookup
  <2>1. c \in Call /\ c.gen = gen /\ c.prev = entry /\ c.ans = NoList
    BY DEF TypeOK, Call, NoList
  <2> HIDE DEF c
  <2>2. TypeOK'
    BY <2>0, <2>1 DEF TypeOK
  <2>3. ToldOK' /\ EntryOK'
    BY <2>0 DEF TypeOK, ToldOK, EntryOK, Versions
  <2>4. FlightOK'
    BY <2>0, <1>7 DEF TypeOK, FlightOK, Leading
  <2>5. CallsOK'
    BY <2>0, <2>1 DEF TypeOK, CallsOK, Leading, EntryOK
  <2>6. OutageOK'
    BY <2>0, <1>7 DEF TypeOK, OutageOK, Recent, BackingOff, Entry
  <2>7. NeverOutdated' /\ AgeBounded'
    BY <2>0 DEF TypeOK, NeverOutdated, AgeBounded
  <2> QED
    BY <2>2, <2>3, <2>4, <2>5, <2>6, <2>7
<1> QED
  BY <1>4, <1>5, <1>6, <1>7

\* Telegram answers with the roster of the moment, which nothing told is newer than.
LEMMA FetchInv == ASSUME IInv, NEW p \in Callers, Fetch(p) PROVE IInv'
<1> USE NoCallAssumption, CacheBounds DEF IInv
<1>0. /\ pc[p] = "fetch" /\ pc' = [pc EXCEPT ![p] = "commit"]
      /\ call' = [call EXCEPT ![p].ans = roster] \/ call' = call
      /\ UNCHANGED <<roster, told, now, entry, gen, inflight, since, got, outage, panics>>
  BY DEF Fetch
<1>1. TypeOK'
  BY <1>0 DEF TypeOK, Call
<1>2. ToldOK' /\ EntryOK' /\ FlightOK' /\ NeverOutdated' /\ AgeBounded'
  BY <1>0 DEF TypeOK, ToldOK, EntryOK, FlightOK, Leading, NeverOutdated, AgeBounded
<1>3. OutageOK'
  BY <1>0 DEF TypeOK, OutageOK, Recent, Leading
<1>4. CallsOK'
  BY <1>0 DEF TypeOK, CallsOK, Call, Leading, ToldOK
<1> QED
  BY <1>1, <1>2, <1>3, <1>4

\* Handing a result to the leader and to all who wait keeps the invariant, if the
\* list in it is not outdated and not too old.
LEMMA PublishInv ==
  ASSUME IInv, NEW p \in Callers, NEW r \in Result, Leading(p), Publish(p, r),
         r.ids # NoList => r.ids >= told /\ r.age < (IF r.err THEN Grace ELSE TTL),
         UNCHANGED <<roster, told, now, gen, since>>
  PROVE  /\ inflight' \in Callers \cup {NoCall} /\ got' \in [Callers -> Result]
         /\ pc' \in [Callers -> {"idle", "fetch", "commit", "wait"}] /\ call' \in [Callers -> Call]
         /\ ToldOK' /\ CallsOK' /\ FlightOK' /\ NeverOutdated' /\ AgeBounded'
         /\ \A q \in Callers : ~Leading(q)'
         /\ inflight' = NoCall
<1> USE NoCallAssumption, CacheBounds DEF IInv
<1>0. /\ inflight' = NoCall
      /\ got' = [q \in Callers |-> IF q = p \/ pc[q] = "wait" THEN r ELSE got[q]]
      /\ pc' = [q \in Callers |-> IF q = p \/ pc[q] = "wait" THEN "idle" ELSE pc[q]]
      /\ call' = [call EXCEPT ![p] = NoAnswer]
  BY DEF Publish
<1>1. NoAnswer \in Call /\ NoAnswer.gen = 0 /\ NoAnswer.prev.fetchedAt = 0 /\ NoAnswer.ans = NoList
  BY DEF NoAnswer, Call, NoEntry, Entry, NoList
<1>2. /\ inflight' \in Callers \cup {NoCall} /\ got' \in [Callers -> Result]
      /\ pc' \in [Callers -> {"idle", "fetch", "commit", "wait"}] /\ call' \in [Callers -> Call]
  BY <1>0, <1>1 DEF TypeOK
<1>3. \A q \in Callers : q # p => ~Leading(q)
  BY DEF FlightOK
<1>4. \A q \in Callers : ~Leading(q)'
  BY <1>0, <1>3 DEF Leading, TypeOK
<1>5. ToldOK' /\ FlightOK'
  BY <1>4 DEF ToldOK, FlightOK
<1>6. CallsOK'
  BY <1>0, <1>1, <1>4 DEF CallsOK, TypeOK, Leading
<1>7. NeverOutdated'
  BY <1>0 DEF NeverOutdated, TypeOK, ToldOK, Versions, Result
<1>8. AgeBounded'
  BY <1>0 DEF AgeBounded, TypeOK
<1> QED
  BY <1>0, <1>2, <1>4, <1>5, <1>6, <1>7, <1>8

\* The end of a request: commitLocked and the publication of its result.
LEMMA CommitInv == ASSUME IInv, NEW p \in Callers, Commit(p) PROVE IInv'
<1> USE NoCallAssumption, CacheBounds DEF IInv
<1> DEFINE invalidated == call[p].gen # gen
           failed == call[p].ans = NoList
           listed == Listed(call[p].ans)
           noted == [entry EXCEPT !.ok = TRUE, !.failed = TRUE, !.failedAt = now]
           answer == [ids |-> call[p].ans, err |-> FALSE, age |-> 0]
           fallback == IF ~invalidated /\ call[p].prev.ok THEN Stale(call[p].prev) ELSE Failure
<1>0. pc[p] = "commit" /\ Noted(p) /\ UNCHANGED <<roster, told, now, gen, since, panics>>
  BY DEF Commit
<1>1. /\ call[p] \in Call /\ call[p].prev \in Entry /\ call[p].ans \in Versions \cup {NoList}
      /\ call[p].gen \in Nat /\ call[p].prev.fetchedAt <= now /\ now \in 0 .. MaxTime
      /\ entry \in Entry /\ Leading(p)
  BY <1>0 DEF TypeOK, CallsOK, Call, Leading
<1>2. Failure \in Result /\ Failure.ids = NoList
  BY DEF Failure, Result, NoList
<1>3. outage' \in [failed : BOOLEAN, gen : Nat, at : 0 .. MaxTime]
  BY <1>0, <1>1 DEF Noted, TypeOK
<1>4. CASE failed
  <2>0. /\ entry' = IF invalidated THEN entry ELSE noted
        /\ Publish(p, fallback)
    BY <1>4 DEF Commit
  <2>1. /\ fallback \in Result /\ (fallback.ids # NoList => fallback.err)
        /\ fallback.ids # NoList => fallback.ids >= told /\ fallback.age < Grace
    <3>1. CASE ~invalidated /\ call[p].prev.ok
      <4>1. Stale(call[p].prev) \in Result /\ Stale(call[p].prev).err
            /\ (Stale(call[p].prev).ids # NoList =>
                  Stale(call[p].prev).ids = call[p].prev.ids /\ Stale(call[p].prev).age < Grace)
        BY <1>1, StaleFacts
      <4> QED
        BY <4>1, <3>1, <1>1 DEF CallsOK
    <3>2. CASE ~(~invalidated /\ call[p].prev.ok)
      BY <3>2, <1>2
    <3> QED
      BY <3>1, <3>2
  <2> HIDE DEF fallback
  <2>2. /\ inflight' \in Callers \cup {NoCall} /\ got' \in [Callers -> Result]
        /\ pc' \in [Callers -> {"idle", "fetch", "commit", "wait"}] /\ call' \in [Callers -> Call]
        /\ ToldOK' /\ CallsOK' /\ FlightOK' /\ NeverOutdated' /\ AgeBounded'
        /\ \A q \in Callers : ~Leading(q)'
        /\ inflight' = NoCall
    BY <1>0, <1>1, <2>0, <2>1, PublishInv
  <2>3. noted \in Entry /\ noted.ids = entry.ids /\ noted.fetchedAt = entry.fetchedAt
        /\ noted.ok /\ noted.failed /\ noted.failedAt = now
    BY <1>1 DEF Entry
  <2> HIDE DEF noted
  <2>4. entry' \in Entry
    BY <2>0, <2>3, <1>1
  <2>5. TypeOK'
    BY <2>2, <2>4, <1>0, <1>3 DEF TypeOK
  <2>6. EntryOK'
    BY <2>0, <2>3, <1>0, <1>1 DEF EntryOK
  <2>7. outage' = [failed |-> TRUE, gen |-> call[p].gen, at |-> now]
    BY <1>0, <1>4 DEF Noted
  <2>8. OutageOK'
    BY <2>7, <2>0, <2>2, <2>3, <1>0, <1>1 DEF OutageOK, Recent, CallsOK, TypeOK
  <2> QED
    BY <2>2, <2>5, <2>6, <2>8
<1>5. CASE ~failed
  <2> DEFINE result == IF invalidated THEN Failure ELSE answer
  <2>0. /\ entry' = IF invalidated THEN entry ELSE listed
        /\ Publish(p, result)
    BY <1>5 DEF Commit
  <2>1. /\ result \in Result
        /\ result.ids # NoList => result.ids >= told /\ result.age < (IF result.err THEN Grace ELSE TTL)
    BY <1>1, <1>2, <1>5 DEF CallsOK, Result, NoList
  <2> HIDE DEF result
  <2>2. /\ inflight' \in Callers \cup {NoCall} /\ got' \in [Callers -> Result]
        /\ pc' \in [Callers -> {"idle", "fetch", "commit", "wait"}] /\ call' \in [Callers -> Call]
        /\ ToldOK' /\ CallsOK' /\ FlightOK' /\ NeverOutdated' /\ AgeBounded'
        /\ \A q \in Callers : ~Leading(q)'
        /\ inflight' = NoCall
    BY <1>0, <1>1, <2>0, <2>1, PublishInv
  <2>3. listed \in Entry /\ listed.ids = call[p].ans /\ listed.fetchedAt = now /\ listed.failedAt = 0
    BY <1>1 DEF Listed, Entry
  <2> HIDE DEF listed
  <2>4. entry' \in Entry
    BY <2>0, <2>3, <1>1
  <2>5. TypeOK'
    BY <2>2, <2>4, <1>0, <1>3 DEF TypeOK
  <2>6. EntryOK'
    BY <2>0, <2>3, <1>0, <1>1, <1>5 DEF EntryOK, CallsOK
  <2>7. outage' = outage
    BY <1>0, <1>5 DEF Noted
  <2>8. OutageOK'
    BY <2>7, <2>0, <1>0, <1>1 DEF OutageOK, Recent
  <2> QED
    BY <2>2, <2>5, <2>6, <2>8
<1> QED
  BY <1>4, <1>5

\* A panic of the port call hands everyone an error.
LEMMA AbortInv == ASSUME IInv, NEW p \in Callers, Abort(p) PROVE IInv'
<1> USE NoCallAssumption, CacheBounds DEF IInv
<1>0. /\ Leading(p) /\ Publish(p, Failure) /\ panics' = panics + 1 /\ panics < MaxPanics
      /\ UNCHANGED <<roster, told, now, entry, gen, since, outage>>
  BY DEF Abort, Leading
<1>1. Failure \in Result /\ Failure.ids = NoList
  BY DEF Failure, Result, NoList
<1>2. /\ inflight' \in Callers \cup {NoCall} /\ got' \in [Callers -> Result]
      /\ pc' \in [Callers -> {"idle", "fetch", "commit", "wait"}] /\ call' \in [Callers -> Call]
      /\ ToldOK' /\ CallsOK' /\ FlightOK' /\ NeverOutdated' /\ AgeBounded'
      /\ \A q \in Callers : ~Leading(q)'
      /\ inflight' = NoCall
  BY <1>0, <1>1, PublishInv
<1>3. TypeOK'
  BY <1>0, <1>2 DEF TypeOK
<1>4. EntryOK' /\ OutageOK'
  BY <1>0, <1>2 DEF EntryOK, OutageOK, Recent
<1> QED
  BY <1>2, <1>3, <1>4

\* An invalidation empties the cache and makes every request in flight worthless.
LEMMA InvalidateInv == ASSUME IInv, NEW v \in Versions, Invalidate(v) PROVE IInv'
<1> USE NoCallAssumption, CacheBounds DEF IInv
<1>0. /\ told < v /\ v <= roster /\ told' = v /\ entry' = NoEntry /\ gen' = gen + 1
      /\ UNCHANGED <<roster, now, inflight, pc, call, since, got, outage, panics>>
  BY DEF Invalidate
<1>1. NoEntry \in Entry /\ NoEntry.ids = NoList /\ NoEntry.fetchedAt = 0 /\ NoEntry.failedAt = 0
  BY DEF NoEntry, Entry, NoList
<1>2. TypeOK'
  BY <1>0, <1>1 DEF TypeOK
<1>3. ToldOK' /\ EntryOK' /\ FlightOK'
  BY <1>0, <1>1 DEF TypeOK, ToldOK, EntryOK, FlightOK, Leading, Versions
<1>4. CallsOK'
  BY <1>0 DEF TypeOK, CallsOK, Call, Leading
<1>5. OutageOK'
  BY <1>0 DEF TypeOK, OutageOK, Recent
<1>6. NeverOutdated' /\ AgeBounded'
  BY <1>0 DEF NeverOutdated, AgeBounded
<1> QED
  BY <1>2, <1>3, <1>4, <1>5, <1>6

\* Every step keeps the invariant.
LEMMA NextInv == IInv /\ [Next]_vars => IInv'
<1> SUFFICES ASSUME IInv, [Next]_vars PROVE IInv'
  OBVIOUS
<1> USE NoCallAssumption, CacheBounds
<1>1. CASE \E p \in Callers : Lookup(p) \/ Fetch(p) \/ Commit(p) \/ Abort(p)
  BY <1>1, LookupInv, FetchInv, CommitInv, AbortInv
<1>2. CASE \E v \in Versions : Invalidate(v)
  BY <1>2, InvalidateInv
<1>3. CASE Change
  BY <1>3 DEF Change, IInv, TypeOK, ToldOK, EntryOK, CallsOK, FlightOK, OutageOK, Recent, Leading,
              NeverOutdated, AgeBounded, Versions
<1>4. CASE Tick
  <2>1. TypeOK' /\ ToldOK' /\ FlightOK' /\ NeverOutdated' /\ AgeBounded'
    BY <1>4 DEF Tick, IInv, TypeOK, ToldOK, FlightOK, Leading, NeverOutdated, AgeBounded
  <2>2. EntryOK' /\ CallsOK'
    BY <1>4 DEF Tick, IInv, TypeOK, EntryOK, CallsOK, Entry, Call, Leading
  <2>3. OutageOK'
    BY <1>4 DEF Tick, IInv, TypeOK, OutageOK, Recent, Leading
  <2> QED
    BY <2>1, <2>2, <2>3 DEF IInv
<1>5. CASE UNCHANGED vars
  BY <1>5 DEF vars, IInv, TypeOK, ToldOK, EntryOK, CallsOK, FlightOK, OutageOK, Recent, Leading,
              NeverOutdated, AgeBounded
<1> QED
  BY <1>1, <1>2, <1>3, <1>4, <1>5 DEF Next

\* The inductive invariant holds in every reachable state of the cache.
THEOREM CacheInvariant == Spec => []IInv
<1> QED
  BY InitInv, NextInv, PTL DEF Spec

\* Every variable keeps its type; a result without a list is an error, so that a
\* failed or panicking lookup never reads as a chat without admins.
THEOREM CacheTypes == Spec => []TypeOK
<1>1. IInv => TypeOK
  BY DEF IInv
<1> QED
  BY <1>1, CacheInvariant, PTL

\* No lookup is answered with a list that predates a roster change the bot had been
\* told of when the lookup began, whoever fetched it and however it ended.
THEOREM CacheNeverOutdated == Spec => []NeverOutdated
<1>1. IInv => NeverOutdated
  BY DEF IInv
<1> QED
  BY <1>1, CacheInvariant, PTL

\* Lists are handed out only within the TTL, or with an error within the grace period.
THEOREM CacheAgeBounded == Spec => []AgeBounded
<1>1. IInv => AgeBounded
  BY DEF IInv
<1> QED
  BY <1>1, CacheInvariant, PTL

\* There is never more than one getChatAdministrators request for the chat.
THEOREM CacheSingleFlight == Spec => []SingleFlight
<1>1. IInv => SingleFlight
  BY DEF IInv, FlightOK, SingleFlight, Leading
<1> QED
  BY <1>1, CacheInvariant, PTL

\* A failed request is followed by none within a TTL, unless the chat was invalidated.
THEOREM CacheBacksOff == Spec => BacksOff
<1> DEFINE Step == inflight = NoCall /\ inflight' # NoCall
                     => ~(outage.failed /\ outage.gen = gen /\ now - outage.at < TTL)
<1>1. IInv /\ [Next]_vars => [Step]_vars
  <2> SUFFICES ASSUME IInv, [Next]_vars, inflight = NoCall, inflight' # NoCall, Recent
               PROVE  FALSE
    BY DEF Recent
  <2> USE NoCallAssumption, CacheBounds
  <2>1. PICK p \in Callers : Lookup(p) /\ ~BackingOff(entry)
    BY DEF Next, vars, Lookup, Fetch, Commit, Abort, Publish, Invalidate, Change, Tick
  <2> QED
    BY <2>1 DEF IInv, OutageOK, Recent, BackingOff
<1> QED
  BY <1>1, CacheInvariant, PTL DEF Spec, BacksOff

=============================================================================
