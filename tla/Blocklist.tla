----------------------------- MODULE Blocklist -----------------------------
(***************************************************************************)
(* Blocklists: the LOLS list that a background loop refreshes (sync.go),   *)
(* and the per-user CAS check with its cache, its circuit breaker and its  *)
(* requests in flight (cas.go).  AnyOf asks the two in this order.         *)
(*                                                                         *)
(* The callers are the workers of the chats.  Time is counted down: a      *)
(* pause or a cache entry holds what is left of it.                        *)
(***************************************************************************)
EXTENDS Naturals, FiniteSets

CONSTANTS Users, Chats,
          BreakerErrors, Pause,      \* casBreakerErrors and casBreakerPause
          Timeout,                   \* the deadline of one request
          PositiveTTL, NegativeTTL,
          MaxEntries                 \* the bound of the cache

ASSUME BlocklistAssumption ==
  /\ BreakerErrors \in Nat \ {0} /\ MaxEntries \in Nat \ {0}
  /\ Timeout \in Nat \ {0} /\ Pause \in Nat \ {0}
  /\ PositiveTTL \in Nat \ {0} /\ NegativeTTL \in Nat \ {0}

VARIABLES
  full, delta, snap,  \* lolsFull, lolsDelta and the snapshot readers see
  cache,              \* CASChecker.cache; left = 0 is an expired entry not yet dropped
  errors,             \* the streak of errors, counted up to BreakerErrors
  pause,              \* openUntil - now, or 0
  check,              \* what each caller's Listed is doing
  named,              \* whom LOLS named: in its last full list or a delta since
  shut                \* for how long no probe has been possible

lols == <<full, delta, snap, named>>
breaker == <<errors, pause, shut>>
listVars == <<lols, cache, breaker, check>>

NoEntry == [in |-> FALSE, listed |-> FALSE, left |-> 0]
NoCheck == [pc |-> "idle", age |-> 0, listed |-> FALSE]

ListInit ==
  /\ full = {} /\ delta = {} /\ snap = {} /\ named = {}
  /\ cache = [u \in Users |-> NoEntry]
  /\ errors = 0 /\ pause = 0 /\ shut = 0
  /\ check = [c \in Chats |-> NoCheck]

-----------------------------------------------------------------------------
(* LOLS.  A fetch that fails changes nothing. *)

\* Mutant: an answer that names nobody replaces the list.
MutRefreshFull(ids) == full' = ids /\ delta' = {} /\ snap' = ids

\* RefreshFull: an empty full list is a failure; another one supersedes the deltas.
RefreshFull(ids) ==
  IF ids = {} THEN UNCHANGED <<full, delta, snap>>
  ELSE full' = ids /\ delta' = {} /\ snap' = ids

\* RefreshDelta: until a full list came, deltas add to what the snapshot holds.
RefreshDelta(ids) ==
  /\ delta' = delta \cup ids
  /\ snap' = IF full = {} THEN snap \cup ids ELSE full \cup delta'
  /\ UNCHANGED full

Refresh ==
  /\ \E ids \in SUBSET Users :
       \/ RefreshFull(ids) /\ named' = IF ids = {} THEN named ELSE ids
       \/ RefreshDelta(ids) /\ named' = named \cup ids
  /\ UNCHANGED <<cache, breaker, check>>

-----------------------------------------------------------------------------
(* CAS. *)

Fresh(u) == cache[u].in /\ cache[u].left > 0

Told(c, listed) == check' = [check EXCEPT ![c] = [pc |-> "told", age |-> 0, listed |-> listed]]

\* Listed up to the unlock before the request.  The breaker, the rate limit and a
\* closing process answer "not listed" without asking.
Listed(c, u) ==
  /\ check[c].pc = "idle"
  /\ \/ u \in snap /\ Told(c, TRUE)
     \/ u \notin snap /\ Fresh(u) /\ Told(c, cache[u].listed)
     \/ u \notin snap /\ ~Fresh(u) /\ Told(c, FALSE)
     \/ /\ u \notin snap /\ ~Fresh(u) /\ pause = 0
        /\ check' = [check EXCEPT ![c].pc = "asking"]
  /\ UNCHANGED <<lols, cache, breaker>>

\* Mutant: every error at the limit sets the pause anew.
MutFails(c) ==
  /\ Told(c, FALSE)
  /\ errors' = IF errors < BreakerErrors THEN errors + 1 ELSE errors
  /\ pause' = IF errors' >= BreakerErrors THEN Pause ELSE pause
  /\ UNCHANGED <<lols, cache, shut>>

\* The request failed.  The streak survives the pause, so that one failed probe opens
\* the circuit again; a request in flight does not extend a pause.
Fails(c) ==
  /\ Told(c, FALSE)
  /\ errors' = IF errors < BreakerErrors THEN errors + 1 ELSE errors
  /\ pause' = IF errors' >= BreakerErrors /\ pause = 0 THEN Pause ELSE pause
  /\ UNCHANGED <<lols, cache, shut>>

\* The request was answered: the circuit closes, and the answer is cached if there is
\* room once expired entries are dropped.
Succeeds(c, u, listed) ==
  /\ Told(c, listed)
  /\ errors' = 0 /\ pause' = 0 /\ shut' = 0
  /\ LET Size(m) == Cardinality({v \in Users : m[v].in})
         kept == IF Size(cache) < MaxEntries THEN cache
                 ELSE [v \in Users |-> IF Fresh(v) THEN cache[v] ELSE NoEntry]
     IN cache' = IF kept[u].in \/ Size(kept) < MaxEntries
                 THEN [kept EXCEPT ![u] = [in |-> TRUE, listed |-> listed,
                                           left |-> IF listed THEN PositiveTTL ELSE NegativeTTL]]
                 ELSE kept
  /\ UNCHANGED lols

Reply(c, u) ==
  /\ check[c].pc = "asking"
  /\ Fails(c) \/ \E listed \in BOOLEAN : Succeeds(c, u, listed)

\* A tick.  A request at its deadline fails before time goes on.
ListTick ==
  LET Less(n) == IF n = 0 THEN 0 ELSE n - 1
  IN /\ \A c \in Chats : check[c].pc = "asking" => check[c].age < Timeout
     /\ check' = [c \in Chats |-> IF check[c].pc = "asking"
                                  THEN [check[c] EXCEPT !.age = @ + 1] ELSE check[c]]
     /\ cache' = [u \in Users |-> [cache[u] EXCEPT !.left = Less(@)]]
     /\ pause' = Less(pause)
     /\ shut' = IF pause' = 0 THEN 0 ELSE shut + 1
     /\ UNCHANGED <<lols, errors>>

\* A new process starts with empty lists and a closed circuit.
ListRestart ==
  /\ full' = {} /\ delta' = {} /\ snap' = {} /\ named' = {}
  /\ cache' = [u \in Users |-> NoEntry]
  /\ errors' = 0 /\ pause' = 0 /\ shut' = 0
  /\ check' = [c \in Chats |-> NoCheck]

-----------------------------------------------------------------------------
\* The types of the lists' state; the cache never outgrows its bound.
ListTypeOK ==
  /\ full \subseteq Users /\ delta \subseteq Users /\ snap \subseteq Users /\ named \subseteq Users
  /\ cache \in [Users -> [in : BOOLEAN, listed : BOOLEAN, left : Nat]]
  /\ Cardinality({u \in Users : cache[u].in}) <= MaxEntries
  /\ errors \in 0 .. BreakerErrors /\ pause \in 0 .. Pause /\ shut \in Nat
  /\ check \in [Chats -> [pc : {"idle", "asking", "told"}, age : 0 .. Timeout, listed : BOOLEAN]]

\* The circuit is never open for longer than one pause without a probe having become
\* possible, however many requests fail meanwhile.  (CASChecker.Listed)
PauseBounded == shut < Pause
=============================================================================
