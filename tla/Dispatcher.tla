----------------------------- MODULE Dispatcher -----------------------------
(***************************************************************************)
(* The outbound path of every Bot API call (internal/queue, and submitSync  *)
(* of internal/telegram/livept.go): callers stamp a job, record its chat    *)
(* and push it; one goroutine takes the jobs by priority, waits for the     *)
(* limiters of the job's chat and runs them, again and again while Telegram *)
(* answers 429.  A caller waits for a final answer or for the end of its    *)
(* context.                                                                 *)
(*                                                                          *)
(* A step is a critical section of the queue's lock or of the map's, one    *)
(* request to Telegram, or a choice of a select.  The limiters only delay:  *)
(* what matters is whose limiter a job waited for.                          *)
(***************************************************************************)
EXTENDS Naturals, FiniteSets

CONSTANTS Requests,     \* one Bot API call of one caller each
          Prio, Chat,    \* the priority and the chat of a request
          MaxRetries,    \* bound on 429 answers
          Nobody, NoChat \* no request; the zero chat a missing entry reads as

ASSUME DispatcherConstants ==
  /\ IsFiniteSet(Requests) /\ Nobody \notin Requests
  /\ Prio \in [Requests -> 0 .. 2] /\ NoChat \notin {Chat[r] : r \in Requests}
  /\ DOMAIN Chat = Requests /\ MaxRetries \in Nat

Chats == {Chat[r] : r \in Requests} \cup {NoChat}

VARIABLES
  fifo,           \* <<a, b>>: both have a number, and a's is the smaller one
  sub,            \* where the submission of a job is
  jobs,           \* the requests whose current number is in the map seq -> chat
  heap,           \* the jobs in the queue
  caller,         \* where each caller is
  chan, got,      \* the buffered answer of a request, and what its caller returned
  run, cur, lim,  \* the dispatcher, its job, and the chat whose limiter it takes
  stopped,        \* workCtx is cancelled
  effects,        \* how often Telegram carried the request out
  attempts,       \* requests that were run at least once
  earlier,        \* history: <<a, b>>, a was queued, not run, when b was submitted
  retries

submitVars == <<fifo, sub, jobs, heap>>
callVars   == <<caller, chan, got>>
runVars    == <<run, cur, lim>>
histVars   == <<effects, attempts, earlier, retries>>
vars == <<submitVars, callVars, runVars, stopped, histVars>>

Final == {"ok", "refused", "unknown"}

TypeOK ==
  /\ fifo \subseteq Requests \X Requests
  /\ sub \in [Requests -> {"none", "reserved", "mapped"}]
  /\ jobs \subseteq Requests /\ heap \subseteq Requests
  /\ caller \in [Requests -> {"idle", "submit", "wait", "returned"}]
  /\ chan \in [Requests -> Final \cup {"empty"}]
  /\ got \in [Requests -> Final \cup {"none", "ctx"}]
  /\ run \in {"idle", "lookup", "limit", "run", "sleep", "submit", "ended"}
  /\ cur \in Requests \cup {Nobody} /\ lim \in Chats
  /\ stopped \in BOOLEAN
  /\ effects \in [Requests -> 0 .. 1] /\ attempts \subseteq Requests
  /\ earlier \subseteq Requests \X Requests
  /\ retries \in 0 .. MaxRetries

Init ==
  /\ fifo = {} /\ sub = [r \in Requests |-> "none"] /\ jobs = {} /\ heap = {}
  /\ caller = [r \in Requests |-> "idle"]
  /\ chan = [r \in Requests |-> "empty"] /\ got = [r \in Requests |-> "none"]
  /\ run = "idle" /\ cur = Nobody /\ lim = NoChat
  /\ stopped = FALSE
  /\ effects = [r \in Requests |-> 0] /\ attempts = {} /\ earlier = {}
  /\ retries = 0

-----------------------------------------------------------------------------
(* Dispatcher.Submit, by a caller or by the dispatcher that tries again. *)

Goto(p, r, l) == run' = p /\ cur' = r /\ lim' = l

Numbered == heap \cup {r \in Requests : sub[r] # "none"}

\* The next number: behind every job that has one.
ReserveSeq(r) ==
  /\ fifo' = fifo \cup {<<a, r>> : a \in Numbered}
  /\ sub' = [sub EXCEPT ![r] = "reserved"]

\* submitSync.  A number is reserved first.
Call(r) ==
  /\ caller[r] = "idle"
  /\ caller' = [caller EXCEPT ![r] = "submit"]
  /\ ReserveSeq(r)
  /\ earlier' = earlier \cup {<<a, r>> : a \in heap \ attempts}
  /\ UNCHANGED <<jobs, heap, chan, got, runVars, stopped, effects, attempts, retries>>

\* The job's chat is in the map before the job can be popped.
MapChat(r) ==
  /\ sub[r] = "reserved"
  /\ sub' = [sub EXCEPT ![r] = "mapped"] /\ jobs' = jobs \cup {r}
  /\ UNCHANGED <<fifo, heap, callVars, runVars, stopped, histVars>>

PushSeq(r) ==
  /\ sub[r] = "mapped"
  /\ sub' = [sub EXCEPT ![r] = "none"] /\ heap' = heap \cup {r}
  /\ \/ /\ caller[r] = "submit"
        /\ caller' = [caller EXCEPT ![r] = "wait"] /\ UNCHANGED runVars
     \/ /\ run = "submit" /\ cur = r
        /\ Goto("idle", Nobody, NoChat) /\ UNCHANGED caller
  /\ UNCHANGED <<fifo, jobs, chan, got, stopped, histVars>>

-----------------------------------------------------------------------------
(* The caller. *)

\* The arms of the select in submitSync: the answer, ...
Return(r) ==
  /\ caller[r] = "wait" /\ chan[r] # "empty"
  /\ caller' = [caller EXCEPT ![r] = "returned"] /\ got' = [got EXCEPT ![r] = chan[r]]
  /\ UNCHANGED <<submitVars, chan, runVars, stopped, histVars>>

\* ... and the end of the caller's context, by a timeout or with workCtx, also when
\* there is an answer.
CtxEnds(r) ==
  /\ caller[r] = "wait"
  /\ caller' = [caller EXCEPT ![r] = "returned"] /\ got' = [got EXCEPT ![r] = "ctx"]
  /\ UNCHANGED <<submitVars, chan, runVars, stopped, histVars>>

\* stopWork; every caller's context derives from workCtx or from the signal's.
StopWork ==
  /\ ~stopped /\ stopped' = TRUE
  /\ UNCHANGED <<submitVars, callVars, runVars, histVars>>

-----------------------------------------------------------------------------
(* Dispatcher.Run. *)

\* Mutant: the heap's order without the tiebreaker.
MutLess(a, b) == Prio[a] < Prio[b]

Less(a, b) == Prio[a] < Prio[b] \/ (Prio[a] = Prio[b] /\ <<a, b>> \in fifo)

Pop ==
  /\ run = "idle" /\ heap # {}
  /\ \E r \in heap : /\ \A x \in heap : ~Less(x, r)
                     /\ heap' = heap \ {r} /\ Goto("lookup", r, NoChat)
                     /\ fifo' = {f \in fifo : r \notin {f[1], f[2]}}
  /\ UNCHANGED <<sub, jobs, callVars, stopped, histVars>>

\* With nothing to do the dispatcher sees the end of its context.
Idle ==
  /\ run = "idle" /\ heap = {} /\ stopped
  /\ Goto("ended", Nobody, NoChat)
  /\ UNCHANGED <<submitVars, callVars, stopped, histVars>>

Lookup ==
  /\ run = "lookup"
  /\ jobs' = jobs \ {cur}
  /\ Goto("limit", cur, IF cur \in jobs THEN Chat[cur] ELSE NoChat)
  /\ UNCHANGED <<fifo, sub, heap, callVars, stopped, histVars>>

\* Both limiters: a cancelled context ends the dispatcher and drops the job.
Limit ==
  /\ run = "limit"
  /\ IF stopped THEN Goto("ended", Nobody, NoChat) ELSE Goto("run", cur, lim)
  /\ UNCHANGED <<submitVars, callVars, stopped, histVars>>

\* Mutant: an unknown outcome is tried again.
MutFailed ==
  /\ \/ /\ retries < MaxRetries /\ retries' = retries + 1
        /\ Goto("sleep", cur, NoChat) /\ UNCHANGED chan
     \/ /\ chan' = [chan EXCEPT ![cur] = "unknown"]
        /\ Goto("idle", Nobody, NoChat) /\ UNCHANGED retries
  /\ effects' \in {effects, [effects EXCEPT ![cur] = @ + 1]}

\* A transport error, or a cancelled attempt: Telegram may have carried it out.
Failed ==
  /\ chan' = [chan EXCEPT ![cur] = "unknown"]
  /\ effects' \in {effects, [effects EXCEPT ![cur] = @ + 1]}
  /\ Goto("idle", Nobody, NoChat) /\ UNCHANGED retries

Answered ==
  /\ \/ /\ chan' = [chan EXCEPT ![cur] = "ok"]
        /\ effects' = [effects EXCEPT ![cur] = @ + 1]
     \/ /\ chan' = [chan EXCEPT ![cur] = "refused"] /\ UNCHANGED effects
  /\ Goto("idle", Nobody, NoChat) /\ UNCHANGED retries

\* mapRetry: only a 429, which Telegram did not carry out, is tried again.
TooManyRequests ==
  /\ retries < MaxRetries /\ retries' = retries + 1
  /\ Goto("sleep", cur, NoChat) /\ UNCHANGED <<chan, effects>>

\* One attempt of the job.  The caller may have left; its cancellation reaches the
\* request, or comes too late for it.
Attempt ==
  /\ run = "run"
  /\ attempts' = attempts \cup {cur}
  /\ earlier' = {e \in earlier : e[1] # cur}
  /\ Answered \/ Failed \/ TooManyRequests
  /\ UNCHANGED <<submitVars, caller, got, stopped>>

\* Mutant: the job goes straight back into the queue.
MutRetry ==
  /\ run = "sleep"
  /\ IF stopped THEN Goto("ended", Nobody, NoChat) /\ UNCHANGED heap
     ELSE Goto("idle", Nobody, NoChat) /\ heap' = heap \cup {cur}
  /\ UNCHANGED <<fifo, sub, jobs, callVars, stopped, histVars>>

\* Mutant: the sleep is not followed by another try.
MutRetryDrops ==
  /\ run = "sleep"
  /\ Goto(IF stopped THEN "ended" ELSE "idle", Nobody, NoChat)
  /\ UNCHANGED <<submitVars, callVars, stopped, histVars>>

\* After the pause the job is submitted anew, behind those already waiting.
Retry ==
  /\ run = "sleep"
  /\ IF stopped THEN Goto("ended", Nobody, NoChat) /\ UNCHANGED <<fifo, sub>>
     ELSE Goto("submit", cur, NoChat) /\ ReserveSeq(cur)
  /\ UNCHANGED <<jobs, heap, callVars, stopped, histVars>>

-----------------------------------------------------------------------------

Submitting(r) == MapChat(r) \/ PushSeq(r)
Dispatch == Pop \/ Idle \/ Lookup \/ Limit \/ Attempt \/ Retry

Next ==
  \/ \E r \in Requests : Call(r) \/ Submitting(r) \/ Return(r) \/ CtxEnds(r)
  \/ StopWork \/ Dispatch

Spec == Init /\ [][Next]_vars

\* Goroutines are scheduled, limiters and pauses end, a request ends within the
\* client's timeout.
FairSpec ==
  /\ Spec
  /\ WF_vars(Dispatch)
  /\ \A r \in Requests : WF_vars(Submitting(r)) /\ WF_vars(Return(r) \/ (stopped /\ CtxEnds(r)))

-----------------------------------------------------------------------------
(* Properties. *)

\* A job is run under the limiter of its own chat, on every try: the dispatcher
\* never pops a job whose chat is not in the map.
RightLimiter == run \in {"limit", "run"} => lim = Chat[cur]

\* An answer is the truth about Telegram for good: after "ok" the request was
\* carried out once, after "refused" never, whatever tries came before.  The
\* incident machine relies on the second (telegram.ErrRefused).
AnswerTrue ==
  \A r \in Requests : /\ got[r] = "ok" => effects[r] = 1
                      /\ got[r] = "refused" => effects[r] = 0

\* A job is not run before another of the same or a higher priority that was in
\* the queue before it was submitted.
InOrder ==
  \A a, b \in Requests :
    <<a, b>> \in earlier /\ Prio[a] <= Prio[b] => b \notin attempts

\* Every caller returns: also when Telegram answers 429, and also when the
\* dispatcher ends and drops its job.
CallerReturns == \A r \in Requests : caller[r] = "submit" ~> caller[r] = "returned"

=============================================================================
