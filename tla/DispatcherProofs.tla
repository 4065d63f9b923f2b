-------------------------- MODULE DispatcherProofs --------------------------
(***************************************************************************)
(* Theorems about Dispatcher, for any requests, priorities and chats and    *)
(* any number of 429 answers.                                               *)
(***************************************************************************)
EXTENDS Dispatcher, TLAPS

Busy == run \notin {"idle", "ended"}

\* The job is between a Submit that began and an attempt that settles it.
Underway(r) == sub[r] # "none" \/ r \in heap \/ (Busy /\ cur = r)

\* A job is in one place: being submitted, queued, or with the dispatcher.
OnePlace ==
  /\ Busy => cur \in Requests
  /\ \A r \in Requests :
       /\ r \in heap => sub[r] = "none" /\ ~(Busy /\ cur = r)
       /\ sub[r] # "none" => \/ caller[r] = "submit" /\ ~(Busy /\ cur = r)
                             \/ caller[r] # "submit" /\ run = "submit" /\ cur = r
       /\ run = "submit" /\ cur = r => sub[r] # "none"
       /\ caller[r] = "submit" => sub[r] # "none"
       /\ caller[r] = "idle" => ~Underway(r) /\ chan[r] = "empty" /\ r \notin attempts

\* Whatever can be popped has its chat in the map.
Mapped ==
  \A r \in Requests :
    r \in heap \/ sub[r] = "mapped" \/ (run = "lookup" /\ cur = r) => r \in jobs

\* An unanswered request was not carried out, and the buffered answer is true.
ChanTrue ==
  \A r \in Requests :
    /\ Underway(r) => chan[r] = "empty"
    /\ chan[r] \in {"empty", "refused"} => effects[r] = 0
    /\ chan[r] = "ok" => effects[r] = 1
    /\ got[r] \in Final => got[r] = chan[r]

\* A job that another one waits behind, with the number it was given first.
Waiting ==
  \A a, b \in Requests :
    <<a, b>> \in earlier /\ Prio[a] <= Prio[b] =>
      /\ b \notin attempts
      /\ \/ a \in heap /\ b \in Numbered /\ <<a, b>> \in fifo
         \/ run \in {"lookup", "limit", "run"} /\ cur = a /\ b \in Numbered
         \/ run = "ended"

IInv == TypeOK /\ OnePlace /\ Mapped /\ ChanTrue /\ Waiting /\ RightLimiter

LEMMA InitInv == Init => IInv
<1> SUFFICES ASSUME Init PROVE IInv
  OBVIOUS
<1> USE DispatcherConstants DEF Init
<1>1. TypeOK
  <2>1. caller \in [Requests -> {"idle", "submit", "wait", "returned"}]
    OBVIOUS
  <2>2. sub \in [Requests -> {"none", "reserved", "mapped"}]
    OBVIOUS
  <2>3. chan \in [Requests -> Final \cup {"empty"}] /\ got \in [Requests -> Final \cup {"none", "ctx"}]
    OBVIOUS
  <2>4. effects \in [Requests -> 0 .. 1] /\ retries \in 0 .. MaxRetries
    OBVIOUS
  <2>5. lim \in Chats /\ run = "idle" /\ cur = Nobody /\ stopped \in BOOLEAN
    BY DEF Chats
  <2> QED
    BY <2>1, <2>2, <2>3, <2>4, <2>5 DEF TypeOK
<1>2. OnePlace /\ Mapped
  BY DEF OnePlace, Mapped, Busy, Underway
<1>3. ChanTrue
  BY DEF ChanTrue, Busy, Underway, Final
<1>4. Waiting /\ RightLimiter
  BY DEF Waiting, RightLimiter
<1> QED
  BY <1>1, <1>2, <1>3, <1>4 DEF IInv

\* A caller's submission, its end and the end of everything.
LEMMA CallInv == ASSUME IInv, NEW r \in Requests, Call(r) PROVE IInv'
<1> USE DispatcherConstants DEF IInv, Call, ReserveSeq, runVars
<1>1. TypeOK'
  BY DEF TypeOK, Numbered
<1>2. OnePlace'
  BY DEF TypeOK, OnePlace, Underway, Busy
<1>3. Mapped'
  BY DEF TypeOK, Mapped
<1>4. ChanTrue'
  BY DEF TypeOK, OnePlace, ChanTrue, Underway, Busy, Final
<1>5. Waiting'
  BY DEF TypeOK, OnePlace, Waiting, Numbered, Underway, Busy
<1>6. RightLimiter'
  BY DEF RightLimiter
<1> QED
  BY <1>1, <1>2, <1>3, <1>4, <1>5, <1>6

LEMMA MapChatInv == ASSUME IInv, NEW r \in Requests, MapChat(r) PROVE IInv'
<1> USE DispatcherConstants DEF IInv, MapChat, callVars, runVars, histVars
<1>1. TypeOK'
  BY DEF TypeOK
<1>2. OnePlace'
  BY DEF TypeOK, OnePlace, Underway, Busy
<1>3. Mapped'
  BY DEF TypeOK, Mapped
<1>4. ChanTrue'
  BY DEF TypeOK, ChanTrue, Underway, Busy, Final
<1>5. Waiting'
  BY DEF TypeOK, Waiting, Numbered
<1>6. RightLimiter'
  BY DEF RightLimiter
<1> QED
  BY <1>1, <1>2, <1>3, <1>4, <1>5, <1>6

LEMMA PushSeqInv == ASSUME IInv, NEW r \in Requests, PushSeq(r) PROVE IInv'
<1> USE DispatcherConstants DEF IInv, PushSeq, Goto, runVars, histVars
<1>1. TypeOK'
  BY DEF TypeOK, Chats
<1>2. OnePlace'
  BY DEF TypeOK, OnePlace, Underway, Busy
<1>3. Mapped'
  BY DEF TypeOK, Mapped
<1>4. ChanTrue'
  BY DEF TypeOK, ChanTrue, Underway, Busy, Final
<1>5. Waiting'
  BY DEF TypeOK, OnePlace, Waiting, Numbered, Busy
<1>6. RightLimiter'
  BY DEF RightLimiter
<1> QED
  BY <1>1, <1>2, <1>3, <1>4, <1>5, <1>6

LEMMA CallerInv ==
  ASSUME IInv, NEW r \in Requests, Return(r) \/ CtxEnds(r) PROVE IInv'
<1> USE DispatcherConstants DEF IInv, Return, CtxEnds, submitVars, runVars, histVars
<1>1. TypeOK'
  BY DEF TypeOK, Final
<1>2. OnePlace' /\ Mapped' /\ Waiting' /\ RightLimiter'
  BY DEF TypeOK, OnePlace, Mapped, Waiting, RightLimiter, Underway, Busy, Numbered
<1>3. ChanTrue'
  BY DEF TypeOK, ChanTrue, Underway, Busy, Final
<1> QED
  BY <1>1, <1>2, <1>3

\* The dispatcher's own steps.
LEMMA PopInv == ASSUME IInv, Pop PROVE IInv'
<1> USE DispatcherConstants DEF IInv
<1>1. PICK r \in heap : /\ \A x \in heap : ~Less(x, r)
                        /\ heap' = heap \ {r} /\ Goto("lookup", r, NoChat)
                        /\ fifo' = {f \in fifo : r \notin {f[1], f[2]}}
  BY DEF Pop
<1>0. r \in Requests /\ run = "idle" /\ UNCHANGED <<sub, jobs, callVars, stopped, histVars>>
  BY DEF Pop, TypeOK
<1> USE <1>0, <1>1 DEF Goto, callVars, histVars
<1>2. TypeOK'
  BY DEF TypeOK, Chats
<1>3. OnePlace'
  BY DEF TypeOK, OnePlace, Underway, Busy
<1>4. Mapped'
  BY DEF TypeOK, Mapped
<1>5. ChanTrue'
  BY DEF TypeOK, ChanTrue, Underway, Busy, Final
<1>6. Waiting'
  <2> SUFFICES ASSUME NEW a \in Requests, NEW b \in Requests, <<a, b>> \in earlier, Prio[a] <= Prio[b]
               PROVE  /\ b \notin attempts
                      /\ \/ a \in heap' /\ b \in Numbered' /\ <<a, b>> \in fifo'
                         \/ r = a /\ b \in Numbered'
    BY DEF Waiting
  <2>1. b \notin attempts /\ a \in heap /\ b \in Numbered /\ <<a, b>> \in fifo
    BY DEF Waiting
  <2>2. r # b
    BY <2>1 DEF Less, TypeOK
  <2>3. b \in Numbered'
    BY <2>1, <2>2 DEF Numbered
  <2> QED
    BY <2>1, <2>2, <2>3
<1>7. RightLimiter'
  BY DEF RightLimiter
<1> QED
  BY <1>2, <1>3, <1>4, <1>5, <1>6, <1>7

LEMMA LookupInv == ASSUME IInv, Lookup PROVE IInv'
<1> USE DispatcherConstants DEF IInv, Lookup, Goto, callVars, histVars
<1>0. cur \in Requests /\ cur \in jobs /\ Chat[cur] \in Chats
  BY DEF OnePlace, Busy, Mapped, Chats
<1>1. TypeOK'
  BY <1>0 DEF TypeOK
<1>2. OnePlace'
  BY DEF TypeOK, OnePlace, Underway, Busy
<1>3. Mapped'
  BY <1>0 DEF TypeOK, OnePlace, Mapped, Busy
<1>4. ChanTrue'
  BY DEF TypeOK, ChanTrue, Underway, Busy, Final
<1>5. Waiting'
  BY DEF TypeOK, Waiting, Numbered
<1>6. RightLimiter'
  BY <1>0 DEF RightLimiter
<1> QED
  BY <1>1, <1>2, <1>3, <1>4, <1>5, <1>6

LEMMA LimitInv == ASSUME IInv, Limit \/ Idle PROVE IInv'
<1> USE DispatcherConstants DEF IInv, Limit, Idle, Goto, submitVars, callVars, histVars
<1>1. TypeOK'
  BY DEF TypeOK, Chats
<1>2. OnePlace' /\ Mapped'
  BY DEF TypeOK, OnePlace, Mapped, Underway, Busy
<1>3. ChanTrue'
  BY DEF TypeOK, ChanTrue, Underway, Busy, Final
<1>4. Waiting'
  BY DEF TypeOK, Waiting, Numbered
<1>5. RightLimiter'
  BY DEF RightLimiter
<1> QED
  BY <1>1, <1>2, <1>3, <1>4, <1>5

LEMMA AttemptInv == ASSUME IInv, Attempt PROVE IInv'
<1> USE DispatcherConstants DEF IInv
<1>0. /\ run = "run" /\ cur \in Requests /\ chan[cur] = "empty" /\ effects[cur] = 0
      /\ attempts' = attempts \cup {cur} /\ earlier' = {e \in earlier : e[1] # cur}
      /\ UNCHANGED <<submitVars, caller, got, stopped>>
  BY DEF Attempt, OnePlace, ChanTrue, Busy, Underway
<1>1. /\ \/ run' = "idle" /\ cur' = Nobody
         \/ run' = "sleep" /\ cur' = cur /\ UNCHANGED <<chan, effects>>
      /\ lim' = NoChat /\ retries' \in 0 .. MaxRetries
      /\ \E c \in Final \cup {"empty"}, n \in 0 .. 1 :
           /\ chan' = [chan EXCEPT ![cur] = c] /\ effects' = [effects EXCEPT ![cur] = n]
           /\ (c \in {"empty", "refused"} => n = 0) /\ (c = "ok" => n = 1)
  <2>1. CASE Answered
    BY <2>1, <1>0 DEF Answered, Goto, TypeOK, Final
  <2>2. CASE Failed
    BY <2>2, <1>0 DEF Failed, Goto, TypeOK, Final
  <2>3. CASE TooManyRequests
    <3>1. chan = [chan EXCEPT ![cur] = "empty"] /\ effects = [effects EXCEPT ![cur] = 0]
      BY <1>0 DEF TypeOK
    <3> QED
      BY <2>3, <3>1 DEF TooManyRequests, Goto, TypeOK
  <2> QED
    BY <2>1, <2>2, <2>3 DEF Attempt
<1>2. TypeOK'
  BY <1>0, <1>1 DEF TypeOK, submitVars, Chats
<1>3. OnePlace'
  BY <1>0, <1>1 DEF TypeOK, OnePlace, submitVars, Underway, Busy
<1>4. Mapped'
  BY <1>0, <1>1 DEF Mapped, submitVars
<1>5. ChanTrue'
  BY <1>0, <1>1 DEF TypeOK, OnePlace, ChanTrue, submitVars, Underway, Busy, Final
<1>6. Waiting'
  <2> SUFFICES ASSUME NEW a \in Requests, NEW b \in Requests,
                      <<a, b>> \in earlier, a # cur, Prio[a] <= Prio[b]
               PROVE  /\ b \notin attempts'
                      /\ a \in heap' /\ b \in Numbered' /\ <<a, b>> \in fifo'
    BY <1>0 DEF Waiting
  <2>1. b \notin attempts /\ a \in heap /\ b \in Numbered /\ <<a, b>> \in fifo
    BY <1>0 DEF Waiting
  <2>2. cur \notin Numbered
    BY <1>0 DEF OnePlace, Numbered, Busy
  <2> QED
    BY <2>1, <2>2, <1>0 DEF Numbered, submitVars
<1>7. RightLimiter'
  BY <1>1 DEF RightLimiter
<1> QED
  BY <1>2, <1>3, <1>4, <1>5, <1>6, <1>7

LEMMA RetryInv == ASSUME IInv, Retry PROVE IInv'
<1> USE DispatcherConstants DEF IInv, Retry, Goto, ReserveSeq, callVars, histVars
<1>0. cur \in Requests /\ sub[cur] = "none" /\ caller[cur] # "submit"
  BY DEF OnePlace, Busy
<1>1. TypeOK'
  BY <1>0 DEF TypeOK, Numbered, Chats
<1>2. OnePlace'
  BY <1>0 DEF TypeOK, OnePlace, Underway, Busy
<1>3. Mapped'
  BY <1>0 DEF TypeOK, Mapped
<1>4. ChanTrue'
  BY <1>0 DEF TypeOK, ChanTrue, Underway, Busy, Final
<1>5. Waiting'
  BY <1>0 DEF TypeOK, Waiting, Numbered
<1>6. RightLimiter'
  BY DEF RightLimiter
<1> QED
  BY <1>1, <1>2, <1>3, <1>4, <1>5, <1>6

LEMMA NextInv == IInv /\ [Next]_vars => IInv'
<1> SUFFICES ASSUME IInv, [Next]_vars PROVE IInv'
  OBVIOUS
<1>1. CASE \E r \in Requests : Call(r) \/ Submitting(r) \/ Return(r) \/ CtxEnds(r)
  BY <1>1, CallInv, MapChatInv, PushSeqInv, CallerInv DEF Submitting
<1>2. CASE StopWork \/ UNCHANGED vars
  <2> USE <1>2 DEF IInv, StopWork, vars, submitVars, callVars, runVars, histVars
  <2>1. TypeOK'
    BY DEF TypeOK
  <2>2. OnePlace'
    BY DEF OnePlace, Busy, Underway
  <2>3. Mapped' /\ RightLimiter'
    BY DEF Mapped, RightLimiter
  <2>4. ChanTrue'
    BY DEF ChanTrue, Busy, Underway
  <2>5. Waiting'
    BY DEF Waiting, Numbered
  <2> QED
    BY <2>1, <2>2, <2>3, <2>4, <2>5
<1>3. CASE Dispatch
  BY <1>3, PopInv, LookupInv, LimitInv, AttemptInv, RetryInv DEF Dispatch
<1> QED
  BY <1>1, <1>2, <1>3 DEF Next

\* The inductive invariant holds throughout.
THEOREM DispatcherInvariant == Spec => []IInv
  BY InitInv, NextInv, PTL DEF Spec

\* Types, and no request is ever carried out twice by a retry.
THEOREM DispatcherTypes == Spec => []TypeOK
<1>1. IInv => TypeOK
  BY DEF IInv
<1> QED
  BY <1>1, DispatcherInvariant, PTL

\* Every try of a job waits for the limiter of the job's own chat.
THEOREM DispatcherRightLimiter == Spec => []RightLimiter
<1>1. IInv => RightLimiter
  BY DEF IInv
<1> QED
  BY <1>1, DispatcherInvariant, PTL

\* What a caller is told of a final answer is true of Telegram: an accepted call was
\* carried out once, a refused one never.
THEOREM DispatcherAnswerTrue == Spec => []AnswerTrue
<1>1. IInv => AnswerTrue
  BY DEF IInv, ChanTrue, AnswerTrue, Final
<1> QED
  BY <1>1, DispatcherInvariant, PTL

\* Nothing overtakes a queued job of the same or a higher priority.
THEOREM DispatcherInOrder == Spec => []InOrder
<1>1. IInv => InOrder
  BY DEF IInv, Waiting, InOrder
<1> QED
  BY <1>1, DispatcherInvariant, PTL

=============================================================================
