------------------------------ MODULE Traffic ------------------------------
(***************************************************************************)
(* How updates become jobs: the inline poller, the dedup of update ids, the *)
(* album buffer and its timer, the router of admin callbacks, the chat's    *)
(* sequencer, and the order in which they are shut down.                    *)
(*                                                                          *)
(* One chat and one album.  Messages, album parts and button presses are    *)
(* updates; a job is the set of updates it handles.                         *)
(***************************************************************************)
EXTENDS Naturals, Sequences, FiniteSets

CONSTANTS Messages, Parts, Presses,  \* updates by kind
          Capacity,                  \* length of a sequencer queue
          MaxMishaps                 \* bound on crashes, panicking jobs and dedup errors

ASSUME KindsAssumption ==
  Messages \cap Parts = {} /\ Messages \cap Presses = {} /\ Parts \cap Presses = {}
ASSUME TrafficBounds == Capacity \in Nat \ {0} /\ MaxMishaps \in Nat

Updates == Messages \cup Parts \cup Presses

VARIABLES
  seen,               \* the table updates
  pending, armed,     \* AlbumBuffer: buffered parts, and whether their timer runs
  firing, fire,       \* parts the timer took out, and how far it is
  routing, routeQuit, \* the router's queue and its quit channel
  busy,               \* presses whose busy answer a goroutine of its own is sending
  queue, quit,        \* the chat's queue and the sequencer's quit channel
  worker,             \* the chat's worker goroutine
  main,               \* main, from polling to exit
  runs,               \* how often an update was handled
  answered, failed,   \* presses answered; updates dropped or whose job panicked
  owed,               \* presses this process took from Telegram
  lost,               \* updates of a crash, or of a timer or busy answer that lost the race with shutdown
  mishaps

album  == <<pending, armed, firing, fire>>
queues == <<routing, routeQuit, queue, quit, worker>>
ends   == <<runs, answered, failed, lost>>
vars == <<seen, album, queues, busy, main, ends, owed, mishaps>>

Phases == {"polling", "stop", "wait_router", "wait_seq", "exited"}

TypeOK ==
  /\ seen \subseteq Messages \cup Parts
  /\ pending \subseteq Parts /\ armed \in BOOLEAN
  /\ firing \subseteq Parts /\ fire \in {"idle", "flush", "send"}
  /\ routing \in Seq(Presses) /\ Len(routing) <= Capacity
  /\ queue \in Seq(SUBSET Updates) /\ Len(queue) <= Capacity
  /\ routeQuit \in BOOLEAN /\ quit \in BOOLEAN
  /\ worker \in {"none", "running", "exited"} /\ main \in Phases
  /\ runs \in [Updates -> 0 .. 2 + MaxMishaps]
  /\ answered \subseteq Presses /\ owed \subseteq Presses /\ busy \subseteq Presses
  /\ failed \subseteq Updates /\ lost \subseteq Updates
  /\ mishaps \in 0 .. MaxMishaps

Init ==
  /\ seen = {} /\ pending = {} /\ armed = FALSE /\ firing = {} /\ fire = "idle"
  /\ routing = <<>> /\ routeQuit = FALSE /\ busy = {}
  /\ queue = <<>> /\ quit = FALSE /\ worker = "none"
  /\ main = "polling"
  /\ runs = [u \in Updates |-> 0]
  /\ answered = {} /\ failed = {} /\ owed = {} /\ lost = {} /\ mishaps = 0

-----------------------------------------------------------------------------
(* Sequencer. *)

\* TrySubmit by a caller that no Wait can race: accepted, or dropped when full.
Submit(j) ==
  \/ /\ Len(queue) < Capacity
     /\ queue' = Append(queue, j)
     /\ worker' = IF worker = "none" THEN "running" ELSE worker
     /\ UNCHANGED failed
  \/ /\ Len(queue) = Capacity
     /\ failed' = failed \cup j /\ UNCHANGED <<queue, worker>>

\* The worker runs one job; a panic is contained to it.
Work ==
  /\ worker = "running" /\ queue # <<>>
  /\ queue' = Tail(queue)
  /\ LET j == Head(queue)
     IN \/ /\ runs' = [u \in Updates |-> IF u \in j THEN runs[u] + 1 ELSE runs[u]]
           /\ answered' = answered \cup (j \cap Presses)
           /\ UNCHANGED failed
           /\ UNCHANGED mishaps
        \/ /\ mishaps < MaxMishaps /\ mishaps' = mishaps + 1
           /\ failed' = failed \cup j /\ UNCHANGED <<runs, answered>>
  /\ UNCHANGED <<seen, album, routing, routeQuit, busy, quit, worker, main, lost, owed>>

\* Mutant: the worker leaves what is still queued.
MutWorkerExit ==
  /\ worker = "running" /\ quit
  /\ worker' = "exited"
  /\ UNCHANGED <<seen, album, routing, routeQuit, busy, queue, quit, main, ends, owed, mishaps>>

\* After quit the worker drains its queue and exits.
WorkerExit ==
  /\ worker = "running" /\ quit /\ queue = <<>>
  /\ worker' = "exited"
  /\ UNCHANGED <<seen, album, routing, routeQuit, busy, queue, quit, main, ends, owed, mishaps>>

-----------------------------------------------------------------------------
(* The poller: Handler.onUpdate and adminCallbackRouter.Submit. *)

\* MarkUpdateSeen fails: the update is logged and dropped, and its id is not in the table.
DedupFails(u) ==
  /\ mishaps < MaxMishaps /\ mishaps' = mishaps + 1
  /\ failed' = failed \cup {u} /\ UNCHANGED seen

\* MarkUpdateSeen turns a redelivered update away before anything else.
OnMessage(u) ==
  /\ main = "polling" /\ u \notin seen
  /\ \/ seen' = seen \cup {u} /\ Submit({u}) /\ UNCHANGED mishaps
     \/ DedupFails(u) /\ UNCHANGED <<queue, worker>>
  /\ UNCHANGED <<album, routing, routeQuit, busy, quit, main, runs, answered, lost, owed>>

\* AlbumBuffer.Add: the first part of the album arms the timer.
OnPart(u) ==
  /\ main = "polling" /\ u \notin seen
  /\ \/ /\ seen' = seen \cup {u}
        /\ pending' = pending \cup {u} /\ armed' = TRUE
        /\ UNCHANGED <<failed, mishaps>>
     \/ DedupFails(u) /\ UNCHANGED <<pending, armed>>
  /\ UNCHANGED <<firing, fire, queues, busy, main, runs, answered, lost, owed>>

\* Mutant: a press the routing queue has no room for is dropped without a word.
MutOnPress(u) ==
  /\ main = "polling" /\ u \notin owed
  /\ owed' = owed \cup {u}
  /\ routing' = IF Len(routing) < Capacity THEN Append(routing, u) ELSE routing
  /\ UNCHANGED <<seen, album, routeQuit, busy, queue, quit, worker, main, ends, mishaps>>

\* A press is queued for routing, or a goroutine nobody waits for is started to
\* answer that the bot is busy.
OnPress(u) ==
  /\ main = "polling" /\ u \notin owed
  /\ owed' = owed \cup {u}
  /\ IF Len(routing) < Capacity
     THEN routing' = Append(routing, u) /\ UNCHANGED busy
     ELSE busy' = busy \cup {u} /\ UNCHANGED routing
  /\ UNCHANGED <<seen, album, routeQuit, queue, quit, worker, main, ends, mishaps>>

\* That goroutine answers, unless the process is gone first.
AnswerBusy(u) ==
  /\ u \in busy /\ busy' = busy \ {u}
  /\ answered' = answered \cup {u}
  /\ UNCHANGED <<seen, album, queues, main, runs, failed, lost, owed, mishaps>>

\* The routing job: an invalid payload, an unknown incident and a store error are
\* answered here, everything else becomes a job of the source chat, and a job the
\* chat does not accept is answered as well.
Route ==
  /\ routing # <<>>
  /\ routing' = Tail(routing)
  /\ LET u == Head(routing)
     IN \/ answered' = answered \cup {u} /\ UNCHANGED <<queue, worker>>
        \/ /\ Len(queue) < Capacity /\ ~quit
           /\ queue' = Append(queue, {u})
           /\ worker' = IF worker = "none" THEN "running" ELSE worker
           /\ UNCHANGED answered
  /\ UNCHANGED <<seen, album, routeQuit, busy, quit, main, runs, failed, lost, owed, mishaps>>

-----------------------------------------------------------------------------
(* AlbumBuffer. *)

\* fire: the parts leave the buffer under its lock (the timers of an album are at
\* least a window apart, so one fires at a time) ...
FireTake ==
  /\ armed /\ fire = "idle"
  /\ firing' = pending /\ fire' = "flush"
  /\ pending' = {} /\ armed' = FALSE
  /\ UNCHANGED <<seen, queues, busy, main, ends, owed, mishaps>>

\* ... and are submitted outside of it: TrySubmit asks whether the sequencer is
\* closed, ...
FireSubmit ==
  /\ fire = "flush"
  /\ IF quit THEN fire' = "idle" /\ firing' = {} /\ lost' = lost \cup firing
     ELSE fire' = "send" /\ UNCHANGED <<firing, lost>>
  /\ worker' = IF ~quit /\ worker = "none" THEN "running" ELSE worker
  /\ UNCHANGED <<seen, pending, armed, routing, routeQuit, busy, queue, quit, main, runs, answered,
                 failed, owed, mishaps>>

\* ... and sends without the lock: into the queue of a worker that will run it, or
\* in vain when quit is closed (to a worker that has left as well) or the queue full.
FireSend ==
  /\ fire = "send"
  /\ \/ /\ Len(queue) < Capacity /\ worker # "exited"
        /\ queue' = Append(queue, firing) /\ UNCHANGED <<failed, lost>>
     \/ /\ quit
        /\ lost' = lost \cup firing /\ UNCHANGED <<queue, failed>>
     \/ /\ Len(queue) = Capacity /\ ~quit
        /\ failed' = failed \cup firing /\ UNCHANGED <<queue, lost>>
  /\ fire' = "idle" /\ firing' = {}
  /\ UNCHANGED <<seen, pending, armed, routing, routeQuit, busy, quit, worker, main, runs, answered,
                 owed, mishaps>>

-----------------------------------------------------------------------------
(* Shutdown. *)

\* SIGTERM: Start returns once the inline handler has.
Signal ==
  /\ main = "polling" /\ main' = "stop"
  /\ UNCHANGED <<seen, album, queues, busy, ends, owed, mishaps>>

\* Mutant: the buffered parts are flushed but stay in the buffer for their timer.
MutStopAlbum ==
  /\ main = "stop" /\ main' = "wait_router"
  /\ IF pending = {} THEN UNCHANGED <<queue, worker, failed>> ELSE Submit(pending)
  /\ routeQuit' = TRUE
  /\ UNCHANGED <<seen, album, routing, busy, quit, runs, answered, lost, owed, mishaps>>

\* AlbumBuffer.Stop, then the router's Wait begins.
StopAlbum ==
  /\ main = "stop" /\ main' = "wait_router"
  /\ IF pending = {} THEN UNCHANGED <<queue, worker, failed>> ELSE Submit(pending)
  /\ pending' = {} /\ armed' = FALSE
  /\ routeQuit' = TRUE
  /\ UNCHANGED <<seen, firing, fire, routing, busy, quit, runs, answered, lost, owed, mishaps>>

\* Mutant: Wait does not close quit.
MutCloseSequencer ==
  /\ main = "wait_router" /\ routing = <<>> /\ main' = "wait_seq"
  /\ UNCHANGED <<seen, album, queues, busy, ends, owed, mishaps>>

\* The routing queue is drained before the chat's sequencer is told to quit.
CloseSequencer ==
  /\ main = "wait_router" /\ routing = <<>> /\ main' = "wait_seq"
  /\ quit' = TRUE
  /\ UNCHANGED <<seen, album, routing, routeQuit, busy, queue, worker, ends, owed, mishaps>>

\* What a timer or a busy answer still holds goes with the process.
Exit ==
  /\ main = "wait_seq" /\ worker # "running" /\ main' = "exited"
  /\ lost' = lost \cup firing \cup busy /\ firing' = {} /\ fire' = "idle" /\ busy' = {}
  /\ UNCHANGED <<seen, pending, armed, queues, runs, answered, failed, owed, mishaps>>

\* The process is killed and started again; only the table of seen ids is left.
Crash ==
  /\ mishaps < MaxMishaps /\ main # "exited" /\ mishaps' = mishaps + 1
  /\ lost' = lost \cup pending \cup firing \cup (UNION {queue[n] : n \in DOMAIN queue})
                  \cup {routing[n] : n \in DOMAIN routing} \cup busy
  /\ pending' = {} /\ armed' = FALSE /\ firing' = {} /\ fire' = "idle"
  /\ routing' = <<>> /\ routeQuit' = FALSE /\ busy' = {} /\ queue' = <<>> /\ quit' = FALSE
  /\ worker' = "none" /\ main' = "polling" /\ owed' = {}
  /\ UNCHANGED <<seen, runs, answered, failed>>

-----------------------------------------------------------------------------

Progress ==
  \/ Work \/ WorkerExit \/ Route \/ FireTake \/ FireSubmit \/ FireSend
  \/ StopAlbum \/ CloseSequencer \/ Exit

Next ==
  \/ \E u \in Messages : OnMessage(u)
  \/ \E u \in Parts : OnPart(u)
  \/ \E u \in Presses : OnPress(u)
  \/ \E u \in Presses : AnswerBusy(u)
  \/ Progress \/ Signal \/ Crash

Spec == Init /\ [][Next]_vars

\* Goroutines are scheduled, the album's window ends, and main goes on once what
\* it waits for has happened.
FairSpec ==
  /\ Spec
  /\ WF_vars(Work) /\ WF_vars(WorkerExit) /\ WF_vars(Route)
  /\ WF_vars(FireTake) /\ WF_vars(FireSubmit) /\ WF_vars(FireSend)
  /\ WF_vars(StopAlbum) /\ WF_vars(CloseSequencer) /\ WF_vars(Exit)
  /\ \A u \in Presses : WF_vars(AnswerBusy(u))

-----------------------------------------------------------------------------
(* Properties. *)

\* No message and no album part is moderated twice: not after a redelivery, not
\* after a crash, and not when the album's timer fires while shutdown flushes.
AtMostOnce == \A u \in Messages \cup Parts : runs[u] <= 1

\* A clean exit leaves nothing behind: whatever the poller took was handled,
\* answered or counted as dropped.  The exceptions are a crash, parts which the timer
\* took out of the buffer before Stop and submits after the close, and busy answers
\* the exit overtook.
NothingLeftBehind ==
  main = "exited" =>
    \A u \in seen \cup owed : runs[u] > 0 \/ u \in answered \cup failed \cup lost

\* Every press gets an answer as long as its job does not panic: full queues and
\* a shutdown between routing and handling included.  Only a busy answer may be
\* overtaken by the end of the process: nothing waits for its goroutine.
PressAnswered ==
  \A u \in Presses :
    u \in owed ~> (u \in answered \cup failed \/ u \notin owed \/ (main = "exited" /\ u \in lost))

\* Shutdown ends, unless the process is killed first.
ShutdownEnds == main = "stop" ~> main \in {"exited", "polling"}

=============================================================================
