---------------------------- MODULE TrafficProofs ----------------------------
(***************************************************************************)
(* Theorems about Traffic, for any updates, queue length and number of     *)
(* crashes: no message or album part is handled twice, and a clean exit    *)
(* leaves nothing unaccounted for.                                         *)
(*                                                                         *)
(* An update that was taken is in one place at a time: the album buffer,   *)
(* the timer's hands, one job of one queue, or handled.  What was taken    *)
(* and is in none of them was answered, dropped or lost; and the order of  *)
(* the shutdown leaves the places empty one after the other.               *)
(***************************************************************************)
EXTENDS Traffic, SequenceTheorems, TLAPS

-----------------------------------------------------------------------------
(* The inductive invariant. *)

\* What the jobs of a queue are about.
Held(q) == UNION {q[n] : n \in DOMAIN q}
Routed == {routing[n] : n \in DOMAIN routing}
Once == Messages \cup Parts

Apart(q) == \A m, n \in DOMAIN q : m # n => q[m] \cap q[n] \cap Once = {}

Types ==
  /\ seen \subseteq Once /\ pending \subseteq Parts /\ firing \subseteq Parts
  /\ fire \in {"idle", "flush", "send"} /\ (fire = "idle" => firing = {})
  /\ queue \in Seq(SUBSET Updates) /\ routing \in Seq(Presses)
  /\ quit \in BOOLEAN /\ worker \in {"none", "running", "exited"} /\ main \in Phases
  /\ runs \in [Updates -> Nat] /\ owed \subseteq Presses /\ busy \subseteq Presses

\* Whatever is still to be handled is somewhere once, and was not handled before.
OnceOK ==
  /\ \A u \in Once : u \in pending \cup firing \cup Held(queue) => u \in seen /\ runs[u] = 0
  /\ \A u \in Once : runs[u] <= 1 /\ (runs[u] > 0 => u \in seen)
  /\ pending \cap firing = {} /\ (pending \cup firing) \cap Held(queue) = {}
  /\ Apart(queue)

\* Where the updates are that the poller took.
Accounted ==
  \A u \in seen \cup owed :
    runs[u] > 0 \/ u \in answered \cup failed \cup lost \cup pending \cup firing \cup Held(queue) \cup Routed \cup busy

\* What the shutdown has emptied already.
ShutdownOK ==
  /\ armed => main \in {"polling", "stop"}
  /\ pending # {} => armed
  /\ quit <=> main \in {"wait_seq", "exited"}
  /\ quit => routing = <<>>
  /\ worker = "exited" => quit
  /\ worker # "running" => queue = <<>>
  /\ fire = "send" => worker # "none"
  /\ main = "exited" => worker # "running" /\ fire = "idle" /\ busy = {}

TrafficInv == Types /\ OnceOK /\ Accounted /\ ShutdownOK

-----------------------------------------------------------------------------
(* Queues. *)

LEMMA AppendIs ==
  ASSUME NEW S, NEW q \in Seq(S), NEW j \in S
  PROVE  /\ Append(q, j) \in Seq(S) /\ Append(q, j) # <<>>
         /\ DOMAIN Append(q, j) = DOMAIN q \cup {Len(q) + 1} /\ Len(q) + 1 \notin DOMAIN q
         /\ \A n \in DOMAIN q : Append(q, j)[n] = q[n]
         /\ Append(q, j)[Len(q) + 1] = j
BY AppendProperties

LEMMA TailIs ==
  ASSUME NEW S, NEW q \in Seq(S), q # <<>>
  PROVE  /\ Tail(q) \in Seq(S) /\ Head(q) \in S /\ Head(q) = q[1] /\ 1 \in DOMAIN q
         /\ DOMAIN q \subseteq Nat /\ \A n \in DOMAIN q : n = 1 \/ (n - 1 \in DOMAIN Tail(q) /\ Tail(q)[n - 1] = q[n])
         /\ \A n \in DOMAIN Tail(q) : n + 1 \in DOMAIN q /\ n + 1 # 1 /\ Tail(q)[n] = q[n + 1]
         /\ DOMAIN Tail(q) \subseteq Nat
BY HeadTailProperties

LEMMA HeldAppend ==
  ASSUME NEW q \in Seq(SUBSET Updates), NEW j \in SUBSET Updates
  PROVE  Append(q, j) \in Seq(SUBSET Updates) /\ Held(Append(q, j)) = Held(q) \cup j
<1> DEFINE r == Append(q, j)
<1>1. /\ r \in Seq(SUBSET Updates) /\ DOMAIN r = DOMAIN q \cup {Len(q) + 1}
      /\ (\A n \in DOMAIN q : r[n] = q[n]) /\ r[Len(q) + 1] = j
  BY AppendIs
<1> HIDE DEF r
<1>2. QED
  BY <1>1 DEF Held, r

LEMMA HeldTail ==
  ASSUME NEW q \in Seq(SUBSET Updates), q # <<>>
  PROVE  /\ Tail(q) \in Seq(SUBSET Updates) /\ Head(q) \in SUBSET Updates
         /\ Held(q) = Head(q) \cup Held(Tail(q))
<1> DEFINE r == Tail(q)
<1> DEFINE h == Head(q)
<1>1. /\ r \in Seq(SUBSET Updates) /\ h \in SUBSET Updates /\ h = q[1] /\ 1 \in DOMAIN q
      /\ \A n \in DOMAIN q : n = 1 \/ (n - 1 \in DOMAIN r /\ r[n - 1] = q[n])
      /\ \A n \in DOMAIN r : n + 1 \in DOMAIN q /\ r[n] = q[n + 1]
  BY TailIs
<1> HIDE DEF r, h
<1>2. ASSUME NEW x \in Held(q)
      PROVE  x \in h \cup Held(r)
  <2>1. PICK n \in DOMAIN q : x \in q[n]
    BY DEF Held
  <2>2. CASE n = 1
    BY <1>1, <2>1, <2>2
  <2>3. CASE n # 1
    BY <1>1, <2>1, <2>3 DEF Held
  <2>4. QED
    BY <2>2, <2>3
<1>3. h \cup Held(r) \subseteq Held(q)
  BY <1>1 DEF Held
<1>4. QED
  BY <1>1, <1>2, <1>3 DEF r, h

LEMMA HeldEmpty == Held(<<>>) = {} /\ Apart(<<>>) /\ <<>> \in Seq(SUBSET Updates) /\ <<>> \in Seq(Presses)
BY DEF Held, Apart

\* A job about updates which no queued job is about keeps the jobs apart.
LEMMA ApartAppend ==
  ASSUME NEW q \in Seq(SUBSET Updates), Apart(q), NEW j \in SUBSET Updates,
         j \cap Held(q) \cap Once = {}
  PROVE  Apart(Append(q, j))
<1> DEFINE r == Append(q, j)
<1>1. /\ DOMAIN r = DOMAIN q \cup {Len(q) + 1}
      /\ (\A n \in DOMAIN q : r[n] = q[n]) /\ r[Len(q) + 1] = j
  BY AppendIs
<1>2. \A n \in DOMAIN q : q[n] \subseteq Held(q)
  BY DEF Held
<1> HIDE DEF r
<1>3. Apart(r)
  BY <1>1, <1>2 DEF Apart
<1>4. QED
  BY <1>3 DEF r

\* The job the worker takes is apart from those left.
LEMMA ApartTail ==
  ASSUME NEW q \in Seq(SUBSET Updates), Apart(q), q # <<>>
  PROVE  Apart(Tail(q)) /\ Head(q) \cap Held(Tail(q)) \cap Once = {}
<1> DEFINE r == Tail(q)
<1> DEFINE h == Head(q)
<1>1. /\ h = q[1] /\ 1 \in DOMAIN q /\ DOMAIN r \subseteq Nat
      /\ \A n \in DOMAIN r : n + 1 \in DOMAIN q /\ n + 1 # 1 /\ r[n] = q[n + 1]
  BY TailIs
<1> HIDE DEF r, h
<1>2. \A m, n \in DOMAIN r : m # n => m + 1 # n + 1
  BY <1>1
<1>3. Apart(r)
  BY <1>1, <1>2 DEF Apart
<1>4. h \cap Held(r) \cap Once = {}
  BY <1>1 DEF Apart, Held
<1>5. QED
  BY <1>3, <1>4 DEF r, h

\* A job comes into the chat's queue, or is counted as dropped.
Put(j) == \/ queue' = Append(queue, j) /\ failed' = failed
          \/ queue' = queue /\ failed' = failed \cup j

LEMMA PutIs ==
  ASSUME Types, NEW j \in SUBSET Updates, Put(j)
  PROVE  /\ queue' \in Seq(SUBSET Updates) /\ failed \subseteq failed'
         /\ Held(queue) \subseteq Held(queue') /\ Held(queue') \subseteq Held(queue) \cup j
         /\ j \subseteq Held(queue') \cup failed'
         /\ Apart(queue) /\ j \cap Held(queue) \cap Once = {} => Apart(queue')
<1>1. queue \in Seq(SUBSET Updates)
  BY DEF Types
<1>2. CASE queue' = Append(queue, j) /\ failed' = failed
  BY <1>1, <1>2, HeldAppend, ApartAppend
<1>3. CASE queue' = queue /\ failed' = failed \cup j
  BY <1>1, <1>3
<1>4. QED
  BY <1>2, <1>3 DEF Put

\* A submission starts the worker, which is there for good until quit.
LEMMA SubmitIs ==
  ASSUME Types, ShutdownOK, NEW j, Submit(j), ~quit
  PROVE  /\ Put(j) /\ worker' \in {"none", "running"}
         /\ (worker' = "none" => worker = "none" /\ queue' = <<>>)
         /\ (worker = "running" => worker' = "running")
BY DEF Submit, Put, Types, ShutdownOK

LEMMA RoutedAppend ==
  ASSUME Types, NEW u \in Presses, routing' = Append(routing, u)
  PROVE  routing' \in Seq(Presses) /\ Routed' = Routed \cup {u}
<1>1. routing \in Seq(Presses)
  BY DEF Types
<1>2. /\ routing' \in Seq(Presses) /\ DOMAIN routing' = DOMAIN routing \cup {Len(routing) + 1}
      /\ (\A n \in DOMAIN routing : routing'[n] = routing[n]) /\ routing'[Len(routing) + 1] = u
  BY <1>1, AppendIs
<1>3. QED
  BY <1>2 DEF Routed

LEMMA RoutedTail ==
  ASSUME Types, routing # <<>>, routing' = Tail(routing)
  PROVE  routing' \in Seq(Presses) /\ Head(routing) \in Presses /\ Routed \subseteq Routed' \cup {Head(routing)}
<1>1. routing \in Seq(Presses)
  BY DEF Types
<1>2. /\ routing' \in Seq(Presses) /\ Head(routing) \in Presses /\ Head(routing) = routing[1]
      /\ \A n \in DOMAIN routing : n = 1 \/ (n - 1 \in DOMAIN routing' /\ routing'[n - 1] = routing[n])
  BY <1>1, TailIs
<1>3. ASSUME NEW n \in DOMAIN routing
      PROVE  routing[n] \in Routed' \cup {Head(routing)}
  <2>1. CASE n = 1
    BY <1>2, <2>1
  <2>2. CASE n # 1
    BY <1>2, <2>2 DEF Routed
  <2>3. QED
    BY <2>1, <2>2
<1>4. QED
  BY <1>2, <1>3 DEF Routed

-----------------------------------------------------------------------------
(* One lemma per action. *)

LEMMA WorkKeeps ==
  ASSUME TrafficInv, Work
  PROVE  TrafficInv'
<1> DEFINE j == Head(queue)
<1>1. /\ worker = "running" /\ queue # <<>> /\ queue' = Tail(queue) /\ queue \in Seq(SUBSET Updates)
      /\ UNCHANGED <<seen, album, routing, routeQuit, busy, quit, worker, main, lost, owed>>
  BY DEF Work, TrafficInv, Types
<1>2. /\ queue' \in Seq(SUBSET Updates) /\ j \in SUBSET Updates /\ Held(queue) = j \cup Held(queue')
      /\ Apart(queue') /\ j \cap Held(queue') \cap Once = {}
  BY <1>1, HeldTail, ApartTail DEF TrafficInv, OnceOK
<1> HIDE DEF j
<1>3. \/ /\ runs' = [u \in Updates |-> IF u \in j THEN runs[u] + 1 ELSE runs[u]]
         /\ answered' = answered \cup (j \cap Presses) /\ failed' = failed
      \/ failed' = failed \cup j /\ UNCHANGED <<runs, answered>>
  BY DEF Work, j
<1>4. /\ \A u \in Updates : /\ runs'[u] = runs[u] \/ (u \in j /\ runs'[u] = runs[u] + 1)
                            /\ u \in j => runs'[u] = runs[u] + 1 \/ u \in failed'
      /\ runs' \in [Updates -> Nat] /\ answered \subseteq answered' /\ failed \subseteq failed'
  BY <1>3 DEF TrafficInv, Types
<1>5. Once \subseteq Updates /\ seen \cup owed \subseteq Updates
  BY DEF Once, Updates, TrafficInv, Types
<1>6. Types'
  BY <1>1, <1>2, <1>4 DEF TrafficInv, Types, album
<1>7. OnceOK'
  <2>1. ASSUME NEW u \in Once, u \in pending \cup firing \cup Held(queue')
        PROVE  u \in seen /\ runs'[u] = 0
    <3>1. u \notin j
      BY <1>2, <2>1 DEF TrafficInv, OnceOK
    <3>2. QED
      BY <1>2, <1>4, <1>5, <2>1, <3>1 DEF TrafficInv, OnceOK
  <2>2. ASSUME NEW u \in Once
        PROVE  runs'[u] <= 1 /\ (runs'[u] > 0 => u \in seen)
    <3>1. CASE u \in j
      BY <1>2, <1>4, <1>5, <3>1 DEF TrafficInv, OnceOK
    <3>2. CASE u \notin j
      BY <1>4, <1>5, <3>2 DEF TrafficInv, OnceOK
    <3>3. QED
      BY <3>1, <3>2
  <2>3. QED
    BY <1>1, <1>2, <2>1, <2>2 DEF TrafficInv, OnceOK, album
<1>8. Accounted'
  <2>1. ASSUME NEW u \in seen \cup owed
        PROVE  runs'[u] > 0 \/ u \in answered' \cup failed' \cup lost \cup pending \cup firing \cup Held(queue') \cup Routed \cup busy
    <3>1. runs[u] \in Nat /\ u \in Updates
      BY <1>5 DEF TrafficInv, Types
    <3>2. CASE u \in j
      BY <1>4, <3>1, <3>2
    <3>3. CASE u \notin j
      BY <1>2, <1>4, <3>1, <3>3 DEF TrafficInv, Accounted
    <3>4. QED
      BY <3>2, <3>3
  <2>2. QED
    BY <1>1, <2>1 DEF Accounted, Routed, album
<1>9. ShutdownOK'
  BY <1>1 DEF TrafficInv, ShutdownOK, album
<1>10. QED
  BY <1>6, <1>7, <1>8, <1>9 DEF TrafficInv

LEMMA WorkerExitKeeps ==
  ASSUME TrafficInv, WorkerExit
  PROVE  TrafficInv'
<1> USE DEF WorkerExit, album, ends
<1>1. Types'
  BY DEF TrafficInv, Types
<1>2. OnceOK' /\ Accounted'
  BY DEF TrafficInv, OnceOK, Accounted, Routed
<1>3. ShutdownOK'
  BY DEF TrafficInv, ShutdownOK
<1>4. QED
  BY <1>1, <1>2, <1>3 DEF TrafficInv

LEMMA DedupFailsKeeps ==
  ASSUME TrafficInv, NEW u, DedupFails(u),
         UNCHANGED <<album, queues, busy, main, runs, answered, lost, owed>>
  PROVE  TrafficInv'
<1> USE DEF DedupFails, album, queues
<1>1. Types'
  BY DEF TrafficInv, Types
<1>2. OnceOK' /\ Accounted'
  BY DEF TrafficInv, OnceOK, Accounted, Routed
<1>3. ShutdownOK'
  BY DEF TrafficInv, ShutdownOK
<1>4. QED
  BY <1>1, <1>2, <1>3 DEF TrafficInv

\* An update whose id could not be written changes nothing but failed.
LEMMA MessageDropped ==
  ASSUME NEW u \in Messages, OnMessage(u), DedupFails(u)
  PROVE  UNCHANGED <<album, queues, busy, main, runs, answered, lost, owed>>
BY DEF OnMessage, DedupFails, queues

LEMMA PartDropped ==
  ASSUME NEW u \in Parts, OnPart(u), DedupFails(u)
  PROVE  UNCHANGED <<album, queues, busy, main, runs, answered, lost, owed>>
BY DEF OnPart, DedupFails, album

LEMMA OnMessageKeeps ==
  ASSUME TrafficInv, NEW u \in Messages, OnMessage(u), ~DedupFails(u)
  PROVE  TrafficInv'
<1> USE DEF album
<1>1. /\ main = "polling" /\ u \notin seen /\ seen' = seen \cup {u} /\ Submit({u}) /\ ~quit
      /\ UNCHANGED <<album, routing, routeQuit, busy, quit, main, runs, answered, lost, owed>>
  BY DEF OnMessage, TrafficInv, ShutdownOK
<1>2. /\ Put({u}) /\ worker' \in {"none", "running"} /\ (worker' = "none" => worker = "none" /\ queue' = <<>>)
  BY <1>1, SubmitIs DEF TrafficInv
<1>3. {u} \in SUBSET Updates /\ u \in Once
  BY DEF Updates, Once
<1>4. u \notin pending \cup firing \cup Held(queue) /\ runs[u] = 0
  <2>1. runs[u] \in Nat
    BY <1>3 DEF TrafficInv, Types, Updates
  <2>2. QED
    BY <1>1, <1>3, <2>1 DEF TrafficInv, OnceOK
<1>5. /\ queue' \in Seq(SUBSET Updates) /\ failed \subseteq failed'
      /\ Held(queue) \subseteq Held(queue') /\ Held(queue') \subseteq Held(queue) \cup {u}
      /\ u \in Held(queue') \cup failed' /\ Apart(queue')
  BY <1>2, <1>3, <1>4, PutIs DEF TrafficInv, OnceOK
<1>6. Types'
  BY <1>1, <1>2, <1>3, <1>5 DEF TrafficInv, Types
<1>7. OnceOK'
  BY <1>1, <1>4, <1>5 DEF TrafficInv, OnceOK
<1>8. Accounted'
  BY <1>1, <1>5 DEF TrafficInv, Accounted, Routed
<1>9. ShutdownOK'
  BY <1>1, <1>2 DEF TrafficInv, ShutdownOK
<1>10. QED
  BY <1>6, <1>7, <1>8, <1>9 DEF TrafficInv

LEMMA OnPartKeeps ==
  ASSUME TrafficInv, NEW u \in Parts, OnPart(u), ~DedupFails(u)
  PROVE  TrafficInv'
<1> USE DEF OnPart, queues, ends
<1>1. u \in Once /\ runs[u] = 0 /\ u \notin pending \cup firing \cup Held(queue)
  <2>1. u \in Once /\ runs[u] \in Nat
    BY DEF TrafficInv, Types, Updates, Once
  <2>2. QED
    BY <2>1 DEF TrafficInv, OnceOK
<1>2. Types'
  BY <1>1 DEF TrafficInv, Types
<1>3. OnceOK'
  BY <1>1 DEF TrafficInv, OnceOK
<1>4. Accounted'
  BY DEF TrafficInv, Accounted, Routed
<1>5. ShutdownOK'
  BY DEF TrafficInv, ShutdownOK
<1>6. QED
  BY <1>2, <1>3, <1>4, <1>5 DEF TrafficInv

LEMMA OnPressKeeps ==
  ASSUME TrafficInv, NEW u \in Presses, OnPress(u)
  PROVE  TrafficInv'
<1> USE DEF album, ends
<1>1. /\ main = "polling" /\ owed' = owed \cup {u}
      /\ UNCHANGED <<seen, album, routeQuit, queue, quit, worker, main, ends, mishaps>>
      /\ \/ routing' = Append(routing, u) /\ busy' = busy
         \/ routing' = routing /\ busy' = busy \cup {u}
  BY DEF OnPress
<1>2. /\ routing' \in Seq(Presses) /\ Routed \subseteq Routed' /\ busy' \subseteq Presses /\ busy \subseteq busy'
      /\ u \in Routed' \cup busy'
  BY <1>1, RoutedAppend DEF TrafficInv, Types, Routed
<1>3. Types'
  BY <1>1, <1>2 DEF TrafficInv, Types
<1>4. OnceOK'
  BY <1>1 DEF TrafficInv, OnceOK
<1>5. Accounted'
  BY <1>1, <1>2 DEF TrafficInv, Accounted
<1>6. ShutdownOK'
  BY <1>1 DEF TrafficInv, ShutdownOK
<1>7. QED
  BY <1>3, <1>4, <1>5, <1>6 DEF TrafficInv

LEMMA AnswerBusyKeeps ==
  ASSUME TrafficInv, NEW u \in Presses, AnswerBusy(u)
  PROVE  TrafficInv'
<1> USE DEF AnswerBusy, album, queues
<1>1. Types'
  BY DEF TrafficInv, Types
<1>2. OnceOK' /\ Accounted'
  BY DEF TrafficInv, OnceOK, Accounted, Routed
<1>3. ShutdownOK'
  BY DEF TrafficInv, ShutdownOK
<1>4. QED
  BY <1>1, <1>2, <1>3 DEF TrafficInv

LEMMA RouteKeeps ==
  ASSUME TrafficInv, Route
  PROVE  TrafficInv'
<1> USE DEF album
<1> DEFINE u == Head(routing)
<1>1. /\ routing # <<>> /\ routing' = Tail(routing)
      /\ UNCHANGED <<seen, album, routeQuit, busy, quit, main, runs, failed, lost, owed, mishaps>>
      /\ \/ answered' = answered \cup {u} /\ queue' = queue /\ worker' = worker
         \/ /\ ~quit /\ queue' = Append(queue, {u}) /\ answered' = answered
            /\ worker' = IF worker = "none" THEN "running" ELSE worker
  BY DEF Route
<1>2. routing' \in Seq(Presses) /\ u \in Presses /\ Routed \subseteq Routed' \cup {u}
  BY <1>1, RoutedTail DEF TrafficInv
<1> HIDE DEF u
<1>3. {u} \in SUBSET Updates /\ u \notin Once
  BY <1>2, KindsAssumption DEF Updates, Once
<1>4. Put({u}) \/ (queue' = queue /\ u \in answered')
  BY <1>1 DEF Put
<1>5. /\ queue' \in Seq(SUBSET Updates) /\ Held(queue) \subseteq Held(queue')
      /\ Held(queue') \subseteq Held(queue) \cup {u} /\ Apart(queue')
      /\ u \in Held(queue') \cup answered'
  <2>1. CASE queue' = queue /\ u \in answered'
    BY <2>1 DEF TrafficInv, Types, OnceOK
  <2>2. CASE queue' = Append(queue, {u})
    <3>1. Append(queue, {u}) \in Seq(SUBSET Updates) /\ Held(Append(queue, {u})) = Held(queue) \cup {u}
      BY <1>3, HeldAppend DEF TrafficInv, Types
    <3>2. Apart(Append(queue, {u}))
      BY <1>3, ApartAppend DEF TrafficInv, Types, OnceOK
    <3>3. QED
      BY <2>2, <3>1, <3>2
  <2>3. QED
    BY <1>1, <2>1, <2>2
<1>6. Types'
  BY <1>1, <1>2, <1>5 DEF TrafficInv, Types
<1>7. OnceOK'
  <2>1. pending \cup firing \subseteq Once
    BY DEF TrafficInv, Types, Once
  <2>2. QED
    BY <1>1, <1>3, <1>5, <2>1 DEF TrafficInv, OnceOK
<1>8. Accounted'
  BY <1>1, <1>2, <1>5 DEF TrafficInv, Accounted
<1>9. ShutdownOK'
  BY <1>1 DEF TrafficInv, ShutdownOK, Types
<1>10. QED
  BY <1>6, <1>7, <1>8, <1>9 DEF TrafficInv

LEMMA FireTakeKeeps ==
  ASSUME TrafficInv, FireTake
  PROVE  TrafficInv'
<1> USE DEF FireTake, queues, ends
<1>1. Types'
  BY DEF TrafficInv, Types
<1>2. OnceOK' /\ Accounted'
  BY DEF TrafficInv, OnceOK, Accounted, Routed, Types
<1>3. ShutdownOK'
  BY DEF TrafficInv, ShutdownOK
<1>4. QED
  BY <1>1, <1>2, <1>3 DEF TrafficInv

LEMMA FireSubmitKeeps ==
  ASSUME TrafficInv, FireSubmit
  PROVE  TrafficInv'
<1> USE DEF FireSubmit
<1>1. Types'
  BY DEF TrafficInv, Types
<1>2. OnceOK' /\ Accounted'
  BY DEF TrafficInv, OnceOK, Accounted, Routed
<1>3. ShutdownOK'
  BY DEF TrafficInv, ShutdownOK, Types
<1>4. QED
  BY <1>1, <1>2, <1>3 DEF TrafficInv

LEMMA FireSendKeeps ==
  ASSUME TrafficInv, FireSend
  PROVE  TrafficInv'
<1>1. /\ fire = "send" /\ fire' = "idle" /\ firing' = {} /\ lost \subseteq lost' /\ failed \subseteq failed'
      /\ UNCHANGED <<seen, pending, armed, routing, routeQuit, busy, quit, worker, main, runs, answered, owed, mishaps>>
      /\ \/ queue' = Append(queue, firing) /\ worker # "exited"
         \/ queue' = queue /\ firing \subseteq failed' \cup lost'
  BY DEF FireSend
<1>2. firing \in SUBSET Updates /\ firing \subseteq Once /\ pending \subseteq Once
  BY DEF TrafficInv, Types, Updates, Once
<1>3. /\ queue' \in Seq(SUBSET Updates) /\ Held(queue) \subseteq Held(queue')
      /\ Held(queue') \subseteq Held(queue) \cup firing /\ Apart(queue')
      /\ firing \subseteq Held(queue') \cup failed' \cup lost'
  <2>1. CASE queue' = queue /\ firing \subseteq failed' \cup lost'
    BY <2>1 DEF TrafficInv, Types, OnceOK
  <2>2. CASE queue' = Append(queue, firing)
    <3>1. /\ Append(queue, firing) \in Seq(SUBSET Updates)
          /\ Held(Append(queue, firing)) = Held(queue) \cup firing
      BY <1>2, HeldAppend DEF TrafficInv, Types
    <3>2. firing \cap Held(queue) \cap Once = {} /\ Apart(queue) /\ queue \in Seq(SUBSET Updates)
      BY DEF TrafficInv, OnceOK, Types
    <3>3. Apart(Append(queue, firing))
      BY <1>2, <3>2, ApartAppend
    <3>4. QED
      BY <2>2, <3>1, <3>3
  <2>3. QED
    BY <1>1, <2>1, <2>2
<1>4. Types'
  BY <1>1, <1>3 DEF TrafficInv, Types
<1>5. OnceOK'
  BY <1>1, <1>2, <1>3 DEF TrafficInv, OnceOK
<1>6. Accounted'
  BY <1>1, <1>3 DEF TrafficInv, Accounted, Routed
<1>7. ShutdownOK'
  BY <1>1 DEF TrafficInv, ShutdownOK, Types
<1>8. QED
  BY <1>4, <1>5, <1>6, <1>7 DEF TrafficInv

LEMMA StopAlbumKeeps ==
  ASSUME TrafficInv, StopAlbum
  PROVE  TrafficInv'
<1>1. /\ main = "stop" /\ main' = "wait_router" /\ pending' = {} /\ armed' = FALSE /\ ~quit
      /\ UNCHANGED <<seen, firing, fire, routing, busy, quit, runs, answered, lost, owed, mishaps>>
      /\ (pending = {} /\ UNCHANGED <<queue, worker, failed>>) \/ Submit(pending)
  BY DEF StopAlbum, TrafficInv, ShutdownOK
<1>2. pending \in SUBSET Updates /\ firing \subseteq Once /\ pending \subseteq Once
  BY DEF TrafficInv, Types, Updates, Once
<1>3. /\ worker' \in {"none", "running"} /\ (worker' = "none" => worker = "none" /\ queue' = <<>>)
  BY <1>1, SubmitIs DEF TrafficInv, Types, ShutdownOK
<1>4. /\ queue' \in Seq(SUBSET Updates) /\ failed \subseteq failed' /\ Held(queue) \subseteq Held(queue')
      /\ Held(queue') \subseteq Held(queue) \cup pending /\ Apart(queue')
      /\ pending \subseteq Held(queue') \cup failed'
  <2>1. CASE pending = {} /\ UNCHANGED <<queue, worker, failed>>
    BY <2>1 DEF TrafficInv, Types, OnceOK
  <2>2. CASE Submit(pending)
    <3>1. Put(pending)
      BY <1>1, <2>2, SubmitIs DEF TrafficInv
    <3>2. QED
      BY <1>2, <3>1, PutIs DEF TrafficInv, OnceOK
  <2>3. QED
    BY <1>1, <2>1, <2>2
<1>5. Types'
  BY <1>1, <1>3, <1>4 DEF TrafficInv, Types, Phases
<1>6. OnceOK'
  BY <1>1, <1>2, <1>4 DEF TrafficInv, OnceOK
<1>7. Accounted'
  BY <1>1, <1>4 DEF TrafficInv, Accounted, Routed
<1>8. ShutdownOK'
  BY <1>1, <1>3 DEF TrafficInv, ShutdownOK
<1>9. QED
  BY <1>5, <1>6, <1>7, <1>8 DEF TrafficInv

LEMMA MainKeeps ==
  ASSUME TrafficInv, Signal \/ CloseSequencer \/ Exit \/ UNCHANGED vars
  PROVE  TrafficInv'
<1> USE DEF Signal, CloseSequencer, Exit, vars, album, queues, ends
<1>1. Types'
  BY DEF TrafficInv, Types, Phases
<1>2. OnceOK'
  BY DEF TrafficInv, OnceOK
<1>3. Accounted'
  BY DEF TrafficInv, Accounted, Routed
<1>4. ShutdownOK'
  BY DEF TrafficInv, ShutdownOK
<1>5. QED
  BY <1>1, <1>2, <1>3, <1>4 DEF TrafficInv

LEMMA CrashKeeps ==
  ASSUME TrafficInv, Crash
  PROVE  TrafficInv'
<1>1. Held(queue') = {} /\ Apart(queue') /\ queue' \in Seq(SUBSET Updates) /\ routing' \in Seq(Presses)
  BY HeldEmpty DEF Crash
<1>2. lost' = lost \cup pending \cup firing \cup Held(queue) \cup Routed \cup busy
  BY DEF Crash, Held, Routed
<1>3. Types'
  BY <1>1 DEF Crash, TrafficInv, Types, Phases
<1>4. OnceOK'
  BY <1>1 DEF Crash, TrafficInv, OnceOK
<1>5. Accounted'
  BY <1>2 DEF Crash, TrafficInv, Accounted
<1>6. ShutdownOK'
  BY DEF Crash, ShutdownOK
<1>7. QED
  BY <1>3, <1>4, <1>5, <1>6 DEF TrafficInv

-----------------------------------------------------------------------------

\* Every update the poller took is in exactly one place, or accounted for, whatever the
\* interleaving of poller, router, worker, album timer and shutdown, and however often
\* the process is killed.
THEOREM TrafficInvariant == Spec => []TrafficInv
<1>1. Init => TrafficInv
  <2> SUFFICES ASSUME Init
               PROVE  TrafficInv
    OBVIOUS
  <2>1. Held(queue) = {} /\ Apart(queue) /\ queue \in Seq(SUBSET Updates) /\ routing \in Seq(Presses)
    BY HeldEmpty DEF Init
  <2>2. Once \subseteq Updates
    BY DEF Once, Updates
  <2>3. Types
    BY <2>1 DEF Init, Types, Phases
  <2>4. OnceOK
    BY <2>1, <2>2 DEF Init, OnceOK
  <2>5. Accounted /\ ShutdownOK
    BY DEF Init, Accounted, ShutdownOK
  <2>6. QED
    BY <2>3, <2>4, <2>5 DEF TrafficInv
<1>2. TrafficInv /\ [Next]_vars => TrafficInv'
  <2>1. ASSUME TrafficInv, NEW u \in Messages, OnMessage(u), DedupFails(u)
        PROVE  TrafficInv'
    <3>1. UNCHANGED <<album, queues, busy, main, runs, answered, lost, owed>>
      BY <2>1, MessageDropped
    <3>2. QED
      BY <2>1, <3>1, DedupFailsKeeps
  <2>2. ASSUME TrafficInv, NEW u \in Parts, OnPart(u), DedupFails(u)
        PROVE  TrafficInv'
    <3>1. UNCHANGED <<album, queues, busy, main, runs, answered, lost, owed>>
      BY <2>2, PartDropped
    <3>2. QED
      BY <2>2, <3>1, DedupFailsKeeps
  <2>3. QED
    BY <2>1, <2>2, WorkKeeps, WorkerExitKeeps, OnMessageKeeps, OnPartKeeps, OnPressKeeps, AnswerBusyKeeps,
       RouteKeeps, FireTakeKeeps, FireSubmitKeeps, FireSendKeeps, StopAlbumKeeps, MainKeeps, CrashKeeps
       DEF Next, Progress
<1>3. QED
  BY <1>1, <1>2, PTL DEF Spec

\* No message and no album part is moderated twice: MarkUpdateSeen turns redeliveries
\* away, and the album's timer and AlbumBuffer.Stop never flush the same part.
THEOREM NeverTwice == Spec => []AtMostOnce
<1>1. TrafficInv => AtMostOnce
  BY DEF TrafficInv, OnceOK, AtMostOnce, Once
<1>2. QED
  BY <1>1, TrafficInvariant, PTL

\* A clean exit leaves nothing behind: the poller, the album buffer, the router and the
\* sequencer are shut down in an order in which each finds the next one still open.
THEOREM CleanExit == Spec => []NothingLeftBehind
<1>1. ASSUME TrafficInv, main = "exited"
      PROVE  \A u \in seen \cup owed : runs[u] > 0 \/ u \in answered \cup failed \cup lost
  <2>1. pending = {} /\ firing = {} /\ queue = <<>> /\ routing = <<>> /\ busy = {}
    BY <1>1 DEF TrafficInv, ShutdownOK, Types
  <2>2. Held(queue) = {} /\ Routed = {}
    BY <2>1, HeldEmpty DEF Routed
  <2>3. QED
    BY <1>1, <2>1, <2>2 DEF TrafficInv, Accounted
<1>2. TrafficInv => NothingLeftBehind
  BY <1>1 DEF NothingLeftBehind
<1>3. QED
  BY <1>2, TrafficInvariant, PTL

=============================================================================
