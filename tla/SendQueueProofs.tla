-------------------------- MODULE SendQueueProofs --------------------------
(***************************************************************************)
(* Proofs about SendQueue, for every value of its constants.               *)
(***************************************************************************)
EXTENDS SendQueueProperties, FiniteSetTheorems, TLAPS

\* The pool has at least one sender and finitely many.
LEMMA WorkersFinite == 1 \in Workers /\ IsFiniteSet(Workers)
  <1>1. Concurrency \in Nat \ {0}
    BY SendQueueAssumption DEF SendQueueAssumption, Concurrency
  <1> QED
    BY <1>1, FS_Interval DEF Workers

\* The first step of a capture keeps call and fate in their types.
LEMMA BeginShape ==
  ASSUME Shape, NEW p \in Payloads, Begin(p)
  PROVE  /\ call' \in [Payloads -> CallSteps]
         /\ fate' \in [Payloads -> Fates]
  BY DEF Shape, Begin, Move, CallSteps, Fates

LEMMA PendingDoneShape ==
  ASSUME Shape, PendingDone
  PROVE  /\ pending' \in Int
         /\ waiter' \in [FlushCalls -> {"none", "entering", "parked", "woken",
                                        "done"}]
  BY DEF Shape, PendingDone, ReleaseWaiters

\* Every step keeps every variable in its type.
LEMMA ShapeStep == Shape /\ [Next]_vars => Shape'
  <1> SUFFICES ASSUME Shape, [Next]_vars PROVE Shape'
    OBVIOUS
  <1> USE DEF Shape, captureVars, poolVars, flushVars, closeVars
  <1>1. ASSUME NEW p \in Payloads, Capture(p), UNCHANGED crash PROVE Shape'
    BY <1>1, BeginShape DEF Capture
  <1>2. ASSUME NEW c \in Payloads \cup Workers, NEW p \in Payloads,
               CaptureInOnError(c, p), UNCHANGED crash
        PROVE  Shape'
    BY <1>2, BeginShape DEF CaptureInOnError
  <1>3. ASSUME NEW f \in Flushers, Flush(f) PROVE Shape'
    BY <1>3 DEF Flush, StartFlush, Unsettled, FlushCalls
  <1>4. ASSUME NEW k \in Closers, Close(k) PROVE Shape'
    BY <1>4 DEF Close, StartFlush, Unsettled, FlushCalls
  <1>5. ASSUME NEW p \in Payloads, CaptureStep(p) PROVE Shape'
    <2> USE DEF CallSteps, Fates
    <2>1. ASSUME NEW verdict \in Verdicts, ApplyBeforeSend(p, verdict),
                 UNCHANGED crash
          PROVE  Shape'
      BY <2>1 DEF ApplyBeforeSend, Move
    <2>2. ASSUME EndFilterError(p), UNCHANGED crash PROVE Shape'
      BY <2>2 DEF EndFilterError, Move
    <2>3. ASSUME Enqueue(p), UNCHANGED crash PROVE Shape'
      <3>1. started' \in BOOLEAN /\ worker' \in [Workers -> WorkerSteps]
        BY <2>3 DEF Enqueue, EnsureWorkers, WorkerSteps
      <3>2. call' \in [Payloads -> CallSteps]
        BY <2>3 DEF Enqueue, Move
      <3> QED
        BY <2>3, <3>1, <3>2 DEF Enqueue, EnsureWorkers
    <2>4. ASSUME AddPending(p), UNCHANGED crash PROVE Shape'
      BY <2>4 DEF AddPending, PendingAdd, Move
    <2>5. ASSUME Offer(p), UNCHANGED crash PROVE Shape'
      BY <2>5, SendQueueAssumption
         DEF Offer, Move, Capacity, SendQueueAssumption
    <2>6. ASSUME Refuse(p), UNCHANGED crash PROVE Shape'
      BY <2>6, PendingDoneShape DEF Refuse, Move
    <2>7. ASSUME Drop(p), UNCHANGED crash PROVE Shape'
      BY <2>7 DEF Drop, Move
    <2>8. ASSUME EndEnqueue(p), UNCHANGED crash PROVE Shape'
      BY <2>8 DEF EndEnqueue, Move
    <2> QED
      BY <1>5, <2>1, <2>2, <2>3, <2>4, <2>5, <2>6, <2>7, <2>8 DEF CaptureStep
  <1>6. ASSUME NEW w \in Workers, WorkerStep(w) PROVE Shape'
    <2> USE DEF WorkerSteps, Fates, Step
    <2>1. ASSUME Receive(w) PROVE Shape'
      <3>1. Head(tasks) \in Payloads /\ Tail(tasks) \in Seq(Payloads)
        BY <2>1 DEF Receive
      <3>2. Len(Tail(tasks)) = Len(tasks) - 1 /\ Capacity \in Nat
        BY <2>1, SendQueueAssumption DEF Receive, Capacity, SendQueueAssumption
      <3> QED
        BY <2>1, <3>1, <3>2 DEF Receive
    <2>2. ASSUME Exit(w) PROVE Shape'
      BY <2>2 DEF Exit
    <2>3. ASSUME NEW result \in Results, RunTask(w, result) PROVE Shape'
      BY <2>3 DEF RunTask
    <2>4. ASSUME EndTaskError(w) PROVE Shape'
      BY <2>4 DEF EndTaskError
    <2>5. ASSUME MarkDone(w) PROVE Shape'
      BY <2>5, PendingDoneShape DEF MarkDone
    <2> QED
      BY <1>6, <2>1, <2>2, <2>3, <2>4, <2>5 DEF WorkerStep
  <1>7. ASSUME NEW f \in FlushCalls, FlushStep(f) PROVE Shape'
    BY <1>7 DEF FlushStep, Wait, Woken, EndFlush, ExpireFlush
  <1>8. ASSUME NEW k \in Closers, CloseStep(k) PROVE Shape'
    BY <1>8 DEF CloseStep, AskLock, CloseTasks, JoinWorkers
  <1>9. CASE UNCHANGED vars
    BY <1>9 DEF vars
  <1> QED
    BY <1>1, <1>2, <1>3, <1>4, <1>5, <1>6, <1>7, <1>8, <1>9
       DEF Next, Running, Application

-----------------------------------------------------------------------------
(***************************************************************************)
(* The life of the pool and of the channel, which closeMu guards: while a  *)
(* capture may still offer a task the client is open and the pool exists,  *)
(* and a closed client's pool has been told to stop.                       *)
(***************************************************************************)
Lifecycle ==
  /\ \A p \in Payloads : call[p] \in {"add", "send"} => started /\ ~closed
  /\ ~started => tasks = <<>> /\ \A w \in Workers : worker[w] = "off"
  /\ started => \A w \in Workers : worker[w] # "off"
  /\ \A w \in Workers : worker[w] = "exited" => chanClosed /\ tasks = <<>>
  /\ chanClosed <=> closed /\ started
  /\ \A k \in Closers : closing[k] \in {"join", "already", "stopped"} => closed
  /\ \A k \in Closers : closing[k] = "stopped" => PoolIsOver

LEMMA LifecycleInit == Init => Lifecycle
  BY DEF Init, Lifecycle

LEMMA LifecycleStep == Shape /\ Lifecycle /\ [Next]_vars => Lifecycle'
  <1> SUFFICES ASSUME Shape, Lifecycle, [Next]_vars PROVE Lifecycle'
    OBVIOUS
  <1> USE DEF Shape, Lifecycle, PoolIsOver, captureVars, poolVars, flushVars,
              closeVars
  <1>1. ASSUME NEW p \in Payloads, Capture(p) PROVE Lifecycle'
    BY <1>1 DEF Capture, Begin, Move
  <1>2. ASSUME NEW c \in Payloads \cup Workers, NEW p \in Payloads,
               CaptureInOnError(c, p)
        PROVE  Lifecycle'
    BY <1>2 DEF CaptureInOnError, Begin, Move
  <1>3. ASSUME NEW f \in Flushers, Flush(f) PROVE Lifecycle'
    BY <1>3 DEF Flush, StartFlush
  <1>4. ASSUME NEW k \in Closers, Close(k) PROVE Lifecycle'
    BY <1>4 DEF Close, StartFlush
  <1>5. ASSUME NEW p \in Payloads, CaptureStep(p) PROVE Lifecycle'
    <2>1. ASSUME NEW verdict \in Verdicts, ApplyBeforeSend(p, verdict)
          PROVE  Lifecycle'
      BY <2>1 DEF ApplyBeforeSend, Move
    <2>2. ASSUME EndFilterError(p) PROVE Lifecycle'
      BY <2>2 DEF EndFilterError, Move
    <2>3. ASSUME Enqueue(p) PROVE Lifecycle'
      <3>1. CASE closed
        BY <2>3, <3>1 DEF Enqueue, Move
      <3>2. CASE ~closed /\ started
        BY <2>3, <3>2 DEF Enqueue, EnsureWorkers, Move
      <3>3. CASE ~closed /\ ~started
        <4>1. worker' = [w \in Workers |-> "receive"] /\ started' /\ ~closed'
          BY <2>3, <3>3 DEF Enqueue, EnsureWorkers
        <4>2. \A k \in Closers : closing'[k] \notin {"join", "already", "stopped"}
          BY <2>3, <3>3 DEF Enqueue
        <4>3. tasks' = <<>> /\ ~chanClosed'
          BY <2>3, <3>3 DEF Enqueue, EnsureWorkers
        <4>4. \A w \in Workers : worker'[w] = "receive"
          BY <4>1
        <4>5. chanClosed' <=> closed' /\ started'
          BY <4>1, <4>3
        <4> QED
          BY <4>1, <4>2, <4>4, <4>5
      <3> QED
        BY <3>1, <3>2, <3>3
    <2>4. ASSUME AddPending(p) PROVE Lifecycle'
      BY <2>4 DEF AddPending, PendingAdd, Move
    <2>5. ASSUME Offer(p) PROVE Lifecycle'
      <3>1. started /\ ~closed /\ \A w \in Workers : worker[w] # "exited"
        BY <2>5 DEF Offer, Move
      <3>2. \A k \in Closers : closing[k] # "stopped"
        BY <3>1
      <3> QED
        BY <2>5, <3>1, <3>2 DEF Offer, Move
    <2>6. ASSUME Refuse(p) PROVE Lifecycle'
      BY <2>6 DEF Refuse, Move
    <2>7. ASSUME Drop(p) PROVE Lifecycle'
      BY <2>7 DEF Drop, Move
    <2>8. ASSUME EndEnqueue(p) PROVE Lifecycle'
      BY <2>8 DEF EndEnqueue, Move
    <2> QED
      BY <1>5, <2>1, <2>2, <2>3, <2>4, <2>5, <2>6, <2>7, <2>8 DEF CaptureStep
  <1>6. ASSUME NEW w \in Workers, WorkerStep(w) PROVE Lifecycle'
    <2> USE DEF Step
    <2>1. ASSUME Receive(w) PROVE Lifecycle'
      <3>1. started /\ \A v \in Workers : worker[v] # "exited"
        BY <2>1 DEF Receive
      <3>2. \A k \in Closers : closing[k] # "stopped"
        BY <2>1, <3>1 DEF Receive
      <3> QED
        BY <2>1, <3>1, <3>2 DEF Receive
    <2>2. ASSUME Exit(w) PROVE Lifecycle'
      BY <2>2 DEF Exit
    <2>3. ASSUME NEW result \in Results, RunTask(w, result) PROVE Lifecycle'
      BY <2>3 DEF RunTask
    <2>4. ASSUME EndTaskError(w) PROVE Lifecycle'
      BY <2>4 DEF EndTaskError
    <2>5. ASSUME MarkDone(w) PROVE Lifecycle'
      BY <2>5 DEF MarkDone
    <2> QED
      BY <1>6, <2>1, <2>2, <2>3, <2>4, <2>5 DEF WorkerStep
  <1>7. ASSUME NEW f \in FlushCalls, FlushStep(f) PROVE Lifecycle'
    BY <1>7 DEF FlushStep, Wait, Woken, EndFlush, ExpireFlush
  <1>8. ASSUME NEW k \in Closers, CloseStep(k) PROVE Lifecycle'
    <2>1. CASE AskLock(k)
      BY <2>1 DEF AskLock
    <2>2. CASE CloseTasks(k)
      BY <2>2 DEF CloseTasks, ReadLocked
    <2>3. CASE JoinWorkers(k)
      BY <2>3 DEF JoinWorkers
    <2> QED
      BY <1>8, <2>1, <2>2, <2>3 DEF CloseStep
  <1>9. CASE UNCHANGED vars
    BY <1>9 DEF vars
  <1> QED
    BY <1>1, <1>2, <1>3, <1>4, <1>5, <1>6, <1>7, <1>8, <1>9
       DEF Next, Running, Application

LEMMA ShapeInit == Init => Shape
  <1>1. Capacity \in Nat
    BY SendQueueAssumption DEF SendQueueAssumption, Capacity
  <1>2. Init => tasks \in Seq(Payloads) /\ Len(tasks) <= Capacity
    BY <1>1 DEF Init
  <1>3. Init => /\ callee \in [Payloads \cup Workers -> Payloads \cup {NoPayload}]
                /\ job \in [Workers -> Payloads \cup {NoPayload}]
                /\ owed \in [FlushCalls -> SUBSET Payloads]
    BY DEF Init
  <1>4. Init => /\ call \in [Payloads -> CallSteps]
                /\ fate \in [Payloads -> Fates]
                /\ worker \in [Workers -> WorkerSteps]
    BY DEF Init, CallSteps, Fates, WorkerSteps
  <1>5. Init => /\ flush \in [FlushCalls -> {"idle", "waiting", "flushed", "timedout"}]
    BY DEF Init
  <1>6. Init => /\ waiter \in [FlushCalls -> {"none", "entering", "parked", "woken", "done"}]
    BY DEF Init
  <1>7. Init => /\ closing \in [Closers -> {"idle", "flush", "lock", "join", "already", "stopped"}]
    BY DEF Init
  <1>8. Init => closed \in BOOLEAN /\ started \in BOOLEAN /\ chanClosed \in BOOLEAN
    BY DEF Init
  <1>9. Init => dropped \in Nat /\ pending \in Int /\ crash \in {"none", "transport", "waitgroup"}
    BY DEF Init
  <1> QED
    BY <1>2, <1>3, <1>4, <1>5, <1>6, <1>7, <1>8, <1>9 DEF Shape

THEOREM LifecycleHolds == Spec => [](Shape /\ Lifecycle)
  <1>1. Init => Shape /\ Lifecycle
    BY ShapeInit, LifecycleInit
  <1>2. Shape /\ Lifecycle /\ [Next]_vars => (Shape /\ Lifecycle)'
    BY ShapeStep, LifecycleStep
  <1> QED
    BY <1>1, <1>2, PTL DEF Spec

\* No capture is about to send on a closed channel, or to add to the pending group
\* of a pool that was never started (client.go:449-463, 389-395).
THEOREM SendsOnOpenChannel == Spec => []NoSendOnClosedChannel
  <1>1. Shape /\ Lifecycle => NoSendOnClosedChannel
    BY DEF Lifecycle, NoSendOnClosedChannel
  <1> QED
    BY <1>1, LifecycleHolds, PTL

\* A closed client's pool has been told to stop (client.go:447-448).
THEOREM PoolsAreTold == Spec => []NoOrphanPool
  <1>1. Shape /\ Lifecycle => NoOrphanPool
    BY DEF Lifecycle, NoOrphanPool
  <1> QED
    BY <1>1, LifecycleHolds, PTL

-----------------------------------------------------------------------------
(***************************************************************************)
(* Where each payload is: fate agrees with the place its capture has       *)
(* reached, the channel holds exactly the queued payloads, each once, and  *)
(* the senders hold exactly those in flight.                               *)
(***************************************************************************)
Undecided == {"idle", "filter", "enqueue", "add", "send", "drop"}

Ledger == \A p \in Payloads : fate[p] = "none" <=> call[p] \in Undecided

Backlog ==
  /\ \A i \in 1 .. Len(tasks) : fate[tasks[i]] = "queued"
  /\ \A i, j \in 1 .. Len(tasks) : tasks[i] = tasks[j] => i = j
  /\ \A p \in Payloads :
       fate[p] = "queued" => \E i \in 1 .. Len(tasks) : tasks[i] = p

Busy == {"sending", "taskError", "mark"}

Holding ==
  /\ \A w \in Workers : job[w] # NoPayload <=> worker[w] \in Busy
  /\ \A w \in Workers : worker[w] = "sending" => fate[job[w]] = "inflight"
  /\ \A w \in Workers : worker[w] \in {"taskError", "mark"} =>
                          fate[job[w]] \in {"delivered", "failed"}
  /\ \A v, w \in Workers : job[v] = job[w] /\ job[v] # NoPayload => v = w
  /\ \A p \in Payloads :
       fate[p] = "inflight" =>
         \E w \in Workers : worker[w] = "sending" /\ job[w] = p

Bookkeeping == Ledger /\ Backlog /\ Holding

LEMMA BookkeepingInit == Init => Bookkeeping
  BY DEF Init, Bookkeeping, Ledger, Backlog, Holding, Undecided, Busy

\* A capture's steps other than Offer leave the channel and the senders alone and
\* never make a payload queued or in flight.
LEMMA FateSettlesElsewhere ==
  ASSUME Shape, Bookkeeping, Lifecycle, UNCHANGED <<tasks, worker, job>>,
         NEW p \in Payloads, fate[p] = "none",
         NEW what \in Fates \ {"queued", "inflight"},
         fate' = [fate EXCEPT ![p] = what]
  PROVE  Backlog' /\ Holding'
  <1> USE DEF Shape, Bookkeeping, Backlog, Holding, Busy
  <1>1. \A q \in Payloads :
          fate[q] \in {"queued", "inflight", "delivered", "failed"} =>
            fate'[q] = fate[q]
    OBVIOUS
  <1>2. \A q \in Payloads :
          fate'[q] \in {"queued", "inflight"} => fate[q] = fate'[q]
    OBVIOUS
  <1>3. \A i \in 1 .. Len(tasks) : tasks[i] \in Payloads
    OBVIOUS
  <1>4. \A w \in Workers : job[w] # NoPayload => job[w] \in Payloads
    OBVIOUS
  <1> QED
    BY <1>1, <1>2, <1>3, <1>4

LEMMA BookkeepingStep ==
  Shape /\ Lifecycle /\ Bookkeeping /\ [Next]_vars => Bookkeeping'
  <1> SUFFICES ASSUME Shape, Lifecycle, Bookkeeping, [Next]_vars
               PROVE  Bookkeeping'
    OBVIOUS
  <1> USE DEF captureVars, poolVars, flushVars, closeVars
  <1>A. ASSUME UNCHANGED <<fate, tasks, worker, job>>, Ledger'
        PROVE  Bookkeeping'
    BY <1>A DEF Bookkeeping, Backlog, Holding
  <1>B. ASSUME NEW p \in Payloads, Begin(p), UNCHANGED <<tasks, worker, job>>
        PROVE  Bookkeeping'
    <2>1. fate[p] = "none" /\ Ledger'
      BY <1>B DEF Shape, Bookkeeping, Ledger, Undecided, Begin, Move
    <2>2. CASE UNCHANGED fate
      BY <1>A, <1>B, <2>1, <2>2
    <2>3. CASE fate' = [fate EXCEPT ![p] = "withheld"]
      BY <1>B, <2>1, <2>3, FateSettlesElsewhere DEF Bookkeeping, Fates
    <2> QED
      BY <1>B, <2>2, <2>3 DEF Begin
  <1>1. ASSUME NEW p \in Payloads, Capture(p) PROVE Bookkeeping'
    BY <1>1, <1>B DEF Capture
  <1>2. ASSUME NEW c \in Payloads \cup Workers, NEW p \in Payloads,
               CaptureInOnError(c, p)
        PROVE  Bookkeeping'
    BY <1>2, <1>B DEF CaptureInOnError
  <1>3. ASSUME NEW f \in Flushers, Flush(f) PROVE Bookkeeping'
    BY <1>3, <1>A DEF Flush, StartFlush, Bookkeeping, Ledger
  <1>4. ASSUME NEW k \in Closers, Close(k) PROVE Bookkeeping'
    BY <1>4, <1>A DEF Close, StartFlush, Bookkeeping, Ledger
  <1>5. ASSUME NEW p \in Payloads, CaptureStep(p) PROVE Bookkeeping'
    <2> USE DEF Shape, Ledger, Undecided
    <2>1. ASSUME NEW verdict \in Verdicts, ApplyBeforeSend(p, verdict)
          PROVE  Bookkeeping'
      <3>1. fate[p] = "none" /\ Ledger'
        BY <2>1 DEF ApplyBeforeSend, Move, Bookkeeping
      <3>2. UNCHANGED fate \/ fate' = [fate EXCEPT ![p] = "withheld"]
        BY <2>1 DEF ApplyBeforeSend
      <3> QED
        BY <2>1, <3>1, <3>2, <1>A, FateSettlesElsewhere
           DEF Bookkeeping, Fates, ApplyBeforeSend
    <2>2. ASSUME EndFilterError(p) PROVE Bookkeeping'
      BY <2>2, <1>A DEF EndFilterError, Move, Bookkeeping
    <2>3. ASSUME Enqueue(p) PROVE Bookkeeping'
      <3>1. Ledger' /\ UNCHANGED <<fate, tasks, job>>
        BY <2>3 DEF Enqueue, EnsureWorkers, Move, Bookkeeping
      <3>2. CASE UNCHANGED worker
        BY <3>1, <3>2, <1>A
      <3>3. CASE ~started /\ worker' = [w \in Workers |-> "receive"]
        <4>1. \A w \in Workers : worker[w] = "off" /\ worker'[w] = "receive"
          BY <3>3 DEF Lifecycle
        <4> QED
          BY <3>1, <4>1 DEF Bookkeeping, Backlog, Holding, Busy
      <3> QED
        BY <2>3, <3>2, <3>3 DEF Enqueue, EnsureWorkers
    <2>4. ASSUME AddPending(p) PROVE Bookkeeping'
      BY <2>4, <1>A DEF AddPending, Move, Bookkeeping
    <2>5. ASSUME Offer(p) PROVE Bookkeeping'
      <3>1. fate[p] = "none" /\ Ledger'
        BY <2>5 DEF Offer, Move, Bookkeeping
      <3>2. /\ \A q \in Payloads \ {p} : fate'[q] = fate[q]
            /\ fate'[p] = "queued"
        BY <2>5 DEF Offer
      <3>3. Len(tasks') = Len(tasks) + 1 /\ tasks'[Len(tasks) + 1] = p
        BY <2>5 DEF Offer
      <3>4. \A i \in 1 .. Len(tasks) : tasks'[i] = tasks[i] /\ tasks[i] \in Payloads
        BY <2>5 DEF Offer
      <3>5. \A i \in 1 .. Len(tasks) : tasks[i] # p
        BY <3>1 DEF Bookkeeping, Backlog
      <3>6. Backlog'
        <4>1. \A i \in 1 .. Len(tasks') : fate'[tasks'[i]] = "queued"
          BY <3>2, <3>3, <3>4, <3>5 DEF Bookkeeping, Backlog
        <4>2. \A i, j \in 1 .. Len(tasks') : tasks'[i] = tasks'[j] => i = j
          <5> SUFFICES ASSUME NEW i \in 1 .. Len(tasks'),
                              NEW j \in 1 .. Len(tasks'), tasks'[i] = tasks'[j]
                       PROVE  i = j
            OBVIOUS
          <5>1. Len(tasks) \in Nat
            OBVIOUS
          <5>2. CASE i \in 1 .. Len(tasks) /\ j \in 1 .. Len(tasks)
            BY <3>4, <5>2 DEF Bookkeeping, Backlog
          <5>3. CASE i = Len(tasks) + 1 \/ j = Len(tasks) + 1
            BY <3>3, <3>4, <3>5, <5>1, <5>3
          <5> QED
            BY <3>3, <5>1, <5>2, <5>3
        <4>3. ASSUME NEW q \in Payloads, fate'[q] = "queued"
              PROVE  \E i \in 1 .. Len(tasks') : tasks'[i] = q
          <5>1. CASE q = p
            BY <3>3, <5>1
          <5>2. CASE q # p
            <6>1. PICK i \in 1 .. Len(tasks) : tasks[i] = q
              BY <3>2, <4>3, <5>2 DEF Bookkeeping, Backlog
            <6>2. i \in 1 .. Len(tasks') /\ tasks'[i] = q
              BY <3>3, <3>4, <6>1
            <6> QED
              BY <6>2
          <5> QED
            BY <5>1, <5>2
        <4> QED
          BY <4>1, <4>2, <4>3 DEF Backlog
      <3>7. Holding'
        BY <2>5, <3>1, <3>2 DEF Offer, Bookkeeping, Holding, Busy
      <3> QED
        BY <3>1, <3>6, <3>7 DEF Bookkeeping
    <2>6. ASSUME Refuse(p) PROVE Bookkeeping'
      BY <2>6, <1>A DEF Refuse, Move, Bookkeeping
    <2>7. ASSUME Drop(p) PROVE Bookkeeping'
      <3>1. fate[p] = "none" /\ Ledger'
        BY <2>7 DEF Drop, Move, Bookkeeping
      <3> QED
        BY <2>7, <3>1, FateSettlesElsewhere DEF Drop, Bookkeeping, Fates
    <2>8. ASSUME EndEnqueue(p) PROVE Bookkeeping'
      BY <2>8, <1>A DEF EndEnqueue, Move, Bookkeeping
    <2> QED
      BY <1>5, <2>1, <2>2, <2>3, <2>4, <2>5, <2>6, <2>7, <2>8 DEF CaptureStep
  <1>6. ASSUME NEW w \in Workers, WorkerStep(w) PROVE Bookkeeping'
    <2> USE DEF Step, Shape, Ledger, Undecided
    <2>1. ASSUME Receive(w) PROVE Bookkeeping'
      <3> DEFINE p == Head(tasks)
      <3>1. /\ p \in Payloads
            /\ p = tasks[1]
            /\ Len(tasks') = Len(tasks) - 1
            /\ \A i \in 1 .. Len(tasks') : tasks'[i] = tasks[i + 1]
            /\ Len(tasks) \in Nat \ {0}
        BY <2>1 DEF Receive
      <3>2. fate[p] = "queued"
        BY <3>1 DEF Bookkeeping, Backlog
      <3>3. /\ \A q \in Payloads \ {p} : fate'[q] = fate[q]
            /\ fate'[p] = "inflight"
        BY <2>1 DEF Receive
      <3>4. Ledger'
        BY <2>1, <3>2, <3>3 DEF Receive, Bookkeeping
      <3>5. Backlog'
        <4>1. \A i \in 1 .. Len(tasks') :
                i + 1 \in 1 .. Len(tasks) /\ tasks'[i] # p /\ tasks'[i] \in Payloads
          BY <3>1 DEF Bookkeeping, Backlog
        <4>2. \A i \in 1 .. Len(tasks') : fate'[tasks'[i]] = "queued"
          <5> SUFFICES ASSUME NEW i \in 1 .. Len(tasks') PROVE fate'[tasks'[i]] = "queued"
            OBVIOUS
          <5>1. tasks'[i] = tasks[i + 1] /\ i + 1 \in 1 .. Len(tasks)
            BY <3>1, <4>1
          <5>2. fate[tasks[i + 1]] = "queued"
            BY <5>1 DEF Bookkeeping, Backlog
          <5> QED
            BY <3>3, <4>1, <5>1, <5>2
        <4>3. \A i, j \in 1 .. Len(tasks') : tasks'[i] = tasks'[j] => i = j
          BY <3>1, <4>1 DEF Bookkeeping, Backlog
        <4>4. ASSUME NEW q \in Payloads, fate'[q] = "queued"
              PROVE  \E i \in 1 .. Len(tasks') : tasks'[i] = q
          <5>1. q # p /\ fate[q] = "queued"
            BY <3>3, <4>4
          <5>2. PICK i \in 1 .. Len(tasks) : tasks[i] = q
            BY <5>1 DEF Bookkeeping, Backlog
          <5>3. i - 1 \in 1 .. Len(tasks')
            BY <3>1, <5>1, <5>2
          <5>4. tasks'[i - 1] = tasks[(i - 1) + 1] /\ (i - 1) + 1 = i
            BY <3>1, <5>3
          <5> QED
            BY <5>2, <5>3, <5>4
        <4> QED
          BY <4>2, <4>3, <4>4 DEF Backlog
      <3>6. Holding'
        <4>1. /\ worker[w] = "receive" /\ job[w] = NoPayload
              /\ worker'[w] = "sending" /\ job'[w] = p
              /\ \A v \in Workers \ {w} : worker'[v] = worker[v] /\ job'[v] = job[v]
          BY <2>1 DEF Receive, Bookkeeping, Holding, Busy
        <4>2. \A v \in Workers : job[v] # p /\ p # NoPayload
          BY <3>1, <3>2, SendQueueAssumption
             DEF Bookkeeping, Holding, Busy, SendQueueAssumption
        <4>3. \A v \in Workers : job'[v] # NoPayload <=> worker'[v] \in Busy
          BY <4>1, <4>2 DEF Bookkeeping, Holding, Busy
        <4>4. \A v \in Workers :
                worker'[v] = "sending" => fate'[job'[v]] = "inflight"
          BY <3>3, <4>1, <4>2 DEF Bookkeeping, Holding, Busy
        <4>5. \A v \in Workers : worker'[v] \in {"taskError", "mark"} =>
                                   fate'[job'[v]] \in {"delivered", "failed"}
          BY <3>3, <4>1, <4>2 DEF Bookkeeping, Holding, Busy
        <4>6. \A u, v \in Workers :
                job'[u] = job'[v] /\ job'[u] # NoPayload => u = v
          BY <4>1, <4>2 DEF Bookkeeping, Holding
        <4>7. \A q \in Payloads :
                fate'[q] = "inflight" =>
                  \E v \in Workers : worker'[v] = "sending" /\ job'[v] = q
          BY <3>3, <4>1 DEF Bookkeeping, Holding
        <4> QED
          BY <4>3, <4>4, <4>5, <4>6, <4>7 DEF Holding
      <3> QED
        BY <3>4, <3>5, <3>6 DEF Bookkeeping
    <2>2. ASSUME Exit(w) PROVE Bookkeeping'
      <3>1. /\ worker'[w] = "exited" /\ worker[w] = "receive"
            /\ \A v \in Workers \ {w} : worker'[v] = worker[v]
        BY <2>2 DEF Exit
      <3> QED
        BY <2>2, <3>1 DEF Exit, Bookkeeping, Backlog, Holding, Busy
    <2>3. ASSUME NEW result \in Results, RunTask(w, result) PROVE Bookkeeping'
      <3>1. CASE result = "panic"
        BY <2>3, <3>1, <1>A DEF RunTask, Bookkeeping
      <3>2. CASE result \in {"ok", "error"}
        <4> DEFINE p == job[w]
        <4>1. /\ worker[w] = "sending" /\ worker'[w] \in {"taskError", "mark"}
              /\ \A v \in Workers \ {w} : worker'[v] = worker[v]
              /\ UNCHANGED <<call, job, tasks>>
          BY <2>3, <3>2 DEF RunTask
        <4>2. p \in Payloads /\ fate[p] = "inflight"
          BY <4>1, SendQueueAssumption
             DEF Bookkeeping, Holding, Busy, SendQueueAssumption
        <4>3. /\ fate'[p] \in {"delivered", "failed"}
              /\ \A q \in Payloads \ {p} : fate'[q] = fate[q]
          BY <2>3, <3>2, <4>2 DEF RunTask
        <4>4. Ledger'
          BY <4>1, <4>2, <4>3 DEF Bookkeeping
        <4>5. Backlog'
          BY <4>1, <4>2, <4>3 DEF Bookkeeping, Backlog
        <4>6. Holding'
          BY <4>1, <4>2, <4>3 DEF Bookkeeping, Holding, Busy
        <4> QED
          BY <4>4, <4>5, <4>6 DEF Bookkeeping
      <3> QED
        BY <2>3, <3>1, <3>2 DEF RunTask
    <2>4. ASSUME EndTaskError(w) PROVE Bookkeeping'
      <3>1. /\ worker'[w] = "mark" /\ worker[w] = "taskError"
            /\ \A v \in Workers \ {w} : worker'[v] = worker[v]
        BY <2>4 DEF EndTaskError
      <3> QED
        BY <2>4, <3>1 DEF EndTaskError, Bookkeeping, Backlog, Holding, Busy
    <2>5. ASSUME MarkDone(w) PROVE Bookkeeping'
      <3>1. /\ worker'[w] = "receive" /\ worker[w] = "mark" /\ job'[w] = NoPayload
            /\ \A v \in Workers \ {w} : worker'[v] = worker[v] /\ job'[v] = job[v]
        BY <2>5 DEF MarkDone
      <3>2. fate[job[w]] # "inflight"
        BY <3>1 DEF Bookkeeping, Holding
      <3> QED
        BY <2>5, <3>1, <3>2 DEF MarkDone, Bookkeeping, Backlog, Holding, Busy
    <2> QED
      BY <1>6, <2>1, <2>2, <2>3, <2>4, <2>5 DEF WorkerStep
  <1>7. ASSUME NEW f \in FlushCalls, FlushStep(f) PROVE Bookkeeping'
    BY <1>7, <1>A
       DEF FlushStep, Wait, Woken, EndFlush, ExpireFlush, Bookkeeping, Ledger
  <1>8. ASSUME NEW k \in Closers, CloseStep(k) PROVE Bookkeeping'
    BY <1>8, <1>A
       DEF CloseStep, AskLock, CloseTasks, JoinWorkers, Bookkeeping, Ledger
  <1>9. CASE UNCHANGED vars
    BY <1>9, <1>A DEF vars, Bookkeeping, Ledger
  <1> QED
    BY <1>1, <1>2, <1>3, <1>4, <1>5, <1>6, <1>7, <1>8, <1>9
       DEF Next, Running, Application

-----------------------------------------------------------------------------
(***************************************************************************)
(* The counters: the pending group counts the outstanding payloads, and    *)
(* Client.dropped the dropped ones.                                        *)
(***************************************************************************)
DroppedPayloads == {p \in Payloads : fate[p] = "dropped"}

Counting ==
  /\ pending = Cardinality(Outstanding)
  /\ dropped = Cardinality(DroppedPayloads)

LEMMA SubsetsFinite ==
  /\ IsFiniteSet(Outstanding)
  /\ IsFiniteSet(Outstanding')
  /\ IsFiniteSet(DroppedPayloads)
  /\ IsFiniteSet(DroppedPayloads')
  <1>1. IsFiniteSet(Payloads)
    BY SendQueueAssumption DEF SendQueueAssumption
  <1>2. /\ Outstanding \subseteq Payloads
        /\ Outstanding' \subseteq Payloads
        /\ DroppedPayloads \subseteq Payloads
        /\ DroppedPayloads' \subseteq Payloads
    BY DEF Outstanding, DroppedPayloads
  <1> QED
    BY <1>1, <1>2, FS_Subset

\* What each step does to the sets that are counted.
OutstandingUnchanged == Outstanding' = Outstanding /\ UNCHANGED pending
DroppedUnchanged == DroppedPayloads' = DroppedPayloads /\ UNCHANGED dropped

Taken(p) ==
  /\ p \notin Outstanding
  /\ Outstanding' = Outstanding \cup {p}
  /\ pending' = pending + 1

GivenBack(p) ==
  /\ p \in Outstanding
  /\ Outstanding' = Outstanding \ {p}
  /\ pending' = pending - 1

Counted(p) ==
  /\ p \notin DroppedPayloads
  /\ DroppedPayloads' = DroppedPayloads \cup {p}
  /\ dropped' = dropped + 1

LEMMA CountingFollows ==
  ASSUME Counting,
         OutstandingUnchanged \/ \E p \in Payloads : Taken(p) \/ GivenBack(p),
         DroppedUnchanged \/ \E p \in Payloads : Counted(p)
  PROVE  Counting'
  <1>1. pending' = Cardinality(Outstanding')
    <2>1. CASE OutstandingUnchanged
      BY <2>1 DEF OutstandingUnchanged, Counting
    <2>2. ASSUME NEW p \in Payloads, Taken(p)
          PROVE  pending' = Cardinality(Outstanding')
      BY <2>2, SubsetsFinite, FS_AddElement DEF Taken, Counting
    <2>3. ASSUME NEW p \in Payloads, GivenBack(p)
          PROVE  pending' = Cardinality(Outstanding')
      BY <2>3, SubsetsFinite, FS_RemoveElement DEF GivenBack, Counting
    <2> QED
      BY <2>1, <2>2, <2>3
  <1>2. dropped' = Cardinality(DroppedPayloads')
    <2>1. CASE DroppedUnchanged
      BY <2>1 DEF DroppedUnchanged, Counting
    <2>2. ASSUME NEW p \in Payloads, Counted(p)
          PROVE  dropped' = Cardinality(DroppedPayloads')
      BY <2>2, SubsetsFinite, FS_AddElement DEF Counted, Counting
    <2> QED
      BY <2>1, <2>2
  <1> QED
    BY <1>1, <1>2 DEF Counting

LEMMA CountingInit == Init => Counting
  <1> SUFFICES ASSUME Init PROVE Counting
    OBVIOUS
  <1>1. \A w \in Workers : \A p \in Payloads : job[w] # p
    BY SendQueueAssumption DEF Init, SendQueueAssumption
  <1>2. Outstanding = {} /\ DroppedPayloads = {}
    BY <1>1 DEF Init, Outstanding, DroppedPayloads
  <1> QED
    BY <1>2, FS_EmptySet DEF Init, Counting

LEMMA CountingStep ==
  Shape /\ Lifecycle /\ Bookkeeping /\ Counting /\ [Next]_vars => Counting'
  <1> SUFFICES ASSUME Shape, Lifecycle, Bookkeeping, Counting, [Next]_vars
               PROVE  Counting'
    OBVIOUS
  <1> USE DEF captureVars, poolVars, flushVars, closeVars
  <1>A. ASSUME UNCHANGED <<call, fate, job, pending, dropped>>
        PROVE  Counting'
    BY <1>A DEF Counting, Outstanding, DroppedPayloads
  <1>B. ASSUME NEW p \in Payloads, NEW from \in CallSteps \ {"send"},
               NEW to \in CallSteps \ {"send"}, Move(p, from, to),
               NEW what \in {"none", "withheld"}, fate[p] = "none",
               UNCHANGED fate \/ fate' = [fate EXCEPT ![p] = what],
               UNCHANGED <<job, pending, dropped>>
        PROVE  Counting'
    <2>1. OutstandingUnchanged
      BY <1>B DEF Shape, Move, OutstandingUnchanged, Outstanding
    <2>2. DroppedUnchanged
      BY <1>B DEF Shape, DroppedUnchanged, DroppedPayloads
    <2> QED
      BY <2>1, <2>2, CountingFollows
  <1>C. ASSUME NEW p \in Payloads, Begin(p), UNCHANGED <<job, pending, dropped>>
        PROVE  Counting'
    <2>1. fate[p] = "none"
      BY <1>C DEF Begin, Move, Bookkeeping, Ledger, Undecided
    <2> QED
      BY <1>B, <1>C, <2>1 DEF Begin, CallSteps
  <1>D. ASSUME NEW p \in Payloads, NEW from \in CallSteps \ {"send"},
               NEW to \in CallSteps \ {"send"}, Move(p, from, to),
               UNCHANGED <<fate, job, pending, dropped>>
        PROVE  Counting'
    <2>1. OutstandingUnchanged
      BY <1>D DEF Shape, Move, OutstandingUnchanged, Outstanding
    <2> QED
      BY <1>D, <2>1, CountingFollows DEF DroppedUnchanged, DroppedPayloads
  <1>1. ASSUME NEW p \in Payloads, Capture(p) PROVE Counting'
    BY <1>1, <1>C DEF Capture
  <1>2. ASSUME NEW c \in Payloads \cup Workers, NEW p \in Payloads,
               CaptureInOnError(c, p)
        PROVE  Counting'
    BY <1>2, <1>C DEF CaptureInOnError
  <1>3. ASSUME NEW f \in Flushers, Flush(f) PROVE Counting'
    BY <1>3, <1>A DEF Flush, StartFlush
  <1>4. ASSUME NEW k \in Closers, Close(k) PROVE Counting'
    BY <1>4, <1>A DEF Close, StartFlush
  <1>5. ASSUME NEW p \in Payloads, CaptureStep(p) PROVE Counting'
    <2>1. ASSUME NEW verdict \in Verdicts, ApplyBeforeSend(p, verdict)
          PROVE  Counting'
      <3>1. fate[p] = "none"
        BY <2>1 DEF ApplyBeforeSend, Move, Bookkeeping, Ledger, Undecided
      <3> QED
        BY <1>B, <2>1, <3>1 DEF ApplyBeforeSend, CallSteps
    <2>2. ASSUME EndFilterError(p) PROVE Counting'
      BY <2>2, <1>D DEF EndFilterError, CallSteps
    <2>3. ASSUME Enqueue(p) PROVE Counting'
      BY <2>3, <1>D DEF Enqueue, EnsureWorkers, CallSteps
    <2>4. ASSUME AddPending(p) PROVE Counting'
      <3>1. call[p] = "add" /\ fate[p] = "none"
        BY <2>4 DEF AddPending, Move, Bookkeeping, Ledger, Undecided
      <3>2. \A w \in Workers : job[w] # p
        BY <3>1, SendQueueAssumption
           DEF Bookkeeping, Holding, Busy, SendQueueAssumption
      <3>3. Taken(p)
        BY <2>4, <3>1, <3>2
           DEF Shape, AddPending, PendingAdd, Move, Taken, Outstanding
      <3>4. DroppedUnchanged
        BY <2>4 DEF AddPending, DroppedUnchanged, DroppedPayloads
      <3> QED
        BY <3>3, <3>4, CountingFollows
    <2>5. ASSUME Offer(p) PROVE Counting'
      <3>1. OutstandingUnchanged
        BY <2>5 DEF Shape, Offer, Move, OutstandingUnchanged, Outstanding
      <3>2. DroppedUnchanged
        <4>1. fate[p] = "none"
          BY <2>5 DEF Offer, Move, Bookkeeping, Ledger, Undecided
        <4> QED
          BY <2>5, <4>1 DEF Shape, Offer, DroppedUnchanged, DroppedPayloads
      <3> QED
        BY <3>1, <3>2, CountingFollows
    <2>6. ASSUME Refuse(p) PROVE Counting'
      <3>1. call[p] = "send" /\ fate[p] = "none"
        BY <2>6 DEF Refuse, Move, Bookkeeping, Ledger, Undecided
      <3>2. \A w \in Workers : job[w] # p
        BY <3>1, SendQueueAssumption
           DEF Bookkeeping, Holding, Busy, SendQueueAssumption
      <3>3. GivenBack(p)
        BY <2>6, <3>1, <3>2
           DEF Shape, Refuse, PendingDone, Move, GivenBack, Outstanding
      <3>4. DroppedUnchanged
        BY <2>6 DEF Refuse, DroppedUnchanged, DroppedPayloads
      <3> QED
        BY <3>3, <3>4, CountingFollows
    <2>7. ASSUME Drop(p) PROVE Counting'
      <3>1. call[p] = "drop" /\ fate[p] = "none"
        BY <2>7 DEF Drop, Move, Bookkeeping, Ledger, Undecided
      <3>2. OutstandingUnchanged
        BY <2>7, <3>1 DEF Shape, Drop, Move, OutstandingUnchanged, Outstanding
      <3>3. Counted(p)
        BY <2>7, <3>1 DEF Shape, Drop, Counted, DroppedPayloads
      <3> QED
        BY <3>2, <3>3, CountingFollows
    <2>8. ASSUME EndEnqueue(p) PROVE Counting'
      BY <2>8, <1>D DEF EndEnqueue, CallSteps
    <2> QED
      BY <1>5, <2>1, <2>2, <2>3, <2>4, <2>5, <2>6, <2>7, <2>8 DEF CaptureStep
  <1>6. ASSUME NEW w \in Workers, WorkerStep(w) PROVE Counting'
    <2> USE DEF Step, Shape
    <2>1. ASSUME Receive(w) PROVE Counting'
      <3> DEFINE p == Head(tasks)
      <3>1. p \in Payloads /\ p = tasks[1] /\ 1 \in 1 .. Len(tasks)
        BY <2>1 DEF Receive
      <3>2. fate[p] = "queued"
        BY <3>1 DEF Bookkeeping, Backlog
      <3>3. job[w] = NoPayload
        BY <2>1 DEF Receive, Bookkeeping, Holding, Busy
      <3>4. /\ \A q \in Payloads \ {p} : fate'[q] = fate[q]
            /\ fate'[p] = "inflight"
            /\ job'[w] = p
            /\ \A v \in Workers \ {w} : job'[v] = job[v]
            /\ UNCHANGED <<call, pending, dropped>>
        BY <2>1 DEF Receive
      <3>5. OutstandingUnchanged
        <4>1. \A q \in Payloads : q # NoPayload
          BY SendQueueAssumption DEF SendQueueAssumption
        <4>2. \A q \in Payloads \ {p} :
                (\E v \in Workers : job'[v] = q) <=> (\E v \in Workers : job[v] = q)
          BY <3>3, <3>4, <4>1
        <4>3. \A q \in Payloads : q \in Outstanding' <=> q \in Outstanding
          BY <3>1, <3>2, <3>4, <4>2 DEF Outstanding
        <4> QED
          BY <3>4, <4>3 DEF OutstandingUnchanged, Outstanding
      <3>6. DroppedUnchanged
        BY <3>1, <3>2, <3>4 DEF DroppedUnchanged, DroppedPayloads
      <3> QED
        BY <3>5, <3>6, CountingFollows
    <2>2. ASSUME Exit(w) PROVE Counting'
      BY <2>2, <1>A DEF Exit
    <2>3. ASSUME NEW result \in Results, RunTask(w, result) PROVE Counting'
      <3>1. CASE result = "panic"
        BY <2>3, <3>1, <1>A DEF RunTask
      <3>2. CASE result \in {"ok", "error"}
        <4> DEFINE p == job[w]
        <4>1. worker[w] = "sending" /\ UNCHANGED <<call, job, pending, dropped>>
          BY <2>3, <3>2 DEF RunTask
        <4>2. p \in Payloads /\ fate[p] = "inflight"
          BY <4>1, SendQueueAssumption
             DEF Bookkeeping, Holding, Busy, SendQueueAssumption
        <4>3. /\ fate'[p] \in {"delivered", "failed"}
              /\ \A q \in Payloads \ {p} : fate'[q] = fate[q]
          BY <2>3, <3>2, <4>2 DEF RunTask
        <4>4. OutstandingUnchanged
          BY <4>1, <4>2, <4>3 DEF OutstandingUnchanged, Outstanding
        <4>5. DroppedUnchanged
          BY <4>1, <4>2, <4>3 DEF DroppedUnchanged, DroppedPayloads
        <4> QED
          BY <4>4, <4>5, CountingFollows
      <3> QED
        BY <2>3, <3>1, <3>2 DEF RunTask
    <2>4. ASSUME EndTaskError(w) PROVE Counting'
      BY <2>4, <1>A DEF EndTaskError
    <2>5. ASSUME MarkDone(w) PROVE Counting'
      <3> DEFINE p == job[w]
      <3>1. /\ worker[w] = "mark" /\ job'[w] = NoPayload
            /\ \A v \in Workers \ {w} : job'[v] = job[v]
            /\ UNCHANGED <<call, fate, dropped>>
            /\ pending' = pending - 1
        BY <2>5 DEF MarkDone, PendingDone
      <3>2. p \in Payloads /\ fate[p] \in {"delivered", "failed"}
        BY <3>1, SendQueueAssumption
           DEF Bookkeeping, Holding, Busy, SendQueueAssumption
      <3>3. call[p] # "send"
        BY <3>2 DEF Bookkeeping, Ledger, Undecided
      <3>4. \A v \in Workers \ {w} : job[v] # p
        BY <3>2, SendQueueAssumption
           DEF Bookkeeping, Holding, SendQueueAssumption
      <3>5. GivenBack(p)
        <4>1. \A q \in Payloads : q # NoPayload
          BY SendQueueAssumption DEF SendQueueAssumption
        <4>2. p \in Outstanding /\ p \notin Outstanding'
          BY <3>1, <3>2, <3>3, <3>4, <4>1 DEF Outstanding
        <4>3. \A q \in Payloads \ {p} : q \in Outstanding' <=> q \in Outstanding
          BY <3>1, <3>4, <4>1 DEF Outstanding
        <4> QED
          BY <3>1, <4>2, <4>3 DEF GivenBack, Outstanding
      <3>6. DroppedUnchanged
        BY <3>1 DEF DroppedUnchanged, DroppedPayloads
      <3> QED
        BY <3>2, <3>5, <3>6, CountingFollows
    <2> QED
      BY <1>6, <2>1, <2>2, <2>3, <2>4, <2>5 DEF WorkerStep
  <1>7. ASSUME NEW f \in FlushCalls, FlushStep(f) PROVE Counting'
    BY <1>7, <1>A DEF FlushStep, Wait, Woken, EndFlush, ExpireFlush
  <1>8. ASSUME NEW k \in Closers, CloseStep(k) PROVE Counting'
    BY <1>8, <1>A DEF CloseStep, AskLock, CloseTasks, JoinWorkers
  <1>9. CASE UNCHANGED vars
    BY <1>9, <1>A DEF vars
  <1> QED
    BY <1>1, <1>2, <1>3, <1>4, <1>5, <1>6, <1>7, <1>8, <1>9
       DEF Next, Running, Application

-----------------------------------------------------------------------------
(***************************************************************************)
(* Flush: what it must see settled was accepted when it was called, and a  *)
(* waiter that is done has seen all of it settled.                         *)
(***************************************************************************)
Waiting ==
  /\ \A f \in FlushCalls : \A p \in owed[f] : fate[p] # "none"
  /\ \A f \in FlushCalls : waiter[f] = "done" => owed[f] \cap Unsettled = {}
  /\ \A f \in FlushCalls : flush[f] = "flushed" => waiter[f] = "done"

\* Once decided a payload stays decided, and once settled it stays settled.
LEMMA FateIsFinal ==
  ASSUME Shape, Lifecycle, Bookkeeping, [Next]_vars,
         NEW p \in Payloads, fate[p] # "none"
  PROVE  fate'[p] # "none" /\ (p \in Unsettled' => p \in Unsettled)
  <1> USE DEF Shape, Bookkeeping, Ledger, Undecided, Unsettled, captureVars,
              poolVars, flushVars, closeVars
  <1> DEFINE Goal == fate'[p] # "none" /\ (p \in Unsettled' => p \in Unsettled)
  <1>1. ASSUME NEW q \in Payloads, Begin(q) PROVE Goal
    BY <1>1 DEF Begin, Move
  <1>2. ASSUME NEW q \in Payloads, CaptureStep(q) PROVE Goal
    <2>1. CASE call[q] \in Undecided
      <3>1. fate[q] = "none"
        BY <2>1
      <3> QED
        BY <1>2, <3>1
           DEF CaptureStep, ApplyBeforeSend, EndFilterError, Enqueue, AddPending,
               Offer, Refuse, Drop, EndEnqueue
    <2>2. CASE call[q] \notin Undecided
      BY <1>2, <2>2
         DEF CaptureStep, ApplyBeforeSend, EndFilterError, Enqueue, AddPending,
             Offer, Refuse, Drop, EndEnqueue, Move
    <2> QED
      BY <2>1, <2>2
  <1>3. ASSUME NEW w \in Workers, WorkerStep(w) PROVE Goal
    <2>1. CASE Receive(w)
      <3>1. Head(tasks) \in Payloads /\ fate[Head(tasks)] = "queued"
        BY <2>1 DEF Receive, Backlog
      <3> QED
        BY <2>1, <3>1 DEF Receive
    <2>2. ASSUME NEW result \in Results, RunTask(w, result) PROVE Goal
      BY <2>2 DEF RunTask, Step
    <2>3. CASE UNCHANGED fate
      BY <2>3
    <2> QED
      BY <1>3, <2>1, <2>2, <2>3
         DEF WorkerStep, Exit, EndTaskError, MarkDone
  <1>4. CASE UNCHANGED fate
    BY <1>4
  <1>5. ASSUME NEW f \in FlushCalls, FlushStep(f) PROVE Goal
    BY <1>4, <1>5 DEF FlushStep, Wait, Woken, EndFlush, ExpireFlush
  <1>6. ASSUME NEW k \in Closers, CloseStep(k) PROVE Goal
    BY <1>4, <1>6 DEF CloseStep, AskLock, CloseTasks, JoinWorkers
  <1> QED
    BY <1>1, <1>2, <1>3, <1>4, <1>5, <1>6
       DEF Next, Running, Application, Capture, CaptureInOnError, Flush, Close,
           vars

LEMMA WaitingInit == Init => Waiting
  BY DEF Init, Waiting

LEMMA WaitingStep ==
  Shape /\ Lifecycle /\ Bookkeeping /\ Counting /\ Waiting /\ [Next]_vars
    => Waiting'
  <1> SUFFICES ASSUME Shape, Lifecycle, Bookkeeping, Counting, Waiting,
                      [Next]_vars
               PROVE  Waiting'
    OBVIOUS
  <1> USE DEF Waiting, captureVars, poolVars, flushVars, closeVars
  <1>A. \A p \in Payloads :
          fate[p] # "none" =>
            fate'[p] # "none" /\ (p \in Unsettled' => p \in Unsettled)
    BY FateIsFinal
  <1>B. ASSUME UNCHANGED <<flush, owed>>,
               \A f \in FlushCalls : waiter'[f] = "done" <=> waiter[f] = "done"
        PROVE  Waiting'
    BY <1>A, <1>B DEF Shape
  <1>C. ASSUME PendingDone, UNCHANGED <<flush, owed>> PROVE Waiting'
    <2>1. \A f \in FlushCalls : waiter'[f] = "done" <=> waiter[f] = "done"
      BY <1>C DEF PendingDone, ReleaseWaiters, Shape
    <2> QED
      BY <1>B, <1>C, <2>1
  <1>D. ASSUME NEW f \in FlushCalls, StartFlush(f), UNCHANGED fate
        PROVE  Waiting'
    <2>1. /\ owed'[f] = Unsettled /\ flush'[f] = "waiting"
          /\ waiter'[f] = "entering"
          /\ \A g \in FlushCalls \ {f} : /\ owed'[g] = owed[g]
                                         /\ flush'[g] = flush[g]
                                         /\ waiter'[g] = waiter[g]
      BY <1>D DEF StartFlush, Shape
    <2>2. \A p \in Unsettled : fate[p] # "none"
      BY DEF Unsettled
    <2>3. Unsettled' = Unsettled
      BY <1>D DEF Unsettled
    <2> QED
      BY <1>D, <2>1, <2>2, <2>3
  <1>E. ASSUME NEW f \in FlushCalls, pending = 0, UNCHANGED <<fate, flush, owed>>,
               \A g \in FlushCalls \ {f} : waiter'[g] = waiter[g]
        PROVE  Waiting' \/ waiter'[f] # "done"
    <2>1. Outstanding = {}
      BY <1>E, SubsetsFinite, FS_EmptySet DEF Counting
    <2>2. Unsettled = {}
      BY <2>1 DEF Bookkeeping, Holding, Unsettled, Outstanding
    <2> QED
      BY <1>E, <2>2 DEF Unsettled, Shape
  <1>1. ASSUME UNCHANGED <<waiter, flush, owed>> PROVE Waiting'
    BY <1>1, <1>B
  <1>2. ASSUME NEW p \in Payloads, CaptureStep(p) PROVE Waiting'
    BY <1>1, <1>2, <1>C
       DEF CaptureStep, ApplyBeforeSend, EndFilterError, Enqueue, AddPending,
           Offer, Refuse, Drop, EndEnqueue
  <1>3. ASSUME NEW w \in Workers, WorkerStep(w) PROVE Waiting'
    BY <1>1, <1>3, <1>C
       DEF WorkerStep, Receive, Exit, RunTask, EndTaskError, MarkDone
  <1>4. ASSUME NEW f \in FlushCalls, FlushStep(f) PROVE Waiting'
    <2>1. CASE Wait(f)
      <3>1. CASE pending = 0
        <4>1. waiter'[f] = "done" /\ \A g \in FlushCalls \ {f} : waiter'[g] = waiter[g]
          BY <2>1, <3>1 DEF Wait, Shape
        <4> QED
          BY <2>1, <3>1, <4>1, <1>E DEF Wait
      <3>2. CASE pending # 0
        BY <2>1, <3>2, <1>B DEF Wait, Shape
      <3> QED
        BY <3>1, <3>2
    <2>2. CASE Woken(f)
      <3>1. CASE pending = 0
        <4>1. waiter'[f] = "done" /\ \A g \in FlushCalls \ {f} : waiter'[g] = waiter[g]
          BY <2>2, <3>1 DEF Woken, Shape
        <4> QED
          BY <2>2, <3>1, <4>1, <1>E DEF Woken
      <3>2. CASE pending # 0
        BY <2>2, <3>2, <1>1 DEF Woken
      <3> QED
        BY <3>1, <3>2
    <2>3. CASE EndFlush(f)
      BY <2>3 DEF EndFlush, Shape, Unsettled
    <2>4. CASE ExpireFlush(f)
      BY <2>4 DEF ExpireFlush, Shape, Unsettled
    <2> QED
      BY <1>4, <2>1, <2>2, <2>3, <2>4 DEF FlushStep
  <1>5. ASSUME NEW k \in Closers, CloseStep(k) PROVE Waiting'
    BY <1>1, <1>5 DEF CloseStep, AskLock, CloseTasks, JoinWorkers
  <1>6. ASSUME NEW f \in Flushers, Flush(f) PROVE Waiting'
    BY <1>6, <1>D DEF Flush, FlushCalls
  <1>7. ASSUME NEW k \in Closers, Close(k) PROVE Waiting'
    BY <1>7, <1>D DEF Close, FlushCalls
  <1> QED
    BY <1>1, <1>2, <1>3, <1>4, <1>5, <1>6, <1>7
       DEF Next, Running, Application, Capture, CaptureInOnError, vars

-----------------------------------------------------------------------------
(***************************************************************************)
(* The inductive invariant, and what follows from it.                      *)
(***************************************************************************)
Inv == Shape /\ Lifecycle /\ Bookkeeping /\ Counting /\ Waiting

THEOREM Invariance == Spec => []Inv
  <1>1. Init => Inv
    BY ShapeInit, LifecycleInit, BookkeepingInit, CountingInit, WaitingInit
       DEF Inv
  <1>2. Inv /\ [Next]_vars => Inv'
    BY ShapeStep, LifecycleStep, BookkeepingStep, CountingStep, WaitingStep
       DEF Inv
  <1> QED
    BY <1>1, <1>2, PTL DEF Spec

\* Every variable keeps its type, the wait group's counter never goes below zero
\* and the channel never holds more than its capacity (client.go:457-461, 503).
THEOREM TypeCorrect == Spec => []TypeOK
  <1>1. Inv => TypeOK
    BY SubsetsFinite, FS_CardinalityType DEF Inv, TypeOK, Counting
  <1> QED
    BY <1>1, Invariance, PTL

\* The wait group counts exactly the outstanding payloads (client.go:457-462, 517).
THEOREM PendingIsExact == Spec => []PendingMatchesWork
  <1>1. Inv => PendingMatchesWork
    BY DEF Inv, Counting, PendingMatchesWork
  <1> QED
    BY <1>1, Invariance, PTL

\* A pool that Close has told to stop and that is over leaves nothing unsettled.
LEMMA OverMeansDrained ==
  ASSUME Inv, closed, PoolIsOver
  PROVE  tasks = <<>> /\ Unsettled = {}
  <1> USE DEF Inv, Shape, Lifecycle, PoolIsOver
  <1>1. tasks = <<>>
    <2>1. CASE started
      BY <2>1, WorkersFinite
    <2>2. CASE ~started
      BY <2>2
    <2> QED
      BY <2>1, <2>2
  <1>2. \A p \in Payloads : fate[p] # "queued"
    BY <1>1 DEF Bookkeeping, Backlog
  <1>3. \A p \in Payloads : fate[p] # "inflight"
    BY DEF Bookkeeping, Holding
  <1> QED
    BY <1>1, <1>2, <1>3 DEF Unsettled

\* Close leaves nothing behind: no sender, and no accepted payload that was not
\* attempted (client.go:383-400).
THEOREM CloseDrains == Spec => []StoppedMeansDrained
  <1>1. ASSUME Inv, NEW k \in Closers, closing[k] = "stopped" PROVE Drained
    <2>1. closed /\ PoolIsOver
      BY <1>1 DEF Inv, Lifecycle
    <2> QED
      BY <1>1, <2>1, OverMeansDrained DEF Drained, PoolIsOver
  <1>2. Inv => StoppedMeansDrained
    BY <1>1 DEF StoppedMeansDrained
  <1> QED
    BY <1>2, Invariance, PTL

\* No capture returns with its payload unaccounted for, and Dropped() counts each
\* dropped payload once (client.go:446-483).
THEOREM LossIsCounted == Spec => []NothingLostSilently
  <1>1. Inv => NothingLostSilently
    BY DEF Inv, Bookkeeping, Ledger, Undecided, Counting, DroppedPayloads,
           NothingLostSilently
  <1> QED
    BY <1>1, Invariance, PTL

\* A Flush that returns in time has seen everything it owed settled
\* (client.go:361-378).
THEOREM FlushIsComplete == Spec => []FlushCovers
  <1>1. Inv => FlushCovers
    BY DEF Inv, Waiting, FlushCovers
  <1> QED
    BY <1>1, Invariance, PTL

-----------------------------------------------------------------------------
(***************************************************************************)
(* Nobody waits in vain.  What a parked Flush waits for, a counter that is *)
(* not zero, is work that somebody has in hand.  The captures that OnError *)
(* makes inside one another are not in a circle, since each is made once,  *)
(* so the innermost waits for no callback.                                 *)
(***************************************************************************)
Parked == \A f \in FlushCalls : waiter[f] = "parked" => pending # 0

Nesting ==
  /\ ~OnErrorCaptures => \A c \in Payloads \cup Workers : callee[c] = NoPayload
  /\ \A p \in Payloads : call[p] = "idle" => callee[p] = NoPayload
  /\ \A c \in Payloads \cup Workers : \A p \in Payloads :
       callee[c] = p => call[p] # "idle"
  /\ \A T \in SUBSET Payloads : T # {} => \E p \in T : callee[p] \notin T

\* OnError does not capture, or nothing closes the client.
QuietCallbacks == OnErrorCaptures => Closers = {}

LEMMA CallersApart == Payloads \cap Workers = {}
  <1>1. Workers \subseteq Nat
    BY SendQueueAssumption DEF SendQueueAssumption, Workers, Concurrency
  <1> QED
    BY <1>1, SendQueueAssumption DEF SendQueueAssumption

LEMMA PendingIsNatural == Counting => pending \in Nat
  BY SubsetsFinite, FS_CardinalityType DEF Counting

LEMMA ParkedStep == Shape /\ Counting /\ Parked /\ [Next]_vars => Parked'
  <1> SUFFICES ASSUME Shape, Counting, Parked, [Next]_vars PROVE Parked'
    OBVIOUS
  <1> USE DEF Parked, captureVars, poolVars, flushVars, closeVars
  <1>0. pending \in Nat
    BY PendingIsNatural
  <1>A. ASSUME UNCHANGED pending,
               \A f \in FlushCalls : waiter'[f] = "parked" => waiter[f] = "parked"
        PROVE  Parked'
    BY <1>A
  <1>B. ASSUME PendingDone PROVE Parked'
    <2>1. CASE pending = 1
      BY <1>B, <2>1 DEF PendingDone, ReleaseWaiters
    <2>2. CASE pending # 1
      BY <1>0, <1>B, <2>2 DEF PendingDone
    <2> QED
      BY <2>1, <2>2
  <1>C. ASSUME NEW f \in FlushCalls, StartFlush(f), UNCHANGED pending
        PROVE  Parked'
    BY <1>A, <1>C DEF StartFlush, Shape
  <1>1. ASSUME UNCHANGED <<pending, waiter>> PROVE Parked'
    BY <1>A, <1>1
  <1>2. ASSUME NEW p \in Payloads, CaptureStep(p) PROVE Parked'
    <2>1. CASE AddPending(p)
      BY <1>0, <2>1 DEF AddPending, PendingAdd
    <2>2. CASE Refuse(p)
      BY <1>B, <2>2 DEF Refuse
    <2> QED
      BY <1>1, <1>2, <2>1, <2>2
         DEF CaptureStep, ApplyBeforeSend, EndFilterError, Enqueue, Offer, Drop,
             EndEnqueue
  <1>3. ASSUME NEW w \in Workers, WorkerStep(w) PROVE Parked'
    BY <1>1, <1>3, <1>B
       DEF WorkerStep, Receive, Exit, RunTask, EndTaskError, MarkDone
  <1>4. ASSUME NEW f \in FlushCalls, FlushStep(f) PROVE Parked'
    <2>1. CASE Wait(f)
      BY <2>1 DEF Wait, Shape
    <2>2. CASE Woken(f)
      BY <1>A, <2>2 DEF Woken, Shape
    <2>3. CASE EndFlush(f) \/ ExpireFlush(f)
      BY <1>1, <2>3 DEF EndFlush, ExpireFlush
    <2> QED
      BY <1>4, <2>1, <2>2, <2>3 DEF FlushStep
  <1>5. ASSUME NEW k \in Closers, CloseStep(k) PROVE Parked'
    BY <1>1, <1>5 DEF CloseStep, AskLock, CloseTasks, JoinWorkers
  <1>6. ASSUME NEW f \in Flushers, Flush(f) PROVE Parked'
    BY <1>6, <1>C DEF Flush, FlushCalls
  <1>7. ASSUME NEW k \in Closers, Close(k) PROVE Parked'
    BY <1>7, <1>C DEF Close, FlushCalls
  <1> QED
    BY <1>1, <1>2, <1>3, <1>4, <1>5, <1>6, <1>7
       DEF Next, Running, Application, Capture, CaptureInOnError, vars

LEMMA NestingInit == Init => Nesting
  <1> SUFFICES ASSUME Init PROVE Nesting
    OBVIOUS
  <1>1. /\ \A c \in Payloads \cup Workers : callee[c] = NoPayload
        /\ NoPayload \notin Payloads
    BY SendQueueAssumption DEF Init, SendQueueAssumption
  <1> QED
    BY <1>1 DEF Nesting

LEMMA NestingStep == Shape /\ Nesting /\ [Next]_vars => Nesting'
  <1> SUFFICES ASSUME Shape, Nesting, [Next]_vars PROVE Nesting'
    OBVIOUS
  <1> USE DEF captureVars, poolVars, flushVars, closeVars
  <1>A. ASSUME UNCHANGED callee,
               \A p \in Payloads : call'[p] = "idle" <=> call[p] = "idle"
        PROVE  Nesting'
    BY <1>A DEF Nesting
  <1>B. ASSUME NEW p \in Payloads, NEW from \in CallSteps \ {"idle"},
               NEW to \in CallSteps \ {"idle"}, Move(p, from, to),
               UNCHANGED callee
        PROVE  Nesting'
    BY <1>A, <1>B DEF Move, Shape
  <1>C. ASSUME NEW p \in Payloads, Begin(p)
        PROVE  /\ call[p] = "idle" /\ call'[p] # "idle"
               /\ \A q \in Payloads \ {p} : call'[q] = call[q]
    BY <1>C DEF Begin, Move, Shape
  <1>1. ASSUME NEW p \in Payloads, Capture(p) PROVE Nesting'
    BY <1>1, <1>C DEF Capture, Nesting
  <1>2. ASSUME NEW c \in Payloads \cup Workers, NEW p \in Payloads,
               CaptureInOnError(c, p)
        PROVE  Nesting'
    <2>1. /\ OnErrorCaptures
          /\ c \in Payloads => call[c] # "idle"
          /\ callee' = [callee EXCEPT ![c] = p]
      BY <1>2, CallersApart DEF CaptureInOnError
    <2>2. /\ call[p] = "idle" /\ call'[p] # "idle" /\ c # p
          /\ \A q \in Payloads \ {p} : call'[q] = call[q]
      BY <1>2, <1>C, <2>1 DEF CaptureInOnError
    <2>3. /\ callee'[c] = p
          /\ \A d \in (Payloads \cup Workers) \ {c} : callee'[d] = callee[d]
      BY <2>1 DEF Shape
    <2>4. callee[p] = NoPayload /\ callee'[p] = NoPayload
      BY <2>2, <2>3 DEF Nesting
    <2>5. ASSUME NEW T \in SUBSET Payloads, T # {}
          PROVE  \E q \in T : callee'[q] \notin T
      <3>1. CASE p \in T
        BY <2>4, <3>1, SendQueueAssumption DEF SendQueueAssumption
      <3>2. CASE p \notin T
        <4>1. PICK q \in T : callee[q] \notin T
          BY <2>5 DEF Nesting
        <4>2. callee'[q] \notin T
          BY <2>3, <3>2, <4>1
        <4> QED
          BY <4>2
      <3> QED
        BY <3>1, <3>2
    <2>6. \A q \in Payloads : call'[q] = "idle" => callee'[q] = NoPayload
      BY <2>1, <2>2, <2>3 DEF Nesting
    <2>7. \A d \in Payloads \cup Workers : \A q \in Payloads :
            callee'[d] = q => call'[q] # "idle"
      BY <2>2, <2>3 DEF Nesting
    <2> QED
      BY <2>1, <2>5, <2>6, <2>7 DEF Nesting
  <1>3. ASSUME NEW p \in Payloads, CaptureStep(p) PROVE Nesting'
    <2>1. ASSUME NEW verdict \in Verdicts, ApplyBeforeSend(p, verdict)
          PROVE  Nesting'
      BY <2>1, <1>B DEF ApplyBeforeSend, CallSteps
    <2>2. CASE Enqueue(p)
      BY <2>2, <1>B DEF Enqueue, CallSteps
    <2>3. CASE EndFilterError(p) \/ AddPending(p) \/ Offer(p)
      BY <2>3, <1>B DEF EndFilterError, AddPending, Offer, CallSteps
    <2>4. CASE Refuse(p) \/ Drop(p) \/ EndEnqueue(p)
      BY <2>4, <1>B DEF Refuse, Drop, EndEnqueue, CallSteps
    <2> QED
      BY <1>3, <2>1, <2>2, <2>3, <2>4 DEF CaptureStep
  <1>4. ASSUME NEW w \in Workers, WorkerStep(w) PROVE Nesting'
    <2>1. CASE EndTaskError(w)
      <3>1. /\ callee'[w] = NoPayload
            /\ \A c \in (Payloads \cup Workers) \ {w} : callee'[c] = callee[c]
            /\ UNCHANGED call
        BY <2>1 DEF EndTaskError, Shape
      <3>2. \A p \in Payloads : callee'[p] = callee[p]
        BY <3>1, CallersApart
      <3> QED
        BY <3>1, <3>2, SendQueueAssumption DEF Nesting, SendQueueAssumption
    <2> QED
      BY <1>A, <1>4, <2>1 DEF WorkerStep, Receive, Exit, RunTask, MarkDone
  <1>5. ASSUME NEW f \in FlushCalls, FlushStep(f) PROVE Nesting'
    BY <1>A, <1>5 DEF FlushStep, Wait, Woken, EndFlush, ExpireFlush
  <1>6. ASSUME NEW k \in Closers, CloseStep(k) PROVE Nesting'
    BY <1>A, <1>6 DEF CloseStep, AskLock, CloseTasks, JoinWorkers
  <1>7. ASSUME UNCHANGED <<call, callee>> PROVE Nesting'
    BY <1>A, <1>7
  <1> QED
    BY <1>1, <1>2, <1>3, <1>4, <1>5, <1>6, <1>7
       DEF Next, Running, Application, Flush, Close, vars

\* A callback returns, or a capture inside it goes on.
LEMMA CallbacksReturn ==
  ASSUME Shape, Nesting, QuietCallbacks, Verdicts # {},
         NEW c \in Payloads \cup Workers
  PROVE  CallbackOver(c) \/ CapturesGoOn
  <1>0. NoPayload \notin Payloads
    BY SendQueueAssumption DEF SendQueueAssumption
  <1>1. CASE ~OnErrorCaptures
    BY <1>0, <1>1 DEF Nesting, CallbackOver
  <1>2. CASE OnErrorCaptures
    <2> DEFINE T == {p \in Payloads : call[p] \notin {"idle", "returned"}}
    <2>1. CASE T = {}
      <3>1. \A p \in Payloads : callee[c] = p => call[p] = "returned"
        BY <2>1 DEF Nesting
      <3> QED
        BY <3>1 DEF CallbackOver
    <2>2. CASE T # {}
      <3>1. PICK p \in T : callee[p] \notin T
        BY <2>2 DEF Nesting
      <3>2. CallbackOver(p)
        BY <3>1 DEF Nesting, CallbackOver
      <3>3. MayReadLock
        BY <1>2 DEF QuietCallbacks, MayReadLock
      <3>4. CaptureGoesOn(p)
        BY <3>2, <3>3 DEF CaptureGoesOn, Shape, CallSteps
      <3> QED
        BY <3>4 DEF CapturesGoOn
    <2> QED
      BY <2>1, <2>2
  <1> QED
    BY <1>1, <1>2

\* A capture that holds closeMu for reading goes on to release it.
LEMMA ReadersGoOn ==
  ASSUME Shape, Nesting, QuietCallbacks, Verdicts # {},
         NEW p \in Payloads, ReadLocked(p)
  PROVE  CapturesGoOn
  <1>1. CASE CallbackOver(p)
    <2>1. CaptureGoesOn(p)
      BY <1>1 DEF ReadLocked, CaptureGoesOn
    <2> QED
      BY <2>1 DEF CapturesGoOn
  <1> QED
    BY <1>1, CallbacksReturn

\* A Close that has asked for closeMu gets it, or a reader is on its way out.
LEMMA TheLockComesFree ==
  ASSUME Shape, Nesting, QuietCallbacks, Verdicts # {},
         NEW k \in Closers, Announced(k)
  PROVE  CapturesGoOn \/ WriterGoesOn
  <1>1. CASE \E p \in Payloads : ReadLocked(p)
    BY <1>1, ReadersGoOn
  <1>2. CASE \A p \in Payloads : ~ReadLocked(p)
    BY <1>2 DEF WriterGoesOn, CloseGoesOn, Announced
  <1> QED
    BY <1>1, <1>2

LEMMA CapturesProceed ==
  ASSUME Shape, Nesting, QuietCallbacks, Verdicts # {}, NEW p \in Payloads,
         call[p] \notin {"idle", "returned"}
  PROVE  CapturesGoOn \/ WriterGoesOn
  <1>1. CASE call[p] \in {"filter", "filterError"}
    <2>1. CASE CallbackOver(p)
      BY <1>1, <2>1 DEF CapturesGoOn, CaptureGoesOn
    <2> QED
      BY <2>1, CallbacksReturn
  <1>2. CASE call[p] = "enqueue"
    <2>1. CASE MayReadLock
      BY <1>2, <2>1 DEF CapturesGoOn, CaptureGoesOn
    <2>2. CASE ~MayReadLock
      BY <2>2, TheLockComesFree DEF MayReadLock
    <2> QED
      BY <2>1, <2>2
  <1>3. CASE ReadLocked(p)
    BY <1>3, ReadersGoOn
  <1> QED
    BY <1>1, <1>2, <1>3 DEF Shape, CallSteps, ReadLocked

LEMMA BusyWorkersProceed ==
  ASSUME Shape, Nesting, QuietCallbacks, Verdicts # {}, Results # {},
         NEW w \in Workers, worker[w] \in Busy
  PROVE  CapturesGoOn \/ WorkerGoesOn(w)
  <1>1. CASE CallbackOver(w)
    BY <1>1 DEF Busy, WorkerGoesOn
  <1> QED
    BY <1>1, CallbacksReturn

LEMMA PoolProceeds ==
  ASSUME Shape, Lifecycle, Nesting, QuietCallbacks, Verdicts # {}, Results # {},
         NEW w \in Workers, worker[w] \notin {"off", "exited"},
         tasks # <<>> \/ chanClosed
  PROVE  CapturesGoOn \/ WorkersGoOn
  <1>1. CASE worker[w] \in Busy
    BY <1>1, BusyWorkersProceed DEF WorkersGoOn
  <1>2. CASE worker[w] = "receive"
    BY <1>2 DEF WorkersGoOn, WorkerGoesOn
  <1> QED
    BY <1>1, <1>2 DEF Shape, WorkerSteps, Busy

\* While the pending group is not at zero somebody has a payload in hand.
LEMMA PendingProceeds ==
  ASSUME Inv, Nesting, QuietCallbacks, Verdicts # {}, Results # {}, pending # 0
  PROVE  CapturesGoOn \/ WorkersGoOn
  <1>0. Shape /\ Lifecycle /\ Bookkeeping /\ Counting
    BY DEF Inv
  <1>1. Outstanding # {}
    BY <1>0, FS_EmptySet DEF Counting
  <1>2. PICK p \in Payloads : \/ call[p] = "send"
                              \/ fate[p] = "queued"
                              \/ \E w \in Workers : job[w] = p
    BY <1>1 DEF Outstanding
  <1>3. CASE call[p] = "send"
    BY <1>3 DEF CapturesGoOn, CaptureGoesOn
  <1>4. CASE fate[p] = "queued"
    <2>1. tasks # <<>>
      BY <1>0, <1>4 DEF Bookkeeping, Backlog
    <2>2. started /\ worker[1] \notin {"off", "exited"}
      BY <1>0, <2>1, WorkersFinite DEF Lifecycle
    <2> QED
      BY <1>0, <2>1, <2>2, WorkersFinite, PoolProceeds
  <1>5. CASE \E w \in Workers : job[w] = p
    <2>1. PICK w \in Workers : job[w] = p
      BY <1>5
    <2>2. worker[w] \in Busy
      BY <1>0, <2>1, SendQueueAssumption
         DEF Bookkeeping, Holding, SendQueueAssumption
    <2> QED
      BY <1>0, <2>2, BusyWorkersProceed DEF WorkersGoOn
  <1> QED
    BY <1>2, <1>3, <1>4, <1>5

LEMMA ClosesProceed ==
  ASSUME Inv, Nesting, QuietCallbacks, Verdicts # {}, Results # {},
         NEW k \in Closers
  PROVE  /\ closing[k] \in {"flush", "lock"} /\ flush[k] # "waiting" =>
              CloseGoesOn(k) \/ CapturesGoOn \/ WriterGoesOn
         /\ closing[k] = "join" => CloseGoesOn(k) \/ CapturesGoOn \/ WorkersGoOn
  <1>0. Shape /\ Lifecycle
    BY DEF Inv
  <1>1. ASSUME closing[k] = "flush", flush[k] # "waiting"
        PROVE  CloseGoesOn(k) \/ CapturesGoOn \/ WriterGoesOn
    <2>1. CASE MayReadLock
      BY <1>1, <2>1 DEF CloseGoesOn
    <2>2. CASE ~MayReadLock
      BY <1>0, <2>2, TheLockComesFree DEF MayReadLock
    <2> QED
      BY <2>1, <2>2
  <1>2. ASSUME closing[k] = "lock"
        PROVE  CapturesGoOn \/ WriterGoesOn
    BY <1>0, <1>2, TheLockComesFree DEF Announced
  <1>3. ASSUME closing[k] = "join"
        PROVE  CloseGoesOn(k) \/ CapturesGoOn \/ WorkersGoOn
    <2>1. CASE PoolIsOver
      BY <1>3, <2>1 DEF CloseGoesOn
    <2>2. CASE ~PoolIsOver
      <3>1. PICK w \in Workers : worker[w] \notin {"off", "exited"}
        BY <2>2 DEF PoolIsOver
      <3>2. chanClosed
        BY <1>0, <1>3, <3>1 DEF Lifecycle
      <3> QED
        BY <1>0, <3>1, <3>2, PoolProceeds
    <2> QED
      BY <2>1, <2>2
  <1> QED
    BY <1>1, <1>2, <1>3

\* No lock, channel or wait group has everyone waiting on everyone, where OnError
\* captures nothing or nothing closes the client, BeforeSend returns or panics and a
\* send ends (client.go:361-400, 446-463, 503-518).
THEOREM NobodyIsStuck ==
  ASSUME QuietCallbacks, Verdicts # {}, Results # {}
  PROVE  Spec => []NobodyWaitsInVain
  <1> DEFINE Waits == Parked /\ Nesting
  <1>1. Init => Waits
    BY NestingInit DEF Init, Parked
  <1>2. Inv /\ Waits /\ [Next]_vars => Waits'
    BY ParkedStep, NestingStep DEF Inv
  <1>3. ASSUME Inv, Waits PROVE NobodyWaitsInVain
    <2>1. \A p \in Payloads :
            call[p] \notin {"idle", "returned"} => CapturesGoOn \/ WriterGoesOn
      BY <1>3, CapturesProceed DEF Inv
    <2>2. \A w \in Workers :
            worker[w] \in {"sending", "taskError", "mark"} =>
              CapturesGoOn \/ WorkerGoesOn(w)
      BY <1>3, BusyWorkersProceed DEF Inv, Busy
    <2>3. \A f \in FlushCalls :
            waiter[f] = "parked" => CapturesGoOn \/ WorkersGoOn
      BY <1>3, PendingProceeds DEF Parked
    <2>4. \A k \in Closers :
            /\ closing[k] \in {"flush", "lock"} /\ flush[k] # "waiting" =>
                 CloseGoesOn(k) \/ CapturesGoOn \/ WriterGoesOn
            /\ closing[k] = "join" =>
                 CloseGoesOn(k) \/ CapturesGoOn \/ WorkersGoOn
      BY <1>3, ClosesProceed
    <2> QED
      BY <2>1, <2>2, <2>3, <2>4 DEF NobodyWaitsInVain
  <1>4. Inv /\ Waits => NobodyWaitsInVain
    BY <1>3
  <1> HIDE DEF Waits
  <1> QED
    BY <1>1, <1>2, <1>4, Invariance, PTL DEF Spec

\* The client comes to a halt only where all is done: every capture and Close that was
\* called has returned, no task is left with a sender and no goroutine of a Flush waits
\* (client.go:361-524).
THEOREM NoDeadlock ==
  ASSUME QuietCallbacks, Verdicts # {}, Results # {}
  PROVE  Spec => []HaltMeansRest
  <1>1. ASSUME Shape, NobodyWaitsInVain, crash = "none", ~SomebodyGoesOn
        PROVE  AtRest
    <2>1. /\ ~CapturesGoOn /\ ~WriterGoesOn
          /\ \A w \in Workers : ~WorkerGoesOn(w)
          /\ \A k \in Closers : ~CloseGoesOn(k)
          /\ \A f \in FlushCalls :
               flush[f] # "waiting" /\ waiter[f] \notin {"entering", "woken"}
      BY <1>1 DEF SomebodyGoesOn, WorkersGoOn, WriterGoesOn
    <2>2. \A p \in Payloads : call[p] \in {"idle", "returned"}
      BY <1>1, <2>1 DEF NobodyWaitsInVain
    <2>3. \A w \in Workers : worker[w] \in {"off", "receive", "exited"}
      BY <1>1, <2>1 DEF NobodyWaitsInVain, Shape, WorkerSteps
    <2>4. \A f \in FlushCalls : waiter[f] \in {"none", "done"}
      BY <1>1, <2>1 DEF NobodyWaitsInVain, Shape, WorkersGoOn
    <2>5. \A k \in Closers : closing[k] \in {"idle", "already", "stopped"}
      <3>1. \A k \in Closers : k \in FlushCalls
        BY DEF FlushCalls
      <3> QED
        BY <1>1, <2>1, <3>1 DEF NobodyWaitsInVain, Shape, WorkersGoOn
    <2> QED
      BY <2>1, <2>2, <2>3, <2>4, <2>5 DEF AtRest
  <1>2. Inv /\ NobodyWaitsInVain => HaltMeansRest
    BY <1>1 DEF Inv, HaltMeansRest
  <1> QED
    BY <1>2, NobodyIsStuck, Invariance, PTL

-----------------------------------------------------------------------------
(***************************************************************************)
(* Every step gets something farther, and none undoes what is done.        *)
(***************************************************************************)
LEMMA RanksAreNumbers ==
  /\ \A at \in CallSteps : CallRank(at) \in Nat
  /\ \A at \in WorkerSteps : WorkerRank(at) \in Nat
  /\ \A at \in {"idle", "waiting", "flushed", "timedout"} : FlushRank(at) \in Nat
  /\ \A at \in {"none", "entering", "parked", "woken", "done"} : WaiterRank(at) \in Nat
  /\ \A at \in {"idle", "flush", "lock", "join", "already", "stopped"} :
       CloseRank(at) \in Nat
  <1>1. \A at \in CallSteps : CallRank(at) \in Nat
    BY DEF CallSteps, CallRank
  <1>2. \A at \in WorkerSteps : WorkerRank(at) \in Nat
    BY DEF WorkerRank
  <1>3. \A at \in {"idle", "waiting", "flushed", "timedout"} : FlushRank(at) \in Nat
    BY DEF FlushRank
  <1>4. \A at \in {"none", "entering", "parked", "woken", "done"} : WaiterRank(at) \in Nat
    BY DEF WaiterRank
  <1>5. \A at \in {"idle", "flush", "lock", "join", "already", "stopped"} :
          CloseRank(at) \in Nat
    BY DEF CloseRank
  <1> QED
    BY <1>1, <1>2, <1>3, <1>4, <1>5

LEMMA CallRankCases ==
  /\ CallRank("idle") = 0 /\ CallRank("filter") = 1
  /\ CallRank("filterError") = 2 /\ CallRank("enqueue") = 2
  /\ CallRank("add") = 3 /\ CallRank("send") = 4 /\ CallRank("drop") = 5
  /\ CallRank("dropError") = 6 /\ CallRank("unlock") = 6
  /\ CallRank("returned") = 7
  BY DEF CallRank

LEMMA FateRankCases ==
  ASSUME NEW p \in Payloads
  PROVE  /\ fate[p] = "none" => FateRank(p) = 0
         /\ fate[p] = "queued" => FateRank(p) = 1
         /\ fate[p] = "inflight" => FateRank(p) = 2
         /\ fate[p] \in {"delivered", "failed"} =>
              FateRank(p) = IF InHand(p, "taskError") THEN 3
                            ELSE IF InHand(p, "mark") THEN 4 ELSE 5
         /\ fate[p] \in {"withheld", "dropped"} => FateRank(p) = 5
  BY DEF FateRank

LEMMA NextFateRankCases ==
  ASSUME NEW p \in Payloads
  PROVE  /\ fate'[p] = "none" => FateRank(p)' = 0
         /\ fate'[p] = "queued" => FateRank(p)' = 1
         /\ fate'[p] = "inflight" => FateRank(p)' = 2
         /\ fate'[p] \in {"delivered", "failed"} =>
              FateRank(p)' = IF InHand(p, "taskError")' THEN 3
                             ELSE IF InHand(p, "mark")' THEN 4 ELSE 5
         /\ fate'[p] \in {"withheld", "dropped"} => FateRank(p)' = 5
  BY DEF FateRank

LEMMA FateRankIsNumber ==
  ASSUME Shape, NEW p \in Payloads
  PROVE  FateRank(p) \in Nat
  BY FateRankCases DEF Shape, Fates

LEMMA NextFateRankIsNumber ==
  ASSUME Shape', NEW p \in Payloads
  PROVE  FateRank(p)' \in Nat
  BY NextFateRankCases DEF Shape, Fates

\* What a step leaves alone is as far as it was.
LEMMA RanksOfTheRest ==
  ASSUME Shape
  PROVE  /\ UNCHANGED call =>
              \A p \in Payloads : CallRank(call'[p]) >= CallRank(call[p])
         /\ UNCHANGED worker =>
              \A w \in Workers : WorkerRank(worker'[w]) >= WorkerRank(worker[w])
         /\ UNCHANGED flush =>
              \A f \in FlushCalls : FlushRank(flush'[f]) >= FlushRank(flush[f])
         /\ UNCHANGED waiter =>
              \A f \in FlushCalls : WaiterRank(waiter'[f]) >= WaiterRank(waiter[f])
         /\ UNCHANGED closing =>
              \A k \in Closers : CloseRank(closing'[k]) >= CloseRank(closing[k])
  <1>1. /\ \A p \in Payloads : CallRank(call[p]) \in Nat
        /\ \A w \in Workers : WorkerRank(worker[w]) \in Nat
        /\ \A f \in FlushCalls : FlushRank(flush[f]) \in Nat
        /\ \A f \in FlushCalls : WaiterRank(waiter[f]) \in Nat
        /\ \A k \in Closers : CloseRank(closing[k]) \in Nat
    BY RanksAreNumbers DEF Shape
  <1> QED
    BY <1>1

LEMMA MoveAdvances ==
  ASSUME Shape, NEW p \in Payloads, NEW from \in CallSteps, NEW to \in CallSteps,
         Move(p, from, to), CallRank(to) > CallRank(from)
  PROVE  /\ \A q \in Payloads : CallRank(call'[q]) >= CallRank(call[q])
         /\ CallRank(call'[p]) > CallRank(call[p])
  <1>1. /\ call'[p] = to /\ call[p] = from
        /\ \A q \in Payloads \ {p} : call'[q] = call[q]
    BY DEF Shape, Move
  <1>2. /\ \A q \in Payloads : CallRank(call[q]) \in Nat
        /\ CallRank(to) \in Nat /\ CallRank(from) \in Nat
    BY RanksAreNumbers DEF Shape
  <1> QED
    BY <1>1, <1>2

\* The payloads that a step leaves alone, and that are in the same hands after it.
LEMMA FateRankStays ==
  ASSUME Shape, NEW p \in Payloads, fate'[p] = fate[p],
         InHand(p, "taskError")' <=> InHand(p, "taskError"),
         InHand(p, "mark")' <=> InHand(p, "mark")
  PROVE  FateRank(p)' >= FateRank(p)
  <1>1. FateRank(p)' = FateRank(p)
    BY FateRankCases, NextFateRankCases DEF Shape, Fates
  <1> QED
    BY <1>1, FateRankIsNumber

LEMMA FatesStay ==
  ASSUME Shape, UNCHANGED <<fate, worker, job>>
  PROVE  \A p \in Payloads : FateRank(p)' >= FateRank(p)
  BY FateRankStays DEF InHand

LEMMA ResolvingAdvances ==
  ASSUME Shape, NEW p \in Payloads, fate[p] = "none",
         NEW what \in {"withheld", "dropped", "queued"},
         fate' = [fate EXCEPT ![p] = what], UNCHANGED <<worker, job>>
  PROVE  \A q \in Payloads : FateRank(q)' >= FateRank(q)
  <1>1. fate'[p] = what /\ \A q \in Payloads \ {p} : fate'[q] = fate[q]
    BY DEF Shape
  <1>2. FateRank(p) = 0 /\ FateRank(p)' \in {1, 5}
    BY <1>1, FateRankCases, NextFateRankCases
  <1>3. \A q \in Payloads \ {p} : FateRank(q)' >= FateRank(q)
    BY <1>1, FateRankStays DEF InHand
  <1> QED
    BY <1>2, <1>3

LEMMA GroupAdvances ==
  ASSUME Shape, PendingDone
  PROVE  \A f \in FlushCalls : WaiterRank(waiter'[f]) >= WaiterRank(waiter[f])
  <1>1. CASE UNCHANGED waiter
    BY <1>1, RanksOfTheRest
  <1>2. CASE ReleaseWaiters
    <2>1. /\ WaiterRank("parked") = 2 /\ WaiterRank("woken") = 3
          /\ \A f \in FlushCalls : WaiterRank(waiter[f]) \in Nat
      BY RanksAreNumbers DEF WaiterRank, Shape
    <2>2. \A f \in FlushCalls : \/ waiter'[f] = waiter[f]
                                \/ waiter[f] = "parked" /\ waiter'[f] = "woken"
      BY <1>2 DEF ReleaseWaiters
    <2> QED
      BY <2>1, <2>2
  <1> QED
    BY <1>1, <1>2 DEF PendingDone

LEMMA CapturesAdvance ==
  ASSUME Inv, NEW p \in Payloads, CaptureStep(p)
  PROVE  NothingUndone /\ SomethingDone
  <1> USE DEF captureVars, poolVars, flushVars, closeVars
  <1>0. Shape /\ Lifecycle /\ Bookkeeping
    BY DEF Inv
  <1>A. ASSUME NEW from \in CallSteps, NEW to \in CallSteps, Move(p, from, to),
               CallRank(to) > CallRank(from),
               \A q \in Payloads : FateRank(q)' >= FateRank(q),
               \A w \in Workers : WorkerRank(worker'[w]) >= WorkerRank(worker[w]),
               \A f \in FlushCalls :
                 WaiterRank(waiter'[f]) >= WaiterRank(waiter[f]),
               UNCHANGED <<flush, closing>>
        PROVE  NothingUndone /\ SomethingDone
    BY <1>0, <1>A, MoveAdvances, RanksOfTheRest DEF NothingUndone, SomethingDone
  <1>B. ASSUME NEW from \in CallSteps, NEW to \in CallSteps, Move(p, from, to),
               CallRank(to) > CallRank(from),
               UNCHANGED <<fate, worker, job, waiter, flush, closing>>
        PROVE  NothingUndone /\ SomethingDone
    BY <1>0, <1>A, <1>B, FatesStay, RanksOfTheRest
  <1>C. ASSUME NEW from \in CallSteps, NEW to \in CallSteps, Move(p, from, to),
               CallRank(to) > CallRank(from), fate[p] = "none",
               NEW what \in {"withheld", "dropped", "queued"},
               fate' = [fate EXCEPT ![p] = what],
               UNCHANGED <<worker, job, waiter, flush, closing>>
        PROVE  NothingUndone /\ SomethingDone
    BY <1>0, <1>A, <1>C, ResolvingAdvances, RanksOfTheRest
  <1>D. call[p] \in {"filter", "send", "drop"} => fate[p] = "none"
    BY <1>0 DEF Bookkeeping, Ledger, Undecided
  <1>1. ASSUME NEW verdict \in Verdicts, ApplyBeforeSend(p, verdict)
        PROVE  NothingUndone /\ SomethingDone
    <2>1. call[p] = "filter" /\ UNCHANGED <<worker, job, waiter, flush, closing>>
      BY <1>1 DEF ApplyBeforeSend, Move
    <2>2. \/ Move(p, "filter", "enqueue") /\ UNCHANGED fate
          \/ /\ Move(p, "filter", "returned")
             /\ fate' = [fate EXCEPT ![p] = "withheld"]
          \/ /\ Move(p, "filter", "filterError")
             /\ fate' = [fate EXCEPT ![p] = "withheld"]
      BY <1>1 DEF ApplyBeforeSend
    <2>3. CASE Move(p, "filter", "enqueue") /\ UNCHANGED fate
      BY <1>B, <2>1, <2>3, CallRankCases DEF CallSteps
    <2>4. CASE /\ Move(p, "filter", "returned")
               /\ fate' = [fate EXCEPT ![p] = "withheld"]
      BY <1>C, <1>D, <2>1, <2>4, CallRankCases DEF CallSteps
    <2>5. CASE /\ Move(p, "filter", "filterError")
               /\ fate' = [fate EXCEPT ![p] = "withheld"]
      BY <1>C, <1>D, <2>1, <2>5, CallRankCases DEF CallSteps
    <2> QED
      BY <2>2, <2>3, <2>4, <2>5
  <1>2. CASE EndFilterError(p)
    BY <1>B, <1>2, CallRankCases DEF EndFilterError, CallSteps
  <1>3. CASE Enqueue(p)
    <2>1. CASE closed
      BY <1>B, <1>3, <2>1, CallRankCases DEF Enqueue, CallSteps
    <2>2. CASE ~closed /\ started
      <3>1. /\ Move(p, "enqueue", "add")
            /\ UNCHANGED <<fate, worker, job, waiter, flush, closing>>
        BY <1>3, <2>2 DEF Enqueue, EnsureWorkers
      <3> QED
        BY <1>B, <3>1, CallRankCases DEF CallSteps
    <2>3. CASE ~closed /\ ~started
      <3>1. /\ Move(p, "enqueue", "add")
            /\ worker' = [w \in Workers |-> "receive"]
            /\ UNCHANGED <<fate, job, waiter, flush, closing>>
        BY <1>3, <2>3 DEF Enqueue, EnsureWorkers
      <3>2. \A w \in Workers : worker[w] = "off" /\ worker'[w] = "receive"
        BY <1>0, <2>3, <3>1 DEF Lifecycle
      <3>3. \A w \in Workers : WorkerRank(worker'[w]) >= WorkerRank(worker[w])
        BY <3>2 DEF WorkerRank
      <3>4. \A q \in Payloads : /\ ~InHand(q, "taskError") /\ ~InHand(q, "taskError")'
                                /\ ~InHand(q, "mark") /\ ~InHand(q, "mark")'
        BY <3>2 DEF InHand
      <3>5. \A q \in Payloads : FateRank(q)' >= FateRank(q)
        BY <1>0, <3>1, <3>4, FateRankStays
      <3> QED
        BY <1>0, <1>A, <3>1, <3>3, <3>5, CallRankCases, RanksOfTheRest DEF CallSteps
    <2> QED
      BY <2>1, <2>2, <2>3
  <1>4. CASE AddPending(p)
    BY <1>B, <1>4, CallRankCases DEF AddPending, CallSteps
  <1>5. CASE Offer(p)
    BY <1>C, <1>D, <1>5, CallRankCases DEF Offer, Move, CallSteps
  <1>6. CASE Refuse(p)
    <2>1. /\ Move(p, "send", "drop") /\ PendingDone
          /\ UNCHANGED <<fate, worker, job, flush, closing>>
      BY <1>6 DEF Refuse
    <2> QED
      BY <1>0, <1>A, <2>1, CallRankCases, GroupAdvances, FatesStay, RanksOfTheRest
         DEF CallSteps
  <1>7. CASE Drop(p)
    BY <1>C, <1>D, <1>7, CallRankCases DEF Drop, Move, CallSteps
  <1>8. CASE EndEnqueue(p)
    <2>1. CASE Move(p, "unlock", "returned")
      BY <1>B, <1>8, <2>1, CallRankCases DEF EndEnqueue, CallSteps
    <2>2. CASE Move(p, "dropError", "returned")
      BY <1>B, <1>8, <2>2, CallRankCases DEF EndEnqueue, CallSteps
    <2> QED
      BY <1>8, <2>1, <2>2 DEF EndEnqueue
  <1> QED
    BY <1>1, <1>2, <1>3, <1>4, <1>5, <1>6, <1>7, <1>8 DEF CaptureStep

LEMMA SendersAdvance ==
  ASSUME Inv, Shape', crash = "none", NEW w \in Workers, WorkerStep(w)
  PROVE  NothingUndone /\ SomethingDone
  <1> USE DEF captureVars, poolVars, flushVars, closeVars
  <1>0. Shape /\ Lifecycle /\ Bookkeeping
    BY DEF Inv
  <1>1. \A p \in Payloads : FateRank(p) \in Nat /\ FateRank(p)' \in Nat
    BY <1>0, FateRankIsNumber, NextFateRankIsNumber
  <1>2. \A v \in Workers : WorkerRank(worker[v]) \in Nat
    BY <1>0, RanksAreNumbers DEF Shape
  <1>A. ASSUME NEW from \in Busy \cup {"receive"}, NEW to \in Busy \cup {"receive"},
               Step(w, from, to)
        PROVE  \A v \in Workers : WorkerRank(worker'[v]) >= WorkerRank(worker[v])
    <2>1. /\ worker[w] = from /\ worker'[w] = to
          /\ \A v \in Workers \ {w} : worker'[v] = worker[v]
      BY <1>0, <1>A DEF Step, Shape
    <2>2. WorkerRank(from) = 1 /\ WorkerRank(to) = 1
      BY DEF WorkerRank, Busy
    <2> QED
      BY <1>2, <2>1, <2>2
  \* The payload p in w's hands moves on, the others are where they were.
  <1>B. ASSUME NEW p \in Payloads, FateRank(p)' > FateRank(p),
               \A q \in Payloads \ {p} : FateRank(q)' >= FateRank(q),
               \A v \in Workers : WorkerRank(worker'[v]) >= WorkerRank(worker[v]),
               \A f \in FlushCalls :
                 WaiterRank(waiter'[f]) >= WaiterRank(waiter[f]),
               UNCHANGED <<call, flush, closing>>
        PROVE  NothingUndone /\ SomethingDone
    <2>1. \A q \in Payloads : FateRank(q)' >= FateRank(q)
      BY <1>1, <1>B
    <2> QED
      BY <1>0, <1>B, <2>1, RanksOfTheRest DEF NothingUndone, SomethingDone
  <1>3. CASE Receive(w)
    <2>1. PICK p : p = Head(tasks)
      OBVIOUS
    <2>2. p \in Payloads /\ fate[p] = "queued"
      BY <1>0, <1>3, <2>1 DEF Receive, Shape, Bookkeeping, Backlog
    <2>3. /\ Step(w, "receive", "sending")
          /\ job' = [job EXCEPT ![w] = p]
          /\ fate' = [fate EXCEPT ![p] = "inflight"]
          /\ UNCHANGED <<call, flush, closing, waiter>>
      BY <1>3, <2>1 DEF Receive
    <2>4. FateRank(p) = 1 /\ FateRank(p)' = 2
      BY <1>0, <2>2, <2>3, FateRankCases, NextFateRankCases DEF Shape
    <2>5. /\ worker[w] = "receive" /\ worker'[w] = "sending"
          /\ \A v \in Workers \ {w} : worker'[v] = worker[v] /\ job'[v] = job[v]
      BY <1>0, <2>3 DEF Step, Shape
    <2>6. \A q \in Payloads : /\ InHand(q, "taskError")' <=> InHand(q, "taskError")
                              /\ InHand(q, "mark")' <=> InHand(q, "mark")
      BY <2>5 DEF InHand
    <2>7. \A q \in Payloads \ {p} : FateRank(q)' >= FateRank(q)
      BY <1>0, <2>3, <2>6, FateRankStays DEF Shape
    <2>8. \A v \in Workers : WorkerRank(worker'[v]) >= WorkerRank(worker[v])
      BY <1>A, <2>3 DEF Busy
    <2> QED
      BY <1>0, <1>B, <2>2, <2>3, <2>4, <2>7, <2>8, RanksOfTheRest
  <1>4. CASE Exit(w)
    <2>1. /\ Step(w, "receive", "exited")
          /\ UNCHANGED <<call, fate, job, flush, closing, waiter>>
      BY <1>4 DEF Exit
    <2>2. /\ worker[w] = "receive" /\ worker'[w] = "exited"
          /\ \A v \in Workers \ {w} : worker'[v] = worker[v]
      BY <1>0, <2>1 DEF Step, Shape
    <2>3. \A q \in Payloads : /\ InHand(q, "taskError")' <=> InHand(q, "taskError")
                              /\ InHand(q, "mark")' <=> InHand(q, "mark")
      BY <2>1, <2>2 DEF InHand
    <2>4. \A q \in Payloads : FateRank(q)' >= FateRank(q)
      BY <1>0, <2>1, <2>3, FateRankStays
    <2>5. WorkerRank("receive") = 1 /\ WorkerRank("exited") = 2
      BY DEF WorkerRank
    <2>6. /\ WorkerRank(worker'[w]) > WorkerRank(worker[w])
          /\ \A v \in Workers : WorkerRank(worker'[v]) >= WorkerRank(worker[v])
      BY <1>2, <2>2, <2>5
    <2> QED
      BY <1>0, <2>1, <2>4, <2>6, RanksOfTheRest DEF NothingUndone, SomethingDone
  <1>5. ASSUME NEW result \in Results, RunTask(w, result)
        PROVE  NothingUndone /\ SomethingDone
    <2>1. CASE result = "panic"
      <3>1. /\ UNCHANGED <<call, fate, worker, job, flush, closing, waiter>>
            /\ crash' = "transport"
        BY <1>5, <2>1 DEF RunTask
      <3>2. \A p \in Payloads : FateRank(p)' >= FateRank(p)
        BY <1>0, <3>1, FatesStay
      <3> QED
        BY <1>0, <3>1, <3>2, RanksOfTheRest DEF NothingUndone, SomethingDone
    <2>2. CASE result # "panic"
      <3>1. PICK p : p = job[w]
        OBVIOUS
      <3>2. worker[w] = "sending" /\ UNCHANGED <<call, job, flush, closing, waiter>>
        BY <1>5, <2>2 DEF RunTask, Step
      <3>3. p \in Payloads /\ fate[p] = "inflight"
        BY <1>0, <3>1, <3>2, SendQueueAssumption
           DEF Shape, Bookkeeping, Holding, Busy, SendQueueAssumption
      <3>4. PICK to \in {"mark", "taskError"}, end \in {"delivered", "failed"} :
              Step(w, "sending", to) /\ fate' = [fate EXCEPT ![p] = end]
        BY <1>5, <2>2, <3>1 DEF RunTask
      <3>5. /\ worker'[w] = to
            /\ \A v \in Workers \ {w} : worker'[v] = worker[v]
            /\ fate'[p] = end
            /\ \A q \in Payloads \ {p} : fate'[q] = fate[q]
        BY <1>0, <3>3, <3>4 DEF Step, Shape
      <3>6. FateRank(p) = 2 /\ FateRank(p)' \in {3, 4, 5}
        BY <3>3, <3>5, FateRankCases, NextFateRankCases
      <3>7. \A q \in Payloads \ {p} :
              /\ InHand(q, "taskError")' <=> InHand(q, "taskError")
              /\ InHand(q, "mark")' <=> InHand(q, "mark")
        BY <3>1, <3>2, <3>5 DEF InHand
      <3>8. \A q \in Payloads \ {p} : FateRank(q)' >= FateRank(q)
        BY <1>0, <3>5, <3>7, FateRankStays
      <3>9. \A v \in Workers : WorkerRank(worker'[v]) >= WorkerRank(worker[v])
        BY <1>A, <3>4 DEF Busy
      <3> QED
        BY <1>0, <1>B, <3>2, <3>3, <3>6, <3>8, <3>9, RanksOfTheRest
    <2> QED
      BY <2>1, <2>2
  <1>6. ASSUME NEW from \in {"taskError", "mark"}, NEW to \in {"mark", "receive"},
               <<from, to>> \in {<<"taskError", "mark">>, <<"mark", "receive">>},
               Step(w, from, to), UNCHANGED <<call, fate, flush, closing>>,
               job' = [job EXCEPT ![w] = IF to = "mark" THEN job[w] ELSE NoPayload],
               \A f \in FlushCalls :
                 WaiterRank(waiter'[f]) >= WaiterRank(waiter[f])
        PROVE  NothingUndone /\ SomethingDone
    <2>1. PICK p : p = job[w]
      OBVIOUS
    <2>2. worker[w] = from
      BY <1>6 DEF Step
    <2>3. p \in Payloads /\ fate[p] \in {"delivered", "failed"}
      BY <1>0, <2>1, <2>2, SendQueueAssumption
         DEF Shape, Bookkeeping, Holding, Busy, SendQueueAssumption
    <2>4. \A v \in Workers \ {w} : job[v] # p
      BY <1>0, <2>1, <2>3, SendQueueAssumption
         DEF Bookkeeping, Holding, SendQueueAssumption
    <2>5. /\ worker'[w] = to /\ job'[w] = IF to = "mark" THEN p ELSE NoPayload
          /\ \A v \in Workers \ {w} : worker'[v] = worker[v] /\ job'[v] = job[v]
      BY <1>0, <1>6, <2>1 DEF Step, Shape
    <2>6. \A q \in Payloads \ {p} :
            /\ InHand(q, "taskError")' <=> InHand(q, "taskError")
            /\ InHand(q, "mark")' <=> InHand(q, "mark")
      BY <2>1, <2>5, SendQueueAssumption DEF InHand, SendQueueAssumption
    <2>7. \A q \in Payloads \ {p} : FateRank(q)' >= FateRank(q)
      BY <1>0, <1>6, <2>6, FateRankStays
    <2>8. FateRank(p)' > FateRank(p)
      <3>1. CASE from = "taskError" /\ to = "mark"
        <4>1. InHand(p, "taskError") /\ ~InHand(p, "taskError")'
          BY <2>1, <2>2, <2>4, <2>5, <3>1 DEF InHand
        <4> QED
          BY <1>6, <2>3, <4>1, FateRankCases, NextFateRankCases
      <3>2. CASE from = "mark" /\ to = "receive"
        <4>1. /\ ~InHand(p, "taskError") /\ InHand(p, "mark")
              /\ ~InHand(p, "taskError")' /\ ~InHand(p, "mark")'
          BY <2>1, <2>2, <2>4, <2>5, <3>2 DEF InHand
        <4> QED
          BY <1>6, <2>3, <4>1, FateRankCases, NextFateRankCases
      <3> QED
        BY <1>6, <3>1, <3>2
    <2>9. \A v \in Workers : WorkerRank(worker'[v]) >= WorkerRank(worker[v])
      BY <1>6, <1>A DEF Busy
    <2> QED
      BY <1>6, <1>B, <2>3, <2>7, <2>8, <2>9
  <1>7. CASE EndTaskError(w)
    <2>1. job' = [job EXCEPT ![w] = IF "mark" = "mark" THEN job[w] ELSE NoPayload]
      BY <1>0, <1>7 DEF EndTaskError, Shape
    <2> QED
      BY <1>0, <1>6, <1>7, <2>1, RanksOfTheRest DEF EndTaskError
  <1>8. CASE MarkDone(w)
    <2>1. job' = [job EXCEPT ![w] = IF "receive" = "mark" THEN job[w] ELSE NoPayload]
      BY <1>8 DEF MarkDone
    <2> QED
      BY <1>0, <1>6, <1>8, <2>1, GroupAdvances DEF MarkDone
  <1> QED
    BY <1>3, <1>4, <1>5, <1>7, <1>8 DEF WorkerStep

\* Nobody waits for a Flush that has not been called.
Unasked == \A f \in FlushCalls : flush[f] = "idle" => waiter[f] = "none"

LEMMA UnaskedStep ==
  ASSUME Shape, Unasked, [Next]_vars
  PROVE  Unasked'
  <1> USE DEF Unasked, captureVars, poolVars, flushVars, closeVars
  <1>1. ASSUME UNCHANGED <<flush, waiter>> PROVE Unasked'
    BY <1>1
  <1>2. ASSUME PendingDone, UNCHANGED flush PROVE Unasked'
    BY <1>2 DEF PendingDone, ReleaseWaiters
  <1>3. ASSUME NEW p \in Payloads, CaptureStep(p) PROVE Unasked'
    BY <1>1, <1>2, <1>3
       DEF CaptureStep, ApplyBeforeSend, EndFilterError, Enqueue, AddPending, Offer,
           Refuse, Drop, EndEnqueue
  <1>4. ASSUME NEW w \in Workers, WorkerStep(w) PROVE Unasked'
    BY <1>1, <1>2, <1>4
       DEF WorkerStep, Receive, Exit, RunTask, EndTaskError, MarkDone
  <1>5. ASSUME NEW f \in FlushCalls, FlushStep(f) PROVE Unasked'
    BY <1>5 DEF FlushStep, Wait, Woken, EndFlush, ExpireFlush, Shape
  <1>6. ASSUME NEW f \in FlushCalls, StartFlush(f) PROVE Unasked'
    BY <1>6 DEF StartFlush, Shape
  <1>7. ASSUME NEW k \in Closers, CloseStep(k) PROVE Unasked'
    BY <1>1, <1>7 DEF CloseStep, AskLock, CloseTasks, JoinWorkers
  <1> QED
    BY <1>1, <1>3, <1>4, <1>5, <1>6, <1>7
       DEF Next, Running, Application, Capture, CaptureInOnError, Flush, Close,
           FlushCalls, vars

LEMMA CloseRankCases ==
  /\ CloseRank("idle") = 0 /\ CloseRank("flush") = 1 /\ CloseRank("lock") = 2
  /\ CloseRank("join") = 3 /\ CloseRank("already") = 4 /\ CloseRank("stopped") = 4
  BY DEF CloseRank

LEMMA EveryStepGetsFarther ==
  ASSUME Inv, Shape', Unasked, [Next]_vars
  PROVE  [NothingUndone /\ SomethingDone]_vars
  <1> USE DEF captureVars, poolVars, flushVars, closeVars
  <1> DEFINE Goal == NothingUndone /\ SomethingDone
  <1>0. Shape /\ Lifecycle /\ Bookkeeping
    BY DEF Inv
  <1>A. ASSUME NEW p \in Payloads, Begin(p), UNCHANGED <<worker, job, waiter, flush,
                                                        closing>>
        PROVE  Goal
    <2>1. PICK to \in CallSteps : Move(p, "idle", to) /\ CallRank(to) > 0
      BY <1>A, CallRankCases DEF Begin, CallSteps
    <2>2. fate[p] = "none"
      BY <1>0, <2>1 DEF Move, Bookkeeping, Ledger, Undecided
    <2>3. UNCHANGED fate \/ fate' = [fate EXCEPT ![p] = "withheld"]
      BY <1>A DEF Begin
    <2>4. \A q \in Payloads : FateRank(q)' >= FateRank(q)
      <3>1. CASE UNCHANGED fate
        BY <1>0, <1>A, <3>1, FatesStay
      <3>2. CASE fate' = [fate EXCEPT ![p] = "withheld"]
        BY <1>0, <1>A, <2>2, <3>2, ResolvingAdvances
      <3> QED
        BY <2>3, <3>1, <3>2
    <2>5. "idle" \in CallSteps /\ CallRank(to) > CallRank("idle")
      BY <2>1, CallRankCases DEF CallSteps
    <2> QED
      BY <1>0, <1>A, <2>1, <2>4, <2>5, MoveAdvances, RanksOfTheRest
         DEF NothingUndone, SomethingDone
  <1>B. ASSUME NEW f \in FlushCalls, StartFlush(f), waiter[f] = "none",
               UNCHANGED <<call, fate, worker, job>>,
               \A k \in Closers : CloseRank(closing'[k]) >= CloseRank(closing[k])
        PROVE  Goal
    <2>1. /\ FlushRank("idle") = 0 /\ FlushRank("waiting") = 1
          /\ WaiterRank("none") = 0 /\ WaiterRank("entering") = 1
      BY DEF FlushRank, WaiterRank
    <2>2. /\ \A g \in FlushCalls : FlushRank(flush[g]) \in Nat
          /\ \A g \in FlushCalls : WaiterRank(waiter[g]) \in Nat
      BY <1>0, RanksAreNumbers DEF Shape
    <2>3. /\ flush[f] = "idle" /\ flush'[f] = "waiting" /\ waiter'[f] = "entering"
          /\ \A g \in FlushCalls \ {f} : flush'[g] = flush[g] /\ waiter'[g] = waiter[g]
      BY <1>0, <1>B DEF StartFlush, Shape
    <2>4. /\ \A g \in FlushCalls : FlushRank(flush'[g]) >= FlushRank(flush[g])
          /\ \A g \in FlushCalls : WaiterRank(waiter'[g]) >= WaiterRank(waiter[g])
          /\ FlushRank(flush'[f]) > FlushRank(flush[f])
      BY <1>B, <2>1, <2>2, <2>3
    <2> QED
      BY <1>0, <1>B, <2>4, FatesStay, RanksOfTheRest DEF NothingUndone, SomethingDone
  <1>1. ASSUME NEW p \in Payloads, Capture(p) PROVE Goal
    BY <1>1, <1>A DEF Capture
  <1>2. ASSUME NEW c \in Payloads \cup Workers, NEW p \in Payloads,
               CaptureInOnError(c, p)
        PROVE  Goal
    BY <1>2, <1>A DEF CaptureInOnError
  <1>3. ASSUME NEW f \in Flushers, Flush(f) PROVE Goal
    <2>1. StartFlush(f) /\ UNCHANGED <<call, fate, worker, job, closing>>
      BY <1>3 DEF Flush
    <2>2. f \in FlushCalls /\ waiter[f] = "none"
      BY <2>1 DEF StartFlush, FlushCalls, Unasked
    <2> QED
      BY <1>0, <1>B, <2>1, <2>2, RanksOfTheRest
  <1>C. ASSUME NEW k \in Closers, closing[k] = "idle",
               closing' = [closing EXCEPT ![k] = "flush"]
        PROVE  \A j \in Closers : CloseRank(closing'[j]) >= CloseRank(closing[j])
    <2>1. /\ closing'[k] = "flush"
          /\ \A j \in Closers \ {k} : closing'[j] = closing[j]
      BY <1>0, <1>C DEF Shape
    <2>2. \A j \in Closers : CloseRank(closing[j]) \in Nat
      BY <1>0, RanksAreNumbers DEF Shape
    <2> QED
      BY <1>C, <2>1, <2>2, CloseRankCases
  <1>4. ASSUME NEW k \in Closers, Close(k) PROVE Goal
    <2>1. /\ StartFlush(k) /\ UNCHANGED <<call, fate, worker, job>>
          /\ closing[k] = "idle" /\ closing' = [closing EXCEPT ![k] = "flush"]
      BY <1>4 DEF Close
    <2>2. k \in FlushCalls /\ waiter[k] = "none"
      BY <2>1 DEF StartFlush, FlushCalls, Unasked
    <2> QED
      BY <1>B, <1>C, <2>1, <2>2
  <1>5. ASSUME NEW f \in FlushCalls, FlushStep(f), crash = "none" PROVE Goal
    <2>1. UNCHANGED <<call, fate, worker, job, closing>>
      BY <1>5 DEF FlushStep, Wait, Woken, EndFlush, ExpireFlush
    <2>2. /\ \A g \in FlushCalls : FlushRank(flush[g]) \in Nat
          /\ \A g \in FlushCalls : WaiterRank(waiter[g]) \in Nat
      BY <1>0, RanksAreNumbers DEF Shape
    <2>3. /\ WaiterRank("entering") = 1 /\ WaiterRank("parked") = 2
          /\ WaiterRank("woken") = 3 /\ WaiterRank("done") = 4
      BY DEF WaiterRank
    <2>4. /\ FlushRank("waiting") = 1 /\ FlushRank("flushed") = 2
          /\ FlushRank("timedout") = 2
      BY DEF FlushRank
    <2>5. /\ \A p \in Payloads : CallRank(call'[p]) >= CallRank(call[p])
          /\ \A p \in Payloads : FateRank(p)' >= FateRank(p)
          /\ \A w \in Workers : WorkerRank(worker'[w]) >= WorkerRank(worker[w])
          /\ \A k \in Closers : CloseRank(closing'[k]) >= CloseRank(closing[k])
      BY <1>0, <2>1, FatesStay, RanksOfTheRest
    <2>6. ASSUME NEW from \in {"entering", "woken"}, NEW to \in {"parked", "done"},
                 waiter[f] = from, waiter' = [waiter EXCEPT ![f] = to],
                 ~(from = "woken" /\ to = "parked"), UNCHANGED flush
          PROVE  Goal
      <3>1. /\ waiter'[f] = to
            /\ \A g \in FlushCalls \ {f} : waiter'[g] = waiter[g]
        BY <1>0, <2>6 DEF Shape
      <3>2. /\ \A g \in FlushCalls : WaiterRank(waiter'[g]) >= WaiterRank(waiter[g])
            /\ WaiterRank(waiter'[f]) > WaiterRank(waiter[f])
        BY <2>2, <2>3, <2>6, <3>1
      <3> QED
        BY <1>0, <2>5, <2>6, <3>2, RanksOfTheRest DEF NothingUndone, SomethingDone
    <2>7. ASSUME NEW to \in {"flushed", "timedout"}, flush[f] = "waiting",
                 flush' = [flush EXCEPT ![f] = to], UNCHANGED waiter
          PROVE  Goal
      <3>1. flush'[f] = to /\ \A g \in FlushCalls \ {f} : flush'[g] = flush[g]
        BY <1>0, <2>7 DEF Shape
      <3>2. /\ \A g \in FlushCalls : FlushRank(flush'[g]) >= FlushRank(flush[g])
            /\ FlushRank(flush'[f]) > FlushRank(flush[f])
        BY <2>2, <2>4, <2>7, <3>1
      <3> QED
        BY <1>0, <2>5, <2>7, <3>2, RanksOfTheRest DEF NothingUndone, SomethingDone
    <2>8. ASSUME crash' # "none", UNCHANGED <<flush, waiter>> PROVE Goal
      BY <1>0, <1>5, <2>5, <2>8, RanksOfTheRest DEF NothingUndone, SomethingDone
    <2>9. CASE Wait(f)
      <3>1. CASE pending = 0
        BY <2>6, <2>9, <3>1 DEF Wait
      <3>2. CASE pending # 0
        BY <2>6, <2>9, <3>2 DEF Wait
      <3> QED
        BY <3>1, <3>2
    <2>10. CASE Woken(f)
      <3>1. CASE pending = 0
        BY <2>6, <2>10, <3>1 DEF Woken
      <3>2. CASE pending # 0
        BY <2>8, <2>10, <3>2 DEF Woken
      <3> QED
        BY <3>1, <3>2
    <2>11. CASE EndFlush(f)
      BY <2>7, <2>11 DEF EndFlush
    <2>12. CASE ExpireFlush(f)
      BY <2>7, <2>12 DEF ExpireFlush
    <2> QED
      BY <1>5, <2>9, <2>10, <2>11, <2>12 DEF FlushStep
  <1>6. ASSUME NEW k \in Closers, CloseStep(k) PROVE Goal
    <2>1. UNCHANGED <<call, fate, worker, job, flush, waiter>>
      BY <1>6 DEF CloseStep, AskLock, CloseTasks, JoinWorkers
    <2>2. PICK from \in {"flush", "lock", "join"},
               to \in {"lock", "join", "already", "stopped"} :
            /\ closing[k] = from /\ closing' = [closing EXCEPT ![k] = to]
            /\ CloseRank(to) > CloseRank(from)
      <3>1. CASE AskLock(k)
        BY <3>1, CloseRankCases DEF AskLock
      <3>2. CASE CloseTasks(k)
        <4>1. /\ closing[k] = "lock"
              /\ \/ closing' = [closing EXCEPT ![k] = "already"]
                 \/ closing' = [closing EXCEPT ![k] = "join"]
          BY <3>2 DEF CloseTasks
        <4> QED
          BY <4>1, CloseRankCases
      <3>3. CASE JoinWorkers(k)
        BY <3>3, CloseRankCases DEF JoinWorkers
      <3> QED
        BY <1>6, <3>1, <3>2, <3>3 DEF CloseStep
    <2>3. closing'[k] = to /\ \A j \in Closers \ {k} : closing'[j] = closing[j]
      BY <1>0, <2>2 DEF Shape
    <2>4. \A j \in Closers : CloseRank(closing[j]) \in Nat
      BY <1>0, RanksAreNumbers DEF Shape
    <2>5. CloseRank(to) \in Nat /\ CloseRank(from) \in Nat
      BY RanksAreNumbers
    <2>6. /\ \A j \in Closers : CloseRank(closing'[j]) >= CloseRank(closing[j])
          /\ CloseRank(closing'[k]) > CloseRank(closing[k])
      BY <2>2, <2>3, <2>4, <2>5
    <2> QED
      BY <1>0, <2>1, <2>6, FatesStay, RanksOfTheRest DEF NothingUndone, SomethingDone
  <1>7. CASE crash = "none" /\ Running
    BY <1>1, <1>2, <1>3, <1>4, <1>5, <1>6, <1>7, CapturesAdvance, SendersAdvance
       DEF Running, Application
  <1>8. CASE UNCHANGED vars
    BY <1>8
  <1> QED
    BY <1>7, <1>8 DEF Next

\* No step of the client is undone by a later one, and each gets something farther
\* (client.go:361-524).
THEOREM NoStepIsUndone == Spec => EveryStepAdvances
  <1>1. Init => Unasked
    BY DEF Init, Unasked
  <1>2. Inv /\ Unasked /\ [Next]_vars => Unasked'
    BY UnaskedStep DEF Inv
  <1>3. Inv /\ Inv' /\ Unasked /\ [Next]_vars => [NothingUndone /\ SomethingDone]_vars
    BY EveryStepGetsFarther DEF Inv
  <1> QED
    BY <1>1, <1>2, <1>3, Invariance, PTL DEF Spec, EveryStepAdvances

-----------------------------------------------------------------------------
(***************************************************************************)
(* SendQueue implements Delivery: every step of the client is a step of    *)
(* Delivery, or leaves what the application is promised unchanged.         *)
(***************************************************************************)
LEMMA OutcomeCases ==
  /\ Outcome("none") = "pending"
  /\ Outcome("withheld") = "withheld"
  /\ Outcome("dropped") = "lost"
  /\ Outcome("queued") = "accepted"
  /\ Outcome("inflight") = "accepted"
  /\ Outcome("delivered") = "settled"
  /\ Outcome("failed") = "settled"
  BY DEF Outcome

LEMMA AcceptedIsUnsettled == Shape => D!Accepted = Unsettled
  <1> SUFFICES ASSUME Shape PROVE D!Accepted = Unsettled
    OBVIOUS
  <1>1. \A p \in Payloads :
          AbstractOutcome[p] = "accepted" <=> fate[p] \in {"queued", "inflight"}
    BY OutcomeCases DEF AbstractOutcome, Shape, Fates
  <1> QED
    BY <1>1 DEF D!Accepted, Unsettled

\* One payload's move is the same move of its outcome.
LEMMA OutcomeMoves ==
  ASSUME Shape, NEW p \in Payloads, NEW to \in Fates,
         fate' = [fate EXCEPT ![p] = to]
  PROVE  /\ AbstractOutcome[p] = Outcome(fate[p])
         /\ AbstractOutcome' = [AbstractOutcome EXCEPT ![p] = Outcome(to)]
  <1>1. \A q \in Payloads : fate'[q] = IF q = p THEN to ELSE fate[q]
    BY DEF Shape
  <1>2. AbstractOutcome' = [q \in Payloads |-> Outcome(fate'[q])]
    BY DEF AbstractOutcome, Outcome
  <1>3. \A q \in Payloads :
          AbstractOutcome'[q] = IF q = p THEN Outcome(to) ELSE AbstractOutcome[q]
    BY <1>1, <1>2 DEF AbstractOutcome
  <1> QED
    BY <1>2, <1>3 DEF AbstractOutcome

LEMMA OpenPhase == Inv /\ ~closed => AbstractPhase = "open"
  BY DEF Inv, Lifecycle, AbstractPhase

LEMMA NotStoppedPhase ==
  ASSUME \A k \in Closers : closing[k] # "stopped"
  PROVE  AbstractPhase # "stopped"
  BY DEF AbstractPhase

LEMMA DeliveryInit == Init => D!Init
  <1> SUFFICES ASSUME Init PROVE D!Init
    OBVIOUS
  <1>1. AbstractOutcome = [p \in Payloads |-> "pending"]
    BY OutcomeCases DEF Init, AbstractOutcome
  <1>2. AbstractPhase = "open"
    BY DEF Init, AbstractPhase
  <1> QED
    BY <1>1, <1>2 DEF Init, D!Init

LEMMA DeliveryStep == Inv /\ [Next]_vars => [D!Next]_(D!vars)
  <1> SUFFICES ASSUME Inv, [Next]_vars PROVE [D!Next]_(D!vars)
    OBVIOUS
  <1> USE DEF captureVars, poolVars, flushVars, closeVars
  <1> DEFINE Goal == [D!Next]_(D!vars)
  <1>0. Shape /\ Lifecycle /\ Bookkeeping /\ Waiting
    BY DEF Inv
  <1>A. ASSUME UNCHANGED <<fate, dropped, closed, closing, flush, owed>>
        PROVE  Goal
    BY <1>A DEF D!vars, AbstractOutcome, AbstractPhase
  <1>B. ASSUME NEW p \in Payloads, fate[p] = "none",
               fate' = [fate EXCEPT ![p] = "withheld"],
               UNCHANGED <<dropped, closed, closing, flush, owed>>
        PROVE  Goal
    <2>1. UNCHANGED AbstractPhase
      BY <1>B DEF AbstractPhase
    <2>2. D!Withhold(p)
      BY <1>0, <1>B, <2>1, OutcomeMoves, OutcomeCases
         DEF D!Withhold, D!Resolve, Fates
    <2> QED
      BY <2>2 DEF D!Next
  <1>C. ASSUME NEW f \in FlushCalls, StartFlush(f),
               UNCHANGED <<fate, dropped, AbstractPhase>>
        PROVE  Goal
    <2>1. UNCHANGED AbstractOutcome
      BY <1>C DEF AbstractOutcome
    <2>2. D!StartFlush(f)
      BY <1>0, <1>C, <2>1, AcceptedIsUnsettled DEF StartFlush, D!StartFlush
    <2> QED
      BY <2>2 DEF D!Next
  <1>1. ASSUME NEW p \in Payloads, Begin(p),
               UNCHANGED <<dropped, closed, closing, flush, owed>>
        PROVE  Goal
    <2>1. fate[p] = "none"
      BY <1>0, <1>1 DEF Begin, Move, Bookkeeping, Ledger, Undecided
    <2> QED
      BY <1>1, <1>A, <1>B, <2>1 DEF Begin
  <1>2. ASSUME NEW p \in Payloads, CaptureStep(p) PROVE Goal
    <2>1. ASSUME NEW verdict \in Verdicts, ApplyBeforeSend(p, verdict)
          PROVE  Goal
      <3>1. fate[p] = "none"
        BY <1>0, <2>1 DEF ApplyBeforeSend, Move, Bookkeeping, Ledger, Undecided
      <3> QED
        BY <2>1, <3>1, <1>A, <1>B DEF ApplyBeforeSend
    <2>2. ASSUME Offer(p) PROVE Goal
      <3>1. fate[p] = "none" /\ ~closed
        BY <1>0, <2>2
           DEF Offer, Move, Bookkeeping, Ledger, Undecided, Lifecycle
      <3>2. AbstractPhase = "open" /\ UNCHANGED AbstractPhase
        BY <2>2, <3>1, OpenPhase DEF Offer, AbstractPhase
      <3>3. D!Accept(p)
        BY <1>0, <2>2, <3>1, <3>2, OutcomeMoves, OutcomeCases
           DEF Offer, D!Accept, D!Resolve, Fates
      <3> QED
        BY <3>3 DEF D!Next
    <2>3. ASSUME Drop(p) PROVE Goal
      <3>1. fate[p] = "none"
        BY <1>0, <2>3 DEF Drop, Move, Bookkeeping, Ledger, Undecided
      <3>2. UNCHANGED AbstractPhase
        BY <2>3 DEF Drop, AbstractPhase
      <3>3. D!Lose(p)
        BY <1>0, <2>3, <3>1, <3>2, OutcomeMoves, OutcomeCases
           DEF Drop, D!Lose, D!Resolve, Fates
      <3> QED
        BY <3>3 DEF D!Next
    <2> QED
      BY <1>2, <1>A, <2>1, <2>2, <2>3
         DEF CaptureStep, EndFilterError, Enqueue, AddPending, Refuse, EndEnqueue
  <1>3. ASSUME NEW w \in Workers, WorkerStep(w) PROVE Goal
    <2>1. ASSUME Receive(w) PROVE Goal
      <3> DEFINE p == Head(tasks)
      <3>1. p \in Payloads /\ fate[p] = "queued"
        BY <1>0, <2>1 DEF Receive, Shape, Bookkeeping, Backlog
      <3>2. AbstractOutcome' = [AbstractOutcome EXCEPT ![p] = "accepted"]
        BY <1>0, <2>1, <3>1, OutcomeMoves, OutcomeCases DEF Receive, Fates
      <3>3. AbstractOutcome[p] = "accepted"
        BY <3>1, OutcomeCases DEF AbstractOutcome
      <3>4. UNCHANGED AbstractOutcome
        BY <3>1, <3>2, <3>3 DEF AbstractOutcome
      <3> QED
        BY <2>1, <3>4 DEF Receive, D!vars, AbstractPhase
    <2>2. ASSUME NEW result \in Results, RunTask(w, result) PROVE Goal
      <3>1. CASE result = "panic"
        BY <2>2, <3>1, <1>A DEF RunTask
      <3>2. CASE result \in {"ok", "error"}
        <4> DEFINE p == job[w]
        <4>1. worker[w] = "sending"
          BY <2>2, <3>2 DEF RunTask, Step
        <4>2. p \in Payloads /\ fate[p] = "inflight"
          BY <1>0, <4>1, SendQueueAssumption
             DEF Shape, Bookkeeping, Holding, Busy, SendQueueAssumption
        <4>3. AbstractPhase # "stopped" /\ UNCHANGED AbstractPhase
          BY <1>0, <2>2, <4>1, NotStoppedPhase
             DEF RunTask, Lifecycle, PoolIsOver, AbstractPhase
        <4>4. \/ fate' = [fate EXCEPT ![p] = "delivered"]
              \/ fate' = [fate EXCEPT ![p] = "failed"]
          BY <2>2, <3>2 DEF RunTask
        <4>5. D!Settle(p)
          BY <1>0, <2>2, <4>2, <4>3, <4>4, OutcomeMoves, OutcomeCases
             DEF RunTask, D!Settle, D!Resolve, Fates
        <4> QED
          BY <4>2, <4>5 DEF D!Next
      <3> QED
        BY <2>2, <3>1, <3>2 DEF RunTask
    <2> QED
      BY <1>3, <1>A, <2>1, <2>2 DEF WorkerStep, Exit, EndTaskError, MarkDone
  <1>4. ASSUME NEW f \in FlushCalls, FlushStep(f) PROVE Goal
    <2>1. CASE EndFlush(f) \/ ExpireFlush(f)
      <3>1. UNCHANGED <<AbstractOutcome, AbstractPhase, dropped, owed>>
        BY <2>1 DEF EndFlush, ExpireFlush, AbstractOutcome, AbstractPhase
      <3>2. CASE EndFlush(f)
        <4>1. owed[f] \cap D!Accepted = {}
          BY <1>0, <3>2, AcceptedIsUnsettled DEF EndFlush, Waiting
        <4>2. D!EndFlush(f)
          BY <3>1, <3>2, <4>1 DEF EndFlush, D!EndFlush
        <4> QED
          BY <4>2 DEF D!Next
      <3>3. CASE ExpireFlush(f)
        <4>1. D!ExpireFlush(f)
          BY <3>1, <3>3 DEF ExpireFlush, D!ExpireFlush
        <4> QED
          BY <4>1 DEF D!Next
      <3> QED
        BY <2>1, <3>2, <3>3
    <2>2. CASE Wait(f) \/ Woken(f)
      BY <2>2, <1>A DEF Wait, Woken
    <2> QED
      BY <1>4, <2>1, <2>2 DEF FlushStep
  <1>5. ASSUME NEW k \in Closers, CloseStep(k) PROVE Goal
    <2>0. UNCHANGED <<AbstractOutcome, dropped, flush, owed>>
      BY <1>5
         DEF CloseStep, AskLock, CloseTasks, JoinWorkers, AbstractOutcome
    <2>1. CASE AskLock(k)
      <3>1. UNCHANGED AbstractPhase
        BY <1>0, <2>1 DEF AskLock, AbstractPhase, Shape
      <3> QED
        BY <2>0, <3>1 DEF D!vars
    <2>2. CASE CloseTasks(k)
      <3>1. \A j \in Closers : closing'[j] = "stopped" <=> closing[j] = "stopped"
        BY <1>0, <2>2 DEF CloseTasks, Shape
      <3>2. CASE closed
        <4>1. UNCHANGED AbstractPhase
          BY <2>2, <3>1, <3>2 DEF CloseTasks, AbstractPhase
        <4> QED
          BY <2>0, <4>1 DEF D!vars
      <3>3. CASE ~closed
        <4>1. AbstractPhase = "open" /\ AbstractPhase' = "shut"
          BY <1>0, <2>2, <3>1, <3>3, OpenPhase
             DEF CloseTasks, AbstractPhase, Lifecycle
        <4>2. D!Shut
          BY <2>0, <4>1 DEF D!Shut
        <4> QED
          BY <4>2 DEF D!Next
      <3> QED
        BY <3>2, <3>3
    <2>3. CASE JoinWorkers(k)
      <3>1. closed /\ PoolIsOver /\ UNCHANGED closed
        BY <1>0, <2>3 DEF JoinWorkers, Lifecycle
      <3>2. AbstractPhase' = "stopped"
        BY <1>0, <2>3 DEF JoinWorkers, AbstractPhase, Shape
      <3>3. CASE AbstractPhase = "stopped"
        BY <2>0, <3>2, <3>3 DEF D!vars
      <3>4. CASE AbstractPhase = "shut"
        <4>1. D!Accepted = {}
          BY <1>0, <3>1, OverMeansDrained, AcceptedIsUnsettled
        <4>2. D!Stop
          BY <2>0, <3>2, <3>4, <4>1 DEF D!Stop
        <4> QED
          BY <4>2 DEF D!Next
      <3> QED
        BY <3>1, <3>3, <3>4 DEF AbstractPhase
    <2> QED
      BY <1>5, <2>1, <2>2, <2>3 DEF CloseStep
  <1>6. ASSUME NEW f \in Flushers, Flush(f) PROVE Goal
    BY <1>6, <1>C DEF Flush, FlushCalls, AbstractPhase
  <1>7. ASSUME NEW k \in Closers, Close(k) PROVE Goal
    <2>1. \A j \in Closers : closing'[j] = "stopped" <=> closing[j] = "stopped"
      BY <1>0, <1>7 DEF Close, Shape
    <2>2. UNCHANGED AbstractPhase
      BY <1>7, <2>1 DEF Close, AbstractPhase
    <2> QED
      BY <1>7, <1>C, <2>2 DEF Close, FlushCalls
  <1>8. CASE UNCHANGED vars
    BY <1>8, <1>A DEF vars
  <1> QED
    BY <1>1, <1>2, <1>3, <1>4, <1>5, <1>6, <1>7, <1>8
       DEF Next, Running, Application, Capture, CaptureInOnError

\* The queue, the pool, the locks and the wait group together keep what Delivery
\* promises (client.go:361-524).
THEOREM Implementation == Spec => ImplementsDelivery
  <1>1. Init => D!Init
    BY DeliveryInit
  <1>2. Inv /\ [Next]_vars => [D!Next]_(D!vars)
    BY DeliveryStep
  <1> QED
    BY <1>1, <1>2, Invariance, PTL DEF Spec, ImplementsDelivery, D!Spec
=============================================================================
