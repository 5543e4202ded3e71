----------------------------- MODULE SendQueue -----------------------------
(***************************************************************************)
(* The asynchronous delivery path of Client (client.go): capture calls     *)
(* hand payloads to a bounded queue, a pool of sender goroutines started   *)
(* on first use delivers them, Flush waits for the pending wait group with *)
(* a timeout, and Close flushes, closes the queue and joins the pool.      *)
(*                                                                         *)
(* One payload stands for one capture call, from whatever goroutine made   *)
(* it; call[p] is the place that call has reached.  A step of a goroutine  *)
(* is one access to state other goroutines can see, so every interleaving  *)
(* of captures, senders, flushes and closes is a behaviour.                *)
(***************************************************************************)
EXTENDS Integers, Sequences, FiniteSets

CONSTANTS
  Payloads,               \* the payloads captured in a run, one per call
  Kind,                   \* Kind[p]: "event", "log" or "transaction"
  SentKinds,              \* the kinds the transport implements a sender for
  Flushers,               \* the application's calls of Flush
  Closers,                \* the application's calls of Close
  MaxQueueSize,           \* Options.MaxQueueSize, any integer
  SendConcurrency,        \* Options.SendConcurrency, any integer
  DefaultMaxQueueSize,    \* defaultMaxQueueSize
  DefaultSendConcurrency, \* defaultSendConcurrency
  Verdicts,               \* what BeforeSend may do: "keep", "discard", "panic"
  Results,                \* how a send may end: "ok", "error", "panic"
  OnErrorCaptures,        \* may the OnError callback capture a payload itself?
  NoPayload               \* the absence of a payload

Kinds == {"event", "log", "transaction"}

ASSUME SendQueueAssumption ==
  /\ IsFiniteSet(Payloads)
  /\ NoPayload \notin Payloads
  /\ Payloads \cap Nat = {}  \* a payload is not a sender, and callers are either
  /\ Kind \in [Payloads -> Kinds]
  /\ SentKinds \subseteq Kinds
  /\ "event" \in SentKinds
  /\ Flushers \cap Closers = {}
  /\ MaxQueueSize \in Int
  /\ SendConcurrency \in Int
  /\ DefaultMaxQueueSize \in Nat \ {0}
  /\ DefaultSendConcurrency \in Nat \ {0}
  /\ Verdicts \subseteq {"keep", "discard", "panic"}
  /\ Results \subseteq {"ok", "error", "panic"}
  /\ OnErrorCaptures \in BOOLEAN

\* The queue's capacity and the pool's size as ensureWorkers settles them.
Capacity == IF MaxQueueSize <= 0 THEN DefaultMaxQueueSize ELSE MaxQueueSize
Concurrency ==
  IF SendConcurrency <= 0 THEN DefaultSendConcurrency ELSE SendConcurrency

Workers == 1 .. Concurrency
FlushCalls == Flushers \cup Closers

VARIABLES
  call,       \* where each capture call stands
  fate,       \* what has become of each payload
  callee,     \* the capture a running OnError callback is in, by its caller
  dropped,    \* Client.dropped
  closed,     \* Client.closed
  started,    \* startOnce has run, so Client.tasks is not nil
  tasks,      \* Client.tasks: the channel's buffer
  chanClosed, \* Client.tasks has been closed
  worker,     \* where each sender goroutine stands
  job,        \* the task each sender goroutine holds
  pending,    \* the counter of the Client.pending wait group
  flush,      \* where each call of Flush stands
  waiter,     \* where the goroutine it started stands in pending.Wait()
  owed,       \* history: payloads accepted and unsettled when Flush was called
  closing,    \* where each call of Close stands
  crash       \* "none", or the panic that ended the process

captureVars == <<call, fate, callee, dropped>>
poolVars == <<started, tasks, worker, job>>
flushVars == <<flush, waiter, owed>>
closeVars == <<closed, chanClosed, closing>>
vars == <<captureVars, poolVars, pending, flushVars, closeVars, crash>>

CallSteps == {"idle", "filter", "filterError", "enqueue", "add", "send",
              "drop", "dropError", "unlock", "returned"}
Fates == {"none", "withheld", "dropped", "queued", "inflight", "delivered",
          "failed"}
WorkerSteps == {"off", "receive", "sending", "taskError", "mark", "exited"}

-----------------------------------------------------------------------------
\* Payloads the queue has taken and no delivery attempt of which has ended.
Unsettled == {p \in Payloads : fate[p] \in {"queued", "inflight"}}

\* Mutants of ReadLocked: the lock given back once closed has been read, and the
\* lock never given back.
LockedForTheCheck(p) == FALSE
LockedForEver(p) == call[p] \in {"add", "send", "drop", "dropError", "unlock",
                                 "returned"}

\* A capture call holds closeMu for reading from its closed check until
\* enqueue returns.
ReadLocked(p) == call[p] \in {"add", "send", "drop", "dropError", "unlock"}

\* A call of Close that has asked for closeMu.Lock(): from then on RLock waits.
Announced(k) == closing[k] = "lock"

\* Mutant of MayReadLock: closeMu is a plain mutex.
MayLockAlone == \A p \in Payloads : ~ReadLocked(p)

\* closeMu.RLock() does not wait.
MayReadLock == \A k \in Closers : ~Announced(k)

\* Mutant of PoolIsOver: Close waits for the senders to be idle.
PoolIsIdle == \A w \in Workers : worker[w] \in {"off", "receive", "exited"}

\* workers.Wait() does not wait.
PoolIsOver == \A w \in Workers : worker[w] \in {"off", "exited"}

Move(p, from, to) ==
  /\ call[p] = from
  /\ call' = [call EXCEPT ![p] = to]

\* OnError has not called back into the client, or that capture has returned.
CallbackOver(c) == \A p \in Payloads : callee[c] = p => call[p] = "returned"

-----------------------------------------------------------------------------
\* sync.WaitGroup as the client uses it.  Parked waiters are released when the
\* counter reaches zero; each then looks at the counter again.
ReleaseWaiters ==
  waiter' = [f \in FlushCalls |->
               IF waiter[f] = "parked" THEN "woken" ELSE waiter[f]]

PendingAdd == pending' = pending + 1

PendingDone ==
  /\ pending' = pending - 1
  /\ IF pending = 1 THEN ReleaseWaiters ELSE UNCHANGED waiter

-----------------------------------------------------------------------------
Init ==
  /\ call = [p \in Payloads |-> "idle"]
  /\ fate = [p \in Payloads |-> "none"]
  /\ callee = [c \in Payloads \cup Workers |-> NoPayload]
  /\ dropped = 0
  /\ closed = FALSE
  /\ started = FALSE
  /\ tasks = <<>>
  /\ chanClosed = FALSE
  /\ worker = [w \in Workers |-> "off"]
  /\ job = [w \in Workers |-> NoPayload]
  /\ pending = 0
  /\ flush = [f \in FlushCalls |-> "idle"]
  /\ waiter = [f \in FlushCalls |-> "none"]
  /\ owed = [f \in FlushCalls |-> {}]
  /\ closing = [k \in Closers |-> "idle"]
  /\ crash = "none"

-----------------------------------------------------------------------------
(***************************************************************************)
(* Capture: captureAsync for events, captureLogAsync and                   *)
(* captureTransactionAsync for the two optional kinds.                     *)
(***************************************************************************)
Begin(p) ==
  \/ /\ Kind[p] = "event"
     /\ Move(p, "idle", "filter")
     /\ UNCHANGED fate
  \/ /\ Kind[p] # "event"
     /\ Kind[p] \in SentKinds
     /\ Move(p, "idle", "enqueue")
     /\ UNCHANGED fate
  \/ /\ Kind[p] \notin SentKinds
     /\ Move(p, "idle", "returned")
     /\ fate' = [fate EXCEPT ![p] = "withheld"]

Capture(p) ==
  /\ Begin(p)
  /\ UNCHANGED <<callee, dropped, poolVars, pending, flushVars, closeVars>>

\* applyBeforeSend, on the goroutine that captures.
ApplyBeforeSend(p, verdict) ==
  /\ \/ /\ verdict = "keep"
        /\ Move(p, "filter", "enqueue")
        /\ UNCHANGED fate
     \/ /\ verdict = "discard"
        /\ Move(p, "filter", "returned")
        /\ fate' = [fate EXCEPT ![p] = "withheld"]
     \/ /\ verdict = "panic"
        /\ Move(p, "filter", "filterError")
        /\ fate' = [fate EXCEPT ![p] = "withheld"]
  /\ UNCHANGED <<callee, dropped, poolVars, pending, flushVars, closeVars>>

\* OnError returns to applyBeforeSend's deferred recover.
EndFilterError(p) ==
  /\ CallbackOver(p)
  /\ Move(p, "filterError", "returned")
  /\ UNCHANGED <<fate, callee, dropped, poolVars, pending, flushVars, closeVars>>

\* Mutant of EnsureWorkers: the loop starts one sender too few.
StartOneShort ==
  /\ started' = TRUE
  /\ worker' = IF started THEN worker
               ELSE [w \in Workers |-> IF w = Concurrency THEN "off" ELSE "receive"]
  /\ UNCHANGED <<tasks, job>>

\* ensureWorkers: startOnce makes the channel and starts the whole pool.
EnsureWorkers ==
  /\ started' = TRUE
  /\ worker' = IF started THEN worker ELSE [w \in Workers |-> "receive"]
  /\ UNCHANGED <<tasks, job>>

\* Mutant of Enqueue: the pool is started before closed is looked at.
EnqueueStartingFirst(p) ==
  /\ MayReadLock
  /\ Move(p, "enqueue", IF closed THEN "drop" ELSE "add")
  /\ EnsureWorkers
  /\ UNCHANGED <<fate, callee, dropped, pending, flushVars, closeVars>>

\* enqueue, up to ensureWorkers: RLock, the closed check, the pool's start.
Enqueue(p) ==
  /\ MayReadLock
  /\ \/ /\ closed
        /\ Move(p, "enqueue", "drop")
        /\ UNCHANGED poolVars
     \/ /\ ~closed
        /\ Move(p, "enqueue", "add")
        /\ EnsureWorkers
  /\ UNCHANGED <<fate, callee, dropped, pending, flushVars, closeVars>>

\* Mutant of AddPending: the payload is not counted.
AddNothing(p) ==
  /\ Move(p, "add", "send")
  /\ UNCHANGED <<fate, callee, dropped, poolVars, pending, flushVars, closeVars>>

AddPending(p) ==
  /\ Move(p, "add", "send")
  /\ PendingAdd
  /\ UNCHANGED <<fate, callee, dropped, poolVars, flushVars, closeVars>>

\* enqueue's select, first case: the channel takes the task.
Offer(p) ==
  /\ Len(tasks) < Capacity
  /\ Move(p, "send", "unlock")
  /\ tasks' = Append(tasks, p)
  /\ fate' = [fate EXCEPT ![p] = "queued"]
  /\ UNCHANGED <<callee, dropped, started, worker, job, pending, flushVars,
                 closeVars>>

\* Mutant of Refuse: the pending slot is kept.
RefuseKeepingSlot(p) ==
  /\ Len(tasks) = Capacity
  /\ Move(p, "send", "drop")
  /\ UNCHANGED <<fate, callee, dropped, poolVars, pending, flushVars, closeVars>>

\* The select's default: the channel is full and the pending slot is given back.
Refuse(p) ==
  /\ Len(tasks) = Capacity
  /\ Move(p, "send", "drop")
  /\ PendingDone
  /\ UNCHANGED <<fate, callee, dropped, poolVars, flush, owed, closeVars>>

\* Mutant of Drop: only what a full queue refuses is counted.
DropUncountedWhenClosed(p) ==
  /\ Move(p, "drop", "dropError")
  /\ dropped' = IF closed THEN dropped ELSE dropped + 1
  /\ fate' = [fate EXCEPT ![p] = "dropped"]
  /\ UNCHANGED <<callee, poolVars, pending, flushVars, closeVars>>

\* drop: count the payload and call OnError, closeMu still held for reading.
Drop(p) ==
  /\ Move(p, "drop", "dropError")
  /\ dropped' = dropped + 1
  /\ fate' = [fate EXCEPT ![p] = "dropped"]
  /\ UNCHANGED <<callee, poolVars, pending, flushVars, closeVars>>

\* enqueue returns and its deferred RUnlock runs, after a drop or a hand-over.
EndEnqueue(p) ==
  /\ \/ Move(p, "unlock", "returned")
     \/ CallbackOver(p) /\ Move(p, "dropError", "returned")
  /\ UNCHANGED <<fate, callee, dropped, poolVars, pending, flushVars, closeVars>>

\* The application's OnError captures a payload of its own, on the goroutine
\* that called it and with whatever locks that goroutine holds.
CaptureInOnError(c, p) ==
  /\ OnErrorCaptures
  /\ \/ c \in Payloads /\ call[c] \in {"filterError", "dropError"}
     \/ c \in Workers /\ worker[c] = "taskError"
  /\ callee[c] = NoPayload
  /\ callee' = [callee EXCEPT ![c] = p]
  /\ Begin(p)
  /\ UNCHANGED <<dropped, poolVars, pending, flushVars, closeVars>>

-----------------------------------------------------------------------------
(***************************************************************************)
(* The sender pool: the range loop of ensureWorkers and runTask.           *)
(***************************************************************************)
Step(w, from, to) ==
  /\ worker[w] = from
  /\ worker' = [worker EXCEPT ![w] = to]

Receive(w) ==
  /\ tasks # <<>>
  /\ Step(w, "receive", "sending")
  /\ job' = [job EXCEPT ![w] = Head(tasks)]
  /\ tasks' = Tail(tasks)
  /\ fate' = [fate EXCEPT ![Head(tasks)] = "inflight"]
  /\ UNCHANGED <<call, callee, dropped, started, pending, flushVars, closeVars,
                 crash>>

\* Mutant of Exit: a sender leaves a closed channel's tasks behind.
ExitEarly(w) ==
  /\ chanClosed
  /\ Step(w, "receive", "exited")
  /\ UNCHANGED <<captureVars, started, tasks, job, pending, flushVars, closeVars,
                 crash>>

\* range ends when the closed channel is empty.
Exit(w) ==
  /\ chanClosed
  /\ tasks = <<>>
  /\ Step(w, "receive", "exited")
  /\ UNCHANGED <<captureVars, started, tasks, job, pending, flushVars, closeVars,
                 crash>>

\* task(ctx) returns within its timeout, or panics: runTask's deferred Done
\* runs, nothing recovers, and the process ends.
RunTask(w, result) ==
  /\ \/ /\ result = "ok"
        /\ Step(w, "sending", "mark")
        /\ fate' = [fate EXCEPT ![job[w]] = "delivered"]
        /\ UNCHANGED crash
     \/ /\ result = "error"
        /\ Step(w, "sending", "taskError")
        /\ fate' = [fate EXCEPT ![job[w]] = "failed"]
        /\ UNCHANGED crash
     \/ /\ result = "panic"
        /\ worker[w] = "sending"
        /\ crash' = "transport"
        /\ UNCHANGED <<worker, fate>>
  /\ UNCHANGED <<call, callee, dropped, started, tasks, job, pending, flushVars,
                 closeVars>>

\* OnError returns to runTask; the sender may call it again for a later task.
EndTaskError(w) ==
  /\ CallbackOver(w)
  /\ Step(w, "taskError", "mark")
  /\ callee' = [callee EXCEPT ![w] = NoPayload]
  /\ UNCHANGED <<call, fate, dropped, started, tasks, job, pending, flushVars,
                 closeVars, crash>>

\* runTask's deferred pending.Done().
MarkDone(w) ==
  /\ Step(w, "mark", "receive")
  /\ job' = [job EXCEPT ![w] = NoPayload]
  /\ PendingDone
  /\ UNCHANGED <<captureVars, started, tasks, flush, owed, closeVars, crash>>

-----------------------------------------------------------------------------
(***************************************************************************)
(* Flush: a goroutine waits for the pending group, the caller waits for it *)
(* or for FlushTimeout.  That goroutine outlives a Flush that timed out.   *)
(***************************************************************************)
StartFlush(f) ==
  /\ flush[f] = "idle"
  /\ flush' = [flush EXCEPT ![f] = "waiting"]
  /\ waiter' = [waiter EXCEPT ![f] = "entering"]
  /\ owed' = [owed EXCEPT ![f] = Unsettled]

Flush(f) ==
  /\ f \in Flushers
  /\ StartFlush(f)
  /\ UNCHANGED <<captureVars, poolVars, pending, closeVars, crash>>

\* Mutant of Wait: Flush waits for an empty channel.
WaitForEmptyChannel(f) ==
  /\ waiter[f] = "entering"
  /\ tasks = <<>>
  /\ waiter' = [waiter EXCEPT ![f] = "done"]
  /\ UNCHANGED <<captureVars, poolVars, pending, flush, owed, closeVars, crash>>

\* pending.Wait(): return at once on zero, else park.
Wait(f) ==
  /\ waiter[f] = "entering"
  /\ waiter' = [waiter EXCEPT ![f] = IF pending = 0 THEN "done" ELSE "parked"]
  /\ UNCHANGED <<captureVars, poolVars, pending, flush, owed, closeVars, crash>>

\* A released waiter that finds the group in use again panics: "WaitGroup is
\* reused before previous Wait has returned".  Nothing recovers it.
Woken(f) ==
  /\ waiter[f] = "woken"
  /\ IF pending # 0
       THEN crash' = "waitgroup" /\ UNCHANGED waiter
       ELSE waiter' = [waiter EXCEPT ![f] = "done"] /\ UNCHANGED crash
  /\ UNCHANGED <<captureVars, poolVars, pending, flush, owed, closeVars>>

\* Flush's select: the done channel, or the timer.
EndFlush(f) ==
  /\ flush[f] = "waiting"
  /\ waiter[f] = "done"
  /\ flush' = [flush EXCEPT ![f] = "flushed"]
  /\ UNCHANGED <<captureVars, poolVars, pending, waiter, owed, closeVars, crash>>

ExpireFlush(f) ==
  /\ flush[f] = "waiting"
  /\ flush' = [flush EXCEPT ![f] = "timedout"]
  /\ UNCHANGED <<captureVars, poolVars, pending, waiter, owed, closeVars, crash>>

-----------------------------------------------------------------------------
(***************************************************************************)
(* Close: flush, take closeMu for writing, close the queue, join the pool. *)
(***************************************************************************)
Close(k) ==
  /\ closing[k] = "idle"
  /\ closing' = [closing EXCEPT ![k] = "flush"]
  /\ StartFlush(k)
  /\ UNCHANGED <<captureVars, poolVars, pending, closed, chanClosed, crash>>

\* closeMu.Lock(): one writer at a time asks, and new readers then wait.
AskLock(k) ==
  /\ closing[k] = "flush"
  /\ flush[k] \in {"flushed", "timedout"}
  /\ \A other \in Closers : ~Announced(other)
  /\ closing' = [closing EXCEPT ![k] = "lock"]
  /\ UNCHANGED <<captureVars, poolVars, pending, flushVars, closed, chanClosed,
                 crash>>

\* The section under closeMu.Lock(), entered once the readers are out.
CloseTasks(k) ==
  /\ closing[k] = "lock"
  /\ \A p \in Payloads : ~ReadLocked(p)
  /\ closed' = TRUE
  /\ chanClosed' = (chanClosed \/ (~closed /\ started))
  /\ closing' = [closing EXCEPT ![k] = IF closed THEN "already" ELSE "join"]
  /\ UNCHANGED <<captureVars, poolVars, pending, flushVars, crash>>

\* workers.Wait()
JoinWorkers(k) ==
  /\ closing[k] = "join"
  /\ PoolIsOver
  /\ closing' = [closing EXCEPT ![k] = "stopped"]
  /\ UNCHANGED <<captureVars, poolVars, pending, flushVars, closed, chanClosed,
                 crash>>

-----------------------------------------------------------------------------
CaptureStep(p) ==
  /\ \/ \E verdict \in Verdicts : ApplyBeforeSend(p, verdict)
     \/ EndFilterError(p)
     \/ Enqueue(p)
     \/ AddPending(p)
     \/ Offer(p)
     \/ Refuse(p)
     \/ Drop(p)
     \/ EndEnqueue(p)
  /\ UNCHANGED crash

WorkerStep(w) ==
  \/ Receive(w)
  \/ Exit(w)
  \/ \E result \in Results : RunTask(w, result)
  \/ EndTaskError(w)
  \/ MarkDone(w)

FlushStep(f) == Wait(f) \/ Woken(f) \/ EndFlush(f) \/ ExpireFlush(f)

CloseStep(k) == AskLock(k) \/ CloseTasks(k) \/ JoinWorkers(k)

\* What the application chooses to do.
Application ==
  \/ \E p \in Payloads : Capture(p) /\ UNCHANGED crash
  \/ \E c \in Payloads \cup Workers, p \in Payloads :
       CaptureInOnError(c, p) /\ UNCHANGED crash
  \/ \E f \in Flushers : Flush(f)
  \/ \E k \in Closers : Close(k)

Running ==
  \/ Application
  \/ \E p \in Payloads : CaptureStep(p)
  \/ \E w \in Workers : WorkerStep(w)
  \/ \E f \in FlushCalls : FlushStep(f)
  \/ \E k \in Closers : CloseStep(k)

\* Nothing is under way.  A goroutine parked for ever is never at rest, so TLC's
\* deadlock check finds a lost wakeup and a cycle of waiting goroutines.
AtRest ==
  /\ \A p \in Payloads : call[p] \in {"idle", "returned"}
  /\ \A w \in Workers : worker[w] \in {"off", "receive", "exited"}
  /\ \A f \in FlushCalls : flush[f] # "waiting" /\ waiter[f] \in {"none", "done"}
  /\ \A k \in Closers : closing[k] \in {"idle", "already", "stopped"}

\* A panic nothing recovers ends the process: no step follows it.
Next ==
  \/ crash = "none" /\ Running
  \/ (crash # "none" \/ AtRest) /\ UNCHANGED vars

Spec == Init /\ [][Next]_vars

(***************************************************************************)
(* Goroutines are scheduled, sends end within Options.Timeout, callbacks   *)
(* return, and Flush's timer fires.  Nothing obliges the application to    *)
(* make a call.                                                            *)
(***************************************************************************)
Fairness ==
  /\ \A p \in Payloads : WF_vars(crash = "none" /\ CaptureStep(p))
  /\ \A w \in Workers : WF_vars(crash = "none" /\ WorkerStep(w))
  /\ \A f \in FlushCalls :
       /\ WF_vars(crash = "none" /\ (Wait(f) \/ Woken(f)))
       /\ WF_vars(crash = "none" /\ (EndFlush(f) \/ ExpireFlush(f)))
  /\ \A k \in Closers : WF_vars(crash = "none" /\ CloseStep(k))

FairSpec == Spec /\ Fairness
=============================================================================
