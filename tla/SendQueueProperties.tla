------------------------ MODULE SendQueueProperties ------------------------
(***************************************************************************)
(* What SendQueue must satisfy: its type invariant, the safety and         *)
(* liveness properties of the queue, and the refinement of Delivery.       *)
(***************************************************************************)
EXTENDS SendQueue

\* The type of every variable; the queue never exceeds the capacity that
\* ensureWorkers gave the channel.
Shape ==
  /\ call \in [Payloads -> CallSteps]
  /\ fate \in [Payloads -> Fates]
  /\ callee \in [Payloads \cup Workers -> Payloads \cup {NoPayload}]
  /\ dropped \in Nat
  /\ closed \in BOOLEAN
  /\ started \in BOOLEAN
  /\ tasks \in Seq(Payloads)
  /\ Len(tasks) <= Capacity
  /\ chanClosed \in BOOLEAN
  /\ worker \in [Workers -> WorkerSteps]
  /\ job \in [Workers -> Payloads \cup {NoPayload}]
  /\ pending \in Int
  /\ flush \in [FlushCalls -> {"idle", "waiting", "flushed", "timedout"}]
  /\ waiter \in [FlushCalls -> {"none", "entering", "parked", "woken", "done"}]
  /\ owed \in [FlushCalls -> SUBSET Payloads]
  /\ closing \in [Closers -> {"idle", "flush", "lock", "join", "already",
                              "stopped"}]
  /\ crash \in {"none", "transport", "waitgroup"}

\* Every variable holds a value of its type, and the wait group's counter never
\* goes below zero, which would panic: every Done follows an Add of its own
\* (client.go:457-461, 517).
TypeOK == Shape /\ pending >= 0

-----------------------------------------------------------------------------
\* Payloads that hold a slot of the pending group: about to be offered to the
\* channel, waiting in it, or in the hands of a sender.
Outstanding ==
  {p \in Payloads : \/ call[p] = "send"
                    \/ fate[p] = "queued"
                    \/ \E w \in Workers : job[w] = p}

\* The wait group counts exactly the outstanding payloads, so that it neither
\* goes negative (which panics) nor keeps Flush waiting for work that is over.
\* enqueue adds before it knows whether the channel takes the task and gives the
\* slot back when it does not (client.go:457-462); runTask gives it back on
\* every path (client.go:517).
PendingMatchesWork == pending = Cardinality(Outstanding)

\* Whoever is about to offer a task to the channel finds it open: a send on a
\* closed channel panics in the application's goroutine.  closeMu keeps Close
\* out between the closed check and the select (client.go:449-463, 389-395).
NoSendOnClosedChannel ==
  \A p \in Payloads : call[p] \in {"add", "send"} => started /\ ~chanClosed

\* A pool that exists when the client is closed has been told to stop: no capture
\* starts one "that would then never be shut down" (client.go:447-448).
NoOrphanPool == closed /\ started => chanClosed

Drained ==
  /\ tasks = <<>>
  /\ Unsettled = {}
  /\ \A w \in Workers : worker[w] \in {"off", "exited"}

\* When the Close that shut the client returns, every accepted payload has been
\* attempted and no sender is left, even if its Flush timed out
\* (client.go:383-400).
StoppedMeansDrained ==
  \A k \in Closers : closing[k] = "stopped" => Drained

\* A capture call that has returned left its payload withheld by BeforeSend or by
\* the transport's lack of a sender, counted as dropped, or in the sender's
\* hands; Dropped() counts each discarded payload once (client.go:446-483).
NothingLostSilently ==
  /\ \A p \in Payloads : call[p] = "returned" => fate[p] # "none"
  /\ dropped = Cardinality({p \in Payloads : fate[p] = "dropped"})

\* A Flush that returns before its timeout has seen the end of every delivery
\* attempt that was queued or in flight when it was called (client.go:361-378).
FlushCovers ==
  \A f \in FlushCalls : flush[f] = "flushed" => owed[f] \cap Unsettled = {}

-----------------------------------------------------------------------------
\* Where a goroutine stands that has a step to take now, whatever the others do: what
\* the guards of its steps ask for.
CaptureGoesOn(p) ==
  \/ call[p] = "filter" /\ Verdicts # {}
  \/ call[p] \in {"add", "send", "drop", "unlock"}
  \/ call[p] \in {"filterError", "dropError"} /\ CallbackOver(p)
  \/ call[p] = "enqueue" /\ MayReadLock

WorkerGoesOn(w) ==
  \/ worker[w] = "sending" /\ Results # {}
  \/ worker[w] = "mark"
  \/ worker[w] = "taskError" /\ CallbackOver(w)
  \/ worker[w] = "receive" /\ (tasks # <<>> \/ chanClosed)

CloseGoesOn(k) ==
  \/ closing[k] = "flush" /\ flush[k] # "waiting" /\ MayReadLock
  \/ closing[k] = "lock" /\ \A p \in Payloads : ~ReadLocked(p)
  \/ closing[k] = "join" /\ PoolIsOver

CapturesGoOn == \E p \in Payloads : CaptureGoesOn(p)
WorkersGoOn == \E w \in Workers : WorkerGoesOn(w)
WriterGoesOn == \E k \in Closers : Announced(k) /\ CloseGoesOn(k)

\* Whoever waits, waits for somebody who can go on: a capture for a Close that has
\* asked for closeMu, or for its readers; a Flush that is to see the group at zero for
\* a capture or a sender; a Close, once its Flush is over, for one of these.  No lock,
\* channel or group has everyone waiting on everyone, so long as no OnError captures in a
\* client that is being closed (client.go:361-400, 446-463, 503-518).
NobodyWaitsInVain ==
  crash = "none" =>
    /\ \A p \in Payloads :
         call[p] \notin {"idle", "returned"} => CapturesGoOn \/ WriterGoesOn
    /\ \A w \in Workers :
         worker[w] \in {"sending", "taskError", "mark"} =>
           CapturesGoOn \/ WorkerGoesOn(w)
    /\ \A f \in FlushCalls : waiter[f] = "parked" => CapturesGoOn \/ WorkersGoOn
    /\ \A k \in Closers :
         /\ closing[k] \in {"flush", "lock"} /\ flush[k] # "waiting" =>
              CloseGoesOn(k) \/ CapturesGoOn \/ WriterGoesOn
         /\ closing[k] = "join" => CloseGoesOn(k) \/ CapturesGoOn \/ WorkersGoOn

\* The client comes to a halt only where all is done: unless everything is at rest,
\* somebody has a step to take, if it is only Flush's timer (client.go:361-524).
SomebodyGoesOn ==
  \/ CapturesGoOn \/ WorkersGoOn
  \/ \E k \in Closers : CloseGoesOn(k)
  \/ \E f \in FlushCalls : flush[f] = "waiting" \/ waiter[f] \in {"entering", "woken"}

HaltMeansRest == crash = "none" => SomebodyGoesOn \/ AtRest

-----------------------------------------------------------------------------
\* How far a goroutine has come that stands at a place of its code, and how far a
\* payload has: out of its sender's hands is farther than in them.
CallRank(at) ==
  CASE at = "idle" -> 0
    [] at = "filter" -> 1
    [] at \in {"filterError", "enqueue"} -> 2
    [] at = "add" -> 3
    [] at = "send" -> 4
    [] at = "drop" -> 5
    [] at \in {"dropError", "unlock"} -> 6
    [] at = "returned" -> 7

InHand(p, at) == \E w \in Workers : job[w] = p /\ worker[w] = at

FateRank(p) ==
  CASE fate[p] = "none" -> 0
    [] fate[p] = "queued" -> 1
    [] fate[p] = "inflight" -> 2
    [] fate[p] \in {"delivered", "failed"} ->
         IF InHand(p, "taskError") THEN 3 ELSE IF InHand(p, "mark") THEN 4 ELSE 5
    [] fate[p] \in {"withheld", "dropped"} -> 5

WorkerRank(at) == IF at = "off" THEN 0 ELSE IF at = "exited" THEN 2 ELSE 1

FlushRank(at) == IF at = "idle" THEN 0 ELSE IF at = "waiting" THEN 1 ELSE 2

WaiterRank(at) ==
  CASE at = "none" -> 0
    [] at = "entering" -> 1
    [] at = "parked" -> 2
    [] at = "woken" -> 3
    [] at = "done" -> 4

CloseRank(at) ==
  CASE at = "idle" -> 0
    [] at = "flush" -> 1
    [] at = "lock" -> 2
    [] at = "join" -> 3
    [] at \in {"already", "stopped"} -> 4

NothingUndone ==
  /\ \A p \in Payloads : CallRank(call'[p]) >= CallRank(call[p])
  /\ \A p \in Payloads : FateRank(p)' >= FateRank(p)
  /\ \A w \in Workers : WorkerRank(worker'[w]) >= WorkerRank(worker[w])
  /\ \A f \in FlushCalls : FlushRank(flush'[f]) >= FlushRank(flush[f])
  /\ \A f \in FlushCalls : WaiterRank(waiter'[f]) >= WaiterRank(waiter[f])
  /\ \A k \in Closers : CloseRank(closing'[k]) >= CloseRank(closing[k])

SomethingDone ==
  \/ \E p \in Payloads : CallRank(call'[p]) > CallRank(call[p])
  \/ \E p \in Payloads : FateRank(p)' > FateRank(p)
  \/ \E w \in Workers : WorkerRank(worker'[w]) > WorkerRank(worker[w])
  \/ \E f \in FlushCalls : FlushRank(flush'[f]) > FlushRank(flush[f])
  \/ \E f \in FlushCalls : WaiterRank(waiter'[f]) > WaiterRank(waiter[f])
  \/ \E k \in Closers : CloseRank(closing'[k]) > CloseRank(closing[k])
  \/ crash = "none" /\ crash' # "none"

\* No step of the client is undone by a later one and each gets something farther:
\* nobody goes round in circles, however long the senders loop (client.go:361-524).
\* Where there are so many captures, flushes and closes and no more, it comes to an end.
EveryStepAdvances == [][NothingUndone /\ SomethingDone]_vars

-----------------------------------------------------------------------------
\* SendQueue implements Delivery: the queue, the pool, the locks and the wait
\* group together keep what the client promises its application.
Outcome(end) ==
  CASE end = "none" -> "pending"
    [] end = "withheld" -> "withheld"
    [] end = "dropped" -> "lost"
    [] end \in {"queued", "inflight"} -> "accepted"
    [] end \in {"delivered", "failed"} -> "settled"

AbstractOutcome == [p \in Payloads |-> Outcome(fate[p])]

AbstractPhase ==
  IF \E k \in Closers : closing[k] = "stopped" THEN "stopped"
  ELSE IF closed THEN "shut" ELSE "open"

D == INSTANCE Delivery WITH outcome <- AbstractOutcome,
                            lost <- dropped,
                            phase <- AbstractPhase,
                            flushing <- flush

\* Every behaviour of the client's queue is one of Delivery (client.go:361-524).
ImplementsDelivery == D!Spec

-----------------------------------------------------------------------------
Crashed == crash # "none"

\* The captures of one goroutine, each made by the OnError of the one before: the
\* innermost asks for closeMu.
AsksAgain(nested) ==
  \A p \in nested :
    \/ call[p] = "enqueue"
    \/ call[p] \in {"filterError", "dropError"} /\ callee[p] \in nested

\* The one deadlock of the client: OnError captures on a goroutine that holds closeMu
\* for reading while a Close has asked for it.  The capture waits for the Close, the
\* Close for that goroutine, and whoever comes later for the Close (client.go:389,
\* 449, 470).
CaughtByClose ==
  /\ \E k \in Closers : Announced(k)
  /\ \E nested \in SUBSET Payloads :
       AsksAgain(nested) /\ \E p \in nested : call[p] = "dropError"

\* What ends the client's service: a panic nothing recovers, or that deadlock.
Halted == Crashed \/ CaughtByClose

\* A payload the queue has taken is eventually attempted, Close or no Close, unless
\* the process dies first or OnError's capture meets a Close (client.go:503-510).
AcceptedIsSettled ==
  \A p \in Payloads :
    fate[p] = "queued" ~> fate[p] \in {"delivered", "failed"} \/ Halted

\* A capture call returns: enqueue never blocks on a full queue, and a Close under
\* way delays it only for a while, OnError's own captures included unless they are
\* made with closeMu held (client.go:439-464).
CaptureReturns ==
  \A p \in Payloads : call[p] # "idle" ~> call[p] = "returned" \/ Halted

\* The goroutine that Flush starts ends: once its Flush has timed out nothing but
\* the pending group reaching zero can release it (client.go:366-370).
FlushLeaksNoGoroutine ==
  \A f \in FlushCalls : waiter[f] = "entering" ~> waiter[f] = "done" \/ Halted

-----------------------------------------------------------------------------
(***************************************************************************)
(* What the repository's comments say and the code does not do.            *)
(***************************************************************************)

\* "monitoring must never become the thing that takes the application down"
\* (client.go:439-440): a Flush that overlaps captures never panics in
\* pending.Wait().
FlushNeverPanics == crash # "waitgroup"
=============================================================================
