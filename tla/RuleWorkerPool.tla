---------------------------- MODULE RuleWorkerPool ----------------------------
(***************************************************************************)
(* The optimised worker pool of the rule engine and the NATS callback that *)
(* feeds it.  The callback (handleDataPoint) submits one task per rule; a  *)
(* task goes through the dispatcher's channel to one worker's channel,     *)
(* into that worker's batch, and is processed when the batch is full or    *)
(* its timer fires.  A task that finds the dispatcher's channel full waits *)
(* 50 ms, may be put straight into a worker's channel if its rule has high *)
(* priority, and is otherwise processed by the callback itself.            *)
(*                                                                         *)
(* Tasks are numbered in the order the callback submits them.  A timer is  *)
(* a choice that is enabled whenever it may have expired.  RuleEngine-     *)
(* Service.Stop stops the pool before it unsubscribes, so the callback may *)
(* submit to a pool that is stopping or stopped.                           *)
(***************************************************************************)
EXTENDS Naturals, Sequences, FiniteSets, SequencesExt

CONSTANTS NumWorkers, \* workers, numbered from 0
          QueueSize,  \* capacity of the dispatcher's channel
          BatchSize,  \* tasks that make a full batch
          MaxTasks,   \* bound: tasks the callback submits
          High        \* tasks whose rule isHighPriorityRule (subset of 1..MaxTasks)

\* The configuration does not enforce QueueSize >= NumWorkers: below it the channels of
\* the workers are unbuffered, which is not modelled.
ASSUME PoolAssumption ==
    /\ NumWorkers \in Nat \ {0} /\ BatchSize \in Nat \ {0} /\ MaxTasks \in Nat
    /\ QueueSize \in Nat /\ QueueSize >= NumWorkers
    /\ High \subseteq 1..MaxTasks

Workers  == 0..(NumWorkers - 1)
Tasks    == 1..MaxTasks
NoTask   == 0
\* make(chan RuleTask, config.QueueSize/config.NumWorkers)
QueueCap == QueueSize \div NumWorkers

VARIABLES
    submitted,      \* tasks the callback has taken up so far
    caller,         \* where the callback is in SubmitTask for task "submitted"
    forced,         \* the worker forceSubmitHighPriorityTask chose
    dispatcherChan,
    dispatcher,     \* the dispatcher goroutine
    hand,           \* the task the dispatcher has taken from its channel
    choice,         \* the worker it tries
    tried,          \* workers it has found full for this task
    workerQueues,
    batches,
    worker,         \* worker[w]: what the goroutine of w does
    nextWorker, busyWorkers,
    totalTasks, completedTasks, failedTasks,
    pool,           \* where OptimizedWorkerPool.Stop is
    handled,        \* history: handled[t] is how often t was processed
    rejected,       \* history: tasks SubmitTask returned false for
    dropped         \* history: tasks the dispatcher gave up

callerVars == <<submitted, caller, forced>>
dispVars   == <<dispatcher, hand, choice, tried>>
workVars   == <<batches, worker>>
counters   == <<totalTasks, completedTasks, failedTasks>>
history    == <<handled, rejected, dropped>>
vars == <<callerVars, dispatcherChan, dispVars, workerQueues, workVars,
          nextWorker, busyWorkers, counters, pool, history>>

TypeOK ==
    /\ submitted \in 0..MaxTasks
    /\ caller \in {"idle", "submit", "count", "wait", "force", "sync"}
    /\ {forced, choice} \subseteq Workers /\ tried \subseteq Workers
    /\ dispatcherChan \in Seq(Tasks) /\ Len(dispatcherChan) <= QueueSize
    /\ dispatcher \in {"select", "offer", "done"} /\ hand \in Tasks \cup {NoTask}
    /\ \A w \in Workers :
          /\ workerQueues[w] \in Seq(Tasks) /\ Len(workerQueues[w]) <= QueueCap
          /\ batches[w] \in Seq(Tasks) /\ Len(batches[w]) <= BatchSize
          /\ worker[w] \in {"select", "process", "final", "done"}
    /\ nextWorker \in Workers /\ busyWorkers \in [Workers -> 0..BatchSize]
    /\ {totalTasks, completedTasks, failedTasks} \subseteq 0..MaxTasks
    /\ pool \in {"up", "dispatcherStop", "cancelled"}
    /\ handled \in [Tasks -> 0..1]
    /\ rejected \cup dropped \subseteq Tasks

Init ==
    /\ submitted = 0 /\ caller = "idle" /\ forced = 0
    /\ dispatcherChan = <<>>
    /\ dispatcher = "select" /\ hand = NoTask /\ choice = 0 /\ tried = {}
    /\ workerQueues = [w \in Workers |-> <<>>]
    /\ batches = [w \in Workers |-> <<>>]
    /\ worker = [w \in Workers |-> "select"]
    /\ nextWorker = 0 /\ busyWorkers = [w \in Workers |-> 0]
    /\ totalTasks = 0 /\ completedTasks = 0 /\ failedTasks = 0
    /\ pool = "up"
    /\ handled = [t \in Tasks |-> 0] /\ rejected = {} /\ dropped = {}

-----------------------------------------------------------------------------
(* selectBestWorker: the next worker in turn if it is idle, else the first   *)
(* worker with the fewest tasks in its batch.  nextWorker is a uint64 used   *)
(* modulo numWorkers; it is kept modulo numWorkers here.                     *)
Turn == (nextWorker + 1) % NumWorkers

BestWorker ==
    IF busyWorkers[Turn] = 0 THEN Turn
    ELSE CHOOSE w \in Workers :
            \A v \in Workers : \/ busyWorkers[w] < busyWorkers[v]
                               \/ busyWorkers[w] = busyWorkers[v] /\ w <= v

-----------------------------------------------------------------------------
(* The NATS callback.                                                       *)

NewTask ==
    /\ caller = "idle" /\ submitted < MaxTasks
    /\ submitted' = submitted + 1 /\ caller' = "submit"
    /\ UNCHANGED <<forced, dispatcherChan, dispVars, workerQueues, workVars,
                   nextWorker, busyWorkers, counters, pool, history>>

\* SubmitTask: a non-blocking send, then handleBackpressure.
SubmitTask ==
    /\ caller = "submit"
    /\ IF Len(dispatcherChan) < QueueSize
       THEN /\ dispatcherChan' = Append(dispatcherChan, submitted)
            /\ caller' = "count"
       ELSE caller' = "wait" /\ UNCHANGED dispatcherChan
    /\ UNCHANGED <<submitted, forced, dispVars, workerQueues, workVars,
                   nextWorker, busyWorkers, counters, pool, history>>

\* The counter is increased after the send: the pool may be done with the task.
CountTask ==
    /\ caller = "count"
    /\ totalTasks' = totalTasks + 1 /\ caller' = "idle"
    /\ UNCHANGED <<submitted, forced, dispatcherChan, dispVars, workerQueues, workVars,
                   nextWorker, busyWorkers, completedTasks, failedTasks, pool, history>>

\* handleBackpressure: room appears within 50 ms.
WaitSucceeds ==
    /\ caller = "wait" /\ Len(dispatcherChan) < QueueSize
    /\ dispatcherChan' = Append(dispatcherChan, submitted)
    /\ caller' = "count"
    /\ UNCHANGED <<submitted, forced, dispVars, workerQueues, workVars,
                   nextWorker, busyWorkers, counters, pool, history>>

\* A rejection that is not counted when the worker's channel was the last resort.
BadReject ==
    /\ failedTasks' = failedTasks + (IF caller = "wait" THEN 1 ELSE 0)
    /\ rejected' = rejected \cup {submitted}
    /\ caller' = "sync"
    /\ UNCHANGED dispatcherChan

\* The task is counted as failed and SubmitTask returns false.
Reject ==
    /\ failedTasks' = failedTasks + 1
    /\ rejected' = rejected \cup {submitted}
    /\ caller' = "sync"
    /\ UNCHANGED dispatcherChan

\* A wait for room without a timer for rules that are not of high priority.
BadWaitExpires ==
    /\ caller = "wait" /\ submitted \in High
    /\ caller' = "force" /\ forced' = BestWorker /\ nextWorker' = Turn
    /\ UNCHANGED <<submitted, dispatcherChan, dispVars, workerQueues, workVars, busyWorkers,
                   counters, pool, history>>

\* handleBackpressure: the 50 ms are over.
WaitExpires ==
    /\ caller = "wait"
    /\ IF submitted \in High
       THEN /\ caller' = "force" /\ forced' = BestWorker /\ nextWorker' = Turn
            /\ UNCHANGED <<dispatcherChan, failedTasks, rejected>>
       ELSE Reject /\ UNCHANGED <<forced, nextWorker>>
    /\ UNCHANGED <<submitted, dispVars, workerQueues, workVars, busyWorkers,
                   totalTasks, completedTasks, pool, handled, dropped>>

\* A forced submission that does not respect the capacity of the channel.
BadForce ==
    /\ caller = "force"
    /\ workerQueues' = [workerQueues EXCEPT ![forced] = Append(@, submitted)]
    /\ caller' = "count" /\ forced' = 0
    /\ UNCHANGED <<submitted, dispatcherChan, dispVars, workVars,
                   nextWorker, busyWorkers, counters, pool, history>>

\* forceSubmitHighPriorityTask: the chosen worker has room within 20 ms.
ForceSucceeds ==
    /\ caller = "force" /\ Len(workerQueues[forced]) < QueueCap
    /\ workerQueues' = [workerQueues EXCEPT ![forced] = Append(@, submitted)]
    /\ caller' = "count" /\ forced' = 0
    /\ UNCHANGED <<submitted, dispatcherChan, dispVars, workVars,
                   nextWorker, busyWorkers, counters, pool, history>>

ForceExpires ==
    /\ caller = "force" /\ Reject /\ forced' = 0
    /\ UNCHANGED <<submitted, dispVars, workerQueues, workVars, nextWorker, busyWorkers,
                   totalTasks, completedTasks, pool, handled, dropped>>

\* processRule in the callback: the task is processed, the pool's counters are not
\* touched.
ProcessSync ==
    /\ caller = "sync"
    /\ handled' = [handled EXCEPT ![submitted] = @ + 1]
    /\ caller' = "idle"
    /\ UNCHANGED <<submitted, forced, dispatcherChan, dispVars, workerQueues, workVars,
                   nextWorker, busyWorkers, counters, pool, rejected, dropped>>

-----------------------------------------------------------------------------
(* The dispatcher.                                                          *)

TakeTask ==
    /\ dispatcher = "select" /\ dispatcherChan # <<>>
    /\ dispatcherChan' = Tail(dispatcherChan) /\ hand' = Head(dispatcherChan)
    /\ dispatcher' = "offer" /\ choice' = BestWorker /\ nextWorker' = Turn
    /\ tried' = {}
    /\ UNCHANGED <<callerVars, workerQueues, workVars, busyWorkers, counters, pool, history>>

\* A send to the chosen worker; one that is full is left out and
\* tryAlternativeWorkers goes on with the others in order; when none is left the
\* task is dropped.
Untried == Workers \ (tried \cup {choice})

Offered == Len(workerQueues[choice]) < QueueCap

\* A dispatcher that puts a task no worker has room for back into its channel.
BadOffer ==
    /\ dispatcher = "offer"
    /\ IF Offered
       THEN /\ workerQueues' = [workerQueues EXCEPT ![choice] = Append(@, hand)]
            /\ UNCHANGED dispatcherChan
       ELSE /\ Len(dispatcherChan) < QueueSize
            /\ dispatcherChan' = Append(dispatcherChan, hand)
            /\ UNCHANGED workerQueues
    /\ dispatcher' = "select" /\ hand' = NoTask /\ choice' = 0 /\ tried' = {}
    /\ UNCHANGED <<callerVars, workVars, nextWorker, busyWorkers, counters, pool, history>>

Offer ==
    /\ dispatcher = "offer"
    /\ IF Offered \/ Untried = {}
       THEN /\ dispatcher' = "select" /\ hand' = NoTask /\ choice' = 0 /\ tried' = {}
            /\ IF Offered
               THEN /\ workerQueues' = [workerQueues EXCEPT ![choice] = Append(@, hand)]
                    /\ UNCHANGED <<failedTasks, dropped>>
               ELSE /\ failedTasks' = failedTasks + 1 /\ dropped' = dropped \cup {hand}
                    /\ UNCHANGED workerQueues
       ELSE /\ tried' = tried \cup {choice}
            /\ choice' = CHOOSE w \in Untried : \A v \in Untried : w <= v
            /\ UNCHANGED <<dispatcher, hand, workerQueues, failedTasks, dropped>>
    /\ UNCHANGED <<callerVars, dispatcherChan, workVars, nextWorker, busyWorkers,
                   totalTasks, completedTasks, pool, handled, rejected>>

DispatcherExit ==
    /\ dispatcher = "select" /\ pool # "up"
    /\ dispatcher' = "done"
    /\ UNCHANGED <<callerVars, dispatcherChan, hand, choice, tried, workerQueues, workVars,
                   nextWorker, busyWorkers, counters, pool, history>>

-----------------------------------------------------------------------------
(* A worker.                                                                *)

\* A worker takes a task from its channel into its batch and counts it as work.
WorkerTake(w) ==
    /\ worker[w] = "select" /\ workerQueues[w] # <<>>
    /\ workerQueues' = [workerQueues EXCEPT ![w] = Tail(@)]
    /\ batches' = [batches EXCEPT ![w] = Append(@, Head(workerQueues[w]))]
    /\ busyWorkers' = [busyWorkers EXCEPT ![w] = @ + 1]
    /\ worker' = [worker EXCEPT ![w] = IF Len(batches'[w]) >= BatchSize THEN "process" ELSE @]
    /\ UNCHANGED <<callerVars, dispatcherChan, dispVars, nextWorker, counters, pool, history>>

\* A timer that only a second task of the batch starts.
BadBatchTimeout(w) ==
    /\ worker[w] = "select" /\ Len(batches[w]) > 1
    /\ worker' = [worker EXCEPT ![w] = "process"]
    /\ UNCHANGED <<callerVars, dispatcherChan, dispVars, workerQueues, batches, nextWorker,
                   busyWorkers, counters, pool, history>>

\* batchTimer expires for a batch that is not full.
BatchTimeout(w) ==
    /\ worker[w] = "select" /\ batches[w] # <<>>
    /\ worker' = [worker EXCEPT ![w] = "process"]
    /\ UNCHANGED <<callerVars, dispatcherChan, dispVars, workerQueues, batches, nextWorker,
                   busyWorkers, counters, pool, history>>

\* A worker that goes back to its select after the final batch without leaving.
BadWorkerCancelled(w) ==
    /\ worker[w] = "select" /\ pool = "cancelled" /\ batches[w] # <<>>
    /\ worker' = [worker EXCEPT ![w] = "process"]
    /\ UNCHANGED <<callerVars, dispatcherChan, dispVars, workerQueues, batches, nextWorker,
                   busyWorkers, counters, pool, history>>

\* ctx.Done: a batch that is not empty is processed before the worker ends.
WorkerCancelled(w) ==
    /\ worker[w] = "select" /\ pool = "cancelled"
    /\ worker' = [worker EXCEPT ![w] = IF batches[w] # <<>> THEN "final" ELSE "done"]
    /\ UNCHANGED <<callerVars, dispatcherChan, dispVars, workerQueues, batches, nextWorker,
                   busyWorkers, counters, pool, history>>

\* A batch that is kept, to be processed again, when the timer flushed it.
BadProcessBatch(w) ==
    LET tasks == ToSet(batches[w]) IN
    /\ worker[w] \in {"process", "final"}
    /\ completedTasks' = completedTasks + Cardinality(tasks)
    /\ handled' = [t \in Tasks |-> IF t \in tasks THEN 1 ELSE handled[t]]
    /\ batches' = [batches EXCEPT ![w] = IF Len(@) = BatchSize THEN <<>> ELSE @]
    /\ worker' = [worker EXCEPT ![w] = IF @ = "final" THEN "done" ELSE "select"]
    /\ busyWorkers' = [busyWorkers EXCEPT ![w] = Len(batches'[w])]
    /\ UNCHANGED <<callerVars, dispatcherChan, dispVars, workerQueues, nextWorker,
                   totalTasks, failedTasks, pool, rejected, dropped>>

\* processBatch: any of the tasks may return an error (processRuleTaskInternal);
\* the counters are updated once, at the end, and the batch is emptied.
ProcessBatch(w) ==
    LET tasks == ToSet(batches[w]) IN
    /\ worker[w] \in {"process", "final"}
    /\ \E errs \in SUBSET tasks :
          /\ completedTasks' = completedTasks + Cardinality(tasks \ errs)
          /\ failedTasks' = failedTasks + Cardinality(errs)
    /\ handled' = [t \in Tasks |-> IF t \in tasks THEN handled[t] + 1 ELSE handled[t]]
    /\ batches' = [batches EXCEPT ![w] = <<>>]
    /\ worker' = [worker EXCEPT ![w] = IF @ = "final" THEN "done" ELSE "select"]
    /\ busyWorkers' = [busyWorkers EXCEPT ![w] = IF worker[w] = "final" THEN @ ELSE 0]
    /\ UNCHANGED <<callerVars, dispatcherChan, dispVars, workerQueues, nextWorker,
                   totalTasks, pool, rejected, dropped>>

-----------------------------------------------------------------------------
(* OptimizedWorkerPool.Stop.                                                *)
StopPool ==
    /\ \/ pool = "up" /\ pool' = "dispatcherStop"
       \/ pool = "dispatcherStop" /\ pool' = "cancelled"
    /\ UNCHANGED <<callerVars, dispatcherChan, dispVars, workerQueues, workVars,
                   nextWorker, busyWorkers, counters, history>>

-----------------------------------------------------------------------------
Caller == \/ SubmitTask \/ CountTask \/ WaitSucceeds \/ WaitExpires
          \/ ForceSucceeds \/ ForceExpires \/ ProcessSync
Work(w) == WorkerTake(w) \/ BatchTimeout(w) \/ ProcessBatch(w)
Next ==
    \/ NewTask \/ Caller \/ TakeTask \/ Offer \/ DispatcherExit \/ StopPool
    \/ \E w \in Workers : Work(w) \/ WorkerCancelled(w)

\* Every goroutine is scheduled and every timer expires; the second half of Stop
\* follows the first.  Nothing obliges the bus to deliver or Stop to be called.
Fairness ==
    /\ WF_vars(Caller) /\ WF_vars(TakeTask \/ Offer) /\ WF_vars(DispatcherExit)
    /\ WF_vars(pool = "dispatcherStop" /\ StopPool)
    /\ \A w \in Workers :
          /\ WF_vars(Work(w))
          /\ WF_vars(WorkerCancelled(w))
Spec == Init /\ [][Next]_vars /\ Fairness

-----------------------------------------------------------------------------
Occurs(t, s) == Cardinality({i \in DOMAIN s : s[i] = t})
One(cond)    == IF cond THEN 1 ELSE 0
Queued       == FoldFunction(LAMBDA q, n : n + Len(q), 0, workerQueues)
                + FoldFunction(LAMBDA b, n : n + Len(b), 0, batches)
InPool       == Len(dispatcherChan) + One(hand # NoTask) + Queued

\* Every task the callback took up is in exactly one place: with the callback, in
\* one channel, with the dispatcher, in one batch, processed once, or dropped by
\* the dispatcher.  No interleaving of submission, back pressure, forced
\* submission, batching and shutdown loses a task elsewhere or processes it twice.
ExactlyOnce ==
    \A t \in Tasks :
        Occurs(t, dispatcherChan) + One(hand = t)
        + FoldFunction(LAMBDA q, n : n + Occurs(t, q), 0, workerQueues)
        + FoldFunction(LAMBDA b, n : n + Occurs(t, b), 0, batches)
        + handled[t] + One(t \in dropped)
        + One(t = submitted /\ caller \in {"submit", "wait", "force", "sync"})
        = One(t <= submitted)

\* The counters GetStats reports balance at every moment: what was completed or
\* failed or is still in the pool is what was submitted or rejected, where a task
\* whose send is done but not yet counted (caller = "count") is the only slack.
CountersBalance ==
    completedTasks + failedTasks + InPool
        = totalTasks + Cardinality(rejected) + One(caller = "count")

Ascending(s) == \A i, j \in DOMAIN s : i < j => s[i] < s[j]

\* On the way through the dispatcher to one worker no task overtakes another: only
\* a task that forceSubmitHighPriorityTask put in directly may be out of order.
PerWorkerOrder ==
    \A w \in Workers :
        Ascending(SelectSeq(batches[w] \o workerQueues[w]
                            \o (IF hand = NoTask THEN <<>> ELSE <<hand>>) \o dispatcherChan,
                            LAMBDA t : t \notin High))

\* The pool never holds up the NATS callback: SubmitTask returns, and the callback
\* is free for the next message, even when the pool is stopped.
CallbackReturns == caller # "idle" ~> caller = "idle"

\* A task the pool took is processed or dropped, unless the pool is stopped.
TaskSettled ==
    \A t \in Tasks : submitted >= t ~> handled[t] = 1 \/ t \in dropped \/ pool # "up"

\* OptimizedWorkerPool.Stop returns: its wg.Wait sees the dispatcher and every worker
\* end.  (It also waits for statsCollector, which only logs and is left out.)
StopReturns ==
    pool # "up" ~> dispatcher = "done" /\ \A w \in Workers : worker[w] = "done"

\* A task that the pool has no room for is processed synchronously, not dropped.
FullMeansSync == dropped = {}
=============================================================================
