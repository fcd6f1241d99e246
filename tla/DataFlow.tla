------------------------------- MODULE DataFlow -------------------------------
(***************************************************************************)
(* The data path of the gateway and its start and stop.  Adapters hand     *)
(* points to the plugin manager through the bounded channel dataChan; one  *)
(* goroutine collects them in a batch and, when the batch is full or the   *)
(* 100 ms ticker fires, passes the batch to every sink and then publishes  *)
(* each point on NATS, where the rule engine is subscribed.  The goroutine *)
(* of main starts the plugin manager (sinks, adapters, batch loop), then   *)
(* the services; on a signal it cancels the context and stops the plugin   *)
(* manager (sinks, adapters), then the services, then closes NATS.         *)
(*                                                                         *)
(* A point that cannot be serialized or published is logged and skipped.   *)
(* NATS keeps the published messages of a subscription in a queue from     *)
(* which the engine's callback takes them one by one; a queue that is full *)
(* drops the message (slow consumer).  What a message carries can always   *)
(* be unmarshalled, since it was marshalled from a point.                  *)
(*                                                                         *)
(* What a sink does with a batch is abstracted to how many of its points   *)
(* it takes before it returns: a full queue or a failed write ends the     *)
(* call early.                                                             *)
(***************************************************************************)
EXTENDS Naturals, Sequences, FiniteSets, SequencesExt

CONSTANTS Adapters,   \* the configured adapters
          Sinks,      \* the configured sinks
          Ungated,    \* sinks whose Publish does not test IsRunning (console)
          ChanCap,    \* capacity of dataChan (1000 in the code)
          BatchSize,  \* points that make a full batch (10 in the code)
          InboxCap,   \* messages NATS keeps for the subscription
          NotANumber, \* which points of an adapter json.Marshal refuses (NaN, infinite)
          MaxPoints   \* bound: points an adapter produces

ASSUME DataFlowAssumption ==
    /\ IsFiniteSet(Adapters) /\ IsFiniteSet(Sinks) /\ Ungated \subseteq Sinks
    /\ ChanCap \in Nat \ {0} /\ BatchSize \in Nat \ {0}
    /\ InboxCap \in Nat \ {0} /\ MaxPoints \in Nat /\ NotANumber \subseteq 1..MaxPoints

VARIABLES
    stage,      \* where main is in Runtime.Start and Runtime.Stop
    todo,       \* sinks or adapters main has still to start or stop in this stage
    ctxDone,    \* the context passed to every Start is cancelled
    live,       \* adapters whose goroutine runs
    running,    \* sinks with the running flag set
    produced,   \* produced[a]: points adapter a has tried to send
    dataChan,
    loop,       \* the batch goroutine
    batch,
    unsent,     \* sinks the batch has still to be passed to
    outgoing,   \* serialized points of the batch still to be published on NATS
    subscribed, \* the rule engine's NATS subscription is active
    inbox,      \* messages of the subscription that wait for handleDataPoint
    accepted,   \* history: points dataChan took, in order
    received,   \* history: received[s] is what sink s took, in order
    failed,     \* history: sinks that returned an error from Publish
    errored,    \* history: points whose Marshal or Publish error was logged
    bus,        \* history: points published on iot.data.>, in order
    early,      \* history: points published while the engine was not subscribed
    overrun,    \* history: points dropped by a full inbox
    engine      \* history: points handleDataPoint was called with, in order

mainVars == <<stage, todo, ctxDone>>
subVars  == <<subscribed, inbox>>
loopVars == <<loop, batch, unsent, outgoing>>
busVars  == <<errored, bus, early, overrun>>
history  == <<accepted, received, failed, busVars, engine>>
vars     == <<mainVars, subVars, live, running, produced, dataChan, loopVars, history>>

Points == Adapters \X (1..MaxPoints)
Stages == {"startSinks", "startAdapters", "startServices", "up",
           "stopSinks", "stopAdapters", "stopServices", "closed"}

TypeOK ==
    /\ stage \in Stages /\ todo \subseteq Adapters \cup Sinks
    /\ ctxDone \in BOOLEAN /\ subscribed \in BOOLEAN
    /\ live \subseteq Adapters /\ running \subseteq Sinks
    /\ produced \in [Adapters -> 0..MaxPoints]
    /\ dataChan \in Seq(Points) /\ Len(dataChan) <= ChanCap
    /\ loop \in {"off", "select", "publish", "bus", "done"}
    /\ batch \in Seq(Points) /\ Len(batch) <= BatchSize
    /\ unsent \subseteq Sinks /\ outgoing \in Seq(Points)
    /\ inbox \in Seq(Points) /\ Len(inbox) <= InboxCap
    /\ {accepted, bus, engine} \subseteq Seq(Points)
    /\ errored \cup early \cup overrun \subseteq Points
    /\ received \in [Sinks -> Seq(Points)] /\ failed \subseteq Sinks

Init ==
    /\ stage = "startSinks" /\ todo = Sinks
    /\ ctxDone = FALSE /\ subscribed = FALSE
    /\ live = {} /\ running = {}
    /\ produced = [a \in Adapters |-> 0]
    /\ dataChan = <<>> /\ inbox = <<>>
    /\ loop = "off" /\ batch = <<>> /\ unsent = {} /\ outgoing = <<>>
    /\ accepted = <<>> /\ received = [s \in Sinks |-> <<>>]
    /\ failed = {} /\ bus = <<>> /\ engine = <<>>
    /\ errored = {} /\ early = {} /\ overrun = {}

-----------------------------------------------------------------------------
(* main: Runtime.Start, the signal, Runtime.Stop.                           *)

\* A sink's Start sets the running flag first; a later error leaves it set.
StartSink(s) ==
    /\ stage = "startSinks" /\ s \in todo
    /\ todo' = todo \ {s}
    /\ running' = running \cup {s}
    /\ UNCHANGED <<stage, ctxDone, subVars, live, produced, dataChan, loopVars, history>>

SinksStarted ==
    /\ stage = "startSinks" /\ todo = {}
    /\ stage' = "startAdapters" /\ todo' = Adapters
    /\ UNCHANGED <<ctxDone, subVars, live, running, produced, dataChan, loopVars, history>>

\* An adapter that fails to start is logged and skipped.
StartAdapter(a) ==
    /\ stage = "startAdapters" /\ a \in todo
    /\ todo' = todo \ {a}
    /\ live' \in {live, live \cup {a}}
    /\ UNCHANGED <<stage, ctxDone, subVars, running, produced, dataChan, loopVars, history>>

LaunchLoop ==
    /\ stage = "startAdapters" /\ todo = {}
    /\ stage' = "startServices"
    /\ loop' = "select"
    /\ UNCHANGED <<todo, ctxDone, subVars, live, running, produced, dataChan,
                   batch, unsent, outgoing, history>>

\* RuleEngineService.Start subscribes to iot.data.>.
StartServices ==
    /\ stage = "startServices"
    /\ stage' = "up" /\ subscribed' = TRUE
    /\ UNCHANGED <<todo, ctxDone, inbox, live, running, produced, dataChan, loopVars, history>>

Signal ==
    /\ stage = "up"
    /\ stage' = "stopSinks" /\ todo' = Sinks /\ ctxDone' = TRUE
    /\ UNCHANGED <<subVars, live, running, produced, dataChan, loopVars, history>>

StopSink(s) ==
    /\ stage = "stopSinks" /\ s \in todo
    /\ todo' = todo \ {s}
    /\ running' = running \ {s}
    /\ UNCHANGED <<stage, ctxDone, subVars, live, produced, dataChan, loopVars, history>>

\* An adapter's Stop closes its stop channel; its goroutine ends in AdapterExit.
StopAdapters ==
    /\ stage = "stopSinks" /\ todo = {}
    /\ stage' = "stopAdapters"
    /\ UNCHANGED <<todo, ctxDone, subVars, live, running, produced, dataChan, loopVars, history>>

\* RuleEngineService.Stop unsubscribes; NATS throws the waiting messages away.
StopServices ==
    /\ stage = "stopAdapters"
    /\ stage' = "stopServices" /\ subscribed' = FALSE /\ inbox' = <<>>
    /\ UNCHANGED <<todo, ctxDone, live, running, produced, dataChan, loopVars, history>>

CloseBus ==
    /\ stage = "stopServices"
    /\ stage' = "closed"
    /\ UNCHANGED <<todo, ctxDone, subVars, live, running, produced, dataChan, loopVars, history>>

-----------------------------------------------------------------------------
(* The adapters.                                                            *)

\* SafeSendDataPoint: a non-blocking send; a point that finds the channel full
\* is dropped.
SafeSendDataPoint(p) ==
    IF Len(dataChan) < ChanCap
    THEN dataChan' = Append(dataChan, p) /\ accepted' = Append(accepted, p)
    ELSE UNCHANGED <<dataChan, accepted>>

Produce(a) ==
    /\ a \in live /\ produced[a] < MaxPoints
    /\ produced' = [produced EXCEPT ![a] = @ + 1]
    /\ SafeSendDataPoint(<<a, produced[a] + 1>>)
    /\ UNCHANGED <<mainVars, subVars, live, running, loopVars, received, failed, busVars, engine>>

\* A goroutine that polls its stop channel and can miss the moment it is closed.
BadAdapterExit(a) ==
    /\ stage = "stopAdapters" /\ a \in live
    /\ live' = live \ {a}
    /\ UNCHANGED <<mainVars, subVars, running, produced, dataChan, loopVars, history>>

AdapterExit(a) ==
    /\ ctxDone /\ a \in live
    /\ live' = live \ {a}
    /\ UNCHANGED <<mainVars, subVars, running, produced, dataChan, loopVars, history>>

-----------------------------------------------------------------------------
(* The batch goroutine.                                                     *)

\* The test for a full batch off by one.
BadReceive ==
    /\ loop = "select" /\ dataChan # <<>>
    /\ batch' = Append(batch, Head(dataChan))
    /\ dataChan' = Tail(dataChan)
    /\ IF Len(batch') > BatchSize
       THEN loop' = "publish" /\ unsent' = Sinks
       ELSE UNCHANGED <<loop, unsent>>
    /\ UNCHANGED <<mainVars, subVars, live, running, produced, outgoing, history>>

Receive ==
    /\ loop = "select" /\ dataChan # <<>>
    /\ batch' = Append(batch, Head(dataChan))
    /\ dataChan' = Tail(dataChan)
    /\ IF Len(batch') >= BatchSize
       THEN loop' = "publish" /\ unsent' = Sinks
       ELSE UNCHANGED <<loop, unsent>>
    /\ UNCHANGED <<mainVars, subVars, live, running, produced, outgoing, history>>

\* A ticker that sends full batches only.
BadTick ==
    /\ loop = "select" /\ Len(batch) >= BatchSize
    /\ loop' = "publish" /\ unsent' = Sinks
    /\ UNCHANGED <<mainVars, subVars, live, running, produced, dataChan, batch, outgoing, history>>

Tick ==
    /\ loop = "select" /\ batch # <<>>
    /\ loop' = "publish" /\ unsent' = Sinks
    /\ UNCHANGED <<mainVars, subVars, live, running, produced, dataChan, batch, outgoing, history>>

\* The range over the sinks that returns at the first error.
BadPublish(s) ==
    /\ loop = "publish" /\ s \in unsent
    /\ \E n \in 0..Len(batch) :
          /\ received' = [received EXCEPT ![s] = @ \o SubSeq(batch, 1, n)]
          /\ IF n < Len(batch)
             THEN failed' = failed \cup {s} /\ unsent' = {}
             ELSE failed' = failed /\ unsent' = unsent \ {s}
    /\ UNCHANGED <<mainVars, subVars, live, running, produced, dataChan, loop, batch,
                   outgoing, accepted, busVars, engine>>

\* sink.Publish(points): a gated sink that is not running refuses the batch; any
\* other takes the points in order until one of them fails.
Publish(s) ==
    /\ loop = "publish" /\ s \in unsent
    /\ unsent' = unsent \ {s}
    /\ \E n \in 0..Len(batch) :
          /\ s \in running \cup Ungated \/ n = 0
          /\ received' = [received EXCEPT ![s] = @ \o SubSeq(batch, 1, n)]
          /\ failed' = IF n < Len(batch) THEN failed \cup {s} ELSE failed
    /\ UNCHANGED <<mainVars, subVars, live, running, produced, dataChan, loop, batch,
                   outgoing, accepted, busVars, engine>>

\* After the sinks, the points of the batch are serialized; json.Marshal fails for a
\* value that is not a number, which is logged and the point skipped.
PublishedToSinks ==
    /\ loop = "publish" /\ unsent = {}
    /\ loop' = "bus"
    /\ outgoing' = SelectSeq(batch, LAMBDA p : p[2] \notin NotANumber)
    /\ errored' = errored \cup {p \in ToSet(batch) : p[2] \in NotANumber}
    /\ UNCHANGED <<mainVars, subVars, live, running, produced, dataChan, batch, unsent,
                   accepted, received, failed, bus, early, overrun, engine>>

\* NATS puts a published point in the queue of the subscription, if there is one and
\* it has room.
Deliver(p) ==
    /\ early' = IF subscribed THEN early ELSE early \cup {p}
    /\ IF subscribed /\ Len(inbox) < InboxCap
       THEN inbox' = Append(inbox, p) /\ UNCHANGED overrun
       ELSE /\ overrun' = IF subscribed THEN overrun \cup {p} ELSE overrun
            /\ UNCHANGED inbox

\* The loop of publishBatch left at the first error.
StopAtError ==
    /\ loop = "bus" /\ outgoing # <<>>
    /\ LET p == Head(outgoing) IN
       \/ /\ stage # "closed"
          /\ outgoing' = Tail(outgoing)
          /\ bus' = Append(bus, p) /\ Deliver(p) /\ UNCHANGED errored
       \/ /\ errored' = errored \cup {p} /\ outgoing' = <<>>
          /\ UNCHANGED <<inbox, bus, early, overrun>>
    /\ UNCHANGED <<mainVars, subscribed, live, running, produced, dataChan, loop, batch, unsent,
                   accepted, received, failed, engine>>

\* The rule engine's subject left out for the last point of a batch.
BadPublishPoint ==
    /\ loop = "bus" /\ outgoing # <<>>
    /\ outgoing' = Tail(outgoing)
    /\ LET p == Head(outgoing) IN
       \/ /\ stage # "closed"
          /\ bus' = Append(bus, p) /\ UNCHANGED errored
          /\ IF Len(outgoing) > 1 THEN Deliver(p) ELSE UNCHANGED <<inbox, early, overrun>>
       \/ errored' = errored \cup {p} /\ UNCHANGED <<inbox, bus, early, overrun>>
    /\ UNCHANGED <<mainVars, subscribed, live, running, produced, dataChan, loop, batch, unsent,
                   accepted, received, failed, engine>>

\* publishBatch: the next point goes out on iot.data.<device>.<key>.  Publish may fail,
\* and does so on a closed connection; the error is logged and the point is gone.
PublishPoint ==
    /\ loop = "bus" /\ outgoing # <<>>
    /\ outgoing' = Tail(outgoing)
    /\ LET p == Head(outgoing) IN
       \/ /\ stage # "closed"
          /\ bus' = Append(bus, p) /\ Deliver(p) /\ UNCHANGED errored
       \/ errored' = errored \cup {p} /\ UNCHANGED <<inbox, bus, early, overrun>>
    /\ UNCHANGED <<mainVars, subscribed, live, running, produced, dataChan, loop, batch, unsent,
                   accepted, received, failed, engine>>

BatchDone ==
    /\ loop = "bus" /\ outgoing = <<>>
    /\ loop' = "select" /\ batch' = <<>>
    /\ UNCHANGED <<mainVars, subVars, live, running, produced, dataChan, unsent, outgoing, history>>

\* The callback of the subscription takes its next message.
HandleDataPoint ==
    /\ subscribed /\ inbox # <<>>
    /\ engine' = Append(engine, Head(inbox)) /\ inbox' = Tail(inbox)
    /\ UNCHANGED <<mainVars, subscribed, live, running, produced, dataChan, loopVars,
                   accepted, received, failed, busVars>>

\* A context test between the sinks and NATS.
BadLoopExit ==
    /\ loop \in {"select", "publish", "bus"} /\ ctxDone
    /\ loop' = "done"
    /\ UNCHANGED <<mainVars, subVars, live, running, produced, dataChan, batch, unsent, outgoing, history>>

\* case <-ctx.Done(): the goroutine returns with whatever batch and dataChan hold.
LoopExit ==
    /\ loop = "select" /\ ctxDone
    /\ loop' = "done"
    /\ UNCHANGED <<mainVars, subVars, live, running, produced, dataChan, batch, unsent, outgoing, history>>

-----------------------------------------------------------------------------
Main ==
    \/ \E s \in Sinks : StartSink(s) \/ StopSink(s)
    \/ \E a \in Adapters : StartAdapter(a)
    \/ SinksStarted \/ LaunchLoop \/ StartServices
    \/ StopAdapters \/ StopServices \/ CloseBus
BatchLoop ==
    \/ Receive \/ Tick \/ PublishedToSinks \/ PublishPoint \/ BatchDone
    \/ \E s \in Sinks : Publish(s)
Next ==
    \/ Main \/ Signal \/ BatchLoop \/ LoopExit \/ HandleDataPoint
    \/ \E a \in Adapters : Produce(a) \/ AdapterExit(a)

\* The scheduler runs main and the batch goroutine; a ready ctx.Done() case is
\* not passed over for ever, since select picks among the ready cases at random.
\* Nothing makes an adapter produce or the signal arrive.
Fairness ==
    /\ WF_vars(Main) /\ WF_vars(BatchLoop) /\ SF_vars(LoopExit)
    /\ \A a \in Adapters : WF_vars(AdapterExit(a))
Spec == Init /\ [][Next]_vars /\ Fairness

-----------------------------------------------------------------------------
(* Properties.                                                              *)

\* The points of the batch whose publication has not been tried yet.
Pending == IF loop = "bus" THEN outgoing ELSE batch

Without(seq, S) == SelectSeq(seq, LAMBDA p : p \notin S)

\* The bus, the rest of the batch and dataChan hold exactly the points dataChan
\* accepted, in the order it accepted them, except those for which an error of
\* Marshal or Publish was logged: the batch loop loses nothing silently, repeats and
\* reorders nothing, whatever the sinks return and through the whole shutdown.
NothingLostInOrder == bus \o Pending \o dataChan = Without(accepted, errored)

\* What is lost without an error in the log is at most one channel and one batch that
\* was not full: what the loop leaves behind when it returns on ctx.Done() without
\* draining.
LossBound ==
    loop = "done" =>
        Len(accepted) - Len(bus) - Cardinality(errored) <= ChanCap + BatchSize - 1

\* A sink that returned no error has taken every point that reached the bus, and the
\* points of every sink are in the order dataChan accepted them with no point twice,
\* also after failures: SafePublishBatch never resends.
SinksInStep ==
    \A s \in Sinks :
        /\ \A i, j \in DOMAIN received[s] : i < j =>
              \E k, l \in DOMAIN accepted :
                  k < l /\ accepted[k] = received[s][i] /\ accepted[l] = received[s][j]
        /\ s \notin failed => IsPrefix(bus, Without(received[s], errored))

\* From the adapters to the rule engine: while it is subscribed, handleDataPoint has
\* been called, or will be, with every accepted point in the order of acceptance,
\* except for points with a logged error, points a full inbox dropped, and the points
\* published before RuleEngineService.Start, which runs after the adapters have started.
EngineAccounted ==
    subscribed =>
        engine \o inbox \o Pending \o dataChan = Without(accepted, errored \cup overrun \cup early)

\* A point dataChan accepted reaches the bus, or its error is logged, unless the
\* context is cancelled: a batch that never fills is sent by the ticker, and an error
\* of one point does not keep the others back.
EveryPointPublished ==
    \A p \in Points :
        p \in ToSet(accepted) ~> (p \in ToSet(bus) \/ p \in errored \/ ctxDone)

\* After the signal every goroutine of the data path ends and NATS is closed.
Terminates == ctxDone ~> (stage = "closed" /\ loop = "done" /\ live = {})
=============================================================================
