------------------------------- MODULE Sampler --------------------------------
(***************************************************************************)
(* The engine node's sampling pipeline:                                     *)
(* sensor-node/src/sensors/engine_rpm.c and sensor-node/src/sampler/sampler.c *)
(* in the engine configuration.                                             *)
(*                                                                          *)
(* A spark edge interrupts and is captured in a queue; sample_task turns a   *)
(* capture into a spark sample and, when the interval is credible, an RPM    *)
(* sample in a second queue; send_task sends them.  The node's CAN dispatch   *)
(* task starts and stops the sampler and its recovery task discards what is   *)
(* pending, both at a higher priority, so between any two steps.  A section   *)
(* under the driver's spinlock is one step.                                  *)
(*                                                                          *)
(* An RPM is represented by the spark interval it is computed from, 0 for an  *)
(* engine at rest; captures are stamped with the node's uptime, and samples     *)
(* with the master's time, which each beacon relates anew to the uptime.  The   *)
(* count of lost captures is only logged and is left out.                       *)
(***************************************************************************)
EXTENDS Integers, Sequences, FiniteSets

CONSTANTS
    QueueLength,     \* SAMPLE_QUEUE_LENGTH
    EventsLength,    \* length of the driver's capture queue
    MinInterval,     \* MIN_SPARK_INTERVAL_US, in ticks
    MaxInterval,     \* MAX_SPARK_INTERVAL_US
    StopTimeout,     \* ENGINE_STOP_TIMEOUT_US
    MaxPause,        \* most ticks between a wait's end and the critical section after it
    MaxTime,         \* bound on the clock
    MaxSessions,     \* bound on starts
    MaxBusOffs,      \* bound on discards
    Resolution,      \* ticks in the unit of a time stamp, a millisecond
    Offsets,         \* what beacons find the master's clock to be ahead by, in ticks
    MaxBeacons       \* bound on beacons

ASSUME LengthsAssumption == QueueLength \in Nat \ {0, 1} /\ EventsLength \in Nat \ {0}

ASSUME IntervalsAssumption ==
    /\ MinInterval \in Nat \ {0} /\ MaxInterval \in Nat /\ StopTimeout \in Nat
    /\ MinInterval =< MaxInterval /\ MaxInterval < StopTimeout
    /\ MaxPause \in Nat /\ MaxPause < StopTimeout

ASSUME BoundsAssumption ==
    /\ MaxTime \in Nat /\ StopTimeout =< MaxTime
    /\ MaxSessions \in Nat /\ MaxBusOffs \in Nat /\ MaxBeacons \in Nat

ASSUME OffsetsAssumption == Resolution \in Nat \ {0} /\ Offsets \subseteq Int

VARIABLES
    clock,         \* esp_timer_get_time
    active,
    last_spark,    \* last_spark_us, 0 for none
    last_zero,     \* last_zero_us
    events,        \* captures
    sample_queue,
    spc, event,    \* sample_task: next step and the event in its hands
    ahead,         \* sample_task: the offset its samples are stamped with
    pause,         \* sample_task: ticks since its wait timed out
    tpc, sample,   \* send_task: next step and the sample in its hands
    dpc,           \* dispatch task: next step of sampler_start or sampler_stop
    rpc,           \* recovery task: next step of sampler_discard_pending
    busoffs,       \* discards so far
    offset,        \* master_offset_us
    beacons,       \* beacons so far
    last_edge,     \* history: time of the last edge
    cleared,       \* history: time of the last discard
    session,       \* history: starts so far
    late,          \* history: samples of earlier sessions sent in this one
    sent           \* history: capture and offset of the last sample sent

driver  == <<last_spark, last_zero, events, cleared>>
sampling == <<spc, event, ahead, pause>>
sending == <<tpc, sample, late, sent>>
control == <<active, dpc, rpc, busoffs, session, offset, beacons>>
vars == <<clock, driver, sample_queue, sampling, sending, control, last_edge>>

Times == 0 .. MaxTime

\* A capture or what next_event makes of it: when, the interval (0 if it gives no RPM),
\* whether there was a spark; and as history the edge before, the last discard before,
\* and the session.
Events == [at : Times, rpm : Times, spark : BOOLEAN, prev : Times, since : Times,
           sess : 0 .. MaxSessions]

\* A sample is an event together with which of its two parts it is, and the offset in
\* force when the event was consumed.
Samples == [part : {"spark", "rpm"}, of : Events, ahead : Offsets \cup {0}]

NoEvent == [at |-> 0, rpm |-> 0, spark |-> FALSE, prev |-> 0, since |-> 0, sess |-> 0]
NoSample == [part |-> "rpm", of |-> NoEvent, ahead |-> 0]

\* time_sync_timestamp_ms_at: a division that rounds towards zero.
Stamp(s) ==
    LET master == s.at + s.ahead IN
    IF master >= 0 THEN master \div Resolution ELSE -((-master) \div Resolution)

TypeOK ==
    /\ clock \in Times /\ active \in BOOLEAN
    /\ last_spark \in Times /\ last_zero \in Times /\ last_edge \in Times /\ cleared \in Times
    /\ events \in Seq(Events) /\ Len(events) =< EventsLength
    /\ sample_queue \in Seq(Samples) /\ Len(sample_queue) =< QueueLength
    /\ spc \in {"idle", "receive", "timeout", "check", "room", "spark", "rpm"}
    /\ event \in Events /\ ahead \in Offsets \cup {0} /\ pause \in 0 .. MaxPause
    /\ tpc \in {"receive", "check", "send"} /\ sample \in Samples
    /\ dpc \in {"ready", "sensors", "activate", "clear"} /\ rpc \in {"ready", "clear"}
    /\ busoffs \in 0 .. MaxBusOffs /\ session \in 0 .. MaxSessions
    /\ offset \in Offsets \cup {0} /\ beacons \in 0 .. MaxBeacons
    /\ late \in Nat /\ sent \in [at : Times, ahead : Offsets \cup {0}]

\* The tasks exist before CAN is up; by then the uptime exceeds the stop timeout.
Init ==
    /\ clock = StopTimeout /\ active = FALSE
    /\ last_spark = 0 /\ last_zero = 0 /\ last_edge = 0 /\ cleared = 0
    /\ events = <<>> /\ sample_queue = <<>>
    /\ spc = "idle" /\ event = NoEvent /\ ahead = 0 /\ pause = 0
    /\ tpc = "receive" /\ sample = NoSample
    /\ dpc = "ready" /\ rpc = "ready" /\ busoffs = 0 /\ session = 0
    /\ offset = 0 /\ beacons = 0
    /\ late = 0 /\ sent = [at |-> 0, ahead |-> 0]

\* sample_task is held up by tasks of higher priority only, which wait most of the time.
Tick ==
    /\ clock < MaxTime /\ pause < MaxPause
    /\ clock' = clock + 1
    /\ pause' = IF spc = "timeout" THEN pause + 1 ELSE 0
    /\ UNCHANGED <<driver, sample_queue, spc, event, ahead, sending, control, last_edge>>

-------------------------------------------------------------------------------
(* engine_rpm.c *)

Credible(interval) == last_spark # 0 /\ interval \in MinInterval .. MaxInterval

Capture ==
    [at |-> clock, rpm |-> IF Credible(clock - last_spark) THEN clock - last_spark ELSE 0,
     spark |-> TRUE, prev |-> last_edge, since |-> cleared, sess |-> session]

\* Faulty variant: the capture queue is filled beyond its end.
IsrOverfills ==
    /\ last_edge < clock
    /\ last_spark' = clock /\ last_edge' = clock
    /\ events' = Append(events, Capture)
    /\ UNCHANGED <<clock, last_zero, cleared, sample_queue, sampling, sending, control>>

\* A rising edge, at most one in a tick.  It is captured if there is room, also when
\* the sampler is not active.
engine_rpm_isr ==
    /\ last_edge < clock
    /\ last_spark' = clock /\ last_edge' = clock
    /\ events' = IF Len(events) < EventsLength THEN Append(events, Capture) ELSE events
    /\ UNCHANGED <<clock, last_zero, cleared, sample_queue, sampling, sending, control>>

\* Faulty variant: the edge before the discard stays.
DiscardKeepsEdge ==
    /\ events' = <<>> /\ last_zero' = clock /\ cleared' = clock
    /\ UNCHANGED last_spark

\* Faulty variant: captures of the time before stay in the queue.
DiscardKeepsEvents ==
    /\ last_spark' = 0 /\ last_zero' = clock /\ cleared' = clock
    /\ UNCHANGED events

\* Faulty variant: the time from which rest is counted is not set.
DiscardKeepsZero ==
    /\ events' = <<>> /\ last_spark' = 0 /\ cleared' = clock
    /\ UNCHANGED last_zero

engine_rpm_discard_pending ==
    /\ events' = <<>> /\ last_spark' = 0 /\ last_zero' = clock /\ cleared' = clock

\* Nothing for a timeout, neither an edge nor a report of rest.  Faulty variant: the
\* edge that came after the wait timed out is not looked at.
AtRestByReport == clock - last_zero >= StopTimeout
AtRest == clock - last_spark >= StopTimeout /\ clock - last_zero >= StopTimeout

\* engine_rpm_next_event with a capture ...
EventReceived ==
    /\ spc = "receive" /\ events # <<>>
    /\ event' = Head(events) /\ events' = Tail(events)
    /\ spc' = "check"
    /\ UNCHANGED <<clock, last_spark, last_zero, cleared, sample_queue, ahead, pause,
                   sending, control, last_edge>>

\* ... and when the wait of one tick has ended without one.
EventTimesOut ==
    /\ spc = "receive" /\ events = <<>>
    /\ spc' = "timeout"
    /\ UNCHANGED <<clock, driver, sample_queue, event, ahead, pause, sending, control,
                   last_edge>>

EventAtRest ==
    /\ spc = "timeout" /\ pause' = 0
    /\ IF AtRest
         THEN /\ last_zero' = clock
              /\ event' = [at |-> clock, rpm |-> 0, spark |-> FALSE, prev |-> last_edge,
                           since |-> cleared, sess |-> session]
              /\ spc' = "check"
         ELSE /\ spc' = "idle"
              /\ UNCHANGED <<last_zero, event>>
    /\ UNCHANGED <<clock, last_spark, events, cleared, sample_queue, ahead, sending, control,
                   last_edge>>

-------------------------------------------------------------------------------
(* sampler.c *)

SampleFrame == UNCHANGED <<clock, driver, pause, sending, control, last_edge>>

\* The next step; a new round of the loop starts without an event.
Goto(label) ==
    /\ spc' = label
    /\ event' = IF label = "idle" THEN NoEvent ELSE event
    /\ ahead' = IF label = "idle" THEN 0 ELSE IF spc = "room" THEN offset ELSE ahead

SampleIdle ==
    /\ spc = "idle" /\ active
    /\ Goto("receive")
    /\ UNCHANGED sample_queue /\ SampleFrame

SampleCheck ==
    /\ spc = "check"
    /\ Goto(IF active THEN "room" ELSE "idle")
    /\ UNCHANGED sample_queue /\ SampleFrame

HasRpm(e) == ~e.spark \/ e.rpm > 0

\* Samples the event makes.  Faulty variant: room for one is taken to be enough.
CountOne(e) == 1
Count(e) == (IF e.spark THEN 1 ELSE 0) + (IF HasRpm(e) THEN 1 ELSE 0)

\* enqueue_engine_event: the event is stamped, and without room for all of it lost.
EnqueueRoom ==
    /\ spc = "room"
    /\ Goto(IF QueueLength - Len(sample_queue) < Count(event) THEN "idle"
            ELSE IF event.spark THEN "spark" ELSE "rpm")
    /\ UNCHANGED sample_queue /\ SampleFrame

\* xQueueSend without a wait.
Send(part) ==
    sample_queue' = IF Len(sample_queue) < QueueLength
                      THEN Append(sample_queue, [part |-> part, of |-> event, ahead |-> ahead])
                      ELSE sample_queue

EnqueueSpark ==
    /\ spc = "spark"
    /\ Send("spark")
    /\ Goto(IF HasRpm(event) THEN "rpm" ELSE "idle")
    /\ SampleFrame

EnqueueRpm ==
    /\ spc = "rpm"
    /\ Send("rpm")
    /\ Goto("idle")
    /\ SampleFrame

sample_task ==
    \/ SampleIdle \/ EventReceived \/ EventTimesOut \/ EventAtRest \/ SampleCheck
    \/ EnqueueRoom \/ EnqueueSpark \/ EnqueueRpm

SendReceive ==
    /\ tpc = "receive" /\ sample_queue # <<>>
    /\ sample' = Head(sample_queue) /\ sample_queue' = Tail(sample_queue)
    /\ tpc' = "check"
    /\ UNCHANGED <<clock, driver, sampling, late, sent, control, last_edge>>

SendCheck ==
    /\ tpc = "check"
    /\ IF active THEN tpc' = "send" /\ sample' = sample
                 ELSE tpc' = "receive" /\ sample' = NoSample
    /\ UNCHANGED <<clock, driver, sample_queue, sampling, late, sent, control, last_edge>>

\* can_node_send, whose failure is only logged.
SendSample ==
    /\ tpc = "send"
    /\ tpc' = "receive" /\ sample' = NoSample
    /\ sent' = [at |-> sample.of.at, ahead |-> sample.ahead]
    /\ late' = IF sample.of.sess < session THEN late + 1 ELSE late
    /\ UNCHANGED <<clock, driver, sample_queue, sampling, control, last_edge>>

send_task == SendReceive \/ SendCheck \/ SendSample

BeaconFrame == UNCHANGED <<offset, beacons>>
ControlFrame == UNCHANGED <<clock, sampling, tpc, sample, sent, last_edge>> /\ BeaconFrame

\* time_sync_update, in the dispatch task: the offset of this beacon replaces the last one.
TimeSyncUpdate ==
    /\ dpc = "ready" /\ beacons < MaxBeacons
    /\ offset' \in Offsets /\ beacons' = beacons + 1
    /\ UNCHANGED <<clock, driver, sample_queue, sampling, sending, active, dpc, rpc, busoffs,
                   session, last_edge>>

StartClear ==
    /\ dpc = "ready" /\ ~active /\ session < MaxSessions
    /\ sample_queue' = <<>>
    /\ dpc' = "sensors"
    /\ UNCHANGED <<driver, active, rpc, busoffs, session, late>> /\ ControlFrame

StartSensors ==
    /\ dpc = "sensors"
    /\ engine_rpm_discard_pending
    /\ session' = session + 1 /\ late' = 0
    /\ dpc' = "activate"
    /\ UNCHANGED <<sample_queue, active, rpc, busoffs>> /\ ControlFrame

StartActivate ==
    /\ dpc = "activate"
    /\ active' = TRUE
    /\ dpc' = "ready"
    /\ UNCHANGED <<driver, sample_queue, rpc, busoffs, session, late>> /\ ControlFrame

sampler_start == StartClear \/ StartSensors \/ StartActivate

StopInactive ==
    /\ dpc = "ready" /\ active
    /\ active' = FALSE
    /\ dpc' = "clear"
    /\ UNCHANGED <<driver, sample_queue, rpc, busoffs, session, late>> /\ ControlFrame

StopClear ==
    /\ dpc = "clear"
    /\ sample_queue' = <<>>
    /\ dpc' = "ready"
    /\ UNCHANGED <<driver, active, rpc, busoffs, session, late>> /\ ControlFrame

sampler_stop == StopInactive \/ StopClear

DiscardEvents ==
    /\ rpc = "ready" /\ busoffs < MaxBusOffs
    /\ engine_rpm_discard_pending
    /\ busoffs' = busoffs + 1
    /\ rpc' = "clear"
    /\ UNCHANGED <<sample_queue, active, dpc, session, late>> /\ ControlFrame

DiscardSamples ==
    /\ rpc = "clear"
    /\ sample_queue' = <<>>
    /\ rpc' = "ready"
    /\ UNCHANGED <<driver, active, dpc, busoffs, session, late>> /\ ControlFrame

sampler_discard_pending == DiscardEvents \/ DiscardSamples

Next ==
    \/ Tick \/ engine_rpm_isr
    \/ sample_task \/ send_task
    \/ sampler_start \/ sampler_stop \/ sampler_discard_pending \/ TimeSyncUpdate

Spec == Init /\ [][Next]_vars

-------------------------------------------------------------------------------
(* Correctness *)

IsPart(s, part, e) == s.part = part /\ s.of = e

\* Queue pressure cannot split a spark from its RPM (comment at sampler.c:119): in the
\* output queue an RPM comes right after its spark and a spark right before its RPM,
\* unless the other half was taken or cleared in front, or is being queued right now.
PairsTogether ==
    \A i \in 1 .. Len(sample_queue) :
        LET s == sample_queue[i] IN
        /\ s.part = "rpm" /\ s.of.spark /\ i > 1 => IsPart(sample_queue[i - 1], "spark", s.of)
        /\ s.part = "spark" /\ HasRpm(s.of) =>
               IF i < Len(sample_queue) THEN IsPart(sample_queue[i + 1], "rpm", s.of)
                                        ELSE spc = "rpm" /\ event = s.of

\* Every event that may still be sent.
Pending ==
    {event, sample.of} \cup {events[i] : i \in 1 .. Len(events)}
        \cup {sample_queue[i].of : i \in 1 .. Len(sample_queue)}

\* An RPM is the interval of two consecutive edges, whatever was lost between capture
\* and sending, and never spans a start or a bus-off.
RpmMeasured ==
    \A e \in Pending : e.rpm > 0 =>
        /\ e.rpm \in MinInterval .. MaxInterval
        /\ e.prev = e.at - e.rpm /\ e.since =< e.prev

\* Rest is reported only after a full timeout without an edge, although the wait for a
\* capture and the look at last_spark_us are not one step, and a discard forgets the edge.
ZeroMeansSilent ==
    \A e \in Pending : ~e.spark /\ e # NoEvent => e.prev + StopTimeout =< e.at

\* Samples leave in the order of their captures, over timeouts, overflows, discards and
\* restarts.  Their time stamps may go back, but only when a beacon has lowered the offset
\* between the two, and by no more than that, but for the rounding.
GoesBack == Stamp(sent') < Stamp(sent)
Lowered == sent.ahead - sent'.ahead
SentAfter ==
    /\ sent'.at >= sent.at
    /\ GoesBack => Lowered > 0 /\ (Stamp(sent) - Stamp(sent') - 1) * Resolution =< Lowered
SentInOrder == [][SentAfter]_vars

Stale(e) == e # NoEvent /\ e.sess < session

\* Captures and samples of earlier sessions that are still on their way to the bus.
StillComing ==
    LET captures == {i \in 1 .. Len(events) : Stale(events[i])}
        queued   == {i \in 1 .. Len(sample_queue) : Stale(sample_queue[i].of)}
        inHands  == (IF ~Stale(event) THEN 0 ELSE IF spc = "rpm" THEN 1 ELSE Count(event))
                    + (IF Stale(sample.of) THEN 1 ELSE 0)
    IN  Cardinality(captures) + Cardinality(queued) + inHands

\* A session sends, and has on the way from its start, at most what the two tasks had in
\* their hands when it began: an event of one or two samples, and one sample.
FewLate == late + StillComing =< 3
===============================================================================
