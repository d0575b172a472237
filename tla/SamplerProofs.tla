------------------------------ MODULE SamplerProofs -----------------------------
(***************************************************************************)
(* Proofs about the nodes' sampling: the engine node's pipeline (Sampler),   *)
(* the schedule and the queue of the periodic nodes (PeriodicSampler) and    *)
(* the wheel speed (BearingEncoder), for any lengths of the queues, numbers  *)
(* of channels, periods, timeouts and widths of the window.                  *)
(*                                                                          *)
(* The units share no state.  Each has its own invariant, proved of its own  *)
(* specification; UnitsTyped puts the types together.                        *)
(***************************************************************************)
EXTENDS MCSampler, FiniteSetTheorems, SequenceTheorems, WellFoundedInduction, TLAPS

-------------------------------------------------------------------------------
(* Sequences *)

LEMMA Lengthened ==
  ASSUME NEW S, NEW q \in Seq(S), NEW x \in S
  PROVE  /\ Append(q, x) \in Seq(S)
         /\ Len(Append(q, x)) = Len(q) + 1
         /\ \A i \in 1 .. Len(q) : Append(q, x)[i] = q[i]
         /\ Append(q, x)[Len(q) + 1] = x
OBVIOUS

LEMMA Shortened ==
  ASSUME NEW S, NEW q \in Seq(S), q # <<>>
  PROVE  /\ Tail(q) \in Seq(S) /\ Head(q) \in S /\ Head(q) = q[1]
         /\ Len(q) \in Nat \ {0} /\ Len(Tail(q)) = Len(q) - 1
         /\ \A i \in 1 .. Len(q) - 1 : Tail(q)[i] = q[i + 1]
<1>1. Len(q) \in Nat /\ Len(q) > 0
  OBVIOUS
<1>2. Tail(q) \in Seq(S) /\ Head(q) = q[1] /\ Len(Tail(q)) = Len(q) - 1
  BY <1>1
<1>3. q[1] \in S
  BY <1>1
<1> QED
  BY <1>1, <1>2, <1>3

LEMMA Emptiness ==
  ASSUME NEW S
  PROVE  <<>> \in Seq(S) /\ Len(<<>>) = 0
OBVIOUS

-------------------------------------------------------------------------------
(* The engine node: types *)

\* A stutter, or a beacon: the commands of the dispatch task and all else stand still.
Stands == UNCHANGED <<clock, driver, sample_queue, sampling, sending, active, dpc, rpc, busoffs,
                      session, last_edge>>

LEMMA Steps ==
  ASSUME [Next]_vars
  PROVE  \/ Tick \/ engine_rpm_isr \/ sample_task \/ send_task
         \/ sampler_start \/ sampler_stop \/ sampler_discard_pending \/ Stands
BY DEF Next, vars, TimeSyncUpdate, Stands, control

\* A start that has begun may still be counted.
StartCounted == dpc = "sensors" => session < MaxSessions

LEMMA NoneTyped == NoEvent \in Events /\ NoSample \in Samples
BY BoundsAssumption DEF NoEvent, NoSample, Events, Samples, Times

LEMMA CaptureTyped == ASSUME TypeOK PROVE Capture \in Events
<1> USE BoundsAssumption, IntervalsAssumption
<1>1. ASSUME Credible(clock - last_spark) PROVE clock - last_spark \in Times
  BY <1>1 DEF TypeOK, Credible, Times
<1>2. (IF Credible(clock - last_spark) THEN clock - last_spark ELSE 0) \in Times
  BY <1>1 DEF Times
<1> QED
  BY <1>2 DEF TypeOK, Capture, Events

LEMMA TypesInitially == Init => TypeOK
<1> SUFFICES ASSUME Init PROVE TypeOK
  OBVIOUS
<1> USE BoundsAssumption, IntervalsAssumption, LengthsAssumption
<1>1. events \in Seq(Events) /\ Len(events) =< EventsLength
  BY Emptiness DEF Init
<1>2. sample_queue \in Seq(Samples) /\ Len(sample_queue) =< QueueLength
  BY Emptiness DEF Init
<1>3. StopTimeout \in Times /\ 0 \in Times /\ 0 \in 0 .. MaxPause
  BY DEF Times
<1>4. event \in Events /\ sample \in Samples
  BY NoneTyped DEF Init
<1>5. /\ clock \in Times /\ active \in BOOLEAN
      /\ last_spark \in Times /\ last_zero \in Times /\ last_edge \in Times
      /\ cleared \in Times /\ sent \in [at : Times, ahead : Offsets \cup {0}]
  BY <1>3 DEF Init
<1>6. /\ spc = "idle" /\ pause \in 0 .. MaxPause /\ tpc = "receive"
      /\ dpc = "ready" /\ rpc = "ready" /\ busoffs \in 0 .. MaxBusOffs
      /\ session \in 0 .. MaxSessions /\ late \in Nat
      /\ ahead \in Offsets \cup {0} /\ offset \in Offsets \cup {0}
      /\ beacons \in 0 .. MaxBeacons
  BY <1>3 DEF Init
<1> QED
  BY <1>1, <1>2, <1>4, <1>5, <1>6 DEF TypeOK

LEMMA IsrTypes == ASSUME TypeOK, engine_rpm_isr PROVE TypeOK'
<1> USE LengthsAssumption
<1>1. events' \in Seq(Events) /\ Len(events') =< EventsLength
  <2>1. CASE Len(events) < EventsLength
    <3>1. events' = Append(events, Capture)
      BY <2>1 DEF engine_rpm_isr
    <3> QED
      BY <2>1, <3>1, CaptureTyped, Lengthened DEF TypeOK
  <2>2. CASE ~ (Len(events) < EventsLength)
    BY <2>2 DEF engine_rpm_isr, TypeOK
  <2> QED
    BY <2>1, <2>2
<1> QED
  BY <1>1 DEF TypeOK, engine_rpm_isr, sampling, sending, control

LEMMA EventTypes ==
  ASSUME TypeOK, EventReceived \/ EventTimesOut \/ EventAtRest
  PROVE  TypeOK'
<1>1. CASE EventReceived
  <2>1. event' \in Events /\ events' \in Seq(Events) /\ Len(events') =< EventsLength
    BY <1>1, Shortened, LengthsAssumption DEF TypeOK, EventReceived
  <2> QED
    BY <1>1, <2>1 DEF TypeOK, EventReceived, sending, control
<1>2. CASE EventTimesOut
  BY <1>2 DEF TypeOK, EventTimesOut, driver, sending, control
<1>3. CASE EventAtRest
  <2>1. event' \in Events
    <3>1. CASE AtRest
      <4>1. event' = [at |-> clock, rpm |-> 0, spark |-> FALSE, prev |-> last_edge,
                      since |-> cleared, sess |-> session]
        BY <1>3, <3>1 DEF EventAtRest
      <4>2. 0 \in Times
        BY BoundsAssumption DEF Times
      <4> QED
        BY <4>1, <4>2 DEF TypeOK, Events
    <3>2. CASE ~AtRest
      BY <1>3, <3>2 DEF TypeOK, EventAtRest
    <3> QED
      BY <3>1, <3>2
  <2> QED
    BY <1>3, <2>1, IntervalsAssumption DEF TypeOK, EventAtRest, sending, control
<1> QED
  BY <1>1, <1>2, <1>3

LEMMA SendTypes ==
  ASSUME TypeOK, NEW part \in {"spark", "rpm"}, Send(part)
  PROVE  sample_queue' \in Seq(Samples) /\ Len(sample_queue') =< QueueLength
<1>1. [part |-> part, of |-> event, ahead |-> ahead] \in Samples
  BY DEF TypeOK, Samples
<1>2. CASE Len(sample_queue) < QueueLength
  <2>1. sample_queue' = Append(sample_queue, [part |-> part, of |-> event, ahead |-> ahead])
    BY <1>2 DEF Send
  <2> QED
    BY <1>1, <1>2, <2>1, Lengthened, LengthsAssumption DEF TypeOK
<1>3. CASE ~ (Len(sample_queue) < QueueLength)
  BY <1>3 DEF Send, TypeOK
<1> QED
  BY <1>2, <1>3

LEMMA EnqueueTypes ==
  ASSUME TypeOK, SampleIdle \/ SampleCheck \/ EnqueueRoom \/ EnqueueSpark \/ EnqueueRpm
  PROVE  TypeOK'
<1> USE DEF SampleFrame, Goto, driver, sending, control
<1>1. event' \in Events /\ pause' = pause
  BY NoneTyped DEF TypeOK, SampleIdle, SampleCheck, EnqueueRoom, EnqueueSpark, EnqueueRpm
<1>2. sample_queue' \in Seq(Samples) /\ Len(sample_queue') =< QueueLength
  BY SendTypes DEF TypeOK, SampleIdle, SampleCheck, EnqueueRoom, EnqueueSpark, EnqueueRpm
<1>3. /\ spc' \in {"idle", "receive", "timeout", "check", "room", "spark", "rpm"}
      /\ ahead' \in Offsets \cup {0}
  BY DEF TypeOK, SampleIdle, SampleCheck, EnqueueRoom, EnqueueSpark, EnqueueRpm
<1>4. UNCHANGED <<clock, driver, sending, control, last_edge>>
  BY DEF SampleIdle, SampleCheck, EnqueueRoom, EnqueueSpark, EnqueueRpm
<1> QED
  BY <1>1, <1>2, <1>3, <1>4 DEF TypeOK

LEMMA SenderTypes == ASSUME TypeOK, send_task PROVE TypeOK'
<1>1. CASE SendReceive
  <2>1. /\ sample' \in Samples
        /\ sample_queue' \in Seq(Samples) /\ Len(sample_queue') =< QueueLength
    BY <1>1, Shortened, LengthsAssumption DEF TypeOK, SendReceive
  <2> QED
    BY <1>1, <2>1 DEF TypeOK, SendReceive, driver, sampling, control
<1>2. CASE SendCheck
  BY <1>2, NoneTyped DEF TypeOK, SendCheck, driver, sampling, control
<1>3. CASE SendSample
  <2>1. sample.of.at \in Times
    BY DEF TypeOK, Samples, Events
  <2>2. late' \in Nat
    BY <1>3 DEF TypeOK, SendSample
  <2>3. sent' \in [at : Times, ahead : Offsets \cup {0}]
    <3>1. sample.ahead \in Offsets \cup {0}
      BY DEF TypeOK, Samples
    <3> QED
      BY <1>3, <2>1, <3>1 DEF SendSample
  <2> QED
    BY <1>3, <2>2, <2>3, NoneTyped DEF TypeOK, SendSample, driver, sampling, control
<1> QED
  BY <1>1, <1>2, <1>3 DEF send_task

LEMMA CommandTypes ==
  ASSUME TypeOK, StartCounted, sampler_start \/ sampler_stop \/ sampler_discard_pending
  PROVE  TypeOK'
<1> USE DEF ControlFrame, BeaconFrame, engine_rpm_discard_pending, driver, sampling
<1>1. UNCHANGED <<clock, last_edge, spc, event, ahead, pause, tpc, sample, sent, offset, beacons>>
  BY DEF sampler_start, sampler_stop, sampler_discard_pending, StartClear, StartSensors,
         StartActivate, StopInactive, StopClear, DiscardEvents, DiscardSamples
<1>2. UNCHANGED events \/ events' = <<>>
  BY DEF sampler_start, sampler_stop, sampler_discard_pending, StartClear, StartSensors,
         StartActivate, StopInactive, StopClear, DiscardEvents, DiscardSamples
<1>3. UNCHANGED sample_queue \/ sample_queue' = <<>>
  BY DEF sampler_start, sampler_stop, sampler_discard_pending, StartClear, StartSensors,
         StartActivate, StopInactive, StopClear, DiscardEvents, DiscardSamples
<1>4. /\ events' \in Seq(Events) /\ Len(events') =< EventsLength
      /\ sample_queue' \in Seq(Samples) /\ Len(sample_queue') =< QueueLength
  <2>1. ASSUME events' = <<>> PROVE events' \in Seq(Events) /\ Len(events') =< EventsLength
    BY <2>1, Emptiness, LengthsAssumption
  <2>2. ASSUME sample_queue' = <<>>
        PROVE  sample_queue' \in Seq(Samples) /\ Len(sample_queue') =< QueueLength
    BY <2>2, Emptiness, LengthsAssumption
  <2> QED
    BY <1>2, <1>3, <2>1, <2>2 DEF TypeOK
<1>5. \/ UNCHANGED <<last_spark, last_zero, cleared>>
      \/ last_spark' = 0 /\ last_zero' = clock /\ cleared' = clock
  BY DEF sampler_start, sampler_stop, sampler_discard_pending, StartClear, StartSensors,
         StartActivate, StopInactive, StopClear, DiscardEvents, DiscardSamples
<1>6. 0 \in Times
  BY BoundsAssumption DEF Times
<1>7. last_spark' \in Times /\ last_zero' \in Times /\ cleared' \in Times
  BY <1>5, <1>6 DEF TypeOK
<1>8. active' \in BOOLEAN
  BY DEF TypeOK, sampler_start, sampler_stop, sampler_discard_pending, StartClear,
         StartSensors, StartActivate, StopInactive, StopClear, DiscardEvents, DiscardSamples
<1>9. dpc' \in {"ready", "sensors", "activate", "clear"} /\ rpc' \in {"ready", "clear"}
  BY DEF TypeOK, sampler_start, sampler_stop, sampler_discard_pending, StartClear,
         StartSensors, StartActivate, StopInactive, StopClear, DiscardEvents, DiscardSamples
<1>10. busoffs' \in 0 .. MaxBusOffs
  BY BoundsAssumption
  DEF TypeOK, sampler_start, sampler_stop, sampler_discard_pending, StartClear,
      StartSensors, StartActivate, StopInactive, StopClear, DiscardEvents, DiscardSamples
<1>11. session' \in 0 .. MaxSessions /\ late' \in Nat
  <2>1. ASSUME StartSensors PROVE session + 1 \in 0 .. MaxSessions
    BY <2>1, BoundsAssumption DEF TypeOK, StartSensors, StartCounted
  <2>2. \/ session' = session /\ late' = late
        \/ StartSensors /\ session' = session + 1 /\ late' = 0
    BY DEF sampler_start, sampler_stop, sampler_discard_pending, StartClear,
           StartSensors, StartActivate, StopInactive, StopClear, DiscardEvents, DiscardSamples
  <2> QED
    BY <2>1, <2>2 DEF TypeOK
<1> QED
  BY <1>1, <1>4, <1>7, <1>8, <1>9, <1>10, <1>11 DEF TypeOK

LEMMA TypesStay == TypeOK /\ StartCounted /\ [Next]_vars => TypeOK' /\ StartCounted'
<1> SUFFICES ASSUME TypeOK, StartCounted, [Next]_vars PROVE TypeOK' /\ StartCounted'
  OBVIOUS
<1>0. StartCounted'
  <2>1. CASE sampler_start \/ sampler_stop \/ sampler_discard_pending
    BY <2>1
    DEF StartCounted, sampler_start, sampler_stop, sampler_discard_pending, StartClear,
        StartSensors, StartActivate, StopInactive, StopClear, DiscardEvents, DiscardSamples
  <2>2. CASE ~ (sampler_start \/ sampler_stop \/ sampler_discard_pending)
    <3>1. UNCHANGED <<dpc, session>>
      BY <2>2, Steps
      DEF Stands, Tick, engine_rpm_isr, sample_task, SampleIdle, SampleCheck,
          EventReceived, EventTimesOut, EventAtRest, EnqueueRoom, EnqueueSpark, EnqueueRpm,
          SampleFrame, send_task, SendReceive, SendCheck, SendSample, control
    <3> QED
      BY <3>1 DEF StartCounted
  <2> QED
    BY <2>1, <2>2
<1>1. CASE Tick
  BY <1>0, <1>1, BoundsAssumption, IntervalsAssumption
  DEF TypeOK, Tick, Times, driver, sending, control
<1>2. CASE engine_rpm_isr
  BY <1>0, <1>2, IsrTypes
<1>3. CASE sample_task
  BY <1>0, <1>3, EventTypes, EnqueueTypes DEF sample_task
<1>4. CASE send_task
  BY <1>0, <1>4, SenderTypes
<1>5. CASE sampler_start \/ sampler_stop \/ sampler_discard_pending
  BY <1>0, <1>5, CommandTypes
<1>6. CASE TimeSyncUpdate
  <2>1. offset' \in Offsets \cup {0} /\ beacons' \in 0 .. MaxBeacons
    BY <1>6, BoundsAssumption DEF TypeOK, TimeSyncUpdate
  <2> QED
    BY <1>0, <1>6, <2>1 DEF TypeOK, TimeSyncUpdate, driver, sampling, sending
<1>7. CASE UNCHANGED vars
  BY <1>0, <1>7 DEF TypeOK, vars, driver, sampling, sending, control
<1> QED
  BY <1>1, <1>2, <1>3, <1>4, <1>5, <1>6, <1>7 DEF Next

-------------------------------------------------------------------------------
(* The engine node: edges and waits *)

\* What the driver knows of the last edge: it is the last one, or it was forgotten by a
\* discard from which rest is counted.
EdgeKnown ==
    /\ last_edge =< clock /\ cleared =< last_zero /\ last_zero =< clock
    /\ last_spark = 0 => last_edge =< last_zero
    /\ last_spark # 0 => last_spark = last_edge /\ cleared =< last_spark

\* A capture that has come since the wait ended is younger than the pause after it.
WaitEnds == spc = "timeout" /\ events # <<>> => last_spark # 0 /\ clock - last_spark =< pause

\* sample_task has an event in its hands.
Holding == spc \in {"check", "room", "spark", "rpm"}

InHands ==
    /\ Holding <=> event # NoEvent
    /\ tpc = "receive" => sample = NoSample
    /\ tpc # "receive" => sample.of # NoEvent
    /\ \A i \in 1 .. Len(events) : events[i].spark
    /\ \A i \in 1 .. Len(sample_queue) : sample_queue[i].of # NoEvent

LEMMA EdgesStay == TypeOK /\ EdgeKnown /\ WaitEnds /\ [Next]_vars => EdgeKnown' /\ WaitEnds'
<1> SUFFICES ASSUME TypeOK, EdgeKnown, WaitEnds, [Next]_vars PROVE EdgeKnown' /\ WaitEnds'
  OBVIOUS
<1>0. /\ clock \in Nat /\ last_spark \in Nat /\ last_zero \in Nat /\ last_edge \in Nat
      /\ cleared \in Nat /\ pause \in Nat /\ StopTimeout \in Nat /\ StopTimeout # 0
  BY BoundsAssumption, IntervalsAssumption DEF TypeOK, Times
<1>1. CASE Tick
  BY <1>0, <1>1 DEF Tick, driver, EdgeKnown, WaitEnds
<1>2. CASE engine_rpm_isr
  BY <1>0, <1>2 DEF engine_rpm_isr, sampling, EdgeKnown, WaitEnds
<1>3. CASE EventReceived \/ EventTimesOut
  BY <1>0, <1>3 DEF EventReceived, EventTimesOut, driver, EdgeKnown, WaitEnds
<1>4. CASE EventAtRest
  <2>1. WaitEnds'
    BY <1>4 DEF EventAtRest, WaitEnds
  <2> QED
    BY <1>0, <1>4, <2>1 DEF EventAtRest, EdgeKnown
<1>5. CASE SampleIdle \/ SampleCheck \/ EnqueueRoom \/ EnqueueSpark \/ EnqueueRpm
  <2>1. UNCHANGED <<clock, driver, pause, last_edge>> /\ spc' # "timeout"
    BY <1>5 DEF SampleIdle, SampleCheck, EnqueueRoom, EnqueueSpark, EnqueueRpm, Goto,
                SampleFrame
  <2> QED
    BY <2>1 DEF driver, EdgeKnown, WaitEnds
<1>6. CASE send_task \/ Stands
  BY <1>6 DEF send_task, SendReceive, SendCheck, SendSample, Stands, driver, sampling,
              EdgeKnown, WaitEnds
<1>7. CASE sampler_start \/ sampler_stop \/ sampler_discard_pending
  <2>1. UNCHANGED <<clock, last_edge, spc, pause>>
    BY <1>7
    DEF sampler_start, sampler_stop, sampler_discard_pending, StartClear, StartSensors,
        StartActivate, StopInactive, StopClear, DiscardEvents, DiscardSamples, ControlFrame,
        sampling
  <2>2. UNCHANGED driver \/ engine_rpm_discard_pending
    BY <1>7
    DEF sampler_start, sampler_stop, sampler_discard_pending, StartClear, StartSensors,
        StartActivate, StopInactive, StopClear, DiscardEvents, DiscardSamples
  <2> QED
    BY <1>0, <2>1, <2>2 DEF engine_rpm_discard_pending, driver, EdgeKnown, WaitEnds
<1> QED
  BY <1>1, <1>2, <1>3, <1>4, <1>5, <1>6, <1>7, Steps DEF sample_task

\* Rest is only reported when no capture waits.
LEMMA RestIsAlone ==
  ASSUME TypeOK, EdgeKnown, WaitEnds, EventAtRest, AtRest
  PROVE  events = <<>>
<1>1. /\ clock \in Nat /\ last_spark \in Nat /\ pause \in 0 .. MaxPause /\ MaxPause \in Nat
      /\ StopTimeout \in Nat /\ MaxPause < StopTimeout
  BY BoundsAssumption, IntervalsAssumption DEF TypeOK, Times
<1> QED
  BY <1>1 DEF WaitEnds, EventAtRest, AtRest

LEMMA HandsStay ==
  TypeOK /\ InHands /\ [Next]_vars => InHands'
<1> SUFFICES ASSUME TypeOK, InHands, [Next]_vars PROVE InHands'
  OBVIOUS
<1>0. events \in Seq(Events) /\ sample_queue \in Seq(Samples)
  BY DEF TypeOK
<1>1. CASE Tick
  BY <1>1 DEF Tick, driver, sending, InHands, Holding
<1>2. CASE engine_rpm_isr
  <2>1. \A i \in 1 .. Len(events') : events'[i].spark
    <3>1. CASE Len(events) < EventsLength
      <4>1. events' = Append(events, Capture) /\ Capture.spark
        BY <1>2, <3>1 DEF engine_rpm_isr, Capture
      <4>2. /\ Len(events') = Len(events) + 1 /\ events'[Len(events) + 1] = Capture
            /\ \A i \in 1 .. Len(events) : events'[i] = events[i]
        BY <1>0, <4>1, CaptureTyped, Lengthened
      <4>3. \A i \in 1 .. Len(events') : i \in 1 .. Len(events) \/ i = Len(events) + 1
        BY <1>0, <4>2
      <4> QED
        BY <4>1, <4>2, <4>3 DEF InHands
    <3>2. CASE ~ (Len(events) < EventsLength)
      BY <1>2, <3>2 DEF engine_rpm_isr, InHands
    <3> QED
      BY <3>1, <3>2
  <2> QED
    BY <1>2, <2>1 DEF engine_rpm_isr, sampling, sending, InHands, Holding
<1>3. CASE EventReceived
  <2>1. /\ event' = events[1] /\ 1 \in 1 .. Len(events)
        /\ \A i \in 1 .. Len(events') : i + 1 \in 1 .. Len(events) /\ events'[i] = events[i + 1]
    BY <1>0, <1>3, Shortened DEF EventReceived
  <2>2. event'.spark
    BY <2>1 DEF InHands
  <2>3. event' # NoEvent
    BY <2>2 DEF NoEvent
  <2>4. \A i \in 1 .. Len(events') : events'[i].spark
    BY <2>1 DEF InHands
  <2> QED
    BY <1>3, <2>3, <2>4 DEF EventReceived, sending, InHands, Holding
<1>4. CASE EventTimesOut
  BY <1>4 DEF EventTimesOut, driver, sending, InHands, Holding
<1>5. CASE EventAtRest
  <2>1. CASE AtRest
    <3>1. /\ clock \in Nat /\ last_zero \in Nat /\ StopTimeout \in Nat /\ StopTimeout # 0
          /\ clock - last_zero >= StopTimeout
      BY <2>1, BoundsAssumption, IntervalsAssumption DEF TypeOK, Times, AtRest
    <3>2. event'.at = clock /\ clock # 0
      BY <1>5, <2>1, <3>1 DEF EventAtRest
    <3>3. event' # NoEvent
      BY <3>2 DEF NoEvent
    <3> QED
      BY <1>5, <2>1, <3>3 DEF EventAtRest, sending, InHands, Holding
  <2>2. CASE ~AtRest
    BY <1>5, <2>2 DEF EventAtRest, sending, InHands, Holding
  <2> QED
    BY <2>1, <2>2
<1>6. CASE SampleIdle \/ SampleCheck \/ EnqueueRoom
  BY <1>6 DEF SampleIdle, SampleCheck, EnqueueRoom, Goto, SampleFrame, driver, sending,
              InHands, Holding
<1>7. ASSUME NEW part \in {"spark", "rpm"}, Send(part), Holding
      PROVE  \A i \in 1 .. Len(sample_queue') : sample_queue'[i].of # NoEvent
  <2>1. CASE Len(sample_queue) < QueueLength
    <3> DEFINE s == [part |-> part, of |-> event, ahead |-> ahead]
    <3>1. s \in Samples /\ s.of # NoEvent
      BY <1>7 DEF TypeOK, Samples, InHands
    <3>2. sample_queue' = Append(sample_queue, s)
      BY <1>7, <2>1 DEF Send
    <3> HIDE DEF s
    <3>3. /\ Len(sample_queue') = Len(sample_queue) + 1
          /\ sample_queue'[Len(sample_queue) + 1] = s
          /\ \A i \in 1 .. Len(sample_queue) : sample_queue'[i] = sample_queue[i]
      BY <1>0, <3>1, <3>2, Lengthened
    <3>4. \A i \in 1 .. Len(sample_queue') :
              i \in 1 .. Len(sample_queue) \/ i = Len(sample_queue) + 1
      BY <1>0, <3>3
    <3> QED
      BY <3>1, <3>3, <3>4 DEF InHands
  <2>2. CASE ~ (Len(sample_queue) < QueueLength)
    BY <1>7, <2>2 DEF Send, InHands
  <2> QED
    BY <2>1, <2>2
<1>8. CASE EnqueueSpark
  BY <1>7, <1>8 DEF EnqueueSpark, Goto, SampleFrame, driver, sending, InHands, Holding
<1>9. CASE EnqueueRpm
  BY <1>7, <1>9 DEF EnqueueRpm, Goto, SampleFrame, driver, sending, InHands, Holding
<1>10. CASE SendReceive
  <2>1. /\ sample' = sample_queue[1] /\ 1 \in 1 .. Len(sample_queue)
        /\ \A i \in 1 .. Len(sample_queue') :
               i + 1 \in 1 .. Len(sample_queue) /\ sample_queue'[i] = sample_queue[i + 1]
    BY <1>0, <1>10, Shortened DEF SendReceive
  <2>2. /\ sample'.of # NoEvent
        /\ \A i \in 1 .. Len(sample_queue') : sample_queue'[i].of # NoEvent
    BY <2>1 DEF InHands
  <2> QED
    BY <1>10, <2>2 DEF SendReceive, driver, sampling, InHands, Holding
<1>11. CASE SendCheck \/ SendSample
  BY <1>11 DEF SendCheck, SendSample, driver, sampling, InHands, Holding
<1>12. CASE sampler_start \/ sampler_stop \/ sampler_discard_pending
  <2>1. UNCHANGED <<spc, event, tpc, sample>>
    BY <1>12
    DEF sampler_start, sampler_stop, sampler_discard_pending, StartClear, StartSensors,
        StartActivate, StopInactive, StopClear, DiscardEvents, DiscardSamples, ControlFrame,
        sampling
  <2>2. /\ UNCHANGED events \/ events' = <<>>
        /\ UNCHANGED sample_queue \/ sample_queue' = <<>>
    BY <1>12
    DEF sampler_start, sampler_stop, sampler_discard_pending, StartClear, StartSensors,
        StartActivate, StopInactive, StopClear, DiscardEvents, DiscardSamples,
        engine_rpm_discard_pending, driver
  <2>3. 1 .. Len(<<>>) = {}
    OBVIOUS
  <2> QED
    BY <2>1, <2>2, <2>3 DEF InHands, Holding
<1>13. CASE Stands
  BY <1>13 DEF Stands, driver, sampling, sending, InHands, Holding
<1> QED
  BY <1>1, <1>2, <1>3, <1>4, <1>5, <1>6, <1>8, <1>9, <1>10, <1>11, <1>12, <1>13, Steps
  DEF sample_task, send_task

-------------------------------------------------------------------------------
(* The engine node: what an event says *)

\* The report of rest that next_event makes.
Rest == [at |-> clock, rpm |-> 0, spark |-> FALSE, prev |-> last_edge, since |-> cleared,
         sess |-> session]

LEMMA PendingIs ==
  ASSUME NEW e
  PROVE  e \in Pending <=>
             \/ e = event \/ e = sample.of
             \/ \E i \in 1 .. Len(events) : e = events[i]
             \/ \E i \in 1 .. Len(sample_queue) : e = sample_queue[i].of
BY DEF Pending

\* A step brings no event on its way but a new capture or a report of rest: nothing is
\* put together from parts of two.
LEMMA PendingGrows ==
  ASSUME TypeOK, [Next]_vars, NEW e \in Pending'
  PROVE  \/ e \in Pending \/ e = NoEvent
         \/ (engine_rpm_isr /\ e = Capture)
         \/ (EventAtRest /\ AtRest /\ e = Rest)
<1> DEFINE Known == \/ e \in Pending \/ e = NoEvent
                    \/ (engine_rpm_isr /\ e = Capture)
                    \/ (EventAtRest /\ AtRest /\ e = Rest)
<1> SUFFICES Known
  OBVIOUS
<1>0. events \in Seq(Events) /\ sample_queue \in Seq(Samples)
  BY DEF TypeOK
<1>1. \/ e = event' \/ e = sample'.of
      \/ \E i \in 1 .. Len(events') : e = events'[i]
      \/ \E i \in 1 .. Len(sample_queue') : e = sample_queue'[i].of
  BY DEF Pending
<1>2. ASSUME e = event' PROVE Known
  <2>1. \/ UNCHANGED event \/ event' = NoEvent
        \/ EventReceived \/ EventAtRest
    BY Steps DEF Stands, Tick, engine_rpm_isr, sample_task, SampleIdle, SampleCheck, Goto,
           EventTimesOut, EnqueueRoom, EnqueueSpark, EnqueueRpm, SampleFrame, send_task,
           SendReceive, SendCheck, SendSample, sampler_start,
           sampler_stop, sampler_discard_pending, StartClear, StartSensors, StartActivate,
           StopInactive, StopClear, DiscardEvents, DiscardSamples, ControlFrame, sampling
  <2>2. ASSUME EventReceived PROVE e \in Pending
    <3>1. e = events[1] /\ 1 \in 1 .. Len(events)
      BY <1>0, <1>2, <2>2, Shortened DEF EventReceived
    <3> QED
      BY <3>1, PendingIs
  <2>3. ASSUME EventAtRest PROVE event' = event \/ (AtRest /\ event' = Rest)
    BY <2>3 DEF EventAtRest, Rest
  <2> QED
    BY <1>2, <2>1, <2>2, <2>3, PendingIs
<1>3. ASSUME e = sample'.of PROVE Known
  <2>1. \/ UNCHANGED sample \/ sample' = NoSample \/ SendReceive
    BY Steps DEF Stands, Tick, engine_rpm_isr, sample_task, SampleIdle, SampleCheck, Goto,
           EventReceived, EventTimesOut, EventAtRest, EnqueueRoom, EnqueueSpark, EnqueueRpm,
           SampleFrame, send_task, SendCheck, SendSample, sampler_start,
           sampler_stop, sampler_discard_pending, StartClear, StartSensors, StartActivate,
           StopInactive, StopClear, DiscardEvents, DiscardSamples, ControlFrame, sending
  <2>2. ASSUME SendReceive PROVE e \in Pending
    <3>1. e = sample_queue[1].of /\ 1 \in 1 .. Len(sample_queue)
      BY <1>0, <1>3, <2>2, Shortened DEF SendReceive
    <3> QED
      BY <3>1, PendingIs
  <2>3. NoSample.of = NoEvent
    BY DEF NoSample
  <2> QED
    BY <1>3, <2>1, <2>2, <2>3, PendingIs
<1>4. ASSUME NEW i \in 1 .. Len(events'), e = events'[i] PROVE Known
  <2>1. \/ UNCHANGED events \/ events' = <<>> \/ EventReceived \/ engine_rpm_isr
    BY Steps DEF Stands, Tick, sample_task, SampleIdle, SampleCheck, Goto,
           EventTimesOut, EventAtRest, EnqueueRoom, EnqueueSpark, EnqueueRpm,
           SampleFrame, send_task, SendReceive, SendCheck, SendSample, sampler_start,
           sampler_stop, sampler_discard_pending, StartClear, StartSensors, StartActivate,
           StopInactive, StopClear, DiscardEvents, DiscardSamples, ControlFrame, driver,
           engine_rpm_discard_pending
  <2>2. ASSUME EventReceived PROVE e \in Pending
    <3>1. e = events[i + 1] /\ i + 1 \in 1 .. Len(events)
      BY <1>0, <1>4, <2>2, Shortened DEF EventReceived
    <3> QED
      BY <3>1, PendingIs
  <2>3. ASSUME engine_rpm_isr PROVE e \in Pending \/ e = Capture
    <3>1. CASE events' = Append(events, Capture)
      <4>1. (i \in 1 .. Len(events) /\ e = events[i]) \/ e = Capture
        BY <1>0, <1>4, <3>1, CaptureTyped, Lengthened
      <4> QED
        BY <4>1, PendingIs
    <3>2. CASE events' = events
      BY <1>4, <3>2, PendingIs
    <3> QED
      BY <2>3, <3>1, <3>2 DEF engine_rpm_isr
  <2>4. events' # <<>>
    BY <1>4
  <2>5. ASSUME UNCHANGED events PROVE e \in Pending
    BY <1>4, <2>5, PendingIs
  <2> QED
    BY <2>1, <2>2, <2>3, <2>4, <2>5
<1>5. ASSUME NEW i \in 1 .. Len(sample_queue'), e = sample_queue'[i].of PROVE Known
  <2>1. \/ UNCHANGED sample_queue \/ sample_queue' = <<>> \/ SendReceive
        \/ \E part \in {"spark", "rpm"} : Send(part)
    BY Steps DEF Stands, Tick, engine_rpm_isr, sample_task, SampleIdle, SampleCheck, Goto,
           EventReceived, EventTimesOut, EventAtRest, EnqueueRoom, EnqueueSpark, EnqueueRpm,
           SampleFrame, send_task, SendCheck, SendSample, sampler_start,
           sampler_stop, sampler_discard_pending, StartClear, StartSensors, StartActivate,
           StopInactive, StopClear, DiscardEvents, DiscardSamples, ControlFrame
  <2>2. ASSUME SendReceive PROVE e \in Pending
    <3>1. e = sample_queue[i + 1].of /\ i + 1 \in 1 .. Len(sample_queue)
      BY <1>0, <1>5, <2>2, Shortened DEF SendReceive
    <3> QED
      BY <3>1, PendingIs
  <2>3. ASSUME NEW part \in {"spark", "rpm"}, Send(part) PROVE e \in Pending
    <3> DEFINE s == [part |-> part, of |-> event, ahead |-> ahead]
    <3>1. s \in Samples /\ s.of = event
      BY DEF TypeOK, Samples
    <3>2. sample_queue' = Append(sample_queue, s) \/ sample_queue' = sample_queue
      BY <2>3 DEF Send
    <3> HIDE DEF s
    <3>3. (i \in 1 .. Len(sample_queue) /\ e = sample_queue[i].of) \/ e = event
      BY <1>0, <1>5, <3>1, <3>2, Lengthened
    <3> QED
      BY <3>3, PendingIs
  <2>4. sample_queue' # <<>>
    BY <1>5
  <2>5. ASSUME UNCHANGED sample_queue PROVE e \in Pending
    BY <1>5, <2>5, PendingIs
  <2> QED
    BY <2>1, <2>2, <2>3, <2>4, <2>5
<1> QED
  BY <1>1, <1>2, <1>3, <1>4, <1>5

LEMMA EventsStayTrue ==
  TypeOK /\ EdgeKnown /\ RpmMeasured /\ ZeroMeansSilent /\ [Next]_vars
    => RpmMeasured' /\ ZeroMeansSilent'
<1> SUFFICES ASSUME TypeOK, EdgeKnown, RpmMeasured, ZeroMeansSilent, [Next]_vars
             PROVE  RpmMeasured' /\ ZeroMeansSilent'
  OBVIOUS
<1>0. /\ clock \in Nat /\ last_spark \in Nat /\ last_zero \in Nat /\ last_edge \in Nat
      /\ cleared \in Nat /\ StopTimeout \in Nat
  BY BoundsAssumption, IntervalsAssumption DEF TypeOK, Times
<1> DEFINE Measured(e) == e.rpm > 0 =>
                 /\ e.rpm \in MinInterval .. MaxInterval
                 /\ e.prev = e.at - e.rpm /\ e.since =< e.prev
           Silent(e) == ~e.spark /\ e # NoEvent => e.prev + StopTimeout =< e.at
<1>1. Measured(NoEvent) /\ Silent(NoEvent)
  BY DEF NoEvent
<1>2. Measured(Capture) /\ Silent(Capture)
  <2>1. Capture.spark
    BY DEF Capture
  <2>2. ASSUME Credible(clock - last_spark)
        PROVE  /\ Capture.rpm = clock - last_spark
               /\ clock - last_spark \in MinInterval .. MaxInterval
               /\ Capture.prev = last_edge /\ Capture.at = clock /\ Capture.since = cleared
               /\ last_spark # 0
    BY <2>2 DEF Credible, Capture
  <2>3. ASSUME ~Credible(clock - last_spark) PROVE Capture.rpm = 0
    BY <2>3 DEF Capture
  <2> QED
    BY <1>0, <2>1, <2>2, <2>3 DEF EdgeKnown
<1>3. ASSUME AtRest PROVE Measured(Rest) /\ Silent(Rest)
  <2>1. /\ Rest.rpm = 0 /\ Rest.prev = last_edge /\ Rest.at = clock
    BY DEF Rest
  <2>2. last_edge + StopTimeout =< clock
    BY <1>0, <1>3 DEF AtRest, EdgeKnown
  <2> QED
    BY <2>1, <2>2
<1>4. \A e \in Pending : Measured(e) /\ Silent(e)
  BY DEF RpmMeasured, ZeroMeansSilent
<1> HIDE DEF Measured, Silent
<1>5. \A e \in Pending' : Measured(e) /\ Silent(e)
  BY <1>1, <1>2, <1>3, <1>4, PendingGrows
<1> QED
  BY <1>5 DEF RpmMeasured, ZeroMeansSilent, Measured, Silent

-------------------------------------------------------------------------------
(* The engine node: sparks and their RPMs *)

\* enqueue_engine_event has counted the room, and only it fills the queue.
RoomKept ==
    /\ spc = "spark" => Len(sample_queue) + Count(event) =< QueueLength /\ event.spark
    /\ spc = "rpm" => Len(sample_queue) < QueueLength

\* Between its two sends the spark is the last in the queue, if it is still there.
HalfQueued ==
    spc = "rpm" /\ event.spark /\ sample_queue # <<>> =>
        IsPart(sample_queue[Len(sample_queue)], "spark", event)

PairsInv == RoomKept /\ HalfQueued /\ PairsTogether

LEMMA CountIs ==
  \A e : Count(e) \in 0 .. 2 /\ (e.spark => Count(e) = IF HasRpm(e) THEN 2 ELSE 1)
BY DEF Count

\* The queue is left alone, and so is what is in hand, unless it is none of the queue's.
LEMMA PairsUntouched ==
  ASSUME PairsInv, UNCHANGED sample_queue,
         UNCHANGED <<spc, event>> \/ (spc # "rpm" /\ spc' \notin {"spark", "rpm"})
  PROVE  PairsInv'
<1>1. CASE UNCHANGED <<spc, event>>
  BY <1>1 DEF PairsInv, RoomKept, HalfQueued, PairsTogether
<1>2. CASE spc # "rpm" /\ spc' \notin {"spark", "rpm"}
  BY <1>2 DEF PairsInv, RoomKept, HalfQueued, PairsTogether
<1> QED
  BY <1>1, <1>2

LEMMA PairsEmptied ==
  ASSUME PairsInv, sample_queue' = <<>>, UNCHANGED <<spc, event>>
  PROVE  PairsInv'
<1>1. Len(sample_queue') = 0
  OBVIOUS
<1> QED
  BY <1>1, CountIs, LengthsAssumption DEF PairsInv, RoomKept, HalfQueued, PairsTogether

LEMMA PairsTaken ==
  ASSUME TypeOK, PairsInv, SendReceive
  PROVE  PairsInv'
<1>1. /\ Len(sample_queue) \in Nat \ {0} /\ Len(sample_queue') = Len(sample_queue) - 1
      /\ \A i \in 1 .. Len(sample_queue) - 1 : sample_queue'[i] = sample_queue[i + 1]
      /\ UNCHANGED <<spc, event>>
  BY Shortened DEF TypeOK, SendReceive, sampling
<1>2. RoomKept'
  BY <1>1, CountIs, LengthsAssumption DEF PairsInv, RoomKept
<1>3. ASSUME sample_queue' # <<>>
      PROVE  /\ Len(sample_queue') \in 1 .. Len(sample_queue) - 1
             /\ sample_queue'[Len(sample_queue')] = sample_queue[Len(sample_queue)]
  <2>1. sample_queue' \in Seq(Samples)
    BY Shortened DEF TypeOK, SendReceive
  <2>2. Len(sample_queue') # 0
    BY <1>3, <2>1
  <2>3. /\ Len(sample_queue') \in 1 .. Len(sample_queue) - 1
        /\ Len(sample_queue') + 1 = Len(sample_queue)
    BY <1>1, <2>2
  <2> QED
    BY <1>1, <2>3
<1>4. HalfQueued'
  <2>1. sample_queue # <<>>
    BY DEF SendReceive
  <2> QED
    BY <1>1, <1>3, <2>1 DEF PairsInv, HalfQueued, IsPart
<1>5. PairsTogether'
  <2> SUFFICES ASSUME NEW i \in 1 .. Len(sample_queue')
               PROVE  LET s == sample_queue'[i] IN
        /\ s.part = "rpm" /\ s.of.spark /\ i > 1 => IsPart(sample_queue'[i - 1], "spark", s.of)
        /\ s.part = "spark" /\ HasRpm(s.of) =>
               IF i < Len(sample_queue') THEN IsPart(sample_queue'[i + 1], "rpm", s.of)
                                         ELSE spc' = "rpm" /\ event' = s.of
    BY DEF PairsTogether, IsPart, HasRpm
  <2>1. i + 1 \in 1 .. Len(sample_queue) /\ sample_queue'[i] = sample_queue[i + 1]
    BY <1>1
  <2>2. i > 1 => sample_queue'[i - 1] = sample_queue[(i + 1) - 1] /\ i + 1 > 1
    BY <1>1
  <2>3. i < Len(sample_queue') <=> i + 1 < Len(sample_queue)
    BY <1>1
  <2>4. i < Len(sample_queue') => sample_queue'[i + 1] = sample_queue[(i + 1) + 1]
    BY <1>1
  <2>5. LET s == sample_queue[i + 1] IN
        /\ s.part = "rpm" /\ s.of.spark /\ i + 1 > 1 =>
               IsPart(sample_queue[(i + 1) - 1], "spark", s.of)
        /\ s.part = "spark" /\ HasRpm(s.of) =>
               IF i + 1 < Len(sample_queue) THEN IsPart(sample_queue[(i + 1) + 1], "rpm", s.of)
                                            ELSE spc = "rpm" /\ event = s.of
    BY <2>1 DEF PairsInv, PairsTogether
  <2> QED
    BY <1>1, <2>1, <2>2, <2>3, <2>4, <2>5
<1> QED
  BY <1>2, <1>4, <1>5 DEF PairsInv

\* What is appended, and what that means for the samples before it.
LEMMA PairsAppended ==
  ASSUME TypeOK, PairsInv, NEW part \in {"spark", "rpm"}, spc = part, Send(part),
         event' = event \/ spc' = "idle",
         spc' = IF part = "spark" /\ HasRpm(event) THEN "rpm" ELSE "idle"
  PROVE  PairsInv'
<1> DEFINE s == [part |-> part, of |-> event, ahead |-> ahead]
           n == Len(sample_queue)
<1>0. s.part = part /\ s.of = event /\ s \in Samples
  BY DEF TypeOK, Samples
<1>1. n \in Nat /\ n < QueueLength /\ QueueLength \in Nat
  BY CountIs, LengthsAssumption DEF TypeOK, PairsInv, RoomKept
<1>2. sample_queue' = Append(sample_queue, s)
  BY <1>1 DEF Send
<1> HIDE DEF s
<1>3. /\ Len(sample_queue') = n + 1 /\ sample_queue'[n + 1] = s
      /\ \A i \in 1 .. n : sample_queue'[i] = sample_queue[i]
  BY <1>0, <1>2, Lengthened DEF TypeOK
<1>4. RoomKept'
  <2>1. ASSUME spc' = "rpm" PROVE Len(sample_queue) + 2 =< QueueLength
    BY <2>1, CountIs DEF PairsInv, RoomKept
  <2> QED
    BY <1>1, <1>3, <2>1 DEF RoomKept
<1>5. HalfQueued'
  <2>1. ASSUME spc' = "rpm" PROVE part = "spark" /\ event' = event
    BY <2>1
  <2> QED
    BY <1>0, <1>3, <2>1 DEF HalfQueued, IsPart
<1>6. PairsTogether'
  <2> SUFFICES ASSUME NEW i \in 1 .. Len(sample_queue')
               PROVE  /\ /\ sample_queue'[i].part = "rpm" /\ sample_queue'[i].of.spark /\ i > 1
                         => IsPart(sample_queue'[i - 1], "spark", sample_queue'[i].of)
                      /\ sample_queue'[i].part = "spark" /\ HasRpm(sample_queue'[i].of) =>
                           IF i < Len(sample_queue')
                             THEN IsPart(sample_queue'[i + 1], "rpm", sample_queue'[i].of)
                             ELSE spc' = "rpm" /\ event' = sample_queue'[i].of
    BY DEF PairsTogether, IsPart, HasRpm
  <2>1. CASE i = n + 1
    <3>1. sample_queue'[i] = s /\ ~ (i < Len(sample_queue'))
      BY <1>1, <1>3, <2>1
    <3>2. ASSUME part = "rpm", event.spark, i > 1 PROVE IsPart(sample_queue'[i - 1], "spark", event)
      <4>1. n \in 1 .. n /\ i - 1 = n
        BY <1>1, <2>1, <3>2
      <4>2. sample_queue # <<>>
        BY <4>1
      <4>3. IsPart(sample_queue[n], "spark", event)
        BY <3>2, <4>2 DEF PairsInv, HalfQueued
      <4> QED
        BY <1>3, <4>1, <4>3
    <3> QED
      BY <1>0, <3>1, <3>2
  <2>2. CASE i # n + 1
    <3>1. i \in 1 .. n /\ sample_queue'[i] = sample_queue[i] /\ i < Len(sample_queue')
      BY <1>1, <1>3, <2>2
    <3>2. /\ /\ sample_queue[i].part = "rpm" /\ sample_queue[i].of.spark /\ i > 1
             => IsPart(sample_queue[i - 1], "spark", sample_queue[i].of)
          /\ sample_queue[i].part = "spark" /\ HasRpm(sample_queue[i].of) =>
               IF i < n THEN IsPart(sample_queue[i + 1], "rpm", sample_queue[i].of)
                        ELSE spc = "rpm" /\ event = sample_queue[i].of
      BY <3>1 DEF PairsInv, PairsTogether
    <3>3. i > 1 => i - 1 \in 1 .. n /\ sample_queue'[i - 1] = sample_queue[i - 1]
      BY <1>1, <1>3, <3>1
    <3>4. i < n => sample_queue'[i + 1] = sample_queue[i + 1]
      BY <1>1, <1>3, <3>1
    <3>5. ~ (i < n) => sample_queue'[i + 1] = s
      BY <1>1, <1>3, <3>1
    <3> QED
      BY <1>0, <3>1, <3>2, <3>3, <3>4, <3>5 DEF IsPart
  <2> QED
    BY <2>1, <2>2
<1> QED
  BY <1>4, <1>5, <1>6 DEF PairsInv

LEMMA PairsStay == TypeOK /\ PairsInv /\ [Next]_vars => PairsInv'
<1> SUFFICES ASSUME TypeOK, PairsInv, [Next]_vars PROVE PairsInv'
  OBVIOUS
<1>1. CASE Tick \/ engine_rpm_isr \/ SendCheck \/ SendSample \/ Stands
  BY <1>1, PairsUntouched DEF Tick, engine_rpm_isr, SendCheck, SendSample, Stands, sampling
<1>2. CASE SampleIdle \/ EventReceived \/ EventTimesOut \/ EventAtRest \/ SampleCheck
  <2>1. UNCHANGED sample_queue /\ spc # "rpm" /\ spc' \notin {"spark", "rpm"}
    BY <1>2 DEF SampleIdle, EventReceived, EventTimesOut, EventAtRest, SampleCheck, Goto
  <2> QED
    BY <2>1, PairsUntouched
<1>3. CASE EnqueueRoom
  <2>1. CASE QueueLength - Len(sample_queue) < Count(event)
    BY <1>3, <2>1, PairsUntouched DEF EnqueueRoom, Goto
  <2>2. CASE ~ (QueueLength - Len(sample_queue) < Count(event))
    <3>1. /\ spc = "room" /\ spc' = IF event.spark THEN "spark" ELSE "rpm"
          /\ UNCHANGED <<event, sample_queue>>
      BY <1>3, <2>2 DEF EnqueueRoom, Goto
    <3>2. Len(sample_queue) + Count(event) =< QueueLength /\ Count(event) \in 0 .. 2
      BY <2>2, CountIs, LengthsAssumption DEF TypeOK
    <3>3. ~event.spark => Count(event) = 1
      BY DEF Count, HasRpm
    <3>4. RoomKept'
      BY <3>1, <3>2, <3>3, LengthsAssumption DEF TypeOK, RoomKept
    <3> QED
      BY <3>1, <3>4 DEF PairsInv, HalfQueued, PairsTogether
  <2> QED
    BY <2>1, <2>2
<1>4. CASE EnqueueSpark
  BY <1>4, PairsAppended DEF EnqueueSpark, Goto
<1>5. CASE EnqueueRpm
  BY <1>5, PairsAppended DEF EnqueueRpm, Goto
<1>6. CASE SendReceive
  BY <1>6, PairsTaken
<1>7. CASE sampler_start \/ sampler_stop \/ sampler_discard_pending
  <2>1. UNCHANGED <<spc, event>> /\ (UNCHANGED sample_queue \/ sample_queue' = <<>>)
    BY <1>7
    DEF sampler_start, sampler_stop, sampler_discard_pending, StartClear, StartSensors,
        StartActivate, StopInactive, StopClear, DiscardEvents, DiscardSamples, ControlFrame,
        sampling
  <2> QED
    BY <2>1, PairsEmptied, PairsUntouched
<1> QED
  BY <1>1, <1>2, <1>3, <1>4, <1>5, <1>6, <1>7, Steps DEF sample_task, send_task

-------------------------------------------------------------------------------
(* The engine node: the order of captures and of time stamps *)

\* Captures by how far they have come: on the bus, in the hands of send_task, in the
\* output queue, in the hands of sample_task, in the capture queue.
Sent == {sent.at}
Taken == IF tpc = "receive" THEN {} ELSE {sample.of.at}
Queued == {sample_queue[i].of.at : i \in 1 .. Len(sample_queue)}
Held == IF Holding THEN {event.at} ELSE {}
Captured == {events[i].at : i \in 1 .. Len(events)}

Before(S, T) == \A s \in S, t \in T : s =< t

QueuesSorted ==
    /\ \A i, j \in 1 .. Len(sample_queue) :
           i =< j => sample_queue[i].of.at =< sample_queue[j].of.at
    /\ \A i, j \in 1 .. Len(events) : i =< j => events[i].at =< events[j].at

\* What has come further is older.
InOrder ==
    /\ Before(Sent, Taken \cup Queued \cup Held \cup Captured \cup {clock})
    /\ Before(Taken, Queued \cup Held \cup Captured \cup {clock})
    /\ Before(Queued, Held \cup Captured \cup {clock})
    /\ Before(Held, Captured \cup {clock})
    /\ Before(Captured, {clock})
    /\ QueuesSorted

\* Stamps that only get fewer, while the clock goes on, stay in order.
LEMMA FewerInOrder ==
  ASSUME TypeOK, TypeOK', InOrder, QueuesSorted', clock =< clock',
         Sent' \subseteq Sent, Taken' \subseteq Taken, Queued' \subseteq Queued,
         Held' \subseteq Held, Captured' \subseteq Captured
  PROVE  InOrder'
<1>1. \A S, T, U, V : Before(S, T) /\ U \subseteq S /\ V \subseteq T => Before(U, V)
  BY DEF Before
<1>2. ASSUME NEW S, NEW T, Before(S, T \cup {clock}), NEW U, NEW V,
             U \subseteq S, V \subseteq T, S \subseteq Nat
      PROVE  Before(U, V \cup {clock'})
  <2>1. clock \in Nat /\ clock' \in Nat
    BY BoundsAssumption DEF TypeOK, Times
  <2>2. ASSUME NEW u \in U PROVE u =< clock'
    BY <1>2, <2>1, <2>2 DEF Before
  <2> QED
    BY <1>2, <2>2 DEF Before
<1>3. /\ Sent \subseteq Nat /\ Taken \subseteq Nat /\ Queued \subseteq Nat
      /\ Held \subseteq Nat /\ Captured \subseteq Nat
  <2>1. \A e \in Events : e.at \in Nat
    BY BoundsAssumption DEF Events, Times
  <2>2. \A s \in Samples : s.of \in Events
    BY DEF Samples
  <2>3. \A i \in 1 .. Len(sample_queue) : sample_queue[i] \in Samples
    BY ElementOfSeq DEF TypeOK
  <2>4. \A i \in 1 .. Len(events) : events[i] \in Events
    BY ElementOfSeq DEF TypeOK
  <2>5. sent.at \in Nat /\ event \in Events /\ sample \in Samples
    BY BoundsAssumption DEF TypeOK, Times
  <2> QED
    BY <2>1, <2>2, <2>3, <2>4, <2>5 DEF Sent, Taken, Queued, Held, Captured
<1>4. Before(Sent', Taken' \cup Queued' \cup Held' \cup Captured' \cup {clock'})
  <2> DEFINE T == Taken \cup Queued \cup Held \cup Captured
             V == Taken' \cup Queued' \cup Held' \cup Captured'
  <2>1. Before(Sent, T \cup {clock}) /\ V \subseteq T
    BY DEF InOrder
  <2> HIDE DEF T, V
  <2>2. Before(Sent', V \cup {clock'})
    BY <1>2, <1>3, <2>1
  <2> QED
    BY <2>2 DEF V
<1>5. Before(Taken', Queued' \cup Held' \cup Captured' \cup {clock'})
  <2> DEFINE T == Queued \cup Held \cup Captured
             V == Queued' \cup Held' \cup Captured'
  <2>1. Before(Taken, T \cup {clock}) /\ V \subseteq T
    BY DEF InOrder
  <2> HIDE DEF T, V
  <2>2. Before(Taken', V \cup {clock'})
    BY <1>2, <1>3, <2>1
  <2> QED
    BY <2>2 DEF V
<1>6. Before(Queued', Held' \cup Captured' \cup {clock'})
  <2> DEFINE T == Held \cup Captured
             V == Held' \cup Captured'
  <2>1. Before(Queued, T \cup {clock}) /\ V \subseteq T
    BY DEF InOrder
  <2> HIDE DEF T, V
  <2>2. Before(Queued', V \cup {clock'})
    BY <1>2, <1>3, <2>1
  <2> QED
    BY <2>2 DEF V
<1>7. Before(Held', Captured' \cup {clock'})
  BY <1>2, <1>3 DEF InOrder
<1>8. Before(Captured', {clock'})
  <2>1. Before(Captured, {} \cup {clock})
    BY DEF InOrder
  <2>2. Before(Captured', {} \cup {clock'})
    BY <1>2, <1>3, <2>1
  <2> QED
    BY <2>2
<1> QED
  BY <1>4, <1>5, <1>6, <1>7, <1>8 DEF InOrder, Before

\* Both queues may get shorter at either end.
LEMMA StaySorted ==
  ASSUME TypeOK, QueuesSorted,
         UNCHANGED sample_queue \/ sample_queue' = <<>>,
         UNCHANGED events \/ events' = <<>>
  PROVE  QueuesSorted' /\ Queued' \subseteq Queued /\ Captured' \subseteq Captured
<1>1. 1 .. Len(<<>>) = {}
  OBVIOUS
<1>2. /\ \A i, j \in 1 .. Len(sample_queue') :
             i =< j => sample_queue'[i].of.at =< sample_queue'[j].of.at
      /\ Queued' \subseteq Queued
  BY <1>1 DEF QueuesSorted, Queued
<1>3. /\ \A i, j \in 1 .. Len(events') : i =< j => events'[i].at =< events'[j].at
      /\ Captured' \subseteq Captured
  BY <1>1 DEF QueuesSorted, Captured
<1> QED
  BY <1>2, <1>3 DEF QueuesSorted

LEMMA SortedTail ==
  ASSUME TypeOK, QueuesSorted
  PROVE  /\ events # <<>> /\ events' = Tail(events) /\ UNCHANGED sample_queue =>
              /\ QueuesSorted' /\ Queued' = Queued /\ Captured' \subseteq Captured
              /\ Head(events).at \in Captured /\ Before({Head(events).at}, Captured)
         /\ sample_queue # <<>> /\ sample_queue' = Tail(sample_queue) /\ UNCHANGED events =>
              /\ QueuesSorted' /\ Captured' = Captured /\ Queued' \subseteq Queued
              /\ Head(sample_queue).of.at \in Queued
              /\ Before({Head(sample_queue).of.at}, Queued)
<1>1. ASSUME events # <<>>, events' = Tail(events), UNCHANGED sample_queue
      PROVE  /\ QueuesSorted' /\ Queued' = Queued /\ Captured' \subseteq Captured
             /\ Head(events).at \in Captured /\ Before({Head(events).at}, Captured)
  <2>1. /\ Head(events) = events[1] /\ 1 \in 1 .. Len(events)
        /\ \A i \in 1 .. Len(events') : i + 1 \in 1 .. Len(events) /\ events'[i] = events[i + 1]
    BY <1>1, Shortened DEF TypeOK
  <2>2. \A i, j \in 1 .. Len(events') : i =< j => events'[i].at =< events'[j].at
    BY <2>1 DEF QueuesSorted
  <2>3. Captured' \subseteq Captured
    BY <2>1 DEF Captured
  <2>4. Head(events).at \in Captured /\ Before({Head(events).at}, Captured)
    BY <2>1 DEF Captured, Before, QueuesSorted
  <2> QED
    BY <1>1, <2>2, <2>3, <2>4 DEF QueuesSorted, Queued
<1>2. ASSUME sample_queue # <<>>, sample_queue' = Tail(sample_queue), UNCHANGED events
      PROVE  /\ QueuesSorted' /\ Captured' = Captured /\ Queued' \subseteq Queued
             /\ Head(sample_queue).of.at \in Queued
             /\ Before({Head(sample_queue).of.at}, Queued)
  <2>1. /\ Head(sample_queue) = sample_queue[1] /\ 1 \in 1 .. Len(sample_queue)
        /\ \A i \in 1 .. Len(sample_queue') :
               i + 1 \in 1 .. Len(sample_queue) /\ sample_queue'[i] = sample_queue[i + 1]
    BY <1>2, Shortened DEF TypeOK
  <2>2. \A i, j \in 1 .. Len(sample_queue') :
            i =< j => sample_queue'[i].of.at =< sample_queue'[j].of.at
    <3> SUFFICES ASSUME NEW i \in 1 .. Len(sample_queue'), NEW j \in 1 .. Len(sample_queue'),
                        i =< j
                 PROVE  sample_queue'[i].of.at =< sample_queue'[j].of.at
      OBVIOUS
    <3>1. i + 1 =< j + 1
      OBVIOUS
    <3>2. sample_queue[i + 1].of.at =< sample_queue[j + 1].of.at
      BY <2>1, <3>1 DEF QueuesSorted
    <3> QED
      BY <2>1, <3>2
  <2>3. Queued' \subseteq Queued
    BY <2>1 DEF Queued
  <2>4. Head(sample_queue).of.at \in Queued /\ Before({Head(sample_queue).of.at}, Queued)
    BY <2>1 DEF Queued, Before, QueuesSorted
  <2> QED
    BY <1>2, <2>2, <2>3, <2>4 DEF QueuesSorted, Captured
<1> QED
  BY <1>1, <1>2

\* A stamp goes on a stage: it is at the end of the one and at the front of the other.
LEMMA OrderStays ==
  TypeOK /\ TypeOK' /\ InHands /\ EdgeKnown /\ WaitEnds /\ InOrder /\ [Next]_vars => InOrder'
<1> SUFFICES ASSUME TypeOK, TypeOK', InHands, EdgeKnown, WaitEnds, InOrder, [Next]_vars
             PROVE  InOrder'
  OBVIOUS
<1>0. clock \in Nat /\ QueuesSorted
  BY BoundsAssumption DEF TypeOK, Times, InOrder
<1>1. CASE Tick
  <2>1. UNCHANGED <<sample_queue, events, spc, event, tpc, sample, sent>> /\ clock =< clock'
    BY <1>0, <1>1 DEF Tick, driver, sending
  <2>2. QueuesSorted' /\ Queued' \subseteq Queued /\ Captured' \subseteq Captured
    BY <1>0, <2>1, StaySorted
  <2>3. Sent' = Sent /\ Taken' = Taken /\ Held' = Held
    BY <2>1 DEF Sent, Taken, Held, Holding
  <2> QED
    BY <2>1, <2>2, <2>3, FewerInOrder
<1>2. CASE engine_rpm_isr
  <2>1. UNCHANGED <<clock, sample_queue, spc, event, tpc, sample, sent>>
    BY <1>2 DEF engine_rpm_isr, sampling, sending
  <2>2. Sent' = Sent /\ Taken' = Taken /\ Held' = Held /\ Queued' = Queued
    BY <2>1 DEF Sent, Taken, Held, Holding, Queued
  <2>3. CASE events' = events
    BY <1>0, <2>1, <2>2, <2>3, FewerInOrder, StaySorted
  <2>4. CASE events' = Append(events, Capture)
    <3>1. /\ Len(events') = Len(events) + 1 /\ events'[Len(events) + 1] = Capture
          /\ \A i \in 1 .. Len(events) : events'[i] = events[i]
          /\ Len(events) \in Nat
      BY <2>4, CaptureTyped, Lengthened DEF TypeOK
    <3>2. Capture.at = clock
      BY DEF Capture
    <3>3. Captured' \subseteq Captured \cup {clock}
      <4>1. ASSUME NEW i \in 1 .. Len(events') PROVE events'[i].at \in Captured \cup {clock}
        <5>1. i \in 1 .. Len(events) \/ i = Len(events) + 1
          BY <3>1
        <5> QED
          BY <3>1, <3>2, <5>1 DEF Captured
      <4> QED
        BY <4>1 DEF Captured
    <3>4. Before(Captured, {clock})
      BY DEF InOrder
    <3>5. \A i, j \in 1 .. Len(events') : i =< j => events'[i].at =< events'[j].at
      <4> SUFFICES ASSUME NEW i \in 1 .. Len(events'), NEW j \in 1 .. Len(events'), i =< j
                   PROVE  events'[i].at =< events'[j].at
        OBVIOUS
      <4>1. CASE j \in 1 .. Len(events)
        <5>1. i \in 1 .. Len(events)
          BY <3>1, <4>1
        <5> QED
          BY <1>0, <3>1, <4>1, <5>1 DEF QueuesSorted
      <4>2. CASE j = Len(events) + 1
        <5>1. events'[j].at = clock
          BY <3>1, <3>2, <4>2
        <5>2. CASE i \in 1 .. Len(events)
          <6>1. events'[i].at \in Captured
            BY <3>1, <5>2 DEF Captured
          <6> QED
            BY <3>4, <5>1, <6>1 DEF Before
        <5>3. CASE i = Len(events) + 1
          BY <1>0, <4>2, <5>1, <5>3
        <5> QED
          BY <3>1, <5>2, <5>3
      <4> QED
        BY <3>1, <4>1, <4>2
    <3>6. QueuesSorted'
      BY <1>0, <2>1, <3>5 DEF QueuesSorted
    <3> QED
      BY <1>0, <2>1, <2>2, <3>3, <3>6 DEF InOrder, Before
  <2> QED
    BY <1>2, <2>3, <2>4 DEF engine_rpm_isr
<1>3. CASE EventReceived
  <2>1. /\ UNCHANGED <<clock, sample_queue, tpc, sample, sent>> /\ events # <<>>
        /\ events' = Tail(events) /\ event' = Head(events) /\ Holding'
    BY <1>3 DEF EventReceived, sending, Holding
  <2>2. /\ QueuesSorted' /\ Queued' = Queued /\ Captured' \subseteq Captured
        /\ Head(events).at \in Captured /\ Before({Head(events).at}, Captured)
    BY <1>0, <2>1, SortedTail
  <2>3. Sent' = Sent /\ Taken' = Taken /\ Held' = {Head(events).at}
    BY <2>1 DEF Sent, Taken, Held
  <2> QED
    BY <2>1, <2>2, <2>3 DEF InOrder, Before
<1>4. CASE EventAtRest
  <2>1. UNCHANGED <<clock, events, sample_queue, tpc, sample, sent>>
    BY <1>4 DEF EventAtRest, sending
  <2>2. QueuesSorted' /\ Queued' = Queued /\ Captured' = Captured
    BY <1>0, <2>1 DEF QueuesSorted, Queued, Captured
  <2>3. Sent' = Sent /\ Taken' = Taken
    BY <2>1 DEF Sent, Taken
  <2>4. CASE AtRest
    <3>1. Captured = {}
      BY <1>4, <2>4, RestIsAlone DEF Captured
    <3>2. Held' \subseteq {clock}
      BY <1>4, <2>4 DEF EventAtRest, Held
    <3>3. clock' = clock /\ clock =< clock
      BY <1>0, <2>1
    <3>4. Before(Sent', Taken' \cup Queued' \cup Held' \cup Captured' \cup {clock'})
      BY <2>2, <2>3, <3>2, <3>3 DEF InOrder, Before
    <3>5. Before(Taken', Queued' \cup Held' \cup Captured' \cup {clock'})
      BY <2>2, <2>3, <3>2, <3>3 DEF InOrder, Before
    <3>6. Before(Queued', Held' \cup Captured' \cup {clock'})
      BY <2>2, <3>2, <3>3 DEF InOrder, Before
    <3>7. Before(Held', Captured' \cup {clock'}) /\ Before(Captured', {clock'})
      BY <2>2, <3>1, <3>2, <3>3 DEF Before
    <3> QED
      BY <2>2, <3>4, <3>5, <3>6, <3>7 DEF InOrder, Before
  <2>5. CASE ~AtRest
    <3>1. Held' = {}
      BY <1>4, <2>5 DEF EventAtRest, Held, Holding
    <3> QED
      BY <1>0, <2>1, <2>2, <2>3, <3>1, FewerInOrder
  <2> QED
    BY <2>4, <2>5
<1>5. CASE EventTimesOut \/ SampleIdle \/ SampleCheck \/ EnqueueRoom
  <2>1. UNCHANGED <<clock, events, sample_queue, tpc, sample, sent>>
    BY <1>5 DEF EventTimesOut, SampleIdle, SampleCheck, EnqueueRoom, SampleFrame, driver, sending
  <2>2. QueuesSorted' /\ Queued' = Queued /\ Captured' = Captured
    BY <1>0, <2>1 DEF QueuesSorted, Queued, Captured
  <2>3. Sent' = Sent /\ Taken' = Taken
    BY <2>1 DEF Sent, Taken
  <2>4. Held' \subseteq Held
    BY <1>5 DEF EventTimesOut, SampleIdle, SampleCheck, EnqueueRoom, Goto, Held, Holding
  <2> QED
    BY <1>0, <2>1, <2>2, <2>3, <2>4, FewerInOrder
<1>6. CASE EnqueueSpark \/ EnqueueRpm
  <2>1. /\ UNCHANGED <<clock, events, tpc, sample, sent>> /\ Holding
        /\ \E part \in {"spark", "rpm"} : Send(part)
    BY <1>6 DEF EnqueueSpark, EnqueueRpm, SampleFrame, driver, sending, Holding
  <2>2. Held' \subseteq Held /\ Held = {event.at}
    BY <1>6 DEF EnqueueSpark, EnqueueRpm, Goto, Held, Holding
  <2>3. Sent' = Sent /\ Taken' = Taken /\ Captured' = Captured
    BY <2>1 DEF Sent, Taken, Captured
  <2>4. CASE sample_queue' = sample_queue
    BY <1>0, <2>1, <2>2, <2>3, <2>4, FewerInOrder, StaySorted
  <2>5. ASSUME NEW s \in Samples, s.of = event, sample_queue' = Append(sample_queue, s)
        PROVE  InOrder'
    <3>1. /\ Len(sample_queue') = Len(sample_queue) + 1
          /\ sample_queue'[Len(sample_queue) + 1] = s
          /\ \A i \in 1 .. Len(sample_queue) : sample_queue'[i] = sample_queue[i]
          /\ Len(sample_queue) \in Nat
      BY <2>5, Lengthened DEF TypeOK
    <3>2. Queued' \subseteq Queued \cup {event.at}
      <4>1. ASSUME NEW i \in 1 .. Len(sample_queue')
            PROVE  sample_queue'[i].of.at \in Queued \cup {event.at}
        <5>1. i \in 1 .. Len(sample_queue) \/ i = Len(sample_queue) + 1
          BY <3>1
        <5> QED
          BY <2>5, <3>1, <5>1 DEF Queued
      <4> QED
        BY <4>1 DEF Queued
    <3>3. Before(Queued, {event.at})
      BY <2>2 DEF InOrder, Before
    <3>4. \A i, j \in 1 .. Len(sample_queue') :
              i =< j => sample_queue'[i].of.at =< sample_queue'[j].of.at
      <4> SUFFICES ASSUME NEW i \in 1 .. Len(sample_queue'), NEW j \in 1 .. Len(sample_queue'),
                          i =< j
                   PROVE  sample_queue'[i].of.at =< sample_queue'[j].of.at
        OBVIOUS
      <4>1. CASE j \in 1 .. Len(sample_queue)
        <5>1. i \in 1 .. Len(sample_queue)
          BY <3>1, <4>1
        <5>2. sample_queue[i].of.at =< sample_queue[j].of.at
          BY <1>0, <4>1, <5>1 DEF QueuesSorted
        <5> QED
          BY <3>1, <4>1, <5>1, <5>2
      <4>2. CASE j = Len(sample_queue) + 1
        <5>1. sample_queue'[j].of.at = event.at
          BY <2>5, <3>1, <4>2
        <5>2. CASE i \in 1 .. Len(sample_queue)
          <6>1. sample_queue'[i].of.at \in Queued
            BY <3>1, <5>2 DEF Queued
          <6> QED
            BY <3>3, <5>1, <6>1 DEF Before
        <5>3. CASE i = Len(sample_queue) + 1
          <6>1. event.at \in Nat
            BY BoundsAssumption DEF TypeOK, Events, Times
          <6> QED
            BY <4>2, <5>1, <5>3, <6>1
        <5> QED
          BY <3>1, <5>2, <5>3
      <4> QED
        BY <3>1, <4>1, <4>2
    <3>5. QueuesSorted'
      BY <1>0, <2>1, <3>4 DEF QueuesSorted
    <3>6. Before(Sent', Taken' \cup Queued' \cup Held' \cup Captured' \cup {clock'})
      BY <2>1, <2>2, <2>3, <3>2 DEF InOrder, Before
    <3>7. Before(Taken', Queued' \cup Held' \cup Captured' \cup {clock'})
      BY <2>1, <2>2, <2>3, <3>2 DEF InOrder, Before
    <3>8. Before(Queued', Held' \cup Captured' \cup {clock'})
      <4>1. ASSUME NEW t \in Held' \cup Captured' \cup {clock'}
            PROVE  Before(Queued, {t}) /\ event.at =< t
        <5>1. t \in Held \/ t \in Captured \cup {clock}
          BY <2>1, <2>2, <2>3
        <5>2. event.at \in Nat
          BY BoundsAssumption DEF TypeOK, Events, Times
        <5>3. CASE t \in Held
          BY <2>2, <5>2, <5>3 DEF InOrder, Before
        <5>4. CASE t \in Captured \cup {clock}
          BY <2>2, <5>4 DEF InOrder, Before
        <5> QED
          BY <5>1, <5>3, <5>4
      <4> QED
        BY <3>2, <4>1 DEF Before
    <3>9. Before(Held', Captured' \cup {clock'}) /\ Before(Captured', {clock'})
      BY <2>1, <2>2, <2>3 DEF InOrder, Before
    <3> QED
      BY <3>5, <3>6, <3>7, <3>8, <3>9 DEF InOrder, Before
  <2>6. \A part \in {"spark", "rpm"} : [part |-> part, of |-> event, ahead |-> ahead] \in Samples
    BY DEF TypeOK, Samples
  <2> QED
    BY <2>1, <2>4, <2>5, <2>6 DEF Send
<1>7. CASE SendReceive
  <2>1. /\ UNCHANGED <<clock, events, spc, event, sent>> /\ sample_queue # <<>>
        /\ sample_queue' = Tail(sample_queue) /\ sample' = Head(sample_queue)
        /\ tpc = "receive" /\ tpc' = "check"
    BY <1>7 DEF SendReceive, driver, sampling
  <2>2. /\ QueuesSorted' /\ Captured' = Captured /\ Queued' \subseteq Queued
        /\ Head(sample_queue).of.at \in Queued /\ Before({Head(sample_queue).of.at}, Queued)
    BY <1>0, <2>1, SortedTail
  <2>3. Sent' = Sent /\ Taken' = {Head(sample_queue).of.at} /\ Held' = Held
    BY <2>1 DEF Sent, Taken, Held, Holding
  <2> QED
    BY <2>1, <2>2, <2>3 DEF InOrder, Before
<1>8. CASE SendCheck \/ SendSample
  <2>1. UNCHANGED <<clock, events, sample_queue, spc, event>>
    BY <1>8 DEF SendCheck, SendSample, driver, sampling
  <2>2. QueuesSorted' /\ Queued' = Queued /\ Captured' = Captured /\ Held' = Held
    BY <1>0, <2>1 DEF QueuesSorted, Queued, Captured, Held, Holding
  <2>3. CASE SendCheck
    <3>1. Sent' = Sent /\ Taken' \subseteq Taken
      BY <2>3 DEF SendCheck, Sent, Taken
    <3> QED
      BY <1>0, <2>1, <2>2, <3>1, FewerInOrder
  <2>4. CASE SendSample
    <3>1. Taken = {sample.of.at} /\ Sent' = Taken /\ Taken' = {}
      BY <2>4 DEF SendSample, Sent, Taken
    <3> QED
      BY <2>1, <2>2, <3>1 DEF InOrder, Before
  <2> QED
    BY <1>8, <2>3, <2>4
<1>9. CASE sampler_start \/ sampler_stop \/ sampler_discard_pending \/ Stands
  <2>1. /\ UNCHANGED <<clock, spc, event, tpc, sample, sent>>
        /\ UNCHANGED events \/ events' = <<>>
        /\ UNCHANGED sample_queue \/ sample_queue' = <<>>
    BY <1>9
    DEF sampler_start, sampler_stop, sampler_discard_pending, StartClear, StartSensors,
        StartActivate, StopInactive, StopClear, DiscardEvents, DiscardSamples, ControlFrame,
        engine_rpm_discard_pending, driver, sampling, sending, Stands
  <2>2. QueuesSorted' /\ Queued' \subseteq Queued /\ Captured' \subseteq Captured
    BY <1>0, <2>1, StaySorted
  <2>3. Sent' = Sent /\ Taken' = Taken /\ Held' = Held
    BY <2>1 DEF Sent, Taken, Held, Holding
  <2> QED
    BY <1>0, <2>1, <2>2, <2>3, FewerInOrder
<1> QED
  BY <1>1, <1>2, <1>3, <1>4, <1>5, <1>6, <1>7, <1>8, <1>9, Steps DEF sample_task, send_task

\* Division that rounds towards zero, of a master's time.
Towards(m) == IF m >= 0 THEN m \div Resolution ELSE -((-m) \div Resolution)

LEMMA QuotientIs ==
  ASSUME NEW n \in Nat, NEW b \in Nat \ {0}
  PROVE  n \div b \in Nat /\ b * (n \div b) =< n /\ n < b * (n \div b) + b
<1> DEFINE q == n \div b
           r == n % b
<1>1. n = b * q + r /\ r \in 0 .. b - 1 /\ q \in Int
  OBVIOUS
<1>2. q >= 0
  OBVIOUS
<1>3. b * q \in Int
  BY <1>1
<1> QED
  BY <1>1, <1>2, <1>3

\* The rounding is off by less than a unit, and towards zero.
LEMMA TowardsIs ==
  ASSUME NEW m \in Int
  PROVE  /\ Towards(m) \in Int /\ Resolution * Towards(m) \in Int
         /\ m >= 0 => /\ Towards(m) >= 0 /\ Resolution * Towards(m) =< m
                      /\ m < Resolution * Towards(m) + Resolution
         /\ m < 0 => /\ Towards(m) =< 0 /\ m =< Resolution * Towards(m)
                     /\ Resolution * Towards(m) - Resolution < m
<1> DEFINE b == Resolution
<1>0. b \in Nat \ {0}
  BY OffsetsAssumption
<1>1. CASE m >= 0
  <2>1. Towards(m) = m \div b /\ m \in Nat
    BY <1>1 DEF Towards
  <2>2. m \div b \in Nat /\ b * (m \div b) =< m /\ m < b * (m \div b) + b
    BY <1>0, <2>1, QuotientIs
  <2>3. b * (m \div b) \in Int
    BY <1>0, <2>2
  <2> QED
    BY <1>1, <2>1, <2>2, <2>3
<1>2. CASE ~ (m >= 0)
  <2> DEFINE n == -m
             q == n \div b
  <2>1. Towards(m) = -q /\ n \in Nat /\ m = -n
    BY <1>2 DEF Towards
  <2>2. q \in Nat /\ b * q =< n /\ n < b * q + b
    BY <1>0, <2>1, QuotientIs
  <2>3. b * q \in Int /\ b * (-q) = -(b * q)
    BY <1>0, <2>2
  <2> HIDE DEF q, n
  <2> QED
    BY <1>0, <1>2, <2>1, <2>2, <2>3
<1> QED
  BY <1>1, <1>2

LEMMA TowardsFalls ==
  ASSUME NEW m \in Int, NEW n \in Int, Towards(n) < Towards(m)
  PROVE  n < m /\ (Towards(m) - Towards(n) - 1) * Resolution =< m - n
<1> DEFINE b == Resolution
           x == Towards(m)
           y == Towards(n)
<1>0. b \in Nat \ {0} /\ x \in Int /\ y \in Int /\ b * x \in Int /\ b * y \in Int
  BY OffsetsAssumption, TowardsIs
<1>1. b * x - b * y - b =< m - n
  <2> DEFINE u == b * x
             v == b * y
  <2>1. /\ u \in Int /\ v \in Int /\ b \in Nat /\ x \in Int /\ y \in Int /\ y < x
        /\ m >= 0 => x >= 0 /\ u =< m /\ m < u + b
        /\ m < 0 => x =< 0 /\ m =< u /\ u - b < m
        /\ n >= 0 => y >= 0 /\ v =< n /\ n < v + b
        /\ n < 0 => y =< 0 /\ n =< v /\ v - b < n
    BY <1>0, TowardsIs
  <2> HIDE DEF u, v, x, y, b
  <2>2. u - v - b =< m - n
    BY <2>1
  <2> QED
    BY <2>2 DEF u, v
<1>2. (x - y - 1) * b = b * x - b * y - b
  BY <1>0
<1>3. (x - y - 1) * b >= 0
  <2> DEFINE k == x - y - 1
  <2>1. k \in Nat
    BY <1>0
  <2> HIDE DEF k
  <2>2. k * b >= 0
    BY <1>0, <2>1
  <2> QED
    BY <2>2 DEF k
<1>4. m # n
  <2> SUFFICES ASSUME m = n PROVE FALSE
    OBVIOUS
  <2>1. Towards(m) = Towards(n) /\ Towards(m) \in Int
    BY TowardsIs
  <2> QED
    BY <2>1
<1>5. (x - y - 1) * b \in Int
  BY <1>0
<1> HIDE DEF x, y, b
<1>6. (x - y - 1) * b =< m - n /\ n < m
  <2> DEFINE z == (x - y - 1) * b
  <2>1. z \in Int /\ z =< m - n /\ z >= 0
    BY <1>0, <1>1, <1>2, <1>3, <1>5
  <2> HIDE DEF z
  <2>2. n < m /\ z =< m - n
    BY <2>1, <1>4
  <2> QED
    BY <2>2 DEF z
<1> QED
  BY <1>6 DEF x, y, b

LEMMA StampFalls ==
  ASSUME NEW s \in [at : Nat, ahead : Int], NEW t \in [at : Nat, ahead : Int],
         t.at >= s.at, Stamp(t) < Stamp(s)
  PROVE  /\ s.ahead - t.ahead > 0
         /\ (Stamp(s) - Stamp(t) - 1) * Resolution =< s.ahead - t.ahead
<1> DEFINE m == s.at + s.ahead
           n == t.at + t.ahead
<1>1. Stamp(s) = Towards(m) /\ Stamp(t) = Towards(n) /\ m \in Int /\ n \in Int
  BY DEF Stamp, Towards
<1>2. n < m /\ (Stamp(s) - Stamp(t) - 1) * Resolution =< m - n
  BY <1>1, TowardsFalls
<1>3. (Stamp(s) - Stamp(t) - 1) * Resolution \in Int
  BY <1>1, TowardsIs, OffsetsAssumption
<1>4. m - n =< s.ahead - t.ahead
  OBVIOUS
<1> QED
  BY <1>1, <1>2, <1>3, <1>4

LEMMA SentStep == TypeOK /\ TypeOK' /\ InOrder /\ [Next]_vars => SentAfter
<1> SUFFICES ASSUME TypeOK, TypeOK', InOrder, [Next]_vars PROVE SentAfter
  OBVIOUS
<1>1. /\ sent \in [at : Nat, ahead : Int] /\ sent' \in [at : Nat, ahead : Int]
  <2>1. Times \subseteq Nat /\ Offsets \cup {0} \subseteq Int
    BY BoundsAssumption, OffsetsAssumption DEF Times
  <2> QED
    BY <2>1 DEF TypeOK
<1>2. sent'.at >= sent.at
  <2>1. CASE SendSample
    <3>1. Taken = {sample.of.at} /\ sent'.at = sample.of.at
      BY <2>1 DEF SendSample, Taken
    <3>2. sent.at =< sample.of.at
      BY <3>1 DEF InOrder, Before, Sent
    <3>3. sample.of.at \in Nat
      BY BoundsAssumption DEF TypeOK, Samples, Events, Times
    <3> QED
      BY <1>1, <3>1, <3>2, <3>3
  <2>2. CASE ~SendSample
    <3>1. sent' = sent
      BY <2>2, Steps
      DEF Stands, Tick, engine_rpm_isr, sample_task, SampleIdle, SampleCheck, Goto,
          EventReceived, EventTimesOut, EventAtRest, EnqueueRoom, EnqueueSpark, EnqueueRpm,
          SampleFrame, send_task, SendReceive, SendCheck, sampler_start,
          sampler_stop, sampler_discard_pending, StartClear, StartSensors, StartActivate,
          StopInactive, StopClear, DiscardEvents, DiscardSamples, ControlFrame, sending
    <3> QED
      BY <1>1, <3>1
  <2> QED
    BY <2>1, <2>2
<1>3. ASSUME GoesBack
      PROVE  Lowered > 0 /\ (Stamp(sent) - Stamp(sent') - 1) * Resolution =< Lowered
  BY <1>1, <1>2, <1>3, StampFalls DEF GoesBack, Lowered
<1> QED
  BY <1>2, <1>3 DEF SentAfter

-------------------------------------------------------------------------------
(* The engine node: what crosses into the next session *)

LateAt(e, n) == e # NoEvent /\ e.sess < n
LateIn(q, n) == Cardinality({i \in 1 .. Len(q) : LateAt(q[i].of, n)})

EventLoad == IF ~LateAt(event, session) THEN 0 ELSE IF spc = "rpm" THEN 1 ELSE Count(event)
SampleLoad == IF LateAt(sample.of, session) THEN 1 ELSE 0

\* Samples that sample_task can still put into the queue while the sampler is stopped.
Work == IF spc = "idle" THEN 0
        ELSE IF spc \in {"receive", "timeout"} THEN 2
        ELSE IF spc = "rpm" THEN 1 ELSE Count(event)

\* The driver discards the captures in the step in which a session begins.
EventsFresh == \A i \in 1 .. Len(events) : events[i].sess = session

\* Between the first and the second step of sampler_start the queue fills up with no
\* more than sample_task was working on.
StartsClean == dpc = "sensors" => ~active /\ Len(sample_queue) + Work =< 2

LateInv == EventsFresh /\ StartsClean /\ FewLate

LEMMA LateIsCounted ==
  ASSUME NEW q \in Seq(Samples), NEW n
  PROVE  /\ IsFiniteSet({i \in 1 .. Len(q) : LateAt(q[i].of, n)})
         /\ LateIn(q, n) \in Nat /\ LateIn(q, n) =< Len(q)
<1>1. Len(q) \in Nat
  OBVIOUS
<1>2. IsFiniteSet(1 .. Len(q)) /\ Cardinality(1 .. Len(q)) = Len(q)
  BY <1>1, FS_Interval
<1> QED
  BY <1>2, FS_Subset, FS_CardinalityType DEF LateIn

LEMMA LateNone == ASSUME NEW n PROVE LateIn(<<>>, n) = 0
<1>1. {i \in 1 .. Len(<<>>) : LateAt(<<>>[i].of, n)} = {}
  OBVIOUS
<1> QED
  BY <1>1, FS_EmptySet DEF LateIn

LEMMA LateAppended ==
  ASSUME NEW q \in Seq(Samples), NEW x \in Samples, NEW n
  PROVE  LateIn(Append(q, x), n) =< LateIn(q, n) + (IF LateAt(x.of, n) THEN 1 ELSE 0)
<1> DEFINE S == {i \in 1 .. Len(q) : LateAt(q[i].of, n)}
           p == Append(q, x)
           T == {i \in 1 .. Len(p) : LateAt(p[i].of, n)}
<1>1. /\ Len(q) \in Nat /\ Len(p) = Len(q) + 1 /\ p[Len(q) + 1] = x
      /\ \A i \in 1 .. Len(q) : p[i] = q[i]
  BY Lengthened
<1>2. IsFiniteSet(S) /\ Cardinality(S) \in Nat
  BY LateIsCounted, FS_CardinalityType
<1>3. \A i \in 1 .. Len(p) : i \in 1 .. Len(q) \/ i = Len(q) + 1
  BY <1>1
<1> HIDE DEF p
<1>4. T = IF LateAt(x.of, n) THEN S \cup {Len(q) + 1} ELSE S
  BY <1>1, <1>3
<1>5. Len(q) + 1 \notin S
  BY <1>1
<1> HIDE DEF S, T
<1>6. ASSUME NEW k, k \notin S PROVE Cardinality(S \cup {k}) = Cardinality(S) + 1
  BY <1>2, <1>6, FS_AddElement
<1>7. Cardinality(T) = Cardinality(S) + (IF LateAt(x.of, n) THEN 1 ELSE 0)
  <2>1. CASE LateAt(x.of, n)
    BY <1>4, <1>5, <1>6, <2>1
  <2>2. CASE ~LateAt(x.of, n)
    BY <1>2, <1>4, <2>2
  <2> QED
    BY <2>1, <2>2
<1>8. Cardinality(T) = LateIn(p, n) /\ Cardinality(S) = LateIn(q, n)
  BY DEF LateIn, S, T
<1>9. LateIn(p, n) =< LateIn(q, n) + (IF LateAt(x.of, n) THEN 1 ELSE 0)
  BY <1>2, <1>7, <1>8
<1> QED
  BY <1>9 DEF p

LEMMA LateTaken ==
  ASSUME NEW q \in Seq(Samples), q # <<>>, NEW n
  PROVE  LateIn(Tail(q), n) + (IF LateAt(Head(q).of, n) THEN 1 ELSE 0) =< LateIn(q, n)
<1> DEFINE S == {i \in 1 .. Len(q) : LateAt(q[i].of, n)}
           p == Tail(q)
           T == {i \in 1 .. Len(p) : LateAt(p[i].of, n)}
           f == [i \in T |-> i + 1]
<1>1. /\ Len(q) \in Nat \ {0} /\ Len(p) = Len(q) - 1 /\ Head(q) = q[1] /\ p \in Seq(Samples)
      /\ \A i \in 1 .. Len(q) - 1 : p[i] = q[i + 1]
  BY Shortened
<1>2. IsFiniteSet(S) /\ Cardinality(S) \in Nat
  BY LateIsCounted, FS_CardinalityType
<1>3. /\ IsFiniteSet(S \ {1})
      /\ Cardinality(S \ {1}) = IF 1 \in S THEN Cardinality(S) - 1 ELSE Cardinality(S)
  BY <1>2, FS_RemoveElement
<1> HIDE DEF p
<1>4. ASSUME NEW i \in T PROVE i + 1 \in S \ {1}
  BY <1>1, <1>4
<1>5. f \in Injection(T, S \ {1})
  <2>1. f \in [T -> S \ {1}]
    BY <1>4
  <2>2. \A a, b \in T : f[a] = f[b] => a = b
    BY <1>1
  <2> QED
    BY <2>1, <2>2 DEF Injection, IsInjective
<1>6. IsFiniteSet(T) /\ Cardinality(T) =< Cardinality(S \ {1})
  BY <1>3, <1>5, FS_Injection
<1>7. 1 \in S <=> LateAt(Head(q).of, n)
  BY <1>1
<1>8. Cardinality(T) \in Nat
  BY <1>6, FS_CardinalityType
<1> HIDE DEF S, T, f
<1>9. Cardinality(T) + (IF LateAt(Head(q).of, n) THEN 1 ELSE 0) =< Cardinality(S)
  BY <1>2, <1>3, <1>6, <1>7, <1>8
<1> QED
  BY <1>9 DEF LateIn, S, T, p

FewInAll == late + (LateIn(sample_queue, session) + (EventLoad + SampleLoad)) =< 3

\* FewLate, with the captures left out, of which none is late.
LEMMA LateSum == TypeOK /\ EventsFresh => (FewLate <=> FewInAll)
<1> SUFFICES ASSUME TypeOK, EventsFresh PROVE FewLate <=> FewInAll
  OBVIOUS
<1>1. \A e : Stale(e) <=> LateAt(e, session)
  BY DEF Stale, LateAt
<1>2. {i \in 1 .. Len(events) : Stale(events[i])} = {}
  <2>1. session \in Nat
    BY BoundsAssumption DEF TypeOK
  <2> QED
    BY <2>1 DEF EventsFresh, Stale
<1>3. Cardinality({i \in 1 .. Len(events) : Stale(events[i])}) = 0
  BY <1>2, FS_EmptySet
<1>4. {i \in 1 .. Len(sample_queue) : Stale(sample_queue[i].of)}
        = {i \in 1 .. Len(sample_queue) : LateAt(sample_queue[i].of, session)}
  BY <1>1
<1>5. LateIn(sample_queue, session) \in Nat
  BY LateIsCounted DEF TypeOK
<1>6. EventLoad \in Nat /\ SampleLoad \in Nat
  BY CountIs DEF EventLoad, SampleLoad
<1>7. StillComing = 0 + LateIn(sample_queue, session) + (EventLoad + SampleLoad)
  BY <1>1, <1>3, <1>4 DEF StillComing, LateIn, EventLoad, SampleLoad
<1>8. StillComing = LateIn(sample_queue, session) + (EventLoad + SampleLoad)
  BY <1>5, <1>6, <1>7
<1> QED
  BY <1>8 DEF FewLate, FewInAll

LEMMA FreshStays == TypeOK /\ EventsFresh /\ [Next]_vars => EventsFresh'
<1> SUFFICES ASSUME TypeOK, EventsFresh, [Next]_vars PROVE EventsFresh'
  OBVIOUS
<1>1. CASE engine_rpm_isr
  <2>1. session' = session /\ Capture.sess = session
    BY <1>1 DEF engine_rpm_isr, control, Capture
  <2>2. CASE events' = events
    BY <2>1, <2>2 DEF EventsFresh
  <2>3. CASE events' = Append(events, Capture)
    <3>1. /\ Len(events') = Len(events) + 1 /\ events'[Len(events) + 1] = Capture
          /\ \A i \in 1 .. Len(events) : events'[i] = events[i]
          /\ Len(events) \in Nat
      BY <2>3, CaptureTyped, Lengthened DEF TypeOK
    <3>2. \A i \in 1 .. Len(events') : i \in 1 .. Len(events) \/ i = Len(events) + 1
      BY <3>1
    <3> QED
      BY <2>1, <3>1, <3>2 DEF EventsFresh
  <2> QED
    BY <1>1, <2>2, <2>3 DEF engine_rpm_isr
<1>2. CASE EventReceived
  <2>1. \A i \in 1 .. Len(events') : i + 1 \in 1 .. Len(events) /\ events'[i] = events[i + 1]
    BY <1>2, Shortened DEF TypeOK, EventReceived
  <2> QED
    BY <1>2, <2>1 DEF EventsFresh, EventReceived, control
<1>3. CASE sampler_start \/ sampler_stop \/ sampler_discard_pending
  <2>1. UNCHANGED <<events, session>> \/ events' = <<>>
    BY <1>3
    DEF sampler_start, sampler_stop, sampler_discard_pending, StartClear, StartSensors,
        StartActivate, StopInactive, StopClear, DiscardEvents, DiscardSamples, driver,
        engine_rpm_discard_pending
  <2>2. 1 .. Len(<<>>) = {}
    OBVIOUS
  <2> QED
    BY <2>1, <2>2 DEF EventsFresh
<1>4. CASE \/ Tick \/ SampleIdle \/ EventTimesOut \/ EventAtRest \/ SampleCheck
           \/ EnqueueRoom \/ EnqueueSpark \/ EnqueueRpm \/ send_task \/ Stands
  <2>1. UNCHANGED <<events, session>>
    BY <1>4, Steps
    DEF Stands, Tick, SampleIdle, SampleCheck, EventTimesOut, EventAtRest, EnqueueRoom,
        EnqueueSpark, EnqueueRpm, SampleFrame, send_task, SendReceive, SendCheck, SendSample,
        driver, control
  <2> QED
    BY <2>1 DEF EventsFresh
<1> QED
  BY <1>1, <1>2, <1>3, <1>4, Steps DEF sample_task

\* One sample at most goes into the queue, and it is the one in hand.
LEMMA SendAdds ==
  ASSUME TypeOK, NEW part \in {"spark", "rpm"}, Send(part)
  PROVE  /\ Len(sample_queue') \in Nat /\ Len(sample_queue) \in Nat
         /\ Len(sample_queue') =< Len(sample_queue) + 1
         /\ \A n : LateIn(sample_queue', n) =<
                       LateIn(sample_queue, n) + (IF LateAt(event, n) THEN 1 ELSE 0)
<1> DEFINE s == [part |-> part, of |-> event, ahead |-> ahead]
<1>1. s \in Samples /\ s.of = event
  BY DEF TypeOK, Samples
<1>2. sample_queue' = Append(sample_queue, s) \/ sample_queue' = sample_queue
  BY DEF Send
<1>3. sample_queue \in Seq(Samples) /\ Len(sample_queue) \in Nat
  BY DEF TypeOK
<1> HIDE DEF s
<1>4. CASE sample_queue' = Append(sample_queue, s)
  BY <1>1, <1>3, <1>4, Lengthened, LateAppended
<1>5. CASE sample_queue' = sample_queue
  <2>1. ASSUME NEW n PROVE LateIn(sample_queue, n) \in Nat
    BY <1>3, LateIsCounted
  <2> QED
    BY <1>3, <1>5, <2>1
<1> QED
  BY <1>2, <1>4, <1>5

LEMMA CleanStays ==
  TypeOK /\ InHands /\ PairsInv /\ StartsClean /\ [Next]_vars => StartsClean'
<1> SUFFICES ASSUME TypeOK, InHands, PairsInv, StartsClean, [Next]_vars, dpc' = "sensors"
             PROVE  ~active' /\ Len(sample_queue') + Work' =< 2
  BY DEF StartsClean
<1>0. /\ Len(sample_queue) \in Nat /\ Work \in 0 .. 2 /\ Work' \in 0 .. 2
  BY CountIs DEF TypeOK, Work
<1>1. CASE StartClear
  <2>1. Len(sample_queue') = 0
    BY <1>1, Emptiness DEF StartClear
  <2>2. Len(sample_queue') + Work' =< 2
    <3>1. \A w \in 0 .. 2 : 0 + w =< 2
      OBVIOUS
    <3> QED
      BY <1>0, <2>1, <3>1
  <2>3. ~active'
    BY <1>1 DEF StartClear
  <2> QED
    BY <2>2, <2>3
<1>2. CASE DiscardEvents \/ DiscardSamples
  <2>1. UNCHANGED <<spc, event, active, dpc>>
    BY <1>2 DEF DiscardEvents, DiscardSamples, ControlFrame, sampling
  <2>2. Work' = Work
    BY <2>1 DEF Work, Count, HasRpm
  <2>3. sample_queue' = sample_queue \/ Len(sample_queue') = 0
    BY <1>2, Emptiness DEF DiscardEvents, DiscardSamples
  <2> QED
    BY <1>0, <2>1, <2>2, <2>3 DEF StartsClean
<1>3. CASE StartSensors \/ StartActivate \/ sampler_stop
  BY <1>3 DEF StartSensors, StartActivate, sampler_stop, StopInactive, StopClear
<1>4. CASE sample_task
  <2>1. ~active /\ UNCHANGED <<active, dpc>> /\ Len(sample_queue) + Work =< 2
    BY <1>4
    DEF StartsClean, sample_task, SampleIdle, EventReceived, EventTimesOut, EventAtRest,
        SampleCheck, EnqueueRoom, EnqueueSpark, EnqueueRpm, SampleFrame, control
  <2>2. CASE EventReceived \/ EventTimesOut \/ EventAtRest
    <3>1. sample_queue' = sample_queue /\ Work = 2
      BY <2>2 DEF EventReceived, EventTimesOut, EventAtRest, Work
    <3> QED
      BY <1>0, <2>1, <3>1
  <2>3. CASE SampleIdle
    BY <2>1, <2>3 DEF SampleIdle
  <2>4. CASE SampleCheck \/ EnqueueRoom
    <3>1. sample_queue' = sample_queue /\ Work = Count(event)
      BY <2>4 DEF SampleCheck, EnqueueRoom, Work
    <3>2. ~event.spark => Count(event) = 1
      BY DEF Count, HasRpm
    <3>3. /\ spc' = "idle" \/ event' = event
          /\ spc' \in {"idle", "room", "spark", "rpm"} /\ (spc' = "rpm" => ~event.spark)
      BY <2>4 DEF SampleCheck, EnqueueRoom, Goto
    <3>4. Work' =< Work
      BY <1>0, <3>1, <3>2, <3>3 DEF Work, Count, HasRpm
    <3> QED
      BY <1>0, <2>1, <3>1, <3>4
  <2>5. CASE EnqueueSpark
    <3>1. Work = Count(event) /\ event.spark /\ Send("spark")
      BY <2>5 DEF EnqueueSpark, Work, PairsInv, RoomKept
    <3>2. Work' = IF HasRpm(event) THEN 1 ELSE 0
      BY <2>5 DEF EnqueueSpark, Goto, Work
    <3>3. Work' + 1 = Work
      BY <3>1, <3>2, CountIs
    <3> QED
      BY <1>0, <2>1, <3>1, <3>3, SendAdds
  <2>6. CASE EnqueueRpm
    <3>1. Work = 1 /\ Send("rpm") /\ Work' = 0
      BY <2>6 DEF EnqueueRpm, Goto, Work
    <3> QED
      BY <1>0, <2>1, <3>1, SendAdds
  <2> QED
    BY <1>4, <2>2, <2>3, <2>4, <2>5, <2>6 DEF sample_task
<1>5. CASE Tick \/ engine_rpm_isr \/ send_task \/ Stands
  <2>1. UNCHANGED <<active, dpc, spc, event>>
    BY <1>5 DEF Tick, engine_rpm_isr, send_task, SendReceive, SendCheck, SendSample, Stands,
                sampling, control
  <2>2. Work' = Work
    BY <2>1 DEF Work, Count, HasRpm
  <2>3. sample_queue' = sample_queue \/ Len(sample_queue') = Len(sample_queue) - 1
    BY <1>5, Shortened
    DEF Tick, engine_rpm_isr, send_task, SendReceive, SendCheck, SendSample, Stands, TypeOK
  <2> QED
    BY <1>0, <2>1, <2>2, <2>3 DEF StartsClean
<1> QED
  BY <1>1, <1>2, <1>3, <1>4, <1>5, Steps DEF sampler_start, sampler_discard_pending

LEMMA SumKept ==
  ASSUME NEW a \in Nat, NEW b \in Nat, NEW c \in Nat, NEW d \in Nat,
         NEW p \in Nat, NEW q \in Nat, NEW r \in Nat, NEW s \in Nat,
         a + (b + (c + d)) =< 3, p + s =< a + d,
         \E k \in 0 .. 1 : q =< b + k /\ r + k =< c
  PROVE  p + (q + (r + s)) =< 3
OBVIOUS

LEMMA LateStays ==
  TypeOK /\ TypeOK' /\ InHands /\ PairsInv /\ LateInv /\ EventsFresh' /\ [Next]_vars => FewLate'
<1> SUFFICES ASSUME TypeOK, TypeOK', InHands, PairsInv, LateInv, EventsFresh', [Next]_vars
             PROVE  FewLate'
  OBVIOUS
<1>0. /\ late \in Nat /\ EventLoad \in 0 .. 2 /\ EventLoad' \in 0 .. 2
      /\ SampleLoad \in 0 .. 1 /\ SampleLoad' \in 0 .. 1
  BY CountIs DEF TypeOK, EventLoad, SampleLoad
<1>1. ASSUME NEW n PROVE LateIn(sample_queue, n) \in Nat /\ LateIn(sample_queue', n) \in Nat
  BY LateIsCounted DEF TypeOK
<1>2. late + (LateIn(sample_queue, session) + (EventLoad + SampleLoad)) =< 3
  BY LateSum DEF LateInv, FewInAll
<1>3. SUFFICES late' + (LateIn(sample_queue', session') + (EventLoad' + SampleLoad')) =< 3
  <2>1. TypeOK' /\ EventsFresh' => (FewLate' <=> FewInAll')
    BY LateSum, PTL
  <2> QED
    BY <1>3, <2>1 DEF FewInAll, LateIn, LateAt
<1>4. CASE StartSensors
  <2>1. /\ late' = 0 /\ UNCHANGED <<sample_queue, spc, event, sample>> /\ dpc = "sensors"
    BY <1>4 DEF StartSensors, ControlFrame, sampling
  <2>2. Len(sample_queue) \in Nat /\ Len(sample_queue) + Work =< 2
    BY <2>1 DEF TypeOK, LateInv, StartsClean
  <2>3. LateIn(sample_queue', session') =< Len(sample_queue)
    BY <2>1, LateIsCounted DEF TypeOK
  <2>4. EventLoad' =< Work /\ Work \in 0 .. 2
    <3>1. event' # NoEvent => spc' \in {"check", "room", "spark", "rpm"}
      BY <2>1 DEF InHands, Holding
    <3>2. event' = NoEvent => EventLoad' = 0
      BY DEF EventLoad, LateAt
    <3>3. event' # NoEvent => EventLoad' =< Work
      BY <2>1, <3>1, CountIs DEF EventLoad, Work, Count, HasRpm
    <3> QED
      BY <1>0, <3>2, <3>3, CountIs DEF Work
  <2> QED
    BY <1>0, <1>1, <2>1, <2>2, <2>3, <2>4
<1>5. CASE StartClear \/ StartActivate \/ sampler_stop \/ sampler_discard_pending
  <2>1. /\ UNCHANGED <<session, late, spc, event, sample>>
        /\ sample_queue' = sample_queue \/ sample_queue' = <<>>
    BY <1>5
    DEF StartClear, StartActivate, sampler_stop, sampler_discard_pending, StopInactive,
        StopClear, DiscardEvents, DiscardSamples, ControlFrame, sampling
  <2>2. EventLoad' = EventLoad /\ SampleLoad' = SampleLoad
    BY <2>1 DEF EventLoad, SampleLoad, LateAt, Count, HasRpm
  <2>3. LateIn(sample_queue', session') =< LateIn(sample_queue, session)
    BY <1>1, <2>1, LateNone
  <2> QED
    BY <1>0, <1>1, <1>2, <2>1, <2>2, <2>3
<1>6. CASE Tick \/ engine_rpm_isr \/ Stands
  <2>1. UNCHANGED <<session, late, spc, event, sample, sample_queue>>
    BY <1>6 DEF Tick, engine_rpm_isr, Stands, sampling, sending, control
  <2>2. EventLoad' = EventLoad /\ SampleLoad' = SampleLoad
    BY <2>1 DEF EventLoad, SampleLoad, LateAt, Count, HasRpm
  <2> QED
    BY <1>2, <2>1, <2>2
<1>7. CASE EventReceived \/ EventTimesOut \/ EventAtRest
  <2>1. UNCHANGED <<session, late, sample, sample_queue>> /\ ~Holding
    BY <1>7 DEF EventReceived, EventTimesOut, EventAtRest, sending, control, Holding
  <2>2. event' = NoEvent \/ event'.sess = session
    <3>1. CASE EventReceived
      BY <3>1, Shortened DEF EventReceived, TypeOK, LateInv, EventsFresh
    <3>2. CASE EventTimesOut \/ EventAtRest
      BY <2>1, <3>2 DEF EventTimesOut, EventAtRest, InHands
    <3> QED
      BY <1>7, <3>1, <3>2
  <2>3. session \in Nat
    BY BoundsAssumption DEF TypeOK
  <2>4. ~LateAt(event', session')
    BY <2>1, <2>2, <2>3 DEF LateAt
  <2>5. EventLoad' = 0 /\ SampleLoad' = SampleLoad
    BY <2>1, <2>4 DEF EventLoad, SampleLoad, LateAt
  <2> QED
    BY <1>0, <1>1, <1>2, <2>1, <2>5
<1>8. CASE SampleIdle \/ SampleCheck \/ EnqueueRoom
  <2>1. UNCHANGED <<session, late, sample, sample_queue>>
    BY <1>8 DEF SampleIdle, SampleCheck, EnqueueRoom, SampleFrame, sending, control
  <2>2. /\ event' = NoEvent \/ (event' = event /\ spc # "rpm")
        /\ spc' = "rpm" => ~event.spark
    BY <1>8 DEF SampleIdle, SampleCheck, EnqueueRoom, Goto
  <2>3. ~event.spark => Count(event) = 1
    BY DEF Count, HasRpm
  <2>4. EventLoad' =< EventLoad /\ SampleLoad' = SampleLoad
    <3>1. CASE event' = NoEvent
      BY <1>0, <2>1, <3>1 DEF EventLoad, SampleLoad, LateAt
    <3>2. CASE event' = event /\ spc # "rpm"
      BY <1>0, <2>1, <2>2, <2>3, <3>2, CountIs DEF EventLoad, SampleLoad, LateAt, Count, HasRpm
    <3> QED
      BY <2>2, <3>1, <3>2
  <2> QED
    BY <1>0, <1>1, <1>2, <2>1, <2>4
<1>9. CASE EnqueueSpark \/ EnqueueRpm
  <2>1. UNCHANGED <<session, late, sample>> /\ SampleLoad' = SampleLoad
    BY <1>9 DEF EnqueueSpark, EnqueueRpm, SampleFrame, sending, control, SampleLoad, LateAt
  <2>2. LateIn(sample_queue', session) =<
          LateIn(sample_queue, session) + (IF LateAt(event, session) THEN 1 ELSE 0)
    BY <1>9, SendAdds DEF EnqueueSpark, EnqueueRpm
  <2>3. EventLoad' + (IF LateAt(event, session) THEN 1 ELSE 0) =< EventLoad
    <3>1. CASE EnqueueSpark
      <4>1. spc = "spark" /\ event.spark
        BY <3>1 DEF EnqueueSpark, PairsInv, RoomKept
      <4>2. CASE HasRpm(event)
        <5>1. spc' = "rpm" /\ event' = event /\ Count(event) = 2
          BY <3>1, <4>1, <4>2, CountIs DEF EnqueueSpark, Goto
        <5> QED
          BY <2>1, <4>1, <5>1 DEF EventLoad, LateAt
      <4>3. CASE ~HasRpm(event)
        <5>1. event' = NoEvent /\ Count(event) = 1
          BY <3>1, <4>1, <4>3, CountIs DEF EnqueueSpark, Goto
        <5> QED
          BY <4>1, <5>1 DEF EventLoad, LateAt
      <4> QED
        BY <4>2, <4>3
    <3>2. CASE EnqueueRpm
      BY <3>2 DEF EnqueueRpm, Goto, EventLoad, LateAt
    <3> QED
      BY <1>9, <3>1, <3>2
  <2>4. LateIn(sample_queue', session') = LateIn(sample_queue', session)
    BY <2>1
  <2>5. LateIn(sample_queue', session) \in Nat /\ LateIn(sample_queue, session) \in Nat
    BY <1>1
  <2>6. /\ late \in Nat /\ EventLoad \in Nat /\ SampleLoad \in Nat
        /\ late' \in Nat /\ EventLoad' \in Nat /\ SampleLoad' \in Nat
    BY <1>0, <2>1
  <2> QED
    <3> DEFINE k == IF LateAt(event, session) THEN 1 ELSE 0
    <3>1. LateIn(sample_queue', session') =< LateIn(sample_queue, session) + k
      BY <2>2, <2>4
    <3>2. EventLoad' + k =< EventLoad /\ k \in 0 .. 1
      BY <2>3
    <3> HIDE DEF k
    <3>3. \E j \in 0 .. 1 : /\ LateIn(sample_queue', session') =< LateIn(sample_queue, session) + j
                            /\ EventLoad' + j =< EventLoad
      BY <3>1, <3>2, Zenon
    <3>4. late' + SampleLoad' =< late + SampleLoad
      BY <1>0, <2>1
    <3> QED
      BY <1>1, <1>2, <2>6, <3>3, <3>4, SumKept, Zenon
<1>10. CASE SendReceive
  <2>1. /\ UNCHANGED <<session, late, spc, event>> /\ tpc = "receive"
        /\ sample_queue # <<>> /\ sample' = Head(sample_queue)
        /\ sample_queue' = Tail(sample_queue)
    BY <1>10 DEF SendReceive, sampling, control
  <2>2. EventLoad' = EventLoad
    BY <2>1 DEF EventLoad, LateAt, Count, HasRpm
  <2>3. SampleLoad' = IF LateAt(Head(sample_queue).of, session) THEN 1 ELSE 0
    BY <2>1 DEF SampleLoad, LateAt
  <2>4. LateIn(sample_queue', session) + SampleLoad' =< LateIn(sample_queue, session)
    BY <2>1, <2>3, LateTaken DEF TypeOK
  <2> QED
    BY <1>0, <1>1, <1>2, <2>1, <2>2, <2>4
<1>11. CASE SendCheck \/ SendSample
  <2>1. UNCHANGED <<session, spc, event, sample_queue>>
    BY <1>11 DEF SendCheck, SendSample, sampling, control
  <2>2. EventLoad' = EventLoad
    BY <2>1 DEF EventLoad, LateAt, Count, HasRpm
  <2>3. ~LateAt(NoSample.of, session)
    BY DEF LateAt, NoSample
  <2>4. late' + SampleLoad' =< late + SampleLoad /\ late' \in Nat
    <3>1. CASE SendCheck
      BY <1>0, <2>1, <2>3, <3>1 DEF SendCheck, SampleLoad, LateAt
    <3>2. CASE SendSample
      <4>1. sample' = NoSample /\ sample.of # NoEvent
        BY <3>2 DEF SendSample, InHands
      <4>2. late' = IF LateAt(sample.of, session) THEN late + 1 ELSE late
        BY <3>2, <4>1 DEF SendSample, LateAt
      <4>3. SampleLoad' = 0
        BY <2>1, <2>3, <4>1 DEF SampleLoad, LateAt
      <4> QED
        BY <1>0, <4>2, <4>3 DEF SampleLoad
    <3> QED
      BY <1>11, <3>1, <3>2
  <2>5. LateIn(sample_queue', session') = LateIn(sample_queue, session)
    BY <2>1
  <2>6. LateIn(sample_queue, session) \in Nat
    BY <1>1
  <2> QED
    <3>1. /\ late \in Nat /\ EventLoad \in Nat /\ SampleLoad \in Nat
          /\ late' \in Nat /\ EventLoad' \in Nat /\ SampleLoad' \in Nat
      BY <1>0, <2>4
    <3>2. /\ LateIn(sample_queue', session') =< LateIn(sample_queue, session) + 0
          /\ EventLoad' + 0 =< EventLoad
      BY <1>0, <2>2, <2>5, <2>6
    <3>3. \E j \in 0 .. 1 : /\ LateIn(sample_queue', session') =< LateIn(sample_queue, session) + j
                            /\ EventLoad' + j =< EventLoad
      BY <3>2
    <3> QED
      BY <1>1, <1>2, <2>4, <3>1, <3>3, SumKept, Zenon
<1> QED
  BY <1>4, <1>5, <1>6, <1>7, <1>8, <1>9, <1>10, <1>11, Steps
  DEF sample_task, send_task, sampler_start

-------------------------------------------------------------------------------
(* The engine node: theorems *)

EngineInv ==
    /\ TypeOK /\ StartCounted /\ InHands /\ EdgeKnown /\ WaitEnds
    /\ RpmMeasured /\ ZeroMeansSilent /\ PairsInv /\ InOrder /\ LateInv

LEMMA EngineInitially == Init => EngineInv
<1> SUFFICES ASSUME Init PROVE EngineInv
  OBVIOUS
<1>1. TypeOK
  BY TypesInitially
<1>2. /\ events = <<>> /\ sample_queue = <<>> /\ Len(events) = 0 /\ Len(sample_queue) = 0
      /\ event = NoEvent /\ sample = NoSample /\ sample.of = NoEvent
  BY Emptiness DEF Init, NoSample
<1>3. Pending = {NoEvent}
  BY <1>2 DEF Pending
<1>4. StartCounted /\ InHands /\ PairsInv
  BY <1>2 DEF Init, StartCounted, InHands, Holding, PairsInv, RoomKept, HalfQueued, PairsTogether
<1>5. EdgeKnown /\ WaitEnds
  BY IntervalsAssumption DEF Init, EdgeKnown, WaitEnds
<1>6. RpmMeasured /\ ZeroMeansSilent
  BY <1>3 DEF RpmMeasured, ZeroMeansSilent, NoEvent
<1>7. InOrder
  <2>1. Taken = {} /\ Queued = {} /\ Held = {} /\ Captured = {} /\ Sent = {0}
    BY <1>2 DEF Init, Taken, Queued, Held, Captured, Sent, Holding
  <2>2. Before({0}, {clock}) /\ QueuesSorted
    BY <1>2, IntervalsAssumption DEF Init, Before, QueuesSorted
  <2> QED
    BY <2>1, <2>2 DEF InOrder, Before
<1>8. LateInv
  <2>1. EventsFresh /\ StartsClean
    BY <1>2 DEF Init, EventsFresh, StartsClean
  <2>2. LateIn(sample_queue, session) = 0 /\ EventLoad = 0 /\ SampleLoad = 0 /\ late = 0
    BY <1>2, LateNone DEF Init, EventLoad, SampleLoad, LateAt
  <2>3. FewInAll
    BY <2>2 DEF FewInAll
  <2> QED
    BY <1>1, <2>1, <2>3, LateSum DEF LateInv
<1> QED
  BY <1>1, <1>4, <1>5, <1>6, <1>7, <1>8 DEF EngineInv

LEMMA EngineStays == EngineInv /\ [Next]_vars => EngineInv'
<1> SUFFICES ASSUME EngineInv, [Next]_vars PROVE EngineInv'
  OBVIOUS
<1>1. TypeOK' /\ StartCounted'
  BY TypesStay DEF EngineInv
<1>2. InHands' /\ EdgeKnown' /\ WaitEnds'
  BY HandsStay, EdgesStay DEF EngineInv
<1>3. RpmMeasured' /\ ZeroMeansSilent'
  BY EventsStayTrue DEF EngineInv
<1>4. PairsInv' /\ InOrder'
  BY <1>1, PairsStay, OrderStays DEF EngineInv
<1>5. EventsFresh' /\ StartsClean'
  BY FreshStays, CleanStays DEF EngineInv, LateInv
<1>6. FewLate'
  BY <1>1, <1>5, LateStays DEF EngineInv
<1> QED
  BY <1>1, <1>2, <1>3, <1>4, <1>5, <1>6 DEF EngineInv, LateInv

LEMMA EngineHolds == Spec => []EngineInv
BY EngineInitially, EngineStays, PTL DEF Spec

\* enqueue_engine_event: a spark and its RPM stay together in the output queue, for any
\* length of the queue, although they are sent in two steps and others take and clear.
THEOREM PairsStayTogether == Spec => []PairsTogether
<1>1. EngineInv => PairsTogether
  BY DEF EngineInv, PairsInv
<1> QED
  BY EngineHolds, <1>1, PTL

\* engine_rpm_isr and engine_rpm_discard_pending: an RPM is the interval of two edges
\* that follow each other, with no start and no bus-off between.
THEOREM RpmsAreMeasured == Spec => []RpmMeasured
<1>1. EngineInv => RpmMeasured
  BY DEF EngineInv
<1> QED
  BY EngineHolds, <1>1, PTL

\* engine_rpm_next_event: rest is reported after a full timeout without an edge only, if
\* sample_task is never held up for as long as the timeout (MaxPause < StopTimeout).
THEOREM RestIsSilence == Spec => []ZeroMeansSilent
<1>1. EngineInv => ZeroMeansSilent
  BY DEF EngineInv
<1> QED
  BY EngineHolds, <1>1, PTL

\* send_task and time_sync_update: samples go to the bus in the order of their captures.
\* A stamp on the bus is lower than the one before only if a beacon lowered the offset in
\* between, and by no more than that beyond the rounding of time_sync_timestamp_ms_at,
\* whatever offsets the beacons bring and whatever the resolution.
THEOREM StampsInOrder == Spec => SentInOrder
<1>1. EngineInv /\ EngineInv' /\ [Next]_vars => [SentAfter]_vars
  BY SentStep DEF EngineInv
<1> QED
  BY EngineHolds, <1>1, PTL DEF Spec, SentInOrder

\* sampler_start clears the queue and the captures in two steps: what gets past both, in
\* the queue and in the hands of the tasks, is never more than three samples.
THEOREM FewAreLate == Spec => []FewLate
<1>1. EngineInv => FewLate
  BY DEF EngineInv, LateInv
<1> QED
  BY EngineHolds, <1>1, PTL

-------------------------------------------------------------------------------
(* Slots of a schedule *)

LEMMA Multiples ==
  ASSUME NEW p \in Nat \ {0}, NEW q \in Int, NEW s \in Int, q < s
  PROVE  q * p + p =< s * p
<1> DEFINE d == s - q - 1
<1>1. d \in Nat /\ s = q + 1 + d
  OBVIOUS
<1> HIDE DEF d
<1>2. d * p \in Nat
  BY <1>1
<1>3. s * p = q * p + p + d * p
  BY <1>1
<1> QED
  BY <1>2, <1>3

LEMMA Divided ==
  ASSUME NEW p \in Nat \ {0}, NEW a \in Nat
  PROVE  /\ a \div p \in Nat /\ a % p \in 0 .. p - 1
         /\ a = (a \div p) * p + (a % p)
<1>1. a \div p \in Int /\ a \div p >= 0
  OBVIOUS
<1>2. a % p \in 0 .. p - 1
  OBVIOUS
<1>3. a = (a \div p) * p + (a % p)
  OBVIOUS
<1> QED
  BY <1>1, <1>2, <1>3

\* Slots of p from a; the slot that t is in; the first slot after t, found from slot x.
IsSlot(x, a, p) == \E k \in Nat : x = a + k * p
SlotIndex(t, a, p) == (t - a) \div p
SlotStart(j, a, p) == a + j * p
FirstAfter(t, x, p) == t + p - ((t - x) % p)

LEMMA CatchesUp ==
  ASSUME NEW p \in Nat \ {0}, NEW a \in Nat, NEW x \in Nat, NEW t \in Nat, x =< t,
         IsSlot(x, a, p)
  PROVE  /\ a =< t /\ SlotIndex(t, a, p) \in Nat
         /\ FirstAfter(t, x, p) = SlotStart(SlotIndex(t, a, p) + 1, a, p)
         /\ FirstAfter(t, x, p) \in t + 1 .. t + p
<1>k. PICK k \in Nat : x = a + k * p
  BY DEF IsSlot
<1> DEFINE z == k * p
           j == (t - a) \div p
           r == (t - a) % p
           y == j * p
<1>0. z \in Nat /\ x = a + z
  BY <1>k
<1>1. t - a \in Nat
  BY <1>0
<1>2. j \in Nat /\ r \in 0 .. p - 1 /\ t - a = y + r /\ y \in Int
  <2> DEFINE n == t - a
  <2>1. n \in Nat
    BY <1>1
  <2> HIDE DEF n
  <2>2. /\ n \div p \in Nat /\ n % p \in 0 .. p - 1
        /\ n = (n \div p) * p + (n % p)
    BY <2>1, Divided
  <2>3. (n \div p) * p \in Int
    BY <2>2
  <2> QED
    BY <2>2, <2>3 DEF n
<1>3. k =< j
  <2>1. ASSUME j < k PROVE FALSE
    <3>1. y + p =< z
      BY <1>2, <2>1, Multiples
    <3> QED
      BY <1>0, <1>2, <3>1
  <2> QED
    BY <1>2, <2>1
<1>4. (j - k) * p = y - z /\ j - k \in Nat
  BY <1>2, <1>3
<1> DEFINE m == j - k
           b == t - x
<1>5. m * p = y - z /\ m \in Nat /\ b \in Nat /\ b = m * p + r
  BY <1>0, <1>1, <1>2, <1>4
<1>6. (j + 1) * p = y + p
  BY <1>2
<1> HIDE DEF z, j, r, y, m, b
<1>7. b % p = r
  BY <1>2, <1>5
<1>8. t + p - (b % p) = a + (y + p)
  BY <1>0, <1>2, <1>7 DEF b
<1>9. t + p - (b % p) \in t + 1 .. t + p
  BY <1>2, <1>7
<1> QED
  BY <1>1, <1>2, <1>6, <1>8, <1>9 DEF j, b, SlotIndex, SlotStart, FirstAfter

\* No slot lies between t and the first slot after it, nor between that one and t + p.
LEMMA NoSlotBetween ==
  ASSUME NEW p \in Nat \ {0}, NEW a \in Nat, NEW y \in Nat, NEW t \in Nat, a =< t,
         IsSlot(y, a, p)
  PROVE  /\ y > t => SlotStart(SlotIndex(t, a, p) + 1, a, p) =< y
         /\ y =< t + p => y =< SlotStart(SlotIndex(t, a, p) + 1, a, p)
<1>k. PICK k \in Nat : y = a + k * p
  BY DEF IsSlot
<1> DEFINE n == t - a
           j == n \div p
           r == n % p
           u == j * p
           w == k * p
<1>1. n \in Nat
  OBVIOUS
<1> HIDE DEF n
<1>2. j \in Nat /\ r \in 0 .. p - 1 /\ n = u + r
  BY <1>1, Divided
<1>3. u \in Int /\ w \in Int /\ y = a + w /\ t = a + n
  BY <1>k, <1>1, <1>2 DEF n
<1>4. (j + 1) * p = u + p
  BY <1>2
<1>5. j < k => u + p =< w
  BY <1>2, Multiples
<1>6. j + 1 < k => (j + 1) * p + p =< w
  BY <1>2, Multiples
<1> HIDE DEF j, r, u, w
<1>7. ASSUME y > t PROVE a + (u + p) =< y
  <2>1. ASSUME k =< j PROVE FALSE
    <3>1. w =< u
      <4>1. k < j => w + p =< u
        BY <1>2, Multiples DEF u, w
      <4>2. k = j => w = u
        BY DEF u, w
      <4> QED
        BY <1>2, <1>3, <2>1, <4>1, <4>2
    <3> QED
      BY <1>2, <1>3, <1>7, <3>1
  <2> QED
    BY <1>2, <1>3, <1>5, <2>1
<1>8. ASSUME y =< t + p PROVE y =< a + (u + p)
  <2>1. ASSUME j + 1 < k PROVE FALSE
    <3>1. u + p + p =< w
      BY <1>2, <1>4, <1>6, <2>1
    <3> QED
      BY <1>2, <1>3, <1>8, <3>1
  <2>2. k =< j + 1
    BY <1>2, <2>1
  <2>3. w =< u + p
    <3>1. k < j + 1 => w + p =< (j + 1) * p
      BY <1>2, Multiples DEF w
    <3>2. k = j + 1 => w = (j + 1) * p
      BY DEF w
    <3> QED
      BY <1>2, <1>3, <1>4, <2>2, <3>1, <3>2
  <2> QED
    BY <1>2, <1>3, <2>3
<1> QED
  BY <1>4, <1>7, <1>8 DEF SlotStart, SlotIndex, j, n
-------------------------------------------------------------------------------
(* The periodic nodes: types *)

Busy == place \notin {"wait", "sensor"}
BusyWithOne == Busy => channel =< Channels

LEMMA NoReadingTyped == NoReading \in SampleRecord
BY PeriodicBounds DEF NoReading, SampleRecord, Rounds

LEMMA PeriodicTypesInitially == PeriodicInit => PeriodicTypeOK /\ BusyWithOne
<1> SUFFICES ASSUME PeriodicInit PROVE PeriodicTypeOK /\ BusyWithOne
  OBVIOUS
<1> USE PeriodicBounds
<1>1. queue \in Seq(SampleRecord) /\ Len(queue) =< SampleLength
  BY Emptiness DEF PeriodicInit
<1>2. new_sample \in SampleRecord
  BY NoReadingTyped DEF PeriodicInit
<1>3. 0 \in Moments /\ 0 \in Rounds /\ 0 \in 0 .. MaxStarts
  BY DEF Moments, Rounds
<1>4. /\ next_sample \in [Channel -> Nat]
      /\ slots \in [Channel -> [slot : Nat, samples : Nat]]
  BY DEF PeriodicInit
<1>5. round \in [number : Rounds, starts : 0 .. MaxStarts]
  BY <1>3 DEF PeriodicInit
<1>6. moment \in Moments /\ on \in BOOLEAN /\ loop_now \in Moments /\ armed \in Moments
  BY <1>3 DEF PeriodicInit
<1>7. /\ sample_status = "error" /\ values \in Rounds /\ reading \in Rounds
      /\ place = "wait" /\ channel \in 1 .. Channels + 1
      /\ starts \in 0 .. MaxStarts /\ taken \in Nat /\ wake \in Nat /\ due \in Nat
      /\ shifted \subseteq 1 .. MaxStarts
  BY <1>3 DEF PeriodicInit
<1> QED
  BY <1>1, <1>2, <1>4, <1>5, <1>6, <1>7 DEF PeriodicTypeOK, BusyWithOne, Busy

\* The due time that the one of this round's descriptor is moved on to.
Caught == CaughtUp(next_sample[channel])

LEMMA CaughtUpTyped ==
  ASSUME PeriodicTypeOK, channel \in Channel
  PROVE  /\ Caught \in Nat /\ Caught > loop_now /\ Caught >= next_sample[channel]
         /\ next_sample[channel] =< loop_now =>
                Caught >= next_sample[channel] + SamplePeriod /\ Caught =< loop_now + SamplePeriod
         /\ next_sample[channel] > loop_now => Caught = next_sample[channel]
<1> USE PeriodicBounds
<1> DEFINE x == next_sample[channel]
<1>1. /\ x \in Nat /\ loop_now \in Nat /\ SamplePeriod \in Nat \ {0}
  BY DEF PeriodicTypeOK, Moments
<1>2. CASE x =< loop_now
  <2> DEFINE n == loop_now - x
             r == n % SamplePeriod
             m == n \div SamplePeriod
             y == m * SamplePeriod
  <2>0. n \in Nat
    BY <1>1, <1>2
  <2> HIDE DEF n
  <2>1. r \in 0 .. SamplePeriod - 1 /\ m \in Nat /\ n = y + r
    BY <1>1, <2>0, Divided
  <2>2. y \in Nat
    BY <1>1, <2>1
  <2>3. Caught = loop_now + SamplePeriod - r
    BY <1>2 DEF Caught, CaughtUp, n
  <2> HIDE DEF r, m, y
  <2>4. r =< loop_now - x
    BY <2>1, <2>2 DEF n
  <2> QED
    BY <1>1, <1>2, <2>1, <2>3, <2>4
<1>3. CASE ~ (x =< loop_now)
  <2>1. Caught = x
    BY <1>3 DEF Caught, CaughtUp
  <2> QED
    BY <1>1, <1>3, <2>1
<1> QED
  BY <1>2, <1>3

LEMMA StoreTypes ==
  ASSUME PeriodicTypeOK, channel \in Channel, AdvanceStore
  PROVE  next_sample' \in [Channel -> Nat]
<1> USE PeriodicBounds
<1>1. ReadAgain \in Nat
  BY CaughtUpTyped DEF ReadAgain, Caught, PeriodicTypeOK
<1>2. due \in Nat
  BY DEF PeriodicTypeOK
<1> QED
  BY <1>1, <1>2 DEF AdvanceStore, PeriodicTypeOK

\* The queue, whichever of the steps touches it.
LEMMA QueueTypes ==
  ASSUME PeriodicTypeOK,
         \/ UNCHANGED queue \/ queue' = <<>>
         \/ queue # <<>> /\ queue' = Tail(queue)
         \/ Room /\ queue' = Append(queue, new_sample)
  PROVE  queue' \in Seq(SampleRecord) /\ Len(queue') =< SampleLength
<1> USE PeriodicBounds
<1>1. queue \in Seq(SampleRecord) /\ Len(queue) =< SampleLength /\ new_sample \in SampleRecord
  BY DEF PeriodicTypeOK
<1>2. CASE UNCHANGED queue
  BY <1>1, <1>2
<1>3. CASE queue' = <<>>
  BY <1>3, Emptiness
<1>4. CASE queue # <<>> /\ queue' = Tail(queue)
  BY <1>1, <1>4, Shortened
<1>5. CASE Room /\ queue' = Append(queue, new_sample)
  BY <1>1, <1>5, Lengthened DEF Room
<1> QED
  BY <1>2, <1>3, <1>4, <1>5

LEMMA InSlotTyped ==
  ASSUME PeriodicTypeOK, NEW c \in Channel
  PROVE  InSlot(c) \in [slot : Nat, samples : Nat]
<1> USE PeriodicBounds
<1>1. CASE loop_now < armed
  BY <1>1 DEF InSlot, PeriodicTypeOK
<1>2. CASE ~ (loop_now < armed)
  <2>1. loop_now - armed \in Nat
    BY <1>2 DEF PeriodicTypeOK, Moments
  <2>2. (loop_now - armed) \div SamplePeriod \in Nat
    BY <2>1, Divided
  <2>3. slots[c].samples + 1 \in Nat
    BY DEF PeriodicTypeOK
  <2> QED
    BY <1>2, <2>2, <2>3 DEF InSlot
<1> QED
  BY <1>1, <1>2

LEMMA PeriodicTaskTypes ==
  ASSUME PeriodicTypeOK, BusyWithOne, PeriodicTask
  PROVE  PeriodicTypeOK' /\ BusyWithOne'
<1> USE PeriodicBounds DEF schedule, device, queued, past, Go, TaskFrame
<1>0. Busy => channel \in Channel
  BY DEF PeriodicTypeOK, BusyWithOne, Channel
<1>1. CASE RoundBegins
  <2>1. moment + 1 \in Rounds
    BY DEF PeriodicTypeOK, Moments, Rounds
  <2>2. round' \in [number : Rounds, starts : 0 .. MaxStarts]
    BY <1>1, <2>1 DEF RoundBegins, PeriodicTypeOK
  <2> QED
    BY <1>1, <2>2 DEF RoundBegins, PeriodicTypeOK, BusyWithOne, Busy
<1>2. CASE SensorDue
  <2>1. channel' \in 1 .. Channels + 1 /\ BusyWithOne'
    BY <1>2 DEF SensorDue, PeriodicTypeOK, BusyWithOne, Busy
  <2> QED
    BY <1>2, <2>1 DEF SensorDue, PeriodicTypeOK
<1>3. CASE BurstRead
  <2>1. reading' \in Rounds
    BY <1>3 DEF BurstRead, PeriodicTypeOK, Rounds
  <2> QED
    BY <1>3, <2>1 DEF BurstRead, PeriodicTypeOK, BusyWithOne, Busy
<1>4. CASE BurstStatus \/ BurstValues \/ ReadPasses
  BY <1>4 DEF BurstStatus, BurstValues, ReadPasses, PeriodicTypeOK, BusyWithOne, Busy
<1>5. CASE ReadFails
  BY <1>5 DEF ReadFails, PeriodicTypeOK, BusyWithOne, Busy
<1>6. CASE ReadValue
  <2>1. channel \in Channel
    BY <1>0, <1>6 DEF ReadValue, Busy
  <2>3. new_sample' \in SampleRecord /\ taken' \in Nat
    BY <1>6 DEF ReadValue, SampleRecord, PeriodicTypeOK
  <2>4. slots' \in [Channel -> [slot : Nat, samples : Nat]]
    BY <1>6, <2>1, InSlotTyped DEF ReadValue, PeriodicTypeOK
  <2>5. BusyWithOne'
    BY <1>6, <2>1 DEF ReadValue, Channel, BusyWithOne
  <2> QED
    BY <1>6, <2>3, <2>4, <2>5 DEF ReadValue, PeriodicTypeOK
<1>9. CASE AdvanceLoad \/ AdvanceStore
  <2>1. channel \in Channel
    BY <1>0, <1>9 DEF AdvanceLoad, AdvanceStore, Busy
  <2>2. next_sample' \in [Channel -> Nat]
    BY <1>9, <2>1, StoreTypes DEF AdvanceLoad, PeriodicTypeOK
  <2>6. Caught \in Nat /\ due \in Nat
    BY <2>1, CaughtUpTyped DEF PeriodicTypeOK
  <2>3. due' \in Nat
    BY <1>9, <2>6 DEF AdvanceLoad, AdvanceStore, Caught
  <2>4. channel' \in 1 .. Channels + 1 /\ BusyWithOne' /\ place' \in {"store", "sensor", "queue"}
    BY <1>9, <2>1 DEF AdvanceLoad, AdvanceStore, AdvanceDone, Channel, BusyWithOne, Busy
  <2>5. /\ UNCHANGED <<moment, on, starts, armed, shifted, loop_now, wake, round, slots>>
        /\ UNCHANGED <<sample_status, values, reading, new_sample, queue, taken>>
    BY <1>9 DEF AdvanceLoad, AdvanceStore
  <2> QED
    BY <2>2, <2>3, <2>4, <2>5 DEF PeriodicTypeOK
<1>7. CASE EnqueueLatest \/ DiscardOldest \/ EnqueueAgain
  <2>1. channel \in Channel
    BY <1>0, <1>7 DEF EnqueueLatest, DiscardOldest, EnqueueAgain, Busy
  <2>2. queue' \in Seq(SampleRecord) /\ Len(queue') =< SampleLength
    BY <1>7, QueueTypes DEF EnqueueLatest, DiscardOldest, EnqueueAgain
  <2>3. new_sample' \in SampleRecord
    BY <1>7, NoReadingTyped
    DEF EnqueueLatest, DiscardOldest, EnqueueAgain, SampleDone, PeriodicTypeOK
  <2>4. channel' \in 1 .. Channels + 1 /\ BusyWithOne'
    BY <1>7, <2>1
    DEF EnqueueLatest, DiscardOldest, EnqueueAgain, SampleDone, Channel, BusyWithOne, Busy
  <2>5. place' \in {"sensor", "discard", "again"}
    BY <1>7 DEF EnqueueLatest, DiscardOldest, EnqueueAgain, SampleDone
  <2> QED
    BY <1>7, <2>2, <2>3, <2>4, <2>5 DEF EnqueueLatest, DiscardOldest, EnqueueAgain, PeriodicTypeOK
<1>8. CASE RoundEnds
  <2>1. wake' \in Nat
    BY <1>8 DEF RoundEnds, PeriodicTypeOK, Moments
  <2> QED
    BY <1>8, <2>1 DEF RoundEnds, PeriodicTypeOK, BusyWithOne, Busy
<1> QED
  BY <1>1, <1>2, <1>3, <1>4, <1>5, <1>6, <1>7, <1>8, <1>9 DEF PeriodicTask

LEMMA PeriodicTypesStay ==
  PeriodicTypeOK /\ BusyWithOne /\ [PeriodicNext]_periodicVars => PeriodicTypeOK' /\ BusyWithOne'
<1> SUFFICES ASSUME PeriodicTypeOK, BusyWithOne, [PeriodicNext]_periodicVars
             PROVE  PeriodicTypeOK' /\ BusyWithOne'
  OBVIOUS
<1> USE PeriodicBounds DEF schedule, device, queued, past
<1>1. CASE TimePasses
  BY <1>1 DEF TimePasses, PeriodicTypeOK, Moments, BusyWithOne, Busy
<1>2. CASE PeriodicStart
  <2>1. queue' \in Seq(SampleRecord) /\ Len(queue') =< SampleLength
    BY <1>2, QueueTypes DEF PeriodicStart
  <2>2. /\ next_sample' \in [Channel -> Nat] /\ shifted' \subseteq 1 .. MaxStarts
        /\ slots' \in [Channel -> [slot : Nat, samples : Nat]]
    BY <1>2 DEF PeriodicStart, PeriodicTypeOK, Moments
  <2>3. 0 \in Rounds /\ starts' \in 0 .. MaxStarts
    BY <1>2 DEF PeriodicStart, PeriodicTypeOK, Rounds
  <2> QED
    BY <1>2, <2>1, <2>2, <2>3 DEF PeriodicStart, start_mpu, PeriodicTypeOK, BusyWithOne, Busy
<1>3. CASE PeriodicStop \/ PeriodicDiscard \/ PeriodicSend
  <2>1. queue' \in Seq(SampleRecord) /\ Len(queue') =< SampleLength
    BY <1>3, QueueTypes DEF PeriodicStop, PeriodicDiscard, PeriodicSend
  <2> QED
    BY <1>3, <2>1
    DEF PeriodicStop, PeriodicDiscard, PeriodicSend, PeriodicTypeOK, BusyWithOne, Busy
<1>4. CASE PeriodicTask
  BY <1>4, PeriodicTaskTypes
<1>5. CASE UNCHANGED periodicVars
  BY <1>5 DEF periodicVars, PeriodicTypeOK, BusyWithOne, Busy
<1> QED
  BY <1>1, <1>2, <1>3, <1>4, <1>5 DEF PeriodicNext

-------------------------------------------------------------------------------
(* The periodic nodes: the schedule *)

\* A sensor is next due a whole number of periods after the recording was started, unless
\* the start came between the load and the store of a due time.
OnTime == armed =< moment /\ loop_now =< moment
InStep == \A c \in Channel : \E k \in Nat : next_sample[c] = armed + k * SamplePeriod
InStepUnlessShifted == starts \notin shifted => InStep

\* What a round reads was due when it began, unless the recording is younger than that.
DueNow ==
    place \in {"burst", "status", "values", "check", "value"} =>
        /\ next_sample[channel] =< moment
        /\ loop_now >= armed => next_sample[channel] =< loop_now

\* What is about to be stored is up to date, or of before a start, which forgot what was taken.
Storing ==
    place = "store" =>
        \/ next_sample[channel] =< loop_now /\ due = Caught
        \/ /\ starts \in shifted /\ sample_status = "error"
           /\ \A c \in Channel : slots[c].samples = 0

\* When a sensor is due, once the time that is being moved on is stored.
Advancing == place \in {"advance", "store"}
DueOf(c) == IF Advancing /\ c = channel THEN Caught ELSE next_sample[c]

\* Slot j of the recording begins.
Begins(j) == armed + j * SamplePeriod

\* The sensor is next due after the begin of the slot of its last sample, and not in that
\* slot if it gave two of them; in a schedule that is in step it never does.
SlotsTaken ==
    \A c \in Channel :
        /\ slots[c].samples > 0 => DueOf(c) > Begins(slots[c].slot)
        /\ slots[c].samples > 1 => DueOf(c) >= Begins(slots[c].slot) + SamplePeriod

ScheduleInv ==
    OnTime /\ InStepUnlessShifted /\ DueNow /\ Storing /\ SlotsTaken /\ OncePerSlot

SlotNow == (loop_now - armed) \div SamplePeriod

LEMMA CaughtUpSlot ==
  ASSUME PeriodicTypeOK, InStep, channel \in Channel, next_sample[channel] =< loop_now
  PROVE  /\ Caught = armed + (SlotNow + 1) * SamplePeriod
         /\ Caught \in loop_now + 1 .. loop_now + SamplePeriod
         /\ SlotNow \in Nat /\ loop_now >= armed
<1> USE PeriodicBounds
<1>1. /\ next_sample[channel] \in Nat /\ loop_now \in Nat /\ armed \in Nat
      /\ SamplePeriod \in Nat \ {0}
  BY DEF PeriodicTypeOK, Moments
<1>2. IsSlot(next_sample[channel], armed, SamplePeriod)
  BY DEF InStep, IsSlot
<1>3. Caught = FirstAfter(loop_now, next_sample[channel], SamplePeriod)
  BY DEF Caught, CaughtUp, FirstAfter
<1>4. /\ armed =< loop_now /\ SlotIndex(loop_now, armed, SamplePeriod) \in Nat
      /\ Caught = SlotStart(SlotIndex(loop_now, armed, SamplePeriod) + 1, armed, SamplePeriod)
      /\ Caught \in loop_now + 1 .. loop_now + SamplePeriod
  BY <1>1, <1>2, <1>3, CatchesUp
<1> QED
  BY <1>1, <1>4 DEF SlotNow, SlotIndex, SlotStart

\* In the slot of this moment: it has begun, and the next has not.
LEMMA SlotOfNow ==
  ASSUME PeriodicTypeOK, loop_now >= armed
  PROVE  /\ SlotNow \in Nat /\ Begins(SlotNow) \in Nat
         /\ Begins(SlotNow) =< loop_now /\ loop_now < Begins(SlotNow) + SamplePeriod
<1> USE PeriodicBounds
<1> DEFINE n == loop_now - armed
           y == SlotNow * SamplePeriod
<1>1. loop_now \in Nat /\ armed \in Nat /\ n \in Nat
  BY DEF PeriodicTypeOK, Moments
<1>2. SlotNow = n \div SamplePeriod
  BY DEF SlotNow
<1> HIDE DEF n
<1>3. SlotNow \in Nat /\ n % SamplePeriod \in 0 .. SamplePeriod - 1 /\ n = y + (n % SamplePeriod)
  BY <1>1, <1>2, Divided
<1>4. y \in Nat /\ Begins(SlotNow) = armed + y
  BY <1>3 DEF Begins
<1> HIDE DEF y
<1> QED
  BY <1>1, <1>3, <1>4 DEF n

\* In step, a sensor that is due after the begin of a slot is due after its end.
LEMMA InStepAfter ==
  ASSUME PeriodicTypeOK, InStep, NEW c \in Channel, NEW j \in Nat, next_sample[c] > Begins(j)
  PROVE  next_sample[c] >= Begins(j) + SamplePeriod
<1> USE PeriodicBounds
<1>1. PICK k \in Nat : next_sample[c] = armed + k * SamplePeriod
  BY DEF InStep
<1> DEFINE u == j * SamplePeriod
           w == k * SamplePeriod
<1>2. u \in Nat /\ w \in Nat /\ armed \in Nat
  BY DEF PeriodicTypeOK, Moments
<1>3. w > u
  BY <1>1, <1>2 DEF Begins
<1>4. j < k
  <2>1. ASSUME k =< j PROVE FALSE
    <3>1. k < j => w + SamplePeriod =< u
      BY Multiples
    <3>2. k = j => w = u
      OBVIOUS
    <3> HIDE DEF u, w
    <3> QED
      BY <1>2, <1>3, <2>1, <3>1, <3>2
  <2> QED
    BY <2>1
<1>5. u + SamplePeriod =< w
  BY <1>4, Multiples
<1> QED
  BY <1>1, <1>2, <1>5 DEF Begins

\* Steps that leave the due times and what was taken alone.
LEMMA ScheduleUntouched ==
  ASSUME ScheduleInv, UNCHANGED <<armed, next_sample, slots, starts, shifted>>,
         \A c \in Channel : DueOf(c)' = DueOf(c), OnTime', DueNow', Storing'
  PROVE  ScheduleInv'
<1>1. InStepUnlessShifted' /\ OncePerSlot'
  BY DEF ScheduleInv, InStepUnlessShifted, InStep, OncePerSlot
<1>2. SlotsTaken'
  BY DEF ScheduleInv, SlotsTaken, Begins
<1> QED
  BY <1>1, <1>2 DEF ScheduleInv

\* The read has failed: the descriptor's due time is about to be moved on.
LEMMA ReadFailsKeeps ==
  ASSUME PeriodicTypeOK, BusyWithOne, ScheduleInv, ReadFails
  PROVE  ScheduleInv'
<1> USE PeriodicBounds
<1>1. channel \in Channel
  BY DEF ReadFails, BusyWithOne, Busy, PeriodicTypeOK, Channel
<1>2. /\ UNCHANGED <<armed, moment, loop_now, slots, next_sample, channel, starts, shifted>>
      /\ place = "check" /\ place' = "advance"
  BY DEF ReadFails, TaskFrame, schedule, Go
<1>3. OnTime' /\ DueNow' /\ Storing' /\ InStepUnlessShifted' /\ OncePerSlot'
  BY <1>2 DEF ScheduleInv, OnTime, DueNow, Storing, InStepUnlessShifted, InStep, OncePerSlot
<1>4. ASSUME NEW c \in Channel
      PROVE  /\ DueOf(c)' >= DueOf(c) /\ DueOf(c) \in Nat /\ DueOf(c)' \in Nat
             /\ slots[c].slot \in Nat /\ Begins(slots[c].slot) \in Nat
  <2>1. /\ DueOf(c) = next_sample[c] /\ next_sample[c] \in Nat
        /\ DueOf(c)' = IF c = channel THEN Caught ELSE next_sample[c]
    BY <1>2 DEF DueOf, Advancing, PeriodicTypeOK, Caught, CaughtUp
  <2>2. slots[c].slot \in Nat /\ armed \in Nat
    BY DEF PeriodicTypeOK, Moments
  <2>3. Begins(slots[c].slot) \in Nat
    BY <2>2 DEF Begins
  <2> QED
    BY <1>1, <2>1, <2>2, <2>3, CaughtUpTyped
<1>5. SlotsTaken'
  <2>1. ASSUME NEW c \in Channel
        PROVE  /\ slots[c].samples > 0 => DueOf(c)' > Begins(slots[c].slot)
               /\ slots[c].samples > 1 => DueOf(c)' >= Begins(slots[c].slot) + SamplePeriod
    <3>1. /\ slots[c].samples > 0 => DueOf(c) > Begins(slots[c].slot)
          /\ slots[c].samples > 1 => DueOf(c) >= Begins(slots[c].slot) + SamplePeriod
      BY DEF ScheduleInv, SlotsTaken
    <3> QED
      BY <1>4, <3>1
  <2> QED
    BY <1>2, <2>1 DEF SlotsTaken, Begins
<1> QED
  BY <1>3, <1>5 DEF ScheduleInv

\* A sample is the first of its slot, or the second after one that came too late for its
\* own; then the sensor is next due in a later slot.
LEMMA ReadValueKeepsSlots ==
  ASSUME PeriodicTypeOK, BusyWithOne, ScheduleInv, ReadValue
  PROVE  ScheduleInv'
<1> USE PeriodicBounds
<1>1. channel \in Channel
  BY DEF ReadValue, BusyWithOne, Busy, PeriodicTypeOK, Channel
<1>2. /\ UNCHANGED <<armed, moment, loop_now, next_sample, channel, starts, shifted>>
      /\ place = "value" /\ place' = "advance"
  BY DEF ReadValue, TaskFrame, schedule, Go
<1>3. OnTime' /\ DueNow' /\ Storing' /\ InStepUnlessShifted'
  BY <1>2 DEF ScheduleInv, OnTime, DueNow, Storing, InStepUnlessShifted, InStep
<1>4. /\ slots'[channel] = InSlot(channel)
      /\ \A c \in Channel : c # channel => slots'[c] = slots[c]
  BY <1>1 DEF ReadValue, PeriodicTypeOK
<1>5. /\ \A c \in Channel : DueOf(c) = next_sample[c]
      /\ \A c \in Channel : c # channel => DueOf(c)' = next_sample[c]
      /\ DueOf(channel)' = Caught
  BY <1>2 DEF DueOf, Advancing, Caught, CaughtUp
<1>6. /\ next_sample[channel] \in Nat /\ loop_now \in Nat /\ armed \in Nat
      /\ slots[channel].slot \in Nat /\ slots[channel].samples \in Nat
      /\ SamplePeriod \in Nat \ {0}
  BY <1>1 DEF PeriodicTypeOK, Moments
<1> DEFINE N == next_sample[channel]
           B == Begins(slots[channel].slot)
           most == IF starts \in shifted THEN 2 ELSE 1
<1>7. /\ B \in Nat /\ Caught \in Nat /\ Caught >= N
      /\ N =< loop_now => Caught > loop_now /\ Caught >= N + SamplePeriod
      /\ slots[channel].samples > 0 => N > B
      /\ slots[channel].samples > 1 => N >= B + SamplePeriod
      /\ slots[channel].samples =< most
  <2>1. B \in Nat
    BY <1>6 DEF Begins
  <2>2. /\ Caught \in Nat /\ Caught >= N
        /\ N =< loop_now => Caught > loop_now /\ Caught >= N + SamplePeriod
    BY <1>1, CaughtUpTyped
  <2>3. /\ slots[channel].samples > 0 => N > B
        /\ slots[channel].samples > 1 => N >= B + SamplePeriod
    BY <1>1, <1>5 DEF ScheduleInv, SlotsTaken
  <2>4. slots[channel].samples =< most
    BY <1>1 DEF ScheduleInv, OncePerSlot
  <2> QED
    BY <2>1, <2>2, <2>3, <2>4
<1>8. /\ slots'[channel].samples > 0 => Caught > Begins(slots'[channel].slot)
      /\ slots'[channel].samples > 1 => Caught >= Begins(slots'[channel].slot) + SamplePeriod
      /\ slots'[channel].samples =< most
  <2>1. CASE loop_now < armed
    <3>1. slots'[channel] = slots[channel]
      BY <1>4, <2>1 DEF InSlot
    <3> HIDE DEF N, B, most
    <3>2. /\ slots[channel].samples > 0 => Caught > B
          /\ slots[channel].samples > 1 => Caught >= B + SamplePeriod
          /\ slots[channel].samples =< most
      BY <1>6, <1>7 DEF N
    <3> QED
      BY <3>1, <3>2 DEF B
  <2>2. CASE ~ (loop_now < armed)
    <3>1. N =< loop_now
      BY <1>2, <1>6, <2>2 DEF ScheduleInv, DueNow
    <3>2. /\ SlotNow \in Nat /\ Begins(SlotNow) \in Nat
          /\ Begins(SlotNow) =< loop_now /\ loop_now < Begins(SlotNow) + SamplePeriod
      BY <1>6, <2>2, SlotOfNow
    <3>3. /\ slots'[channel].slot = SlotNow
          /\ slots'[channel].samples = IF slots[channel].slot = SlotNow
                                       THEN slots[channel].samples + 1 ELSE 1
      BY <1>4, <2>2 DEF InSlot, SlotNow
    <3> DEFINE S == Begins(SlotNow)
    <3>4. slots[channel].slot = SlotNow => B = S
      OBVIOUS
    <3> HIDE DEF N, B, S, most
    <3>5. slots[channel].slot = SlotNow => slots[channel].samples =< 1
      BY <1>6, <1>7, <3>1, <3>2, <3>4 DEF N, S
    <3>6. ASSUME slots[channel].slot = SlotNow, starts \notin shifted
          PROVE  slots[channel].samples = 0
      <4>1. ASSUME slots[channel].samples > 0 PROVE FALSE
        <5>1. next_sample[channel] > Begins(SlotNow)
          BY <1>7, <3>4, <3>6, <4>1 DEF N, S
        <5>2. InStep
          BY <3>6 DEF ScheduleInv, InStepUnlessShifted
        <5>3. next_sample[channel] >= Begins(SlotNow) + SamplePeriod
          BY <1>1, <3>2, <5>1, <5>2, InStepAfter
        <5> QED
          BY <1>6, <3>1, <3>2, <5>3 DEF N
      <4> QED
        BY <1>6, <4>1
    <3>7. Caught > S
      BY <1>6, <1>7, <3>1, <3>2 DEF S, N
    <3>8. slots'[channel].samples > 1 => Caught >= S + SamplePeriod
      <4>1. ASSUME slots'[channel].samples > 1
            PROVE  slots[channel].slot = SlotNow /\ slots[channel].samples > 0
        BY <1>6, <3>3, <4>1
      <4> QED
        BY <1>6, <1>7, <3>1, <3>2, <3>4, <4>1 DEF N, S
    <3>9. slots'[channel].samples =< most
      BY <1>6, <3>3, <3>5, <3>6 DEF most
    <3> QED
      BY <3>3, <3>7, <3>8, <3>9 DEF S
  <2> QED
    BY <2>1, <2>2
<1>9. SlotsTaken'
  <2>1. ASSUME NEW c \in Channel
        PROVE  /\ slots'[c].samples > 0 => DueOf(c)' > Begins(slots'[c].slot)
               /\ slots'[c].samples > 1 => DueOf(c)' >= Begins(slots'[c].slot) + SamplePeriod
    <3>1. CASE c = channel
      <4>1. DueOf(c)' = Caught
        BY <1>2, <3>1 DEF DueOf, Advancing, Caught, CaughtUp
      <4> QED
        BY <1>8, <3>1, <4>1
    <3>2. CASE c # channel
      BY <1>4, <1>5, <3>2 DEF ScheduleInv, SlotsTaken
    <3> QED
      BY <3>1, <3>2
  <2> QED
    BY <1>2, <2>1 DEF SlotsTaken, Begins
<1>10. OncePerSlot'
  BY <1>2, <1>4, <1>8 DEF ScheduleInv, OncePerSlot
<1> QED
  BY <1>3, <1>9, <1>10 DEF ScheduleInv

\* The due time is found to be past, and computed anew; or it is not.
LEMMA AdvanceLoadKeeps ==
  ASSUME PeriodicTypeOK, BusyWithOne, ScheduleInv, AdvanceLoad
  PROVE  ScheduleInv'
<1>1. /\ UNCHANGED <<armed, moment, loop_now, slots, next_sample, starts, shifted>>
      /\ place = "advance"
  BY DEF AdvanceLoad, TaskFrame
<1>2. channel \in Channel
  BY <1>1 DEF BusyWithOne, Busy, PeriodicTypeOK, Channel
<1>3. CASE next_sample[channel] =< loop_now
  <2>1. place' = "store" /\ due' = Caught /\ channel' = channel
    BY <1>3 DEF AdvanceLoad, Go, Caught
  <2>2. Caught' = Caught
    BY <1>1, <2>1 DEF Caught, CaughtUp
  <2>3. OnTime' /\ DueNow' /\ Storing'
    BY <1>1, <1>3, <2>1, <2>2 DEF ScheduleInv, OnTime, DueNow, Storing
  <2>4. \A c \in Channel : DueOf(c)' = DueOf(c)
    BY <1>1, <2>1, <2>2 DEF DueOf, Advancing
  <2> QED
    BY <1>1, <2>3, <2>4, ScheduleUntouched
<1>4. CASE ~ (next_sample[channel] =< loop_now)
  <2>1. place' \in {"sensor", "queue"}
    BY <1>4 DEF AdvanceLoad, AdvanceDone, Go
  <2>2. Caught = next_sample[channel]
    BY <1>4 DEF Caught, CaughtUp
  <2>3. OnTime' /\ DueNow' /\ Storing'
    BY <1>1, <2>1 DEF ScheduleInv, OnTime, DueNow, Storing
  <2>4. \A c \in Channel : DueOf(c)' = DueOf(c)
    BY <1>1, <2>1, <2>2 DEF DueOf, Advancing
  <2> QED
    BY <1>1, <2>3, <2>4, ScheduleUntouched
<1> QED
  BY <1>3, <1>4

\* What is stored: the due time of after this round, unless a start came in between.
LEMMA Stored ==
  ASSUME PeriodicTypeOK, BusyWithOne, ScheduleInv, AdvanceStore
  PROVE  /\ channel \in Channel /\ \A c \in Channel : c # channel => next_sample'[c] = next_sample[c]
         /\ \/ next_sample[channel] =< loop_now /\ next_sample'[channel] = Caught
            \/ /\ starts \in shifted /\ sample_status = "error"
               /\ \A c \in Channel : slots[c].samples = 0
<1>1. place = "store" /\ next_sample \in [Channel -> Nat]
  BY DEF AdvanceStore, PeriodicTypeOK
<1>2. channel \in Channel
  BY <1>1 DEF BusyWithOne, Busy, PeriodicTypeOK, Channel
<1>3. PICK to \in {due, ReadAgain} : next_sample' = [next_sample EXCEPT ![channel] = to]
  BY DEF AdvanceStore
<1>4. next_sample[channel] =< loop_now /\ due = Caught => to = Caught
  BY <1>3 DEF ReadAgain, Caught
<1>5. \/ next_sample[channel] =< loop_now /\ due = Caught
      \/ /\ starts \in shifted /\ sample_status = "error"
         /\ \A c \in Channel : slots[c].samples = 0
  BY <1>1 DEF ScheduleInv, Storing
<1> QED
  BY <1>1, <1>2, <1>3, <1>4, <1>5

LEMMA AdvanceStoreKeeps ==
  ASSUME PeriodicTypeOK, BusyWithOne, ScheduleInv, AdvanceStore
  PROVE  ScheduleInv'
<1> USE PeriodicBounds
<1>1. /\ UNCHANGED <<armed, moment, loop_now, slots, starts, shifted>>
      /\ place = "store" /\ place' \in {"sensor", "queue"}
  BY DEF AdvanceStore, AdvanceDone, TaskFrame, Go
<1>2. OnTime' /\ DueNow' /\ Storing' /\ OncePerSlot'
  BY <1>1 DEF ScheduleInv, OnTime, DueNow, Storing, OncePerSlot
<1>3. channel \in Channel /\ \A c \in Channel : c # channel => next_sample'[c] = next_sample[c]
  BY Stored
<1>4. CASE next_sample[channel] =< loop_now /\ next_sample'[channel] = Caught
  <2>1. \A c \in Channel : DueOf(c)' = DueOf(c)
    BY <1>1, <1>3, <1>4 DEF DueOf, Advancing
  <2>2. SlotsTaken'
    BY <1>1, <2>1 DEF ScheduleInv, SlotsTaken, Begins
  <2>3. ASSUME starts \notin shifted, NEW c \in Channel
        PROVE  \E k \in Nat : next_sample'[c] = armed + k * SamplePeriod
    <3>1. InStep
      BY <2>3 DEF ScheduleInv, InStepUnlessShifted
    <3>2. Caught = armed + (SlotNow + 1) * SamplePeriod /\ SlotNow + 1 \in Nat
      BY <1>3, <1>4, <3>1, CaughtUpSlot
    <3> QED
      BY <1>3, <1>4, <3>1, <3>2 DEF InStep
  <2>4. InStepUnlessShifted'
    BY <1>1, <2>3 DEF InStepUnlessShifted, InStep
  <2> QED
    BY <1>2, <2>2, <2>4 DEF ScheduleInv
<1>5. CASE starts \in shifted /\ \A c \in Channel : slots[c].samples = 0
  BY <1>1, <1>2, <1>5 DEF ScheduleInv, SlotsTaken, InStepUnlessShifted
<1> QED
  BY <1>4, <1>5, Stored

LEMMA ScheduleStarts ==
  ASSUME PeriodicTypeOK, BusyWithOne, ScheduleInv, PeriodicStart
  PROVE  ScheduleInv'
<1> USE PeriodicBounds
<1>1. /\ moment' = moment /\ loop_now' = loop_now /\ armed' = moment /\ moment \in Nat
      /\ loop_now \in Nat /\ channel' = channel /\ channel \in 1 .. Channels + 1 /\ place' = place
      /\ sample_status' = "error"
      /\ \A c \in Channel : next_sample'[c] = moment /\ slots'[c].samples = 0
  BY DEF PeriodicStart, start_mpu, PeriodicTypeOK, Moments
<1>2. moment = moment + 0 * SamplePeriod /\ loop_now =< moment
  BY <1>1 DEF ScheduleInv, OnTime
<1>3. OnTime' /\ SlotsTaken' /\ OncePerSlot'
  BY <1>1, <1>2 DEF OnTime, SlotsTaken, OncePerSlot
<1>4. InStepUnlessShifted'
  BY <1>1, <1>2 DEF InStep, InStepUnlessShifted
<1>5. DueNow'
  <2>1. Busy => channel \in Channel
    BY <1>1 DEF BusyWithOne, Channel
  <2> QED
    BY <1>1, <2>1 DEF DueNow, Busy
<1>6. Storing'
  <2>1. place = "store" => starts' \in shifted'
    BY DEF PeriodicStart
  <2> QED
    BY <1>1, <2>1 DEF Storing
<1> QED
  BY <1>3, <1>4, <1>5, <1>6 DEF ScheduleInv

LEMMA ScheduleInitially == PeriodicInit => ScheduleInv
<1> SUFFICES ASSUME PeriodicInit PROVE ScheduleInv
  OBVIOUS
<1> USE PeriodicBounds
<1>1. /\ moment = 0 /\ loop_now = 0 /\ armed = 0 /\ place = "wait"
      /\ \A c \in Channel : next_sample[c] = 0 /\ slots[c].samples = 0
  BY DEF PeriodicInit
<1>2. 0 = 0 + 0 * SamplePeriod
  OBVIOUS
<1>3. InStepUnlessShifted
  BY <1>1, <1>2 DEF InStep, InStepUnlessShifted
<1> QED
  BY <1>1, <1>3 DEF ScheduleInv, OnTime, DueNow, Storing, SlotsTaken, OncePerSlot

LEMMA ScheduleStays ==
  ASSUME PeriodicTypeOK, BusyWithOne, ScheduleInv, [PeriodicNext]_periodicVars
  PROVE  ScheduleInv'
<1> USE PeriodicBounds DEF schedule, past, Go, TaskFrame
<1>0. moment \in Nat /\ loop_now \in Nat /\ armed =< moment /\ loop_now =< moment /\ armed \in Nat
  BY DEF PeriodicTypeOK, Moments, ScheduleInv, OnTime
<1>1. CASE \/ TimePasses \/ PeriodicStop \/ PeriodicDiscard \/ PeriodicSend
           \/ UNCHANGED periodicVars
  <2>1. /\ UNCHANGED <<armed, next_sample, slots, loop_now, place, channel, starts, shifted>>
        /\ UNCHANGED <<due, sample_status>>
        /\ moment' \in {moment, moment + 1}
    <3>1. CASE TimePasses \/ UNCHANGED periodicVars
      BY <3>1 DEF TimePasses, periodicVars, device
    <3>2. CASE PeriodicStop \/ PeriodicDiscard \/ PeriodicSend
      BY <3>2 DEF PeriodicStop, PeriodicDiscard, PeriodicSend, device
    <3> QED
      BY <1>1, <3>1, <3>2
  <2>2. Caught' = Caught
    BY <2>1 DEF Caught, CaughtUp
  <2>3. \A c \in Channel : DueOf(c)' = DueOf(c)
    BY <2>1, <2>2 DEF DueOf, Advancing
  <2>4. Busy => channel \in Channel
    BY DEF BusyWithOne, Channel, PeriodicTypeOK
  <2>5. DueNow'
    <3>1. ASSUME place \in {"burst", "status", "values", "check", "value"}
          PROVE  /\ next_sample[channel] =< moment'
                 /\ loop_now >= armed => next_sample[channel] =< loop_now
      <4>1. next_sample[channel] \in Nat
        BY <2>4, <3>1 DEF Busy, PeriodicTypeOK
      <4>2. /\ next_sample[channel] =< moment
            /\ loop_now >= armed => next_sample[channel] =< loop_now
        BY <3>1 DEF ScheduleInv, DueNow
      <4> QED
        BY <1>0, <2>1, <4>1, <4>2
    <3> QED
      BY <2>1, <3>1 DEF DueNow
  <2>6. OnTime'
    BY <1>0, <2>1 DEF OnTime
  <2>7. Storing'
    BY <2>1, <2>2 DEF ScheduleInv, Storing
  <2> QED
    BY <2>1, <2>3, <2>5, <2>6, <2>7, ScheduleUntouched
<1>2. CASE PeriodicStart
  BY <1>2, ScheduleStarts
<1>4. CASE RoundBegins
  <2>1. /\ UNCHANGED <<armed, next_sample, slots, moment, starts, shifted>>
        /\ loop_now' = moment /\ place = "wait" /\ place' = "sensor"
    BY <1>4 DEF RoundBegins
  <2>2. OnTime' /\ DueNow' /\ Storing' /\ \A c \in Channel : DueOf(c)' = DueOf(c)
    BY <1>0, <2>1 DEF OnTime, DueNow, Storing, DueOf, Advancing
  <2> QED
    BY <2>1, <2>2, ScheduleUntouched
<1>5. CASE SensorDue
  <2>1. /\ UNCHANGED <<armed, next_sample, slots, moment, loop_now, starts, shifted>>
        /\ place = "sensor" /\ place' \in {"sensor", "burst", "check"}
        /\ \/ place' = "sensor"
           \/ UNCHANGED channel /\ loop_now >= next_sample[channel] /\ channel \in Channel
    BY <1>5 DEF SensorDue, PeriodicTypeOK, Channel
  <2>2. \A c \in Channel : next_sample[c] \in Nat
    BY DEF PeriodicTypeOK
  <2>3. DueNow'
    BY <1>0, <2>1, <2>2 DEF DueNow
  <2>4. OnTime' /\ Storing'
    BY <2>1 DEF ScheduleInv, OnTime, Storing
  <2>5. \A c \in Channel : DueOf(c)' = DueOf(c)
    BY <2>1 DEF DueOf, Advancing
  <2> QED
    BY <2>1, <2>3, <2>4, <2>5, ScheduleUntouched
<1>6. CASE \/ BurstRead \/ BurstStatus \/ BurstValues \/ ReadPasses
           \/ EnqueueLatest \/ DiscardOldest \/ EnqueueAgain \/ RoundEnds
  <2>1. /\ UNCHANGED <<armed, next_sample, slots, moment, loop_now, starts, shifted>>
        /\ ~Advancing /\ ~Advancing'
        /\ \/ place' \in {"sensor", "discard", "again", "wait"}
           \/ UNCHANGED channel /\ place \in {"burst", "status", "values", "check"}
    BY <1>6 DEF BurstRead, BurstStatus, BurstValues, ReadPasses, EnqueueLatest, DiscardOldest,
                EnqueueAgain, RoundEnds, SampleDone, Advancing
  <2>2. OnTime' /\ DueNow' /\ Storing'
    BY <2>1 DEF ScheduleInv, OnTime, DueNow, Storing, Advancing
  <2>3. \A c \in Channel : DueOf(c)' = DueOf(c)
    BY <2>1 DEF DueOf
  <2> QED
    BY <2>1, <2>2, <2>3, ScheduleUntouched
<1>7. CASE ReadFails
  BY <1>7, ReadFailsKeeps
<1>8. CASE ReadValue
  BY <1>8, ReadValueKeepsSlots
<1>9. CASE AdvanceLoad
  BY <1>9, AdvanceLoadKeeps
<1>10. CASE AdvanceStore
  BY <1>10, AdvanceStoreKeeps
<1> QED
  BY <1>1, <1>2, <1>4, <1>5, <1>6, <1>7, <1>8, <1>9, <1>10 DEF PeriodicNext, PeriodicTask
-------------------------------------------------------------------------------
(* The periodic nodes: the channel that talks to the device is never behind *)

\* The turn of descriptor d is still to come, or come, in this round.
Ahead(d) ==
    /\ place # "wait"
    /\ d > channel \/ (d = channel /\ place \notin {"queue", "discard", "again"})

\* In a schedule that is in step: the first descriptor is due no later than another, or that
\* one is due in this round.
FirstLeads ==
    \A d \in Channel :
        \/ next_sample[1] =< next_sample[d]
        \/ Ahead(d) /\ next_sample[d] =< loop_now /\ next_sample[1] =< loop_now + SamplePeriod

\* Where it comes to is the next slot: not after a later one, nor before an earlier one.
LEMMA CaughtUpBetween ==
  ASSUME PeriodicTypeOK, InStep, channel \in Channel, next_sample[channel] =< loop_now,
         NEW d \in Channel
  PROVE  /\ next_sample[d] > loop_now => Caught =< next_sample[d]
         /\ next_sample[d] =< loop_now + SamplePeriod => next_sample[d] =< Caught
         /\ Caught =< loop_now + SamplePeriod /\ Caught > loop_now
<1> USE PeriodicBounds
<1>1. /\ next_sample[d] \in Nat /\ loop_now \in Nat /\ armed \in Nat /\ SamplePeriod \in Nat \ {0}
  BY DEF PeriodicTypeOK, Moments
<1>2. /\ Caught = SlotStart(SlotIndex(loop_now, armed, SamplePeriod) + 1, armed, SamplePeriod)
      /\ Caught \in loop_now + 1 .. loop_now + SamplePeriod /\ armed =< loop_now
  BY <1>1, CaughtUpSlot DEF SlotNow, SlotIndex, SlotStart
<1>3. IsSlot(next_sample[d], armed, SamplePeriod)
  BY DEF InStep, IsSlot
<1>4. /\ next_sample[d] > loop_now => Caught =< next_sample[d]
      /\ next_sample[d] =< loop_now + SamplePeriod => next_sample[d] =< Caught
  BY <1>1, <1>2, <1>3, NoSlotBetween
<1> QED
  BY <1>1, <1>2, <1>4

\* A descriptor is passed: its due time, which was past, is moved on.
LEMMA PassedLeads ==
  ASSUME PeriodicTypeOK, InStep, FirstLeads, channel \in Channel,
         next_sample[channel] =< loop_now, next_sample'[channel] = Caught,
         \A c \in Channel : c # channel => next_sample'[c] = next_sample[c],
         UNCHANGED loop_now, place # "wait", place' # "wait",
         \A d \in Channel : Ahead(d) /\ d # channel => Ahead(d)'
  PROVE  FirstLeads'
<1> USE PeriodicBounds
<1>1. /\ next_sample'[channel] = Caught
      /\ \A c \in Channel : c # channel => next_sample'[c] = next_sample[c]
  OBVIOUS
<1>2. /\ \A c \in Channel : next_sample[c] \in Nat
      /\ loop_now \in Nat /\ Caught \in Nat /\ 1 \in Channel /\ SamplePeriod \in Nat
  <2>1. Caught \in Nat
    BY CaughtUpTyped
  <2> QED
    BY <2>1 DEF PeriodicTypeOK, Moments, Channel
<1>4. CASE next_sample[channel] =< loop_now /\ channel = 1
  <2>1. ASSUME NEW d \in Channel, d # 1
        PROVE  \/ Caught =< next_sample[d]
               \/ Ahead(d)' /\ next_sample[d] =< loop_now /\ Caught =< loop_now + SamplePeriod
    <3>1. CASE next_sample[d] > loop_now
      BY <1>4, <3>1, CaughtUpBetween
    <3>2. CASE ~ (next_sample[d] > loop_now)
      <4>1. next_sample[d] =< loop_now
        BY <1>2, <3>2
      <4>2. Ahead(d)
        BY <1>4, <2>1 DEF Ahead, Channel
      <4> QED
        BY <1>4, <2>1, <4>1, <4>2, CaughtUpBetween
    <3> QED
      BY <3>1, <3>2
  <2> QED
    BY <1>1, <1>2, <1>4, <2>1 DEF FirstLeads
<1>5. CASE next_sample[channel] =< loop_now /\ channel # 1
  <2>1. next_sample'[1] = next_sample[1]
    BY <1>1, <1>2, <1>5
  <2>2. next_sample[1] =< Caught
    <3>1. CASE next_sample[1] =< next_sample[channel]
      <4>1. next_sample[1] =< loop_now + SamplePeriod
        BY <1>2, <1>5, <3>1
      <4> QED
        BY <1>2, <1>5, <4>1, CaughtUpBetween
    <3>2. CASE ~ (next_sample[1] =< next_sample[channel])
      <4>1. next_sample[1] =< loop_now + SamplePeriod
        BY <3>2 DEF FirstLeads
      <4> QED
        BY <1>2, <1>5, <4>1, CaughtUpBetween
    <3> QED
      BY <3>1, <3>2
  <2>3. ASSUME NEW d \in Channel, d # channel
        PROVE  \/ next_sample[1] =< next_sample[d]
               \/ /\ Ahead(d)' /\ next_sample[d] =< loop_now
                  /\ next_sample[1] =< loop_now + SamplePeriod
    BY <2>3 DEF FirstLeads
  <2> QED
    BY <1>1, <2>1, <2>2, <2>3 DEF FirstLeads
<1> QED
  BY <1>4, <1>5

\* Steps that advance nothing.
LEMMA LeadsStill ==
  ASSUME FirstLeads, UNCHANGED <<next_sample, loop_now>>,
         \A d \in Channel : Ahead(d) /\ next_sample[d] =< loop_now => Ahead(d)'
  PROVE  FirstLeads'
BY DEF FirstLeads

LEMMA LeadsInitially == PeriodicInit => FirstLeads
<1> SUFFICES ASSUME PeriodicInit, NEW d \in Channel PROVE next_sample[1] =< next_sample[d]
  BY DEF FirstLeads
<1>1. next_sample[d] = 0 /\ next_sample[1] = 0
  BY PeriodicBounds DEF PeriodicInit, Channel
<1> QED
  BY <1>1

LeadsUnlessShifted == starts \notin shifted => FirstLeads

LEMMA LeadsAlways ==
  ASSUME PeriodicTypeOK, BusyWithOne, ScheduleInv, LeadsUnlessShifted, starts' \notin shifted',
         [PeriodicNext]_periodicVars
  PROVE  FirstLeads'
<1> USE PeriodicBounds DEF schedule, Go, TaskFrame
<1>0. /\ Busy => channel \in Channel
      /\ channel \in Nat /\ loop_now \in Nat /\ \A c \in Channel : next_sample[c] \in Nat
  BY DEF PeriodicTypeOK, Moments, BusyWithOne, Channel
<1>l. ~PeriodicStart => FirstLeads /\ InStep
  <2>1. ~PeriodicStart => UNCHANGED <<starts, shifted>>
    BY DEF PeriodicNext, PeriodicTask, TimePasses, PeriodicStop, PeriodicDiscard, PeriodicSend,
           RoundBegins, SensorDue, BurstRead, BurstStatus, BurstValues, ReadFails, ReadPasses,
           ReadValue, AdvanceLoad, AdvanceStore, EnqueueLatest, DiscardOldest, EnqueueAgain,
           RoundEnds, past, periodicVars
  <2> QED
    BY <2>1 DEF LeadsUnlessShifted, ScheduleInv, InStepUnlessShifted
<1>s. CASE PeriodicStart
  <2>1. \A c \in Channel : next_sample'[c] = moment
    BY <1>s DEF PeriodicStart
  <2>2. 1 \in Channel /\ moment =< moment
    BY DEF Channel, PeriodicTypeOK, Moments
  <2> QED
    BY <2>1, <2>2 DEF FirstLeads
<1>n. CASE ~PeriodicStart
  <2>0. FirstLeads /\ InStep
    BY <1>l, <1>n
  <2>1. CASE \/ TimePasses \/ PeriodicStop \/ PeriodicDiscard \/ PeriodicSend
             \/ UNCHANGED periodicVars
    <3>1. UNCHANGED <<next_sample, loop_now, place, channel>>
      BY <2>1 DEF TimePasses, PeriodicStop, PeriodicDiscard, PeriodicSend, periodicVars
    <3> QED
      BY <3>1, <2>0, LeadsStill DEF Ahead
  <2>3. CASE RoundBegins
    <3>1. \A d \in Channel : next_sample[1] =< next_sample[d]
      BY <2>0, <2>3 DEF RoundBegins, FirstLeads, Ahead
    <3>2. next_sample' = next_sample
      BY <2>3 DEF RoundBegins
    <3> QED
      BY <3>1, <3>2 DEF FirstLeads
  <2>4. CASE SensorDue
    <3>1. UNCHANGED <<next_sample, loop_now>> /\ place = "sensor" /\ channel =< Channels
      BY <2>4 DEF SensorDue
    <3>2. \/ place' \in {"burst", "check"} /\ UNCHANGED channel
          \/ place' = "sensor" /\ channel' = channel + 1 /\ ~ (loop_now >= next_sample[channel])
      BY <2>4 DEF SensorDue
    <3>3. ASSUME NEW d \in Channel, Ahead(d), next_sample[d] =< loop_now
          PROVE  Ahead(d)'
      BY <1>0, <3>1, <3>2, <3>3 DEF Ahead, Channel
    <3> QED
      BY <3>1, <3>3, <2>0, LeadsStill
  <2>5. CASE \/ BurstRead \/ BurstStatus \/ BurstValues
             \/ ReadPasses \/ ReadFails \/ ReadValue
    <3>1. /\ UNCHANGED <<next_sample, loop_now, channel>>
          /\ place' \in {"status", "values", "check", "value", "advance"}
            /\ place \in {"burst", "status", "values", "check", "value"}
      BY <2>5 DEF BurstRead, BurstStatus, BurstValues, ReadPasses, ReadFails, ReadValue
    <3> QED
      BY <3>1, <2>0, LeadsStill DEF Ahead, Busy
  <2>6. CASE AdvanceStore
    <3>1. /\ UNCHANGED loop_now /\ place = "store" /\ starts \notin shifted
          /\ \/ place' = "sensor" /\ channel' = channel + 1
             \/ place' = "queue" /\ UNCHANGED channel
      BY <2>6 DEF AdvanceStore, AdvanceDone
    <3>2. ASSUME NEW d \in Channel, Ahead(d), d # channel PROVE Ahead(d)'
      BY <1>0, <3>1, <3>2 DEF Ahead, Channel, Busy
    <3>3. /\ next_sample[channel] =< loop_now /\ next_sample'[channel] = Caught
          /\ \A c \in Channel : c # channel => next_sample'[c] = next_sample[c]
      BY <2>6, <3>1, Stored
    <3> QED
      BY <1>0, <2>0, <3>1, <3>2, <3>3, PassedLeads DEF Busy
  <2>8. CASE AdvanceLoad
    <3>1. UNCHANGED <<next_sample, loop_now>> /\ place = "advance"
      BY <2>8 DEF AdvanceLoad
    <3>2. \/ place' = "store" /\ UNCHANGED channel
          \/ /\ ~ (next_sample[channel] =< loop_now)
             /\ \/ place' = "sensor" /\ channel' = channel + 1
                \/ place' = "queue" /\ UNCHANGED channel
      BY <2>8 DEF AdvanceLoad, AdvanceDone
    <3>3. ASSUME NEW d \in Channel, Ahead(d), next_sample[d] =< loop_now
          PROVE  Ahead(d)'
      BY <1>0, <3>1, <3>2, <3>3 DEF Ahead, Channel, Busy
    <3> QED
      BY <2>0, <3>1, <3>3, LeadsStill
  <2>7. CASE EnqueueLatest \/ DiscardOldest \/ EnqueueAgain \/ RoundEnds
    <3>1. /\ UNCHANGED <<next_sample, loop_now>>
          /\ \/ /\ place \in {"queue", "discard", "again"}
                /\ \/ place' = "sensor" /\ channel' = channel + 1
                   \/ place' \in {"discard", "again"} /\ UNCHANGED channel
             \/ channel > Channels
      BY <2>7 DEF EnqueueLatest, DiscardOldest, EnqueueAgain, RoundEnds, SampleDone
    <3>2. ASSUME NEW d \in Channel, Ahead(d) PROVE Ahead(d)'
      BY <1>0, <3>1, <3>2 DEF Ahead, Channel
    <3> QED
      BY <3>1, <3>2, <2>0, LeadsStill
  <2> QED
    BY <1>n, <2>1, <2>3, <2>4, <2>5, <2>6, <2>7, <2>8 DEF PeriodicNext, PeriodicTask
<1> QED
  BY <1>s, <1>n
-------------------------------------------------------------------------------
(* The periodic nodes: the queue.  The second attempt of enqueue_latest cannot fail: the *)
(* task that appends is the one that made the room, and the others only take out.        *)

Enqueuing ==
    \/ place \in {"queue", "discard", "again"}
    \/ place \in {"advance", "store"} /\ new_sample.n # 0

\* The inductive invariant: types, the room, the sample in hand, and the order.
QueueTyped ==
    /\ taken \in Nat
    /\ \E S : queue \in Seq(S)
    /\ \A k \in 1 .. Len(queue) : queue[k].n \in Nat

RoomIsMade ==
    /\ Len(queue) =< SampleLength
    /\ place = "again" => Len(queue) < SampleLength

InHand ==
    /\ Enqueuing => new_sample.n = taken /\ taken > 0
    /\ ~Enqueuing => new_sample = NoReading

QueueInv == QueueTyped /\ RoomIsMade /\ InHand /\ NewestAreKept

LEMMA QueueInitially == PeriodicInit => QueueInv
<1> SUFFICES ASSUME PeriodicInit PROVE QueueInv
  OBVIOUS
<1>1. queue = <<>> /\ taken = 0 /\ place = "wait" /\ new_sample = NoReading
  BY DEF PeriodicInit
<1>2. queue \in Seq({}) /\ Len(queue) = 0
  BY <1>1
<1> QED
  BY <1>1, <1>2, PeriodicBounds
  DEF QueueInv, QueueTyped, RoomIsMade, InHand, Enqueuing, NewestAreKept

\* Steps that leave the queue and what is in hand alone.
LEMMA Untouched ==
  ASSUME QueueInv, UNCHANGED <<queue, taken, new_sample>>,
         Enqueuing' <=> Enqueuing, place' = "again" => place = "again"
  PROVE  QueueInv'
BY DEF QueueInv, QueueTyped, RoomIsMade, InHand, Enqueuing, NewestAreKept

\* Commands that empty the queue.
LEMMA Emptied ==
  ASSUME QueueInv, queue' = <<>>, UNCHANGED <<taken, new_sample, place>>
  PROVE  QueueInv'
<1>1. queue' \in Seq({}) /\ Len(queue') = 0
  OBVIOUS
<1> QED
  BY <1>1, PeriodicBounds
  DEF QueueInv, QueueTyped, RoomIsMade, InHand, Enqueuing, NewestAreKept

\* The oldest sample taken out, by send_task or by sample_task itself.
LEMMA TailKeeps ==
  ASSUME QueueInv, queue # <<>>, queue' = Tail(queue)
  PROVE  /\ QueueTyped' \/ taken' # taken
         /\ Len(queue') < SampleLength
         /\ NewestAreKept' \/ taken' # taken \/ (new_sample'.n = 0) # (new_sample.n = 0)
<1> USE PeriodicBounds DEF QueueInv, QueueTyped, RoomIsMade
<1>1. PICK S : queue \in Seq(S)
  OBVIOUS
<1>2. queue' \in Seq(S) /\ Len(queue') = Len(queue) - 1 /\ Len(queue) > 0
  BY <1>1
<1>3. \A k \in 1 .. Len(queue') : queue'[k] = queue[k + 1] /\ k + 1 \in 1 .. Len(queue)
  BY <1>1, <1>2
<1>4. Len(queue') < SampleLength
  BY <1>2, <1>1
<1>5. QueueTyped' \/ taken' # taken
  BY <1>2, <1>3
<1>6. ASSUME taken' = taken, (new_sample'.n = 0) <=> (new_sample.n = 0)
      PROVE  NewestAreKept'
  <2>1. ASSUME NEW k \in 2 .. Len(queue')
        PROVE  queue'[k].n = queue'[k - 1].n + 1
    <3>1. k + 1 \in 2 .. Len(queue) /\ k \in 1 .. Len(queue') /\ k - 1 \in 1 .. Len(queue')
      BY <1>1, <1>2
    <3>2. queue[k + 1].n = queue[k + 1 - 1].n + 1
      BY <3>1 DEF NewestAreKept
    <3>3. queue'[k] = queue[k + 1] /\ queue'[k - 1] = queue[k - 1 + 1]
      BY <3>1, <1>3
    <3>4. k + 1 - 1 = k /\ k - 1 + 1 = k
      OBVIOUS
    <3> QED
      BY <3>2, <3>3, <3>4
  <2>2. ASSUME queue' # <<>>
        PROVE  queue'[Len(queue')] = queue[Len(queue)]
    <3>1. Len(queue') \in 1 .. Len(queue')
      BY <2>2, <1>2
    <3> QED
      BY <3>1, <1>2, <1>3, <1>1
  <2> QED
    BY <2>1, <2>2, <1>6 DEF NewestAreKept
<1> QED
  BY <1>4, <1>5, <1>6

\* The sample in hand is appended.
LEMMA AppendKeeps ==
  ASSUME QueueInv, Enqueuing, Len(queue) < SampleLength,
         queue' = Append(queue, new_sample), SampleDone, UNCHANGED taken
  PROVE  QueueInv'
<1> USE PeriodicBounds DEF QueueInv, QueueTyped, RoomIsMade
<1>1. PICK S : queue \in Seq(S)
  OBVIOUS
<1>2. /\ queue' \in Seq(S \cup {new_sample}) /\ Len(queue') = Len(queue) + 1
      /\ queue'[Len(queue')] = new_sample
      /\ \A k \in 1 .. Len(queue) : queue'[k] = queue[k]
  BY <1>1
<1>3. new_sample.n = taken /\ taken > 0 /\ new_sample.n # 0
  BY DEF InHand
<1>4. place' = "sensor" /\ new_sample' = NoReading
  BY DEF SampleDone, Go
<1>5. QueueTyped'
  <2>1. ASSUME NEW k \in 1 .. Len(queue') PROVE queue'[k].n \in Nat
    <3>1. k = Len(queue') \/ k \in 1 .. Len(queue)
      BY <1>2, <1>1
    <3> QED
      BY <3>1, <1>2, <1>3
  <2> QED
    BY <2>1, <1>2
<1>6. RoomIsMade' /\ InHand'
  BY <1>1, <1>2, <1>4 DEF InHand, Enqueuing
<1>7. NewestAreKept'
  <2>1. ASSUME NEW k \in 2 .. Len(queue')
        PROVE  queue'[k].n = queue'[k - 1].n + 1
    <3>1. CASE k = Len(queue')
      <4>1. queue # <<>> /\ k - 1 = Len(queue) /\ k - 1 \in 1 .. Len(queue)
        BY <3>1, <1>1, <1>2
      <4>2. queue[Len(queue)].n = taken - 1
        BY <4>1, <1>3 DEF NewestAreKept
      <4> QED
        BY <3>1, <4>1, <4>2, <1>2, <1>3
    <3>2. CASE k # Len(queue')
      <4>1. k \in 2 .. Len(queue) /\ k \in 1 .. Len(queue) /\ k - 1 \in 1 .. Len(queue)
        BY <3>2, <1>1, <1>2
      <4> QED
        BY <4>1, <1>2 DEF NewestAreKept
    <3> QED
      BY <3>1, <3>2
  <2>2. queue'[Len(queue')].n = taken' /\ new_sample'.n = 0
    BY <1>2, <1>3, <1>4 DEF NoReading
  <2> QED
    BY <2>1, <2>2 DEF NewestAreKept
<1> QED
  BY <1>5, <1>6, <1>7

\* A new sample is in hand: the queue ends with the one before.
LEMMA ReadValueKeeps == ASSUME QueueInv, ReadValue PROVE QueueInv'
<1>1. /\ place' = "advance" /\ taken' = taken + 1 /\ new_sample'.n = taken' /\ queue' = queue
      /\ new_sample = NoReading
  BY DEF ReadValue, Go, QueueInv, InHand, Enqueuing
<1>2. taken \in Nat /\ new_sample.n = 0 /\ new_sample'.n # 0
  BY <1>1 DEF QueueInv, QueueTyped, NoReading
<1> QED
  BY <1>1, <1>2 DEF QueueInv, QueueTyped, RoomIsMade, InHand, Enqueuing, NewestAreKept

LEMMA TaskKeeps == ASSUME QueueInv, PeriodicTask PROVE QueueInv'
<1>1. CASE \/ RoundBegins \/ SensorDue \/ BurstRead \/ BurstStatus \/ BurstValues
           \/ ReadFails \/ ReadPasses \/ RoundEnds
  <2>1. UNCHANGED <<queue, taken, new_sample>> /\ ~Enqueuing /\ place' # "again"
        /\ place' \notin {"queue", "discard", "store"}
    BY <1>1 DEF RoundBegins, SensorDue, BurstRead, BurstStatus, BurstValues, ReadFails,
                ReadPasses, RoundEnds, Go, queued, Enqueuing
  <2>2. new_sample = NoReading
    BY <2>1 DEF QueueInv, InHand
  <2>3. ~Enqueuing'
    BY <2>1, <2>2 DEF Enqueuing, NoReading
  <2> QED
    BY <2>1, <2>3, Untouched
<1>6. CASE AdvanceLoad \/ AdvanceStore
  <2>1. /\ UNCHANGED <<queue, taken, new_sample>> /\ place \in {"advance", "store"}
        /\ \/ place' = "store"
           \/ place' = "sensor" /\ new_sample.n = 0
           \/ place' = "queue" /\ new_sample.n # 0
    BY <1>6 DEF AdvanceLoad, AdvanceStore, AdvanceDone, Go, queued
  <2>2. Enqueuing' <=> Enqueuing
    BY <2>1 DEF Enqueuing
  <2> QED
    BY <2>1, <2>2, Untouched
<1>2. CASE ReadValue
  BY <1>2, ReadValueKeeps
<1>3. CASE EnqueueLatest
  <2>1. CASE Room
    BY <1>3, <2>1, AppendKeeps DEF EnqueueLatest, Room, Enqueuing
  <2>2. CASE ~Room
    BY <1>3, <2>2, Untouched DEF EnqueueLatest, Go, Enqueuing
  <2> QED
    BY <2>1, <2>2
<1>4. CASE DiscardOldest
  <2>1. UNCHANGED <<taken, new_sample>> /\ place = "discard" /\ place' = "again"
    BY <1>4 DEF DiscardOldest, Go
  <2>2. CASE queue = <<>>
    <3>1. queue' = queue /\ Len(queue) = 0
      BY <1>4, <2>2 DEF DiscardOldest
    <3> QED
      BY <2>1, <3>1, PeriodicBounds
      DEF QueueInv, QueueTyped, RoomIsMade, InHand, Enqueuing, NewestAreKept
  <2>3. CASE queue # <<>>
    <3>1. queue' = Tail(queue)
      BY <1>4, <2>3 DEF DiscardOldest
    <3>2. QueueTyped' /\ Len(queue') < SampleLength /\ NewestAreKept'
      BY <2>1, <2>3, <3>1, TailKeeps
    <3>3. \E S : queue' \in Seq(S)
      BY <3>2 DEF QueueTyped
    <3>4. RoomIsMade'
      BY <3>2, <3>3, PeriodicBounds DEF RoomIsMade
    <3>5. InHand'
      BY <2>1 DEF QueueInv, InHand, Enqueuing
    <3> QED
      BY <3>2, <3>4, <3>5 DEF QueueInv
  <2> QED
    BY <2>2, <2>3
<1>5. CASE EnqueueAgain
  <2>1. Room
    BY <1>5 DEF EnqueueAgain, QueueInv, RoomIsMade, Room
  <2> QED
    BY <1>5, <2>1, AppendKeeps DEF EnqueueAgain, Room, Enqueuing
<1> QED
  BY <1>1, <1>2, <1>3, <1>4, <1>5, <1>6 DEF PeriodicTask

LEMMA QueueStays == QueueInv /\ [PeriodicNext]_periodicVars => QueueInv'
<1> SUFFICES ASSUME QueueInv, [PeriodicNext]_periodicVars PROVE QueueInv'
  OBVIOUS
<1>1. CASE TimePasses \/ UNCHANGED periodicVars
  BY <1>1, Untouched DEF TimePasses, periodicVars, queued, Enqueuing
<1>2. CASE PeriodicStart \/ PeriodicStop \/ PeriodicDiscard
  BY <1>2, Emptied DEF PeriodicStart, PeriodicStop, PeriodicDiscard
<1>3. CASE PeriodicTask
  BY <1>3, TaskKeeps
<1>4. CASE PeriodicSend
  <2>1. queue # <<>> /\ queue' = Tail(queue) /\ UNCHANGED <<taken, new_sample, place>>
    BY <1>4 DEF PeriodicSend
  <2>2. QueueTyped' /\ Len(queue') < SampleLength /\ NewestAreKept'
    BY <2>1, TailKeeps
  <2>3. \E S : queue' \in Seq(S)
    BY <2>2 DEF QueueTyped
  <2>4. RoomIsMade' /\ InHand'
    BY <2>1, <2>2, <2>3, PeriodicBounds DEF QueueInv, RoomIsMade, InHand, Enqueuing
  <2> QED
    BY <2>2, <2>4 DEF QueueInv
<1> QED
  BY <1>1, <1>2, <1>3, <1>4 DEF PeriodicNext

\* enqueue_latest: what waits to be sent is a run of consecutive samples up to the last
\* one taken, for any queue length, sensors, commands and speed of sending.
THEOREM NewestKept == PeriodicSpec => []NewestAreKept
<1>1. QueueInv => NewestAreKept
  BY DEF QueueInv
<1> QED
  BY QueueInitially, QueueStays, <1>1, PTL DEF PeriodicSpec

-------------------------------------------------------------------------------
(* The periodic nodes: the values of a round *)

\* No recording has been started since the round began.
Current == round.starts = starts
StartsPast == round.starts =< starts /\ new_sample.starts =< starts
Numbered == place # "wait" => round.number = loop_now + 1

\* The first descriptor makes the burst.  A round that a start has interrupted finds its own
\* burst or the zero of the reset.
ByTheFirst == place \in {"burst", "status", "values"} => channel = 1
Burst ==
    /\ place = "status" => reading \in {0, round.number}
    /\ place = "values" => reading = round.number
FirstRead ==
    channel = 1 /\ place \in {"check", "value", "advance", "store"} /\ sample_status = "ok" =>
        values = round.number
Interrupted == ~Current /\ place # "wait" => values \in {0, round.number}

\* In a schedule that is in step, a status that is ok is of a burst of this round, if a
\* descriptor that is still to come is due in it.
OkNow == Current /\ sample_status = "ok"
ValuesKnown ==
    OkNow /\ starts \notin shifted =>
        /\ place \in {"check", "advance", "store"} => values = round.number
        /\ place \in {"sensor", "queue", "discard", "again"} =>
             \/ values = round.number
             \/ \A d \in Channel : Ahead(d) => next_sample[d] > loop_now
             \/ place = "sensor" /\ channel = 1 /\ next_sample[1] =< loop_now

ValueRead == Current /\ starts \notin shifted /\ place = "value" => values = round.number

\* In any schedule a burst is less than a period old, or the next one is due.
Young == values =< round.number /\ round.number < values + SamplePeriod
Fresh ==
    sample_status = "ok" /\ place # "values" =>
        /\ values =< moment + 1
        /\ next_sample[1] =< moment \/ next_sample[1] < values + SamplePeriod
YoungOrDue ==
    OkNow /\ place \notin {"wait", "burst", "status", "values"} =>
        Young \/ (channel = 1 /\ place = "sensor" /\ next_sample[1] =< loop_now)
YoungRead == Current /\ place = "value" => Young

SampleRight == new_sample.n # 0 => OfItsRound(new_sample)

Rounded == StartsPast /\ Numbered /\ ByTheFirst /\ Burst /\ FirstRead /\ Interrupted
Carried == ValuesKnown /\ ValueRead /\ Fresh /\ YoungOrDue /\ YoungRead

ValuesInv == Rounded /\ Carried /\ SampleRight /\ ValuesOfTheRound

LEMMA ValuesInitially == PeriodicInit => ValuesInv
<1> SUFFICES ASSUME PeriodicInit PROVE ValuesInv
  OBVIOUS
<1>1. queue = <<>> /\ Len(queue) = 0
  BY DEF PeriodicInit
<1>2. ValuesOfTheRound
  BY <1>1 DEF ValuesOfTheRound
<1>3. Rounded
  BY DEF PeriodicInit, NoReading, Rounded, StartsPast, Numbered, ByTheFirst, Burst, FirstRead,
         Interrupted
<1>4. Carried /\ SampleRight
  BY DEF PeriodicInit, NoReading, Carried, ValuesKnown, OkNow, ValueRead, Fresh, YoungOrDue,
         YoungRead, SampleRight
<1> QED
  BY <1>2, <1>3, <1>4 DEF ValuesInv

\* What the queue may do.
LEMMA QueueValues ==
  ASSUME PeriodicTypeOK, ValuesInv, UNCHANGED <<starts, shifted>>,
         \/ UNCHANGED queue \/ queue' = <<>>
         \/ queue # <<>> /\ queue' = Tail(queue)
         \/ new_sample.n # 0 /\ queue' = Append(queue, new_sample)
  PROVE  ValuesOfTheRound'
<1>1. queue \in Seq(SampleRecord)
  BY DEF PeriodicTypeOK
<1>2. \A k \in 1 .. Len(queue) : OfItsRound(queue[k])
  BY DEF ValuesInv, ValuesOfTheRound
<1>3. ASSUME NEW s, OfItsRound(s) PROVE OfItsRound(s)'
  BY <1>3 DEF OfItsRound
<1>m. ASSUME NEW k \in 1 .. Len(queue'),
             \/ \E j \in 1 .. Len(queue) : queue'[k] = queue[j]
             \/ queue'[k] = new_sample /\ new_sample.n # 0
      PROVE  \/ queue'[k].burst = queue'[k].round
             \/ queue'[k].burst = 0 /\ queue'[k].starts < starts
             \/ /\ queue'[k].starts \in shifted /\ queue'[k].burst =< queue'[k].round
                /\ queue'[k].round < queue'[k].burst + SamplePeriod
  BY <1>2, <1>m DEF ValuesInv, SampleRight, OfItsRound
<1>n. ASSUME \A k \in 1 .. Len(queue') :
                 \/ \E j \in 1 .. Len(queue) : queue'[k] = queue[j]
                 \/ queue'[k] = new_sample /\ new_sample.n # 0
      PROVE  ValuesOfTheRound'
  BY <1>m, <1>n DEF ValuesOfTheRound, OfItsRound
<1>4. CASE UNCHANGED queue
  BY <1>4, <1>n
<1>5. CASE queue' = <<>>
  BY <1>5, <1>n
<1>6. CASE queue # <<>> /\ queue' = Tail(queue)
  <2>1. ASSUME NEW k \in 1 .. Len(queue')
        PROVE  k + 1 \in 1 .. Len(queue) /\ queue'[k] = queue[k + 1]
    BY <1>1, <1>6
  <2> QED
    BY <1>n, <2>1
<1>7. CASE new_sample.n # 0 /\ queue' = Append(queue, new_sample)
  <2>1. ASSUME NEW k \in 1 .. Len(queue')
        PROVE  \/ k \in 1 .. Len(queue) /\ queue'[k] = queue[k]
               \/ queue'[k] = new_sample
    BY <1>1, <1>7
  <2> QED
    BY <1>n, <1>7, <2>1
<1> QED
  BY <1>4, <1>5, <1>6, <1>7

\* A new recording: whatever is under way is of an earlier one.
LEMMA StartForgets ==
  ASSUME PeriodicTypeOK, ValuesInv, PeriodicStart
  PROVE  ValuesInv'
<1>1. /\ starts \in Nat /\ round.starts \in Nat /\ new_sample.starts \in Nat
      /\ round.starts =< starts /\ new_sample.starts =< starts
  BY PeriodicBounds DEF PeriodicTypeOK, SampleRecord, ValuesInv, Rounded, StartsPast
<1>2. /\ starts' = starts + 1 /\ round' = round /\ new_sample' = new_sample /\ queue' = <<>>
      /\ place' = place /\ reading' = reading /\ channel' = channel /\ loop_now' = loop_now
      /\ sample_status' = "error" /\ values' = 0 /\ shifted \subseteq shifted'
  BY DEF PeriodicStart, start_mpu
<1>3. round'.starts < starts' /\ new_sample'.starts < starts'
  BY <1>1, <1>2
<1>4. ~Current' /\ StartsPast'
  BY <1>1, <1>2, <1>3 DEF Current, StartsPast
<1>5. Rounded'
  BY <1>2, <1>4 DEF ValuesInv, Rounded, Numbered, ByTheFirst, Burst, FirstRead, Interrupted
<1>6. Carried'
  BY <1>2, <1>4 DEF Carried, ValuesKnown, OkNow, ValueRead, Fresh, YoungOrDue, YoungRead
<1>7. ValuesOfTheRound'
  BY <1>2 DEF ValuesOfTheRound
<1>8. SampleRight'
  BY <1>1, <1>2 DEF ValuesInv, SampleRight, OfItsRound
<1> QED
  BY <1>5, <1>6, <1>7, <1>8 DEF ValuesInv

LEMMA RoundBeginsRight ==
  ASSUME PeriodicTypeOK, ScheduleInv, LeadsUnlessShifted, ValuesInv, RoundBegins
  PROVE  ValuesInv'
<1> USE PeriodicBounds
<1>1. /\ UNCHANGED <<next_sample, sample_status, values, reading, new_sample, queue, starts>>
      /\ UNCHANGED <<shifted, moment>>
      /\ loop_now' = moment /\ channel' = 1 /\ round'.starts = starts
      /\ round'.number = moment + 1 /\ place = "wait" /\ place' = "sensor"
  BY DEF RoundBegins, schedule, device, queued, TaskFrame, Go
<1>t. /\ \A d \in Channel : next_sample[d] \in Nat
      /\ 1 \in Channel /\ moment \in Nat /\ values \in Nat /\ starts \in Nat
  BY DEF PeriodicTypeOK, Channel, Moments, Rounds
<1>2. starts \notin shifted =>
          \/ next_sample[1] =< moment
          \/ \A d \in Channel : next_sample[d] > moment
  <2>1. starts \notin shifted => \A d \in Channel : next_sample[1] =< next_sample[d]
    BY <1>1 DEF LeadsUnlessShifted, FirstLeads, Ahead
  <2> QED
    BY <1>t, <2>1
<1>3. ValuesKnown'
  BY <1>1, <1>2 DEF ValuesKnown
<1>4. Rounded'
  BY <1>1, <1>t DEF ValuesInv, Rounded, StartsPast, Numbered, ByTheFirst, Burst, FirstRead,
                Interrupted, Current
<1>5. Fresh'
  BY <1>1 DEF ValuesInv, Carried, Fresh
<1>6. YoungOrDue'
  <2>1. ASSUME sample_status = "ok", ~ (next_sample[1] =< moment)
        PROVE  values =< moment + 1 /\ moment + 1 < values + SamplePeriod
    <3>1. values =< moment + 1 /\ next_sample[1] < values + SamplePeriod
      BY <1>1, <2>1 DEF ValuesInv, Carried, Fresh
    <3> QED
      BY <1>t, <2>1, <3>1
  <2> QED
    BY <1>1, <2>1 DEF YoungOrDue, OkNow, Young
<1>7. ValueRead' /\ YoungRead' /\ SampleRight'
  BY <1>1 DEF ValuesInv, ValueRead, YoungRead, SampleRight, OfItsRound
<1>8. ValuesOfTheRound'
  BY <1>1, QueueValues
<1> QED
  BY <1>3, <1>4, <1>5, <1>6, <1>7, <1>8 DEF ValuesInv, Carried

\* Steps in which sample_task has nothing to do with the values, nor with the sample.
LEMMA ValuesStill ==
  ASSUME PeriodicTypeOK, ValuesInv,
         UNCHANGED <<next_sample, loop_now, device, round, starts, place, channel, new_sample>>,
         UNCHANGED shifted, moment' \in {moment, moment + 1},
         UNCHANGED queue \/ queue' = <<>> \/ (queue # <<>> /\ queue' = Tail(queue))
  PROVE  ValuesInv'
<1>1. ValuesOfTheRound'
  BY QueueValues
<1>2. Rounded' /\ SampleRight'
  BY DEF ValuesInv, Rounded, StartsPast, Numbered, ByTheFirst, Burst, FirstRead,
         Interrupted, Current, SampleRight, OfItsRound, device
<1>3. ValuesKnown' /\ ValueRead' /\ YoungOrDue' /\ YoungRead'
  BY DEF ValuesInv, Carried, ValuesKnown, OkNow, ValueRead, YoungOrDue, YoungRead, Young, Current,
         Ahead, device
<1>4. Fresh'
  <2>1. moment \in Nat /\ next_sample[1] \in Nat /\ values \in Nat
    BY PeriodicBounds DEF PeriodicTypeOK, Moments, Channel, Rounds
  <2>2. ASSUME sample_status = "ok", place # "values"
        PROVE  /\ values =< moment + 1
               /\ next_sample[1] =< moment \/ next_sample[1] < values + SamplePeriod
    BY <2>2 DEF ValuesInv, Carried, Fresh
  <2>3. ASSUME sample_status = "ok", place # "values"
        PROVE  /\ values =< moment' + 1
               /\ next_sample[1] =< moment' \/ next_sample[1] < values + SamplePeriod
    <3>1. CASE moment' = moment
      BY <2>2, <2>3, <3>1
    <3>2. CASE moment' = moment + 1
      <4>1. /\ values =< moment + 1 + 1
            /\ next_sample[1] =< moment + 1 \/ next_sample[1] < values + SamplePeriod
        BY <2>1, <2>2, <2>3
      <4> QED
        BY <3>2, <4>1
    <3> QED
      BY <3>1, <3>2
  <2>4. UNCHANGED <<sample_status, place, values, next_sample>>
    BY DEF device
  <2> QED
    BY <2>3, <2>4 DEF Fresh
<1> QED
  BY <1>1, <1>2, <1>3, <1>4 DEF ValuesInv, Carried

\* The sample is queued, or the task is on its way to that.
LEMMA EnqueueRight ==
  ASSUME PeriodicTypeOK, BusyWithOne, ValuesInv, QueueInv,
         EnqueueLatest \/ DiscardOldest \/ EnqueueAgain
  PROVE  ValuesInv'
<1> USE PeriodicBounds
<1>1. /\ UNCHANGED <<next_sample, loop_now, device, round, starts, shifted, moment>>
      /\ place \in {"queue", "discard", "again"}
      /\ \/ place' = "sensor" /\ channel' = channel + 1 /\ new_sample' = NoReading
         \/ place' \in {"discard", "again"} /\ UNCHANGED <<channel, new_sample>>
      /\ \/ UNCHANGED queue
         \/ (queue # <<>> /\ queue' = Tail(queue))
         \/ queue' = Append(queue, new_sample)
  <2> USE DEF SampleDone, Go, TaskFrame, schedule
  <2>1. CASE EnqueueLatest
    BY <2>1 DEF EnqueueLatest
  <2>2. CASE DiscardOldest
    BY <2>2 DEF DiscardOldest
  <2>3. CASE EnqueueAgain
    BY <2>3 DEF EnqueueAgain
  <2> QED
    BY <2>1, <2>2, <2>3
<1>2. channel \in Channel /\ channel \in Nat \ {0} /\ starts \in Nat
  BY <1>1 DEF PeriodicTypeOK, BusyWithOne, Busy, Channel
<1>3. new_sample.n # 0
  BY <1>1 DEF QueueInv, InHand, Enqueuing, QueueTyped
<1>4. \A d \in Channel : Ahead(d)' <=> Ahead(d)
  BY <1>1, <1>2 DEF Ahead, Channel
<1>5. ValuesKnown'
  BY <1>1, <1>4 DEF ValuesInv, Carried, ValuesKnown, OkNow, Current, device
<1>6. ValueRead' /\ YoungRead' /\ YoungOrDue' /\ Fresh'
  BY <1>1 DEF ValuesInv, Carried, ValueRead, YoungRead, YoungOrDue, Young, Fresh, OkNow, Current,
              device
<1>7. StartsPast' /\ SampleRight'
  BY <1>1, <1>2 DEF ValuesInv, Rounded, StartsPast, SampleRight, OfItsRound, NoReading
<1>8. Numbered' /\ ByTheFirst' /\ Burst' /\ FirstRead' /\ Interrupted'
  BY <1>1, <1>2 DEF ValuesInv, Rounded, Numbered, ByTheFirst, Burst, FirstRead, Interrupted,
                    Current, device
<1>9. ValuesOfTheRound'
  BY <1>1, <1>3, QueueValues
<1> QED
  BY <1>5, <1>6, <1>7, <1>8, <1>9 DEF ValuesInv, Rounded, Carried

\* What the steps between finding out what is due and storing the next due time keep.
LEMMA RoundFrame ==
  ASSUME PeriodicTypeOK, ValuesInv,
         \/ SensorDue \/ BurstRead \/ BurstStatus \/ BurstValues \/ ReadPasses \/ ReadFails
         \/ AdvanceLoad \/ AdvanceStore \/ RoundEnds
  PROVE  /\ ValuesOfTheRound' /\ StartsPast' /\ SampleRight'
         /\ UNCHANGED <<loop_now, round, starts, shifted, moment>>
<1>1. UNCHANGED <<loop_now, round, starts, queue, new_sample, shifted, moment>>
  BY DEF SensorDue, BurstRead, BurstStatus, BurstValues, ReadPasses, ReadFails, AdvanceLoad,
         AdvanceStore, RoundEnds, TaskFrame, schedule, queued
<1> QED
  BY <1>1, QueueValues DEF ValuesInv, Rounded, StartsPast, SampleRight, OfItsRound

\* Finding out what is due.
LEMMA SensorDueRight ==
  ASSUME PeriodicTypeOK, ValuesInv, SensorDue
  PROVE  Rounded' /\ Carried'
<1> USE PeriodicBounds
<1>0. /\ loop_now \in Nat /\ channel \in Nat \ {0} /\ \A c \in Channel : next_sample[c] \in Nat
      /\ values \in Nat /\ round.number \in Nat
  BY DEF PeriodicTypeOK, Moments, Rounds
<1>1. /\ UNCHANGED <<next_sample, sample_status, values, reading>>
      /\ UNCHANGED <<loop_now, round, starts, shifted, moment>>
      /\ place = "sensor" /\ channel \in Channel
  <2>1. UNCHANGED <<loop_now, round, starts, shifted, moment>>
    BY RoundFrame
  <2> QED
    BY <1>0, <2>1 DEF SensorDue, PeriodicTypeOK, Channel, schedule, device
<1>2. \/ place' = "burst" /\ channel' = channel /\ channel = 1
      \/ /\ place' = "check" /\ channel' = channel /\ channel # 1
         /\ next_sample[channel] =< loop_now
      \/ place' = "sensor" /\ channel' = channel + 1 /\ ~ (next_sample[channel] =< loop_now)
  BY <1>0, <1>1 DEF SensorDue, Go
<1>3. Rounded'
  BY <1>0, <1>1, <1>2, RoundFrame
  DEF ValuesInv, Rounded, Numbered, ByTheFirst, Burst, FirstRead, Interrupted, Current
<1>4. Fresh' /\ ValueRead' /\ YoungRead'
  BY <1>1, <1>2 DEF ValuesInv, Carried, Fresh, ValueRead, YoungRead
<1>5. YoungOrDue'
  BY <1>0, <1>1, <1>2 DEF ValuesInv, Carried, YoungOrDue, Young, OkNow, Current
<1>6. ValuesKnown'
  <2>2. CASE place' = "burst"
    BY <2>2 DEF ValuesKnown
  <2>3. CASE place' = "check"
    <3>1. channel # 1 /\ next_sample[channel] =< loop_now /\ Ahead(channel)
      BY <1>0, <1>1, <1>2, <2>3 DEF Ahead
    <3>2. ~ (next_sample[channel] > loop_now)
      BY <1>0, <1>1, <3>1
    <3> QED
      BY <1>1, <2>3, <3>1, <3>2 DEF ValuesInv, Carried, ValuesKnown, OkNow, Current
  <2>4. CASE place' = "sensor"
    <3>1. channel' = channel + 1 /\ ~ (next_sample[channel] =< loop_now)
      BY <1>2, <2>4
    <3>2. ASSUME NEW d \in Channel, Ahead(d)' PROVE Ahead(d)
      BY <1>0, <1>1, <2>4, <3>1, <3>2 DEF Ahead, Channel
    <3>3. ~ (channel = 1 /\ next_sample[1] =< loop_now)
      BY <3>1
    <3> QED
      BY <1>1, <2>4, <3>2, <3>3 DEF ValuesInv, Carried, ValuesKnown, OkNow, Current
  <2> QED
    BY <1>2, <2>2, <2>3, <2>4
<1> QED
  BY <1>3, <1>4, <1>5, <1>6 DEF Carried

\* The burst, and what becomes of it.
LEMMA BurstRight ==
  ASSUME PeriodicTypeOK, BusyWithOne, ScheduleInv, ValuesInv,
         \/ BurstRead \/ BurstStatus \/ BurstValues \/ ReadPasses \/ ReadFails \/ RoundEnds
  PROVE  Rounded' /\ Carried'
<1> USE PeriodicBounds DEF Go, TaskFrame, schedule, device, queued
<1>0. /\ loop_now \in Nat /\ round.number \in Nat /\ values \in Nat /\ moment \in Nat
      /\ loop_now =< moment
  BY DEF PeriodicTypeOK, Moments, Rounds, ScheduleInv, OnTime
<1>1. UNCHANGED <<loop_now, round, starts, shifted, moment, next_sample, channel>> /\ StartsPast'
  <2>1. UNCHANGED <<next_sample, channel>>
    BY DEF BurstRead, BurstStatus, BurstValues, ReadPasses, ReadFails, RoundEnds
  <2> QED
    BY <2>1, RoundFrame
<1>2. CASE BurstRead
  <2>1. /\ place = "burst" /\ place' = "status" /\ UNCHANGED <<sample_status, values>>
        /\ reading' \in {0, round.number}
    BY <1>2 DEF BurstRead
  <2>2. Rounded'
    BY <1>1, <2>1 DEF ValuesInv, Rounded, Numbered, ByTheFirst, Burst, FirstRead, Interrupted,
                      Current
  <2> QED
    BY <1>1, <2>1, <2>2 DEF ValuesInv, Carried, ValuesKnown, ValueRead, Fresh, YoungOrDue, YoungRead
<1>3. CASE BurstStatus
  <2>1. /\ place = "status" /\ UNCHANGED <<values, reading>>
        /\ \/ reading = 0 /\ sample_status' = "error" /\ place' = "check"
           \/ reading # 0 /\ sample_status' = "ok" /\ place' = "values"
    BY <1>3 DEF BurstStatus
  <2>2. Rounded'
    BY <1>1, <2>1 DEF ValuesInv, Rounded, Numbered, ByTheFirst, Burst, FirstRead, Interrupted,
                      Current
  <2>3. sample_status' = "error" \/ place' = "values"
    BY <2>1
  <2> QED
    BY <2>1, <2>2, <2>3 DEF Carried, ValuesKnown, OkNow, ValueRead, Fresh, YoungOrDue, YoungRead
<1>4. CASE BurstValues
  <2>1. /\ place = "values" /\ place' = "check" /\ UNCHANGED sample_status
        /\ values' = round.number /\ round.number = loop_now + 1
    BY <1>4 DEF BurstValues, ValuesInv, Rounded, Burst, Numbered
  <2>2. Rounded'
    BY <1>1, <2>1 DEF ValuesInv, Rounded, Numbered, ByTheFirst, Burst, FirstRead, Interrupted,
                      Current
  <2>3. Young'
    BY <1>0, <1>1, <2>1 DEF Young
  <2>4. Fresh'
    <3>1. next_sample[1] =< moment
      BY <2>1 DEF ScheduleInv, DueNow, ValuesInv, Rounded, ByTheFirst
    <3> QED
      BY <1>0, <1>1, <2>1, <3>1 DEF Fresh
  <2> QED
    BY <1>1, <2>1, <2>2, <2>3, <2>4 DEF Carried, ValuesKnown, ValueRead, YoungOrDue, YoungRead
<1>5. CASE ReadPasses
  <2>1. /\ place = "check" /\ place' = "value" /\ UNCHANGED <<sample_status, values, reading>>
        /\ sample_status = "ok"
    BY <1>5 DEF ReadPasses
  <2>2. Rounded'
    BY <1>1, <2>1 DEF ValuesInv, Rounded, Numbered, ByTheFirst, Burst, FirstRead, Interrupted,
                      Current
  <2>3. ValuesKnown' /\ ValueRead' /\ Fresh'
    BY <1>1, <2>1 DEF ValuesInv, Carried, ValuesKnown, ValueRead, Fresh, OkNow, Current
  <2>4. YoungOrDue' /\ YoungRead'
    BY <1>1, <2>1 DEF ValuesInv, Carried, YoungOrDue, YoungRead, Young, OkNow, Current
  <2> QED
    BY <2>2, <2>3, <2>4 DEF Carried
<1>6. CASE ReadFails
  <2>1. /\ place = "check" /\ place' = "advance" /\ UNCHANGED <<sample_status, values, reading>>
        /\ sample_status # "ok"
    BY <1>6 DEF ReadFails
  <2>2. Rounded'
    BY <1>1, <2>1 DEF ValuesInv, Rounded, Numbered, ByTheFirst, Burst, FirstRead, Interrupted,
                      Current
  <2> QED
    BY <2>1, <2>2 DEF Carried, ValuesKnown, OkNow, ValueRead, Fresh, YoungOrDue, YoungRead
<1>7. CASE RoundEnds
  <2>1. place = "sensor" /\ place' = "wait" /\ UNCHANGED <<sample_status, values, reading>>
    BY <1>7 DEF RoundEnds
  <2>2. Rounded'
    BY <1>1, <2>1 DEF ValuesInv, Rounded, Numbered, ByTheFirst, Burst, FirstRead, Interrupted
  <2> QED
    BY <1>1, <2>1, <2>2
    DEF ValuesInv, Carried, ValuesKnown, ValueRead, Fresh, YoungOrDue, YoungRead
<1> QED
  BY <1>2, <1>3, <1>4, <1>5, <1>6, <1>7

\* The due time is moved on, in two steps.
LEMMA AdvanceRight ==
  ASSUME PeriodicTypeOK, BusyWithOne, ScheduleInv, ValuesInv, AdvanceLoad \/ AdvanceStore
  PROVE  Rounded' /\ Carried'
<1> USE PeriodicBounds
<1>0. /\ loop_now \in Nat /\ round.number \in Nat /\ values \in Nat /\ moment \in Nat
      /\ loop_now =< moment /\ channel \in Channel /\ channel \in Nat \ {0}
  <2>1. Busy
    BY DEF AdvanceLoad, AdvanceStore, Busy
  <2> QED
    BY <2>1 DEF PeriodicTypeOK, Moments, Rounds, ScheduleInv, OnTime, BusyWithOne, Channel
<1>1. /\ UNCHANGED <<loop_now, round, starts, shifted, moment>> /\ StartsPast'
      /\ UNCHANGED <<sample_status, values, reading>>
  BY RoundFrame DEF AdvanceLoad, AdvanceStore, device
<1>2. /\ place \in {"advance", "store"}
      /\ \/ place' = "store" /\ channel' = channel
         \/ place' = "sensor" /\ channel' = channel + 1
         \/ place' = "queue" /\ channel' = channel
  BY DEF AdvanceLoad, AdvanceStore, AdvanceDone, Go
<1>3. Rounded'
  BY <1>0, <1>1, <1>2
  DEF ValuesInv, Rounded, Numbered, ByTheFirst, Burst, FirstRead, Interrupted, Current
<1>4. ValuesKnown' /\ ValueRead'
  BY <1>1, <1>2 DEF ValuesInv, Carried, ValuesKnown, ValueRead, OkNow, Current
<1>5. YoungOrDue' /\ YoungRead'
  BY <1>1, <1>2 DEF ValuesInv, Carried, YoungOrDue, YoungRead, Young, OkNow, Current
<1>6. Fresh'
  <2>1. CASE next_sample'[1] = next_sample[1]
    BY <1>1, <1>2, <2>1 DEF ValuesInv, Carried, Fresh
  <2>2. CASE next_sample'[1] # next_sample[1] /\ sample_status = "ok"
    <3>1. AdvanceStore
      BY <2>2 DEF AdvanceLoad
    <3>2. channel = 1 /\ next_sample'[1] = Caught /\ next_sample[channel] =< loop_now
      <4>1. 1 \in Channel
        BY DEF Channel
      <4> QED
        BY <2>2, <3>1, <4>1, Stored
    <3>3. Caught =< loop_now + SamplePeriod /\ Caught \in Nat
      BY <1>0, <3>2, CaughtUpTyped
    <3>4. values = round.number /\ round.number = loop_now + 1
      BY <1>2, <2>2, <3>2 DEF ValuesInv, Rounded, FirstRead, Numbered
    <3>5. next_sample'[1] < values + SamplePeriod /\ values =< moment + 1
      BY <1>0, <3>2, <3>3, <3>4
    <3> QED
      BY <1>1, <3>5 DEF Fresh
  <2>3. CASE sample_status # "ok"
    BY <1>1, <2>3 DEF Fresh
  <2> QED
    BY <2>1, <2>2, <2>3
<1> QED
  BY <1>3, <1>4, <1>5, <1>6 DEF Carried

\* The sample is made of the round's number and of the values as they are now.
LEMMA ReadValueRight ==
  ASSUME PeriodicTypeOK, ValuesInv, ReadValue
  PROVE  ValuesInv'
<1>1. /\ UNCHANGED <<loop_now, round, starts, queue, sample_status, values, channel, reading>>
      /\ UNCHANGED <<shifted, moment, next_sample>>
      /\ place = "value" /\ place' = "advance"
      /\ new_sample'.starts = round.starts /\ new_sample'.round = round.number
      /\ new_sample'.burst = values
  BY DEF ReadValue, TaskFrame, Go, device, schedule
<1>2. \/ values = round.number
      \/ values = 0 /\ round.starts < starts
      \/ round.starts \in shifted /\ Young
  <2>1. round.starts \in Nat /\ starts \in Nat /\ round.starts =< starts
    BY PeriodicBounds DEF PeriodicTypeOK, ValuesInv, Rounded, StartsPast
  <2>2. CASE ~Current
    <3>1. values \in {0, round.number}
      BY <1>1, <2>2 DEF ValuesInv, Rounded, Interrupted
    <3>2. round.starts < starts
      BY <2>1, <2>2 DEF Current
    <3> QED
      BY <3>1, <3>2
  <2>3. CASE Current
    BY <1>1, <2>3 DEF ValuesInv, Carried, ValueRead, YoungRead, Current
  <2> QED
    BY <2>2, <2>3
<1>3. SampleRight'
  BY <1>1, <1>2 DEF SampleRight, OfItsRound, Young
<1>4. Rounded'
  BY <1>1 DEF ValuesInv, Rounded, StartsPast, Numbered, ByTheFirst, Burst, FirstRead,
              Interrupted, Current
<1>5. Fresh' /\ YoungOrDue' /\ YoungRead'
  BY <1>1 DEF ValuesInv, Carried, Fresh, YoungOrDue, YoungRead, Young, OkNow, Current
<1>6. ValuesKnown' /\ ValueRead'
  BY <1>1 DEF ValuesInv, Carried, ValuesKnown, ValueRead, OkNow, Current
<1>7. ValuesOfTheRound'
  BY <1>1, QueueValues
<1> QED
  BY <1>3, <1>4, <1>5, <1>6, <1>7 DEF ValuesInv, Carried

LEMMA ValuesStay ==
  ASSUME PeriodicTypeOK, BusyWithOne, ScheduleInv, LeadsUnlessShifted, QueueInv, ValuesInv,
         [PeriodicNext]_periodicVars
  PROVE  ValuesInv'
<1>1. CASE \/ TimePasses \/ PeriodicStop \/ PeriodicDiscard \/ PeriodicSend
           \/ UNCHANGED periodicVars
  <2>1. /\ UNCHANGED <<next_sample, loop_now, device, round, starts, place, channel, new_sample>>
        /\ UNCHANGED shifted /\ moment' \in {moment, moment + 1}
        /\ UNCHANGED queue \/ queue' = <<>> \/ (queue # <<>> /\ queue' = Tail(queue))
    <3>1. CASE TimePasses \/ UNCHANGED periodicVars
      BY <3>1 DEF TimePasses, periodicVars, schedule, queued, past
    <3>2. CASE PeriodicStop \/ PeriodicDiscard \/ PeriodicSend
      BY <3>2 DEF PeriodicStop, PeriodicDiscard, PeriodicSend, schedule, past
    <3> QED
      BY <1>1, <3>1, <3>2
  <2> QED
    BY <2>1, ValuesStill
<1>2. CASE PeriodicStart
  BY <1>2, StartForgets
<1>3. CASE RoundBegins
  BY <1>3, RoundBeginsRight
<1>4. CASE \/ SensorDue \/ BurstRead \/ BurstStatus \/ BurstValues \/ ReadPasses \/ ReadFails
           \/ AdvanceLoad \/ AdvanceStore \/ RoundEnds
  <2>1. Rounded' /\ Carried'
    BY <1>4, SensorDueRight, BurstRight, AdvanceRight
  <2> QED
    BY <1>4, <2>1, RoundFrame DEF ValuesInv
<1>5. CASE ReadValue
  BY <1>5, ReadValueRight
<1>6. CASE EnqueueLatest \/ DiscardOldest \/ EnqueueAgain
  BY <1>6, EnqueueRight
<1> QED
  BY <1>1, <1>2, <1>3, <1>4, <1>5, <1>6 DEF PeriodicNext, PeriodicTask

-------------------------------------------------------------------------------
(* The periodic nodes: theorems *)

\* The queue's invariant has its own theorem; this one is for the other three properties.
PeriodicInv ==
    /\ PeriodicTypeOK /\ BusyWithOne /\ ScheduleInv /\ LeadsUnlessShifted
    /\ QueueInv /\ ValuesInv

LEMMA PeriodicInitially == PeriodicInit => PeriodicInv
BY PeriodicTypesInitially, ScheduleInitially, LeadsInitially, QueueInitially, ValuesInitially
   DEF PeriodicInv, LeadsUnlessShifted

LEMMA PeriodicStays == PeriodicInv /\ [PeriodicNext]_periodicVars => PeriodicInv'
<1> SUFFICES ASSUME PeriodicInv, [PeriodicNext]_periodicVars PROVE PeriodicInv'
  OBVIOUS
<1>1. PeriodicTypeOK' /\ BusyWithOne'
  BY PeriodicTypesStay DEF PeriodicInv
<1>2. ScheduleInv'
  BY ScheduleStays DEF PeriodicInv
<1>3. LeadsUnlessShifted'
  <2>1. ASSUME starts' \notin shifted' PROVE FirstLeads'
    BY <2>1, LeadsAlways DEF PeriodicInv
  <2> QED
    BY <2>1 DEF LeadsUnlessShifted
<1>4. QueueInv'
  BY QueueStays DEF PeriodicInv
<1>5. ValuesInv'
  BY ValuesStay DEF PeriodicInv
<1> QED
  BY <1>1, <1>2, <1>3, <1>4, <1>5 DEF PeriodicInv

LEMMA PeriodicHolds == PeriodicSpec => []PeriodicInv
BY PeriodicInitially, PeriodicStays, PTL DEF PeriodicSpec

\* sample_task advancing next_sample_us past what it missed: a stall costs samples, no
\* slot of a sensor's schedule gets two of them; it may, but not more, in a recording
\* whose start came between the load and the store of a due time.
THEOREM OnePerSlot == PeriodicSpec => []OncePerSlot
<1>1. PeriodicInv => OncePerSlot
  BY DEF PeriodicInv, ScheduleInv
<1> QED
  BY PeriodicHolds, <1>1, PTL

\* mpu6500.c sharing one burst read: a sample holds the burst that its round has read,
\* whatever failed before.  In the round that a start interrupts it may hold the zero of
\* the reset, and in a recording whose start came between the load and the store of a due
\* time an older burst, which is less than a period old.
THEOREM ValuesAreOfTheRound == PeriodicSpec => []ValuesOfTheRound
<1>1. PeriodicInv => ValuesOfTheRound
  BY DEF PeriodicInv, ValuesInv
<1> QED
  BY PeriodicHolds, <1>1, PTL
-------------------------------------------------------------------------------
(* Induction on the natural numbers, as a fact about sets of them, and sums *)

LEMMA LeastNat ==
  ASSUME NEW T \in SUBSET Nat, T # {}
  PROVE  \E n \in T : \A m \in T : n =< m
<1> DEFINE U == {0 .. n - 1 : n \in T}
<1>1. U \subseteq FiniteSubsetsOf(Nat) /\ U # {}
  <2>1. ASSUME NEW n \in T PROVE IsFiniteSet(0 .. n - 1) /\ 0 .. n - 1 \subseteq Nat
    BY FS_Interval
  <2> QED
    BY <2>1 DEF FiniteSubsetsOf
<1>2. IsWellFoundedOn(StrictSubsetOrdering(Nat), FiniteSubsetsOf(Nat))
  BY FS_StrictSubsetOrderingWellFounded
<1>3. \E x \in U : \A y \in U : ~ (<<y, x>> \in StrictSubsetOrdering(Nat))
  BY <1>1, <1>2, WFMin
<1>4. PICK n \in T : \A m \in T : ~ (<<0 .. m - 1, 0 .. n - 1>> \in StrictSubsetOrdering(Nat))
  BY <1>3
<1>5. ASSUME NEW m \in T, m < n PROVE FALSE
  <2>1. 0 .. m - 1 \subseteq 0 .. n - 1 /\ n - 1 \in 0 .. n - 1 /\ n - 1 \notin 0 .. m - 1
    BY <1>5
  <2>2. \A A, B \in SUBSET Nat :
            A \subseteq B /\ A # B => <<A, B>> \in StrictSubsetOrdering(Nat)
    BY DEF StrictSubsetOrdering
  <2>3. 0 .. m - 1 \in SUBSET Nat /\ 0 .. n - 1 \in SUBSET Nat /\ 0 .. m - 1 # 0 .. n - 1
    BY <2>1
  <2>4. <<0 .. m - 1, 0 .. n - 1>> \in StrictSubsetOrdering(Nat)
    BY <2>1, <2>2, <2>3, Zenon
  <2> QED
    BY <2>4, <1>4
<1> QED
  BY <1>4, <1>5

LEMMA Inductive ==
  ASSUME NEW S, S \subseteq Nat, 0 \in S, \A n \in S : n + 1 \in S
  PROVE  \A n \in Nat : n \in S
<1> DEFINE T == Nat \ S
<1>1. SUFFICES ASSUME T # {} PROVE FALSE
  BY DEF T
<1>2. PICK n \in T : \A m \in T : n =< m
  BY <1>1, LeastNat
<1>3. n # 0 /\ n \in Nat
  OBVIOUS
<1>4. n - 1 \in Nat /\ ~ (n =< n - 1) /\ n - 1 + 1 = n
  BY <1>3
<1>5. n - 1 \in S
  BY <1>2, <1>4
<1> QED
  BY <1>4, <1>5

\* What the recursive function of Total is, and that there is one.
IsSum(g, f, n) == g = [i \in 0 .. n |-> IF i = 0 THEN 0 ELSE f[i - 1] + g[i - 1]]

LEMMA SumExists == ASSUME NEW f, NEW n \in Nat PROVE \E g : IsSum(g, f, n)
<1> DEFINE S == {k \in Nat : \E g : IsSum(g, f, k)}
<1>1. 0 \in S
  <2>1. IsSum([i \in 0 .. 0 |-> 0], f, 0)
    BY DEF IsSum
  <2> QED
    BY <2>1
<1>2. ASSUME NEW k \in S PROVE k + 1 \in S
  <2>1. PICK g : IsSum(g, f, k)
    OBVIOUS
  <2> DEFINE h == [i \in 0 .. k + 1 |-> IF i = k + 1 THEN f[k] + g[k] ELSE g[i]]
  <2>2. \A i \in 0 .. k + 1 : h[i] = IF i = 0 THEN 0 ELSE f[i - 1] + h[i - 1]
    BY <2>1 DEF IsSum
  <2>3. IsSum(h, f, k + 1)
    BY <2>2 DEF IsSum
  <2> QED
    BY <2>3
<1> HIDE DEF S
<1>3. \A k \in Nat : k \in S
  BY <1>1, <1>2, Inductive DEF S
<1> QED
  BY <1>3 DEF S

LEMMA TotalIs ==
  ASSUME NEW f, NEW n \in Nat
  PROVE  \E g : IsSum(g, f, n) /\ Total(f, n) = g[n]
<1> DEFINE s == CHOOSE g : IsSum(g, f, n)
<1>1. IsSum(s, f, n)
  BY SumExists
<1>2. Total(f, n) = s[n]
  BY DEF Total, IsSum
<1> QED
  BY <1>1, <1>2

LEMMA SumsAgree ==
  ASSUME NEW f, NEW n \in Nat, NEW m \in Nat, n =< m, NEW g, NEW h, IsSum(g, f, n), IsSum(h, f, m)
  PROVE  \A k \in 0 .. n : g[k] = h[k]
<1> DEFINE S == {k \in Nat : k =< n => g[k] = h[k]}
<1>1. 0 \in S
  BY DEF IsSum
<1>2. ASSUME NEW k \in S PROVE k + 1 \in S
  BY DEF IsSum
<1> HIDE DEF S
<1>3. \A k \in Nat : k \in S
  BY <1>1, <1>2, Inductive DEF S
<1> QED
  BY <1>3 DEF S

LEMMA TotalSteps ==
  ASSUME NEW f
  PROVE  /\ Total(f, 0) = 0
         /\ \A n \in Nat : Total(f, n + 1) = f[n] + Total(f, n)
<1>1. Total(f, 0) = 0
  <2>1. PICK g : IsSum(g, f, 0) /\ Total(f, 0) = g[0]
    BY TotalIs
  <2> QED
    BY <2>1 DEF IsSum
<1>2. ASSUME NEW n \in Nat PROVE Total(f, n + 1) = f[n] + Total(f, n)
  <2>1. PICK g : IsSum(g, f, n) /\ Total(f, n) = g[n]
    BY TotalIs
  <2>2. PICK h : IsSum(h, f, n + 1) /\ Total(f, n + 1) = h[n + 1]
    BY TotalIs
  <2>3. g[n] = h[n]
    BY <2>1, <2>2, SumsAgree
  <2>4. h[n + 1] = f[n] + h[n]
    BY <2>2 DEF IsSum
  <2> QED
    BY <2>1, <2>2, <2>3, <2>4
<1> QED
  BY <1>1, <1>2

LEMMA TotalTyped ==
  ASSUME NEW S, S \in {Int, Nat}, NEW f, NEW n \in Nat, \A i \in 0 .. n - 1 : f[i] \in S
  PROVE  Total(f, n) \in S
<1> DEFINE K == {k \in Nat : k =< n => Total(f, k) \in S}
<1>1. 0 \in K
  BY TotalSteps
<1>2. ASSUME NEW k \in K PROVE k + 1 \in K
  <2>1. Total(f, k + 1) = f[k] + Total(f, k)
    BY TotalSteps
  <2> QED
    BY <2>1
<1> HIDE DEF K
<1>3. \A k \in Nat : k \in K
  BY <1>1, <1>2, Inductive DEF K
<1> QED
  BY <1>3 DEF K

LEMMA TotalSame ==
  ASSUME NEW f, NEW h, NEW n \in Nat, \A i \in 0 .. n - 1 : f[i] = h[i]
  PROVE  Total(f, n) = Total(h, n)
<1> DEFINE K == {k \in Nat : k =< n => Total(f, k) = Total(h, k)}
<1>1. 0 \in K
  BY TotalSteps
<1>2. ASSUME NEW k \in K PROVE k + 1 \in K
  <2>1. Total(f, k + 1) = f[k] + Total(f, k) /\ Total(h, k + 1) = h[k] + Total(h, k)
    BY TotalSteps
  <2> QED
    BY <2>1
<1> HIDE DEF K
<1>3. \A k \in Nat : k \in K
  BY <1>1, <1>2, Inductive DEF K
<1> QED
  BY <1>3 DEF K

\* A slot is overwritten.
LEMMA TotalChanged ==
  ASSUME NEW f, NEW h, NEW n \in Nat, NEW j \in 0 .. n - 1,
         \A i \in 0 .. n - 1 : f[i] \in Int, \A i \in 0 .. n - 1 : h[i] \in Int,
         \A i \in 0 .. n - 1 : i # j => h[i] = f[i]
  PROVE  Total(h, n) = Total(f, n) - f[j] + h[j]
<1> DEFINE K == {k \in Nat : k =< n =>
                    /\ Total(f, k) \in Int
                    /\ Total(h, k) = IF k =< j THEN Total(f, k) ELSE Total(f, k) - f[j] + h[j]}
<1>1. 0 \in K
  BY TotalSteps
<1>2. ASSUME NEW k \in K PROVE k + 1 \in K
  <2>1. Total(f, k + 1) = f[k] + Total(f, k) /\ Total(h, k + 1) = h[k] + Total(h, k)
    BY TotalSteps
  <2>2. CASE k + 1 =< n
    <3>1. k \in 0 .. n - 1
      BY <2>2
    <3>2. f[k] \in Int /\ h[k] \in Int /\ f[j] \in Int /\ h[j] \in Int
      BY <3>1
    <3>3. CASE k < j
      BY <2>1, <2>2, <3>1, <3>2, <3>3
    <3>4. CASE k = j
      BY <2>1, <2>2, <3>1, <3>2, <3>4
    <3>5. CASE j < k
      BY <2>1, <2>2, <3>1, <3>2, <3>5
    <3> QED
      BY <3>3, <3>4, <3>5
  <2> QED
    BY <2>2
<1> HIDE DEF K
<1>3. \A k \in Nat : k \in K
  BY <1>1, <1>2, Inductive DEF K
<1> QED
  BY <1>3 DEF K

-------------------------------------------------------------------------------
(* The wheel speed: the quadrature and types *)

\* The interrupt counts the edge that the wheel made, forward or backward, or none.
LEMMA Quadrature ==
  ASSUME NEW p \in Int, NEW d \in {-1, 0, 1}
  PROVE  /\ Lines(p) \in 0 .. 3
         /\ encoder_transition(Lines(p), Lines(p + d)) = d
<1>1. p % 4 \in {0, 1, 2, 3}
  OBVIOUS
<1>2. /\ p % 4 = 0 => Lines(p) = 0 /\ (p + 1) % 4 = 1 /\ (p + -1) % 4 = 3
      /\ p % 4 = 1 => Lines(p) = 2 /\ (p + 1) % 4 = 2 /\ (p + -1) % 4 = 0
      /\ p % 4 = 2 => Lines(p) = 3 /\ (p + 1) % 4 = 3 /\ (p + -1) % 4 = 1
      /\ p % 4 = 3 => Lines(p) = 1 /\ (p + 1) % 4 = 0 /\ (p + -1) % 4 = 2
  BY DEF Lines
<1>3. /\ \A q \in Int : /\ q % 4 = 0 => Lines(q) = 0
                        /\ q % 4 = 1 => Lines(q) = 2
                        /\ q % 4 = 2 => Lines(q) = 3
                        /\ q % 4 = 3 => Lines(q) = 1
  BY DEF Lines
<1>4. /\ encoder_transition(0, 0) = 0 /\ encoder_transition(2, 2) = 0
      /\ encoder_transition(3, 3) = 0 /\ encoder_transition(1, 1) = 0
      /\ encoder_transition(0, 2) = 1 /\ encoder_transition(2, 3) = 1
      /\ encoder_transition(3, 1) = 1 /\ encoder_transition(1, 0) = 1
      /\ encoder_transition(0, 1) = -1 /\ encoder_transition(1, 3) = -1
      /\ encoder_transition(3, 2) = -1 /\ encoder_transition(2, 0) = -1
  BY DEF encoder_transition
<1>5. CASE d = 0
  <2>1. p + d = p
    BY <1>5
  <2> QED
    BY <1>1, <1>2, <1>4, <1>5, <2>1
<1>6. CASE d = 1
  <2>1. Lines(p + 1) = IF p % 4 = 0 THEN 2 ELSE IF p % 4 = 1 THEN 3 ELSE IF p % 4 = 2 THEN 1 ELSE 0
    BY <1>1, <1>2, <1>3
  <2> QED
    BY <1>1, <1>2, <1>4, <1>6, <2>1
<1>7. CASE d = -1
  <2>1. Lines(p + -1) = IF p % 4 = 0 THEN 1 ELSE IF p % 4 = 1 THEN 0 ELSE IF p % 4 = 2 THEN 2 ELSE 3
    BY <1>1, <1>2, <1>3
  <2> QED
    BY <1>1, <1>2, <1>4, <1>7, <2>1
<1> QED
  BY <1>5, <1>6, <1>7

\* Edges are served one by one, and the interrupt knows the lines of the last one.
EdgesServed ==
    /\ last_state = Lines(served)
    /\ wheel - served \in {-1, 0, 1}

\* What the task read is in the past.
ReadsPast ==
    /\ last_read =< time /\ now_read =< time
    /\ reader = "swap" \/ reader = "window" => elapsed \in Clock

LEMMA EncoderTypesInitially == EncoderInit => EncoderTypeOK /\ EdgesServed /\ ReadsPast
<1> SUFFICES ASSUME EncoderInit PROVE EncoderTypeOK /\ EdgesServed /\ ReadsPast
  OBVIOUS
<1> USE EncoderBounds
<1>1. 0 \in Clock /\ 1 \in Clock /\ 0 \in Positions /\ 0 \in Slots /\ 0 \in 0 .. Window
      /\ 0 \in 0 .. MaxSpins
  BY DEF Clock, Positions, Slots
<1>2. Lines(0) \in 0 .. 3
  BY Quadrature
<1>3. marks \in Seq([at : Clock, wheel : Positions]) /\ Len(marks) =< Window + 1
  <2>1. marks = <<>> /\ Len(<<>>) = 0
    BY DEF EncoderInit
  <2> QED
    BY <2>1, Emptiness
<1>4. /\ count_window \in [Slots -> Int] /\ time_window \in [Slots -> Clock]
      /\ window_index \in Slots /\ window_size \in 0 .. Window
  BY <1>1 DEF EncoderInit
<1>5. /\ time \in Clock /\ last_read \in Clock /\ now_read \in Clock
      /\ last_valid_edge \in Clock /\ edge \in Clock
      /\ {wheel, served, swapped} \subseteq Positions
      /\ pending_count \in Int /\ count \in Int /\ elapsed \in Int
  BY <1>1 DEF EncoderInit
<1>6. last_state \in 0 .. 3 /\ reader = "idle"
  BY <1>2 DEF EncoderInit
<1>7. rpm \in [count : Int, time : Nat] /\ spins \in 0 .. MaxSpins
  BY <1>1 DEF EncoderInit, Zero
<1>8. EncoderTypeOK
  BY <1>3, <1>4, <1>5, <1>6, <1>7 DEF EncoderTypeOK
<1>9. EdgesServed
  BY DEF EncoderInit, EdgesServed
<1>10. ReadsPast
  BY DEF EncoderInit, ReadsPast
<1> QED
  BY <1>8, <1>9, <1>10

\* The marks: one is added, and the oldest leaves when the window is full.
LEMMA MarkedTyped ==
  ASSUME EncoderTypeOK
  PROVE  Marked \in Seq([at : Clock, wheel : Positions]) /\ Len(Marked) =< Window + 1
<1> USE EncoderBounds
<1> DEFINE R == [at : Clock, wheel : Positions]
           x == [at |-> now_read, wheel |-> swapped]
<1>1. x \in R /\ marks \in Seq(R) /\ Len(marks) \in 0 .. Window + 1
  BY DEF EncoderTypeOK
<1> HIDE DEF R, x
<1>2. /\ Append(marks, x) \in Seq(R) /\ Len(Append(marks, x)) = Len(marks) + 1
      /\ Append(marks, x) # <<>>
  BY <1>1
<1>3. Tail(Append(marks, x)) \in Seq(R) /\ Len(Tail(Append(marks, x))) = Len(marks)
  BY <1>1, <1>2, Shortened
<1> DEFINE longer == Append(marks, x)
<1>4. Marked = IF marks = <<>> THEN marks
               ELSE IF Len(longer) > Window + 1 THEN Tail(longer) ELSE longer
  BY DEF Marked, x
<1> HIDE DEF longer
<1>5. /\ longer \in Seq(R) /\ Len(longer) = Len(marks) + 1
      /\ Tail(longer) \in Seq(R) /\ Len(Tail(longer)) = Len(marks)
  BY <1>2, <1>3 DEF longer
<1>6. CASE marks = <<>>
  <2>1. Marked = marks
    BY <1>4, <1>6
  <2> QED
    BY <1>1, <2>1 DEF R
<1>7. CASE marks # <<>> /\ Len(longer) > Window + 1
  <2>1. Marked = Tail(longer)
    BY <1>4, <1>7
  <2> QED
    BY <1>1, <1>5, <2>1 DEF R
<1>8. CASE marks # <<>> /\ ~ (Len(longer) > Window + 1)
  <2>1. Marked = longer
    BY <1>4, <1>8
  <2> QED
    BY <1>1, <1>5, <1>8, <2>1 DEF R
<1> QED
  BY <1>6, <1>7, <1>8

EncoderTypes == EncoderTypeOK /\ EdgesServed /\ ReadsPast

LEMMA EncoderIsrTypes == ASSUME EncoderTypes, encoder_isr PROVE EncoderTypes'
<1> USE EncoderBounds DEF window, locals
<1> DEFINE d == wheel - served
           transition == encoder_transition(last_state, Lines(wheel))
<1>1. wheel \in Int /\ served \in Int /\ d \in {-1, 0, 1} /\ wheel = served + d
  BY DEF EncoderTypes, EncoderTypeOK, EdgesServed, Positions
<1>2. transition = d /\ Lines(wheel) \in 0 .. 3
  BY <1>1, Quadrature DEF EncoderTypes, EdgesServed
<1> HIDE DEF d, transition
<1>3. /\ pending_count' = pending_count + d /\ served' = wheel /\ last_state' = Lines(wheel)
      /\ last_valid_edge' \in {time, last_valid_edge}
  BY <1>2 DEF encoder_isr, transition
<1>4. pending_count' \in Int
  BY <1>1, <1>3 DEF EncoderTypes, EncoderTypeOK
<1>5. EncoderTypeOK'
  BY <1>2, <1>3, <1>4 DEF EncoderTypes, EncoderTypeOK, encoder_isr
<1>6. EdgesServed'
  BY <1>1, <1>3 DEF EdgesServed, encoder_isr
<1>7. ReadsPast'
  BY DEF EncoderTypes, ReadsPast, encoder_isr
<1> QED
  BY <1>5, <1>6, <1>7 DEF EncoderTypes

LEMMA StartTypes == ASSUME EncoderTypes, start_encoder PROVE EncoderTypes'
<1> USE EncoderBounds DEF locals
<1>1. 0 \in Clock /\ 0 \in Slots /\ 0 \in 0 .. Window /\ time \in Clock
  BY DEF Clock, Slots, EncoderTypes, EncoderTypeOK
<1>2. /\ count_window' \in [Slots -> Int] /\ time_window' \in [Slots -> Clock]
      /\ window_index' \in Slots /\ window_size' \in 0 .. Window
  BY <1>1 DEF start_encoder, ClearWindow
<1>3. marks' \in Seq([at : Clock, wheel : Positions]) /\ Len(marks') =< Window + 1
  <2>1. [at |-> time, wheel |-> served] \in [at : Clock, wheel : Positions]
    BY DEF EncoderTypes, EncoderTypeOK
  <2>2. CASE reader = "idle"
    <3> DEFINE x == [at |-> time, wheel |-> served]
    <3>1. marks' = <<x>>
      BY <2>2 DEF start_encoder
    <3> HIDE DEF x
    <3> QED
      BY <2>1, <3>1 DEF x
  <2>3. CASE reader # "idle"
    BY <2>3, Emptiness DEF start_encoder
  <2> QED
    BY <2>2, <2>3
<1>4. spins' \in 0 .. MaxSpins
  BY DEF start_encoder, EncoderTypes, EncoderTypeOK
<1>5. /\ pending_count' = 0 /\ last_valid_edge' = 0 /\ last_read' = time
      /\ UNCHANGED <<time, wheel, last_state, reader, locals, rpm, served, swapped>>
  BY DEF start_encoder
<1>6. EncoderTypeOK'
  BY <1>1, <1>2, <1>3, <1>4, <1>5 DEF EncoderTypes, EncoderTypeOK
<1>7. EdgesServed'
  BY <1>5 DEF EncoderTypes, EdgesServed
<1>8. ReadsPast'
  BY <1>1, <1>5 DEF EncoderTypes, ReadsPast, Clock
<1> QED
  BY <1>6, <1>7, <1>8 DEF EncoderTypes

LEMMA ReadWindowTypes == ASSUME EncoderTypes, ReadWindow PROVE EncoderTypes'
<1> USE EncoderBounds DEF ReaderFrame
<1>1. /\ elapsed \in Clock /\ count \in Int /\ window_index \in Slots /\ 0 \in Clock
      /\ 0 \in Positions /\ window_size \in 0 .. Window
  BY DEF EncoderTypes, EncoderTypeOK, ReadsPast, ReadWindow, Clock, Positions
<1>2. count_window' \in [Slots -> Int] /\ time_window' \in [Slots -> Clock]
  BY <1>1 DEF ReadWindow, EncoderTypes, EncoderTypeOK
<1>3. window_index' \in Slots /\ window_size' \in 0 .. Window
  <2>1. window_index + 1 \in Nat
    BY <1>1 DEF Slots
  <2>2. (window_index + 1) % Window \in 0 .. Window - 1
    BY <2>1, Divided
  <2> QED
    BY <1>1, <2>2 DEF ReadWindow, NextIndex, Slots
<1>4. rpm' \in [count : Int, time : Nat]
  <2>1. CASE encoder_is_stopped
    BY <2>1 DEF ReadWindow, Zero
  <2>2. CASE ~encoder_is_stopped
    <3>0. /\ \A n \in 0 .. Window : n \in Nat /\ \A i \in 0 .. n - 1 : i \in Slots
          /\ \A t \in Clock : t \in Nat
      BY DEF Slots, Clock
    <3>1. window_size' \in Nat /\ \A i \in 0 .. window_size' - 1 : i \in Slots
      BY <1>3, <3>0, Zenon
    <3>2. /\ \A i \in 0 .. window_size' - 1 : count_window'[i] \in Int
          /\ \A i \in 0 .. window_size' - 1 : time_window'[i] \in Nat
      BY <1>2, <3>0, <3>1, Zenon
    <3>3. Total(count_window', window_size') \in Int /\ Total(time_window', window_size') \in Nat
      BY <3>1, <3>2, TotalTyped
    <3> QED
      BY <2>2, <3>3 DEF ReadWindow
  <2> QED
    BY <2>1, <2>2
<1>5. marks' \in Seq([at : Clock, wheel : Positions]) /\ Len(marks') =< Window + 1
  BY MarkedTyped DEF ReadWindow, EncoderTypes
<1>6. EncoderTypeOK'
  BY <1>1, <1>2, <1>3, <1>4, <1>5 DEF EncoderTypes, EncoderTypeOK, ReadWindow
<1>7. EdgesServed' /\ ReadsPast'
  BY DEF EncoderTypes, EdgesServed, ReadsPast, ReadWindow, EncoderTypeOK, Clock
<1> QED
  BY <1>6, <1>7 DEF EncoderTypes

LEMMA EncoderTypesStay == EncoderTypes /\ [EncoderNext]_encoderVars => EncoderTypes'
<1> SUFFICES ASSUME EncoderTypes, [EncoderNext]_encoderVars PROVE EncoderTypes'
  OBVIOUS
<1> USE EncoderBounds DEF EncoderTypes, shared, window, locals, ReaderFrame
<1>0. /\ time \in 0 .. LastTime /\ last_read \in 0 .. LastTime /\ now_read \in 0 .. LastTime
  BY DEF EncoderTypeOK, Clock
<1>1. CASE TimeGoesOn
  <2>1. time' \in Clock /\ last_read' =< time' /\ now_read' =< time'
    BY <1>0, <1>1 DEF TimeGoesOn, Clock, ReadsPast
  <2> QED
    BY <1>1, <2>1 DEF TimeGoesOn, EncoderTypeOK, EdgesServed, ReadsPast
<1>2. CASE Turn
  <2>1. wheel' \in Positions /\ wheel' - served' \in {-1, 0, 1}
    BY <1>2 DEF Turn, EncoderTypeOK, Positions
  <2> QED
    BY <1>2, <2>1 DEF Turn, EncoderTypeOK, EdgesServed, ReadsPast
<1>3. CASE encoder_isr
  BY <1>3, EncoderIsrTypes
<1>4. CASE start_encoder
  BY <1>4, StartTypes
<1>5. CASE ReadTime
  <2>1. now_read' = time /\ time' = time /\ reader' = "elapsed" /\ time =< time
    BY <1>0, <1>5 DEF ReadTime
  <2> QED
    BY <1>5, <2>1 DEF ReadTime, EncoderTypeOK, EdgesServed, ReadsPast
<1>6. CASE ReadElapsed
  <2>1. CASE now_read =< last_read
    <3>1. now_read' = 0 /\ rpm' = Zero /\ reader' = "idle" /\ 0 \in Clock /\ 0 =< time
      BY <1>0, <1>6, <2>1 DEF ReadElapsed, Clock
    <3>2. Zero \in [count : Int, time : Nat]
      BY DEF Zero
    <3> QED
      BY <1>6, <2>1, <3>1, <3>2 DEF ReadElapsed, EncoderTypeOK, EdgesServed, ReadsPast
  <2>2. CASE ~ (now_read =< last_read)
    <3>1. elapsed' \in Clock /\ elapsed' \in Int /\ last_read' = now_read /\ reader' = "swap"
      BY <1>0, <1>6, <2>2 DEF ReadElapsed, Clock
    <3> QED
      BY <1>6, <2>2, <3>1 DEF ReadElapsed, EncoderTypeOK, EdgesServed, ReadsPast
  <2> QED
    BY <2>1, <2>2
<1>7. CASE ReadSwaps
  BY <1>7 DEF ReadSwaps, EncoderTypeOK, EdgesServed, ReadsPast
<1>8. CASE ReadWindow
  BY <1>8, ReadWindowTypes
<1>9. CASE UNCHANGED encoderVars
  BY <1>9 DEF encoderVars, EncoderTypeOK, EdgesServed, ReadsPast
<1> QED
  BY <1>1, <1>2, <1>3, <1>4, <1>5, <1>6, <1>7, <1>8, <1>9 DEF EncoderNext, read_rpm

-------------------------------------------------------------------------------
(* The wheel speed: the sliding window *)

\* The slot of the k-th oldest of size entries.
SlotOf(index, size, k) ==
    IF size < Window THEN k - 1
    ELSE IF index + k - 1 < Window THEN index + k - 1 ELSE index + k - 1 - Window

\* The entries of a window f are the differences of the size + 1 values of m, in order,
\* and their total is that of the ends.
Spans(f, index, size, m) ==
    /\ size < Window => index = size
    /\ \A k \in 1 .. size : f[SlotOf(index, size, k)] = m[k + 1] - m[k]
    /\ Total(f, size) = m[size + 1] - m[1]

NextOf(index) == IF index + 1 < Window THEN index + 1 ELSE 0

LEMMA NextIndexIs ==
  ASSUME window_index \in Slots
  PROVE  NextIndex = NextOf(window_index)
<1> USE EncoderBounds
<1>1. window_index + 1 \in 1 .. Window
  BY DEF Slots
<1>2. CASE window_index + 1 < Window
  BY <1>1, <1>2 DEF NextIndex, NextOf
<1>3. CASE ~ (window_index + 1 < Window)
  <2>1. window_index + 1 = Window /\ Window % Window = 0
    BY <1>1, <1>3
  <2> QED
    BY <1>3, <2>1 DEF NextIndex, NextOf
<1> QED
  BY <1>2, <1>3

\* A read while the window fills, and one when it is full.
LEMMA Filling ==
  ASSUME NEW f \in [Slots -> Int], NEW index \in Slots, NEW size \in 0 .. Window, size < Window,
         NEW m, \A k \in 1 .. size + 1 : m[k] \in Int,
         Spans(f, index, size, m),
         NEW c \in Int, NEW h \in [Slots -> Int], h[index] = c,
         \A i \in Slots : i # index => h[i] = f[i],
         NEW n, \A k \in 1 .. size + 1 : n[k] = m[k], n[size + 2] = m[size + 1] + c
  PROVE  Spans(h, NextOf(index), size + 1, n)
<1> USE EncoderBounds DEF Slots
<1>1. index = size /\ size \in Nat
  BY DEF Spans
<1>2. /\ h[size] = c /\ \A i \in 0 .. size - 1 : h[i] = f[i]
      /\ \A i \in 0 .. size : h[i] \in Int
  BY <1>1
<1>3. \A k \in 1 .. size : f[k - 1] = m[k + 1] - m[k]
  BY DEF Spans, SlotOf
<1>4. \A k \in 1 .. size + 1 : h[k - 1] = n[k + 1] - n[k]
  <2>1. ASSUME NEW k \in 1 .. size + 1 PROVE h[k - 1] = n[k + 1] - n[k]
    <3>1. CASE k = size + 1
      <4>1. n[k + 1] = m[size + 1] + c /\ n[k] = m[size + 1] /\ m[size + 1] \in Int
        BY <1>1, <3>1
      <4> QED
        BY <1>1, <1>2, <3>1, <4>1
    <3>2. CASE k # size + 1
      <4>1. k \in 1 .. size /\ k - 1 \in 0 .. size - 1 /\ k + 1 \in 1 .. size + 1
        BY <1>1, <3>2
      <4> QED
        BY <1>2, <1>3, <4>1
    <3> QED
      BY <3>1, <3>2
  <2> QED
    BY <2>1
<1>5. \A k \in 1 .. size + 1 : SlotOf(NextOf(index), size + 1, k) = k - 1
  BY <1>1 DEF SlotOf, NextOf
<1>6. size + 1 < Window => NextOf(index) = size + 1
  BY <1>1 DEF NextOf
<1>7. Total(h, size + 1) = n[size + 1 + 1] - n[1]
  <2>1. Total(h, size + 1) = c + Total(h, size)
    BY <1>1, <1>2, TotalSteps
  <2>2. Total(h, size) = Total(f, size)
    <3>1. \A i \in 0 .. size - 1 : h[i] = f[i]
      BY <1>2
    <3> QED
      BY <1>1, <3>1, TotalSame, Zenon
  <2>3. Total(f, size) = m[size + 1] - m[1]
    BY DEF Spans
  <2>4. size + 1 + 1 = size + 2 /\ 1 \in 1 .. size + 1 /\ size + 1 \in 1 .. size + 1
    BY <1>1
  <2>5. m[1] \in Int /\ m[size + 1] \in Int /\ n[1] = m[1] /\ n[size + 1 + 1] = m[size + 1] + c
    BY <2>4
  <2> QED
    BY <2>1, <2>2, <2>3, <2>5
<1> QED
  BY <1>4, <1>5, <1>6, <1>7 DEF Spans

\* The values m moved on by one: the oldest is gone, and one is added, c from the last.
Slid(n, m, c) ==
    /\ \A k \in 1 .. Window : n[k] = m[k + 1]
    /\ n[Window + 1] = m[Window + 1] + c
Ints(m) == \A k \in 1 .. Window + 1 : m[k] \in Int

LEMMA Sliding ==
  ASSUME NEW f \in [Slots -> Int], NEW index \in Slots,
         NEW m, Ints(m), Spans(f, index, Window, m),
         NEW c \in Int, NEW h \in [Slots -> Int], h[index] = c,
         \A i \in Slots : i # index => h[i] = f[i],
         NEW n, Slid(n, m, c)
  PROVE  Spans(h, NextOf(index), Window, n)
<1> USE EncoderBounds DEF Slots
<1>1. /\ \A i \in 0 .. Window - 1 : f[i] \in Int
      /\ \A i \in 0 .. Window - 1 : h[i] \in Int
      /\ \A i \in 0 .. Window - 1 : i # index => h[i] = f[i]
  OBVIOUS
<1>2. \A k \in 1 .. Window : f[SlotOf(index, Window, k)] = m[k + 1] - m[k]
  BY DEF Spans
<1>3. SlotOf(index, Window, 1) = index
  BY DEF SlotOf
<1>4. SlotOf(NextOf(index), Window, Window) = index
  BY DEF SlotOf, NextOf
<1>5. \A k \in 1 .. Window - 1 :
         /\ SlotOf(NextOf(index), Window, k) = SlotOf(index, Window, k + 1)
         /\ SlotOf(index, Window, k + 1) \in 0 .. Window - 1
         /\ SlotOf(index, Window, k + 1) # index
  BY DEF SlotOf, NextOf
<1>6. ASSUME NEW k \in 1 .. Window
      PROVE  h[SlotOf(NextOf(index), Window, k)] = n[k + 1] - n[k]
  <2>1. CASE k = Window
    <3>1. k + 1 = Window + 1 /\ m[Window + 1] \in Int
      BY <2>1 DEF Ints
    <3>2. n[k + 1] = m[Window + 1] + c /\ n[k] = m[Window + 1]
      BY <2>1, <3>1 DEF Slid
    <3>3. h[SlotOf(NextOf(index), Window, k)] = c
      BY <1>4, <2>1
    <3> QED
      BY <3>1, <3>2, <3>3
  <2>2. CASE k # Window
    <3>1. k \in 1 .. Window - 1 /\ k + 1 \in 1 .. Window
      BY <2>2
    <3>2. n[k + 1] = m[k + 1 + 1] /\ n[k] = m[k + 1]
      BY <3>1 DEF Slid
    <3>3. h[SlotOf(NextOf(index), Window, k)] = f[SlotOf(index, Window, k + 1)]
      BY <1>1, <1>5, <3>1
    <3>4. f[SlotOf(index, Window, k + 1)] = m[k + 1 + 1] - m[k + 1]
      BY <1>2, <3>1
    <3> QED
      BY <3>2, <3>3, <3>4
  <2> QED
    BY <2>1, <2>2
<1>7. Total(h, Window) = n[Window + 1] - n[1]
  <2> DEFINE x == m[Window + 1]
             y == m[1]
             z == m[2]
  <2>1. Total(h, Window) = Total(f, Window) - f[index] + h[index]
    BY <1>1, TotalChanged
  <2>2. Total(f, Window) = x - y
    BY DEF Spans
  <2>3. 1 \in 1 .. Window /\ 1 + 1 = 2
    OBVIOUS
  <2>4. f[index] = z - y
    BY <1>2, <1>3, <2>3
  <2>5. x \in Int /\ y \in Int /\ z \in Int
    BY DEF Ints
  <2>6. n[1] = z /\ n[Window + 1] = x + c
    BY <2>3 DEF Slid
  <2> HIDE DEF x, y, z
  <2>7. Total(h, Window) = (x + c) - z
    BY <2>1, <2>2, <2>4, <2>5
  <2> QED
    BY <2>6, <2>7
<1> QED
  BY <1>6, <1>7 DEF Spans

-------------------------------------------------------------------------------
(* The wheel speed: what is counted *)

\* Every edge since the last mark is counted: it is in pending_count, or on its way.
EdgesCounted ==
    marks # <<>> =>
        LET last == marks[Len(marks)].wheel IN
        IF reader = "window" THEN count = swapped - last /\ pending_count = served - swapped
        ELSE pending_count = served - last

\* The time since the last mark.
TimeCounted ==
    marks # <<>> =>
        LET last == marks[Len(marks)].at IN
        IF reader \in {"swap", "window"} THEN elapsed = now_read - last /\ last_read = now_read
        ELSE last_read = last

WheelMarks == [k \in 1 .. Len(marks) |-> marks[k].wheel]
TimeMarks == [k \in 1 .. Len(marks) |-> marks[k].at]

\* The window spans the marks.
WindowSpans ==
    marks # <<>> =>
        /\ Len(marks) = window_size + 1
        /\ Spans(count_window, window_index, window_size, WheelMarks)
        /\ Spans(time_window, window_index, window_size, TimeMarks)

EncoderInv == EncoderTypes /\ EdgesCounted /\ TimeCounted /\ WindowSpans /\ AverageIsRight

LEMMA EncoderInitially == EncoderInit => EncoderInv
<1> SUFFICES ASSUME EncoderInit PROVE EncoderInv
  OBVIOUS
<1>1. EncoderTypes
  BY EncoderTypesInitially DEF EncoderTypes
<1>2. marks = <<>>
  BY DEF EncoderInit
<1> QED
  BY <1>1, <1>2 DEF EncoderInv, EdgesCounted, TimeCounted, WindowSpans, AverageIsRight

LEMMA MarkedIs ==
  ASSUME EncoderTypeOK, marks # <<>>, Len(marks) = window_size + 1
  PROVE  /\ window_size < Window =>
                /\ Len(Marked) = window_size + 2
                /\ \A k \in 1 .. window_size + 1 : Marked[k] = marks[k]
                /\ Marked[window_size + 2] = [at |-> now_read, wheel |-> swapped]
         /\ window_size = Window =>
                /\ Len(Marked) = Window + 1
                /\ \A k \in 1 .. Window : Marked[k] = marks[k + 1]
                /\ Marked[Window + 1] = [at |-> now_read, wheel |-> swapped]
<1> USE EncoderBounds
<1> DEFINE R == [at : Clock, wheel : Positions]
           x == [at |-> now_read, wheel |-> swapped]
           longer == Append(marks, x)
<1>1. x \in R /\ marks \in Seq(R) /\ window_size \in 0 .. Window
  BY DEF EncoderTypeOK
<1>2. Marked = IF Len(longer) > Window + 1 THEN Tail(longer) ELSE longer
  BY DEF Marked
<1> HIDE DEF R, x
<1>3. /\ longer \in Seq(R) /\ Len(longer) = window_size + 2
      /\ \A k \in 1 .. window_size + 1 : longer[k] = marks[k]
      /\ longer[window_size + 2] = x
  <2>1. /\ longer \in Seq(R) /\ Len(longer) = Len(marks) + 1
        /\ \A k \in 1 .. Len(marks) : longer[k] = marks[k]
        /\ longer[Len(marks) + 1] = x
    BY <1>1, Lengthened
  <2>2. Len(marks) + 1 = window_size + 2
    BY <1>1
  <2> QED
    BY <2>1, <2>2
<1> HIDE DEF longer
<1>4. CASE window_size < Window
  <2>1. Marked = longer
    BY <1>1, <1>2, <1>3, <1>4
  <2> QED
    BY <1>1, <1>3, <1>4, <2>1 DEF x
<1>5. CASE window_size = Window
  <2>1. Marked = Tail(longer) /\ longer # <<>>
    BY <1>1, <1>2, <1>3, <1>5
  <2>2. /\ Len(Tail(longer)) = Window + 1
        /\ \A k \in 1 .. Window + 1 : Tail(longer)[k] = longer[k + 1]
    <3>1. /\ Len(Tail(longer)) = Len(longer) - 1
          /\ \A k \in 1 .. Len(longer) - 1 : Tail(longer)[k] = longer[k + 1]
      BY <1>3, <2>1, Shortened
    <3>2. Len(longer) - 1 = Window + 1
      BY <1>3, <1>5
    <3> QED
      BY <3>1, <3>2
  <2>3. \A k \in 1 .. Window : Tail(longer)[k] = marks[k + 1]
    BY <1>3, <1>5, <2>2
  <2>4. Tail(longer)[Window + 1] = x
    BY <1>3, <1>5, <2>2
  <2> QED
    BY <1>5, <2>1, <2>2, <2>3, <2>4 DEF x
<1> QED
  BY <1>1, <1>4, <1>5

\* A read: the window goes on by one difference, the values by one value.
Written(h, f, index, c) ==
    h \in [Slots -> Int] /\ h[index] = c /\ \A i \in Slots : i # index => h[i] = f[i]
Known(m, n) == \A k \in 1 .. n : m[k] \in Int
Grown(n, m, size, c) == (\A k \in 1 .. size + 1 : n[k] = m[k]) /\ n[size + 2] = m[size + 1] + c

LEMMA WindowMoves ==
  ASSUME NEW f \in [Slots -> Int], NEW index \in Slots, NEW size \in 0 .. Window,
         NEW a, Known(a, size + 1), Spans(f, index, size, a),
         NEW c \in Int, NEW h, Written(h, f, index, c),
         NEW b, size < Window => Grown(b, a, size, c), size = Window => Slid(b, a, c)
  PROVE  /\ size < Window => Spans(h, NextOf(index), size + 1, b)
         /\ size = Window => Spans(h, NextOf(index), Window, b)
<1> USE EncoderBounds
<1>1. /\ h \in [Slots -> Int] /\ h[index] = c
      /\ \A i \in Slots : i # index => h[i] = f[i]
  BY DEF Written
<1>2. ASSUME size < Window PROVE Spans(h, NextOf(index), size + 1, b)
  BY <1>1, <1>2, Filling DEF Grown, Known
<1>3. ASSUME size = Window PROVE Spans(h, NextOf(index), Window, b)
  <2>1. Ints(a)
    BY <1>3 DEF Ints, Known
  <2> QED
    BY <1>1, <1>3, <2>1, Sliding
<1> QED
  BY <1>2, <1>3

\* What read_rpm does to one of the two windows and its values.
LEMMA ReadMoves ==
  ASSUME EncoderInv, marks # <<>>, reader = "window",
         NEW b, b = [k \in 1 .. Len(Marked) |-> Marked[k].wheel],
         NEW d, d = [k \in 1 .. Len(Marked) |-> Marked[k].at],
         NEW size, size = IF window_size < Window THEN window_size + 1 ELSE window_size
  PROVE  /\ Len(Marked) = size + 1
         /\ Marked[Len(Marked)] = [at |-> now_read, wheel |-> swapped]
         /\ Spans([count_window EXCEPT ![window_index] = count], NextOf(window_index), size, b)
         /\ Spans([time_window EXCEPT ![window_index] = elapsed], NextOf(window_index), size, d)
<1> USE EncoderBounds
<1>1. /\ Len(marks) = window_size + 1 /\ window_size \in 0 .. Window /\ window_index \in Slots
      /\ Spans(count_window, window_index, window_size, WheelMarks)
      /\ Spans(time_window, window_index, window_size, TimeMarks)
  BY DEF EncoderInv, WindowSpans, EncoderTypes, EncoderTypeOK
<1>2. /\ count_window \in [Slots -> Int] /\ time_window \in [Slots -> Int]
      /\ count \in Int /\ elapsed \in Int
  BY DEF EncoderInv, EncoderTypes, EncoderTypeOK, Clock
<1>3. /\ \A k \in 1 .. window_size + 1 :
            /\ marks[k].wheel \in Int /\ marks[k].at \in Int
            /\ WheelMarks[k] = marks[k].wheel /\ TimeMarks[k] = marks[k].at
  <2>1. marks \in Seq([at : Clock, wheel : Positions])
    BY DEF EncoderInv, EncoderTypes, EncoderTypeOK
  <2>2. \A k \in 1 .. Len(marks) : marks[k] \in [at : Clock, wheel : Positions]
    BY <2>1, ElementOfSeq
  <2> QED
    BY <1>1, <2>2 DEF WheelMarks, TimeMarks, Clock, Positions
<1>4. /\ count = swapped - marks[window_size + 1].wheel
      /\ elapsed = now_read - marks[window_size + 1].at
  BY <1>1 DEF EncoderInv, EdgesCounted, TimeCounted
<1>5. swapped \in Int /\ now_read \in Int
  BY DEF EncoderInv, EncoderTypes, EncoderTypeOK, Clock, Positions
<1>6. window_size + 1 \in 1 .. window_size + 1
  BY <1>1
<1>7. /\ swapped = WheelMarks[window_size + 1] + count
      /\ now_read = TimeMarks[window_size + 1] + elapsed
  <2>1. marks[window_size + 1].wheel \in Int /\ marks[window_size + 1].at \in Int
    BY <1>3, <1>6
  <2>2. /\ WheelMarks[window_size + 1] = marks[window_size + 1].wheel
        /\ TimeMarks[window_size + 1] = marks[window_size + 1].at
    BY <1>3, <1>6
  <2> DEFINE w == marks[window_size + 1].wheel
             t == marks[window_size + 1].at
  <2>3. w \in Int /\ t \in Int /\ count = swapped - w /\ elapsed = now_read - t
    BY <1>4, <2>1
  <2> HIDE DEF w, t
  <2>4. swapped = w + count /\ now_read = t + elapsed
    BY <1>5, <2>3
  <2> QED
    BY <2>2, <2>4 DEF w, t
<1>8. EncoderTypeOK
  BY DEF EncoderInv, EncoderTypes
<1>9. /\ window_size < Window =>
             /\ Len(Marked) = window_size + 2
             /\ \A k \in 1 .. window_size + 1 : Marked[k] = marks[k]
             /\ Marked[window_size + 2] = [at |-> now_read, wheel |-> swapped]
      /\ window_size = Window =>
             /\ Len(Marked) = Window + 1
             /\ \A k \in 1 .. Window : Marked[k] = marks[k + 1]
             /\ Marked[Window + 1] = [at |-> now_read, wheel |-> swapped]
  BY <1>1, <1>8, MarkedIs
<1>10. /\ Len(Marked) = size + 1
       /\ Marked[Len(Marked)] = [at |-> now_read, wheel |-> swapped]
  <2>1. CASE window_size < Window
    <3>1. size + 1 = window_size + 2
      BY <1>1, <2>1
    <3> QED
      BY <1>9, <2>1, <3>1
  <2>2. CASE window_size = Window
    BY <1>1, <1>9, <2>2
  <2> QED
    BY <1>1, <2>1, <2>2
<1>11. window_size < Window =>
         /\ \A k \in 1 .. window_size + 1 : b[k] = WheelMarks[k] /\ d[k] = TimeMarks[k]
         /\ b[window_size + 2] = WheelMarks[window_size + 1] + count
         /\ d[window_size + 2] = TimeMarks[window_size + 1] + elapsed
  <2> SUFFICES ASSUME window_size < Window
               PROVE  /\ \A k \in 1 .. window_size + 1 : b[k] = WheelMarks[k] /\ d[k] = TimeMarks[k]
                      /\ b[window_size + 2] = WheelMarks[window_size + 1] + count
                      /\ d[window_size + 2] = TimeMarks[window_size + 1] + elapsed
    OBVIOUS
  <2>1. \A k \in 1 .. window_size + 2 : b[k] = Marked[k].wheel /\ d[k] = Marked[k].at
    BY <1>9
  <2>2. window_size + 2 \in 1 .. window_size + 2
        /\ \A k \in 1 .. window_size + 1 : k \in 1 .. window_size + 2
    BY <1>1
  <2>3. b[window_size + 2] = swapped /\ d[window_size + 2] = now_read
    BY <1>9, <2>1, <2>2
  <2> QED
    BY <1>3, <1>7, <1>9, <2>1, <2>2, <2>3
<1>12. window_size = Window => Slid(b, WheelMarks, count) /\ Slid(d, TimeMarks, elapsed)
  <2> SUFFICES ASSUME window_size = Window
               PROVE  Slid(b, WheelMarks, count) /\ Slid(d, TimeMarks, elapsed)
    OBVIOUS
  <2>1. \A k \in 1 .. Window + 1 : b[k] = Marked[k].wheel /\ d[k] = Marked[k].at
    BY <1>9
  <2>2. Window + 1 \in 1 .. Window + 1
        /\ \A k \in 1 .. Window : k \in 1 .. Window + 1 /\ k + 1 \in 1 .. Window + 1
    OBVIOUS
  <2>3. b[Window + 1] = swapped /\ d[Window + 1] = now_read
    BY <1>9, <2>1, <2>2
  <2>4. ASSUME NEW k \in 1 .. Window
        PROVE  b[k] = WheelMarks[k + 1] /\ d[k] = TimeMarks[k + 1]
    <3>1. Marked[k] = marks[k + 1]
      BY <1>9
    <3>2. WheelMarks[k + 1] = marks[k + 1].wheel /\ TimeMarks[k + 1] = marks[k + 1].at
      BY <1>3, <2>2
    <3>3. b[k] = Marked[k].wheel /\ d[k] = Marked[k].at
      BY <2>1, <2>2
    <3> QED
      BY <3>1, <3>2, <3>3
  <2> QED
    BY <1>7, <2>3, <2>4 DEF Slid
<1> DEFINE h == [count_window EXCEPT ![window_index] = count]
           i == [time_window EXCEPT ![window_index] = elapsed]
<1>13. Written(h, count_window, window_index, count)
  BY <1>1, <1>2 DEF Written
<1>14. Written(i, time_window, window_index, elapsed)
  BY <1>1, <1>2 DEF Written
<1>15. Known(WheelMarks, window_size + 1) /\ Known(TimeMarks, window_size + 1)
  BY <1>3 DEF Known
<1>16. /\ window_size < Window => Grown(b, WheelMarks, window_size, count)
       /\ window_size < Window => Grown(d, TimeMarks, window_size, elapsed)
  BY <1>11 DEF Grown
<1> HIDE DEF h, i
<1>17. /\ window_size < Window => Spans(h, NextOf(window_index), window_size + 1, b)
       /\ window_size = Window => Spans(h, NextOf(window_index), Window, b)
  BY <1>1, <1>2, <1>12, <1>13, <1>15, <1>16, WindowMoves
<1>18. /\ window_size < Window => Spans(i, NextOf(window_index), window_size + 1, d)
       /\ window_size = Window => Spans(i, NextOf(window_index), Window, d)
  BY <1>1, <1>2, <1>12, <1>14, <1>15, <1>16, WindowMoves
<1>19. window_size < Window \/ window_size = Window
  BY <1>1
<1>20. Spans(h, NextOf(window_index), size, b) /\ Spans(i, NextOf(window_index), size, d)
  BY <1>17, <1>18, <1>19
<1> QED
  BY <1>10, <1>20 DEF h, i

\* The end of a read: the average is that of the window, and the marks are moved on.
LEMMA ReadWindowRight == ASSUME EncoderInv, ReadWindow PROVE EncoderInv'
<1> USE EncoderBounds
<1>1. EncoderTypes'
  BY ReadWindowTypes DEF EncoderInv
<1>2. /\ reader = "window" /\ reader' = "idle" /\ marks' = Marked
      /\ count_window' = [count_window EXCEPT ![window_index] = count]
      /\ time_window' = [time_window EXCEPT ![window_index] = elapsed]
      /\ window_size' = IF window_size < Window THEN window_size + 1 ELSE window_size
      /\ UNCHANGED <<pending_count, last_read, served>>
  BY DEF ReadWindow, ReaderFrame
<1>3. window_index' = NextOf(window_index)
  BY NextIndexIs DEF ReadWindow, EncoderInv, EncoderTypes, EncoderTypeOK
<1>4. CASE marks = <<>>
  <2>1. marks' = <<>>
    BY <1>2, <1>4 DEF Marked
  <2> QED
    BY <1>1, <2>1 DEF EncoderInv, EdgesCounted, TimeCounted, WindowSpans, AverageIsRight
<1>5. CASE marks # <<>>
  <2> DEFINE b == [k \in 1 .. Len(Marked) |-> Marked[k].wheel]
             d == [k \in 1 .. Len(Marked) |-> Marked[k].at]
  <2>1. /\ Len(Marked) = window_size' + 1
        /\ Marked[Len(Marked)] = [at |-> now_read, wheel |-> swapped]
        /\ Spans(count_window', window_index', window_size', b)
        /\ Spans(time_window', window_index', window_size', d)
    BY <1>2, <1>3, <1>5, ReadMoves
  <2>2. WheelMarks' = b /\ TimeMarks' = d
    BY <1>2 DEF WheelMarks, TimeMarks
  <2>3. WindowSpans'
    BY <1>2, <2>1, <2>2 DEF WindowSpans
  <2>4. marks'[Len(marks')].wheel = swapped /\ marks'[Len(marks')].at = now_read
    BY <1>2, <2>1
  <2>5. EdgesCounted'
    BY <1>2, <1>5, <2>4 DEF EncoderInv, EdgesCounted
  <2>6. TimeCounted'
    BY <1>2, <1>5, <2>4 DEF EncoderInv, TimeCounted
  <2>7. AverageIsRight'
    <3>1. CASE encoder_is_stopped
      <4>1. rpm' = Zero
        BY <3>1 DEF ReadWindow
      <4> QED
        BY <4>1 DEF AverageIsRight, Zero
    <3>2. CASE ~encoder_is_stopped
      <4>1. rpm' = [count |-> Total(count_window', window_size'),
                    time |-> Total(time_window', window_size')]
        BY <3>2 DEF ReadWindow
      <4>2. /\ Total(count_window', window_size') = b[window_size' + 1] - b[1]
            /\ Total(time_window', window_size') = d[window_size' + 1] - d[1]
        BY <2>1 DEF Spans
      <4>3. window_size' \in Nat
        BY <1>1 DEF EncoderTypes, EncoderTypeOK
      <4>4. /\ 1 \in 1 .. Len(Marked) /\ Len(Marked) \in 1 .. Len(Marked)
            /\ window_size' + 1 = Len(Marked)
        BY <2>1, <4>3
      <4>5. /\ b[1] = Marked[1].wheel /\ d[1] = Marked[1].at
            /\ b[window_size' + 1] = Marked[Len(Marked)].wheel
            /\ d[window_size' + 1] = Marked[Len(Marked)].at
        BY <4>4
      <4>6. rpm' = [count |-> Marked[Len(Marked)].wheel - Marked[1].wheel,
                    time |-> Marked[Len(Marked)].at - Marked[1].at]
        BY <4>1, <4>2, <4>5
      <4> QED
        BY <1>2, <4>6 DEF AverageIsRight
    <3> QED
      BY <3>1, <3>2
  <2> QED
    BY <1>1, <2>3, <2>5, <2>6, <2>7 DEF EncoderInv
<1> QED
  BY <1>4, <1>5

\* A start: the first mark, or none if it comes into a read.
LEMMA StartRight == ASSUME EncoderInv, start_encoder PROVE EncoderInv'
<1> USE EncoderBounds
<1>1. EncoderTypes'
  BY StartTypes DEF EncoderInv
<1>2. /\ pending_count' = 0 /\ window_index' = 0 /\ window_size' = 0 /\ last_read' = time
      /\ UNCHANGED <<reader, served>>
      /\ marks' = IF reader = "idle" THEN <<[at |-> time, wheel |-> served]>> ELSE <<>>
  BY DEF start_encoder, ClearWindow
<1>3. CASE reader # "idle"
  <2>1. marks' = <<>>
    BY <1>2, <1>3
  <2> QED
    BY <1>1, <2>1 DEF EncoderInv, EdgesCounted, TimeCounted, WindowSpans, AverageIsRight
<1>4. CASE reader = "idle"
  <2> DEFINE x == [at |-> time, wheel |-> served]
  <2>1. marks' = <<x>> /\ served \in Int /\ time \in Int
    BY <1>2, <1>4 DEF EncoderInv, EncoderTypes, EncoderTypeOK, Positions, Clock
  <2>2. x.at = time /\ x.wheel = served
    OBVIOUS
  <2> HIDE DEF x
  <2>3. Len(marks') = 1 /\ marks'[1] = x
    BY <2>1
  <2>4. EdgesCounted' /\ TimeCounted'
    BY <1>2, <1>4, <2>1, <2>2, <2>3 DEF EdgesCounted, TimeCounted
  <2>5. AverageIsRight'
    BY <2>3 DEF AverageIsRight
  <2>6. WheelMarks'[1] = served /\ TimeMarks'[1] = time
    BY <2>2, <2>3 DEF WheelMarks, TimeMarks
  <2>7. Spans(count_window', window_index', window_size', WheelMarks')
    <3>1. Total(count_window', 0) = 0
      BY TotalSteps
    <3> QED
      BY <1>2, <2>1, <2>6, <3>1 DEF Spans
  <2>8. Spans(time_window', window_index', window_size', TimeMarks')
    <3>1. Total(time_window', 0) = 0
      BY TotalSteps
    <3> QED
      BY <1>2, <2>1, <2>6, <3>1 DEF Spans
  <2>9. WindowSpans'
    BY <1>2, <2>3, <2>7, <2>8 DEF WindowSpans
  <2> QED
    BY <1>1, <2>4, <2>5, <2>9 DEF EncoderInv
<1> QED
  BY <1>3, <1>4

LEMMA EncoderStays == EncoderInv /\ [EncoderNext]_encoderVars => EncoderInv'
<1> SUFFICES ASSUME EncoderInv, [EncoderNext]_encoderVars PROVE EncoderInv'
  OBVIOUS
<1> USE EncoderBounds DEF shared, window, locals, ReaderFrame
<1>0. EncoderTypes'
  BY EncoderTypesStay DEF EncoderInv
<1>1. ASSUME UNCHANGED <<marks, window>> PROVE WindowSpans'
  BY <1>1 DEF EncoderInv, WindowSpans, WheelMarks, TimeMarks
<1>2. CASE TimeGoesOn \/ Turn \/ UNCHANGED encoderVars
  <2>1. UNCHANGED <<marks, window, served, reader, pending_count, count, swapped, now_read,
                    last_read, elapsed, rpm>>
    BY <1>2 DEF TimeGoesOn, Turn, encoderVars
  <2>2. EdgesCounted' /\ TimeCounted' /\ AverageIsRight'
    BY <2>1 DEF EncoderInv, EdgesCounted, TimeCounted, AverageIsRight
  <2> QED
    BY <1>0, <1>1, <2>1, <2>2 DEF EncoderInv
<1>3. CASE encoder_isr
  <2>1. UNCHANGED <<marks, window, reader, count, swapped, now_read, last_read, elapsed, rpm>>
    BY <1>3 DEF encoder_isr
  <2>2. pending_count' - pending_count = served' - served /\ served' = wheel
    <3> DEFINE d == wheel - served
    <3>1. wheel \in Int /\ served \in Int /\ d \in {-1, 0, 1} /\ wheel = served + d
      BY DEF EncoderInv, EncoderTypes, EncoderTypeOK, EdgesServed, Positions
    <3>2. encoder_transition(last_state, Lines(wheel)) = d
      BY <3>1, Quadrature DEF EncoderInv, EncoderTypes, EdgesServed
    <3> HIDE DEF d
    <3>3. pending_count' = pending_count + d /\ served' = wheel
      BY <1>3, <3>2 DEF encoder_isr
    <3> QED
      BY <3>1, <3>3 DEF EncoderInv, EncoderTypes, EncoderTypeOK
  <2>3. /\ pending_count \in Int /\ pending_count' \in Int /\ served \in Int /\ served' \in Int
        /\ swapped \in Int
    BY <1>0, <2>1 DEF EncoderInv, EncoderTypes, EncoderTypeOK, Positions
  <2>4. EdgesCounted'
    <3> DEFINE q == pending_count'
               t == served'
    <3>0. /\ q \in Int /\ t \in Int /\ served \in Int /\ pending_count \in Int
          /\ q - pending_count = t - served
      BY <2>2, <2>3
    <3> HIDE DEF q, t
    <3>1. ASSUME NEW w \in Int, pending_count = served - w PROVE q = t - w
      BY <3>0, <3>1
    <3>2. marks # <<>> => marks[Len(marks)].wheel \in Int
      <4>1. marks \in Seq([at : Clock, wheel : Positions])
        BY DEF EncoderInv, EncoderTypes, EncoderTypeOK
      <4>2. marks # <<>> => Len(marks) \in 1 .. Len(marks)
        BY <4>1
      <4>3. marks # <<>> => marks[Len(marks)] \in [at : Clock, wheel : Positions]
        BY <4>1, <4>2, ElementOfSeq
      <4> QED
        BY <4>3 DEF Positions
    <3> QED
      BY <2>1, <2>3, <3>1, <3>2 DEF EncoderInv, EdgesCounted, q, t
  <2>5. TimeCounted' /\ AverageIsRight'
    BY <2>1 DEF EncoderInv, TimeCounted, AverageIsRight
  <2> QED
    BY <1>0, <1>1, <2>1, <2>4, <2>5 DEF EncoderInv
<1>4. CASE start_encoder
  BY <1>4, StartRight
<1>5. CASE ReadTime
  <2>1. /\ UNCHANGED <<marks, window, served, pending_count, last_read>>
        /\ reader = "idle" /\ reader' = "elapsed"
    BY <1>5 DEF ReadTime
  <2>2. EdgesCounted' /\ TimeCounted' /\ AverageIsRight'
    BY <2>1 DEF EncoderInv, EdgesCounted, TimeCounted, AverageIsRight
  <2> QED
    BY <1>0, <1>1, <2>1, <2>2 DEF EncoderInv
<1>6. CASE ReadElapsed
  <2>1. UNCHANGED <<marks, window, served, pending_count>> /\ reader = "elapsed"
    BY <1>6 DEF ReadElapsed
  <2>2. CASE now_read =< last_read
    <3>1. reader' = "idle" /\ rpm' = Zero /\ last_read' = last_read
      BY <1>6, <2>2 DEF ReadElapsed
    <3>2. EdgesCounted' /\ TimeCounted' /\ AverageIsRight'
      BY <2>1, <3>1 DEF EncoderInv, EdgesCounted, TimeCounted, AverageIsRight, Zero
    <3> QED
      BY <1>0, <1>1, <2>1, <3>2 DEF EncoderInv
  <2>3. CASE ~ (now_read =< last_read)
    <3>1. /\ reader' = "swap" /\ elapsed' = now_read - last_read /\ last_read' = now_read
          /\ now_read' = now_read
      BY <1>6, <2>3 DEF ReadElapsed
    <3>2. EdgesCounted' /\ TimeCounted' /\ AverageIsRight'
      BY <2>1, <3>1 DEF EncoderInv, EdgesCounted, TimeCounted, AverageIsRight
    <3> QED
      BY <1>0, <1>1, <2>1, <3>2 DEF EncoderInv
  <2> QED
    BY <2>2, <2>3
<1>7. CASE ReadSwaps
  <2>1. /\ UNCHANGED <<marks, window, served, now_read, elapsed, last_read>>
        /\ reader = "swap" /\ reader' = "window"
        /\ count' = pending_count /\ pending_count' = 0 /\ swapped' = served /\ served \in Int
    BY <1>7 DEF ReadSwaps, EncoderInv, EncoderTypes, EncoderTypeOK, Positions
  <2>2. EdgesCounted'
    BY <2>1 DEF EncoderInv, EdgesCounted
  <2>3. TimeCounted' /\ AverageIsRight'
    BY <2>1 DEF EncoderInv, TimeCounted, AverageIsRight
  <2> QED
    BY <1>0, <1>1, <2>1, <2>2, <2>3 DEF EncoderInv
<1>8. CASE ReadWindow
  BY <1>8, ReadWindowRight
<1> QED
  BY <1>2, <1>3, <1>4, <1>5, <1>6, <1>7, <1>8 DEF EncoderNext, read_rpm

LEMMA EncoderHolds == EncoderSpec => []EncoderInv
BY EncoderInitially, EncoderStays, PTL DEF EncoderSpec

\* read_rpm, the interrupt and the window between them: the reported speed is the wheel's
\* movement over the time that the window spans, for any width of it.
THEOREM AverageRight == EncoderSpec => []AverageIsRight
<1>1. EncoderInv => AverageIsRight
  BY DEF EncoderInv
<1> QED
  BY EncoderHolds, <1>1, PTL

-------------------------------------------------------------------------------
(* All units *)

LEMMA UnitsStep ==
  [UnitsNext]_<<vars, periodicVars, encoderVars, unit>> =>
      [Next]_vars /\ [PeriodicNext]_periodicVars /\ [EncoderNext]_encoderVars
BY DEF UnitsNext

UnitsInv == EngineInv /\ PeriodicTypeOK /\ BusyWithOne /\ EncoderTypes

\* The queues of both samplers, the window of the wheel speed and its index stay within
\* their sizes, and no task of a node gets into a state the code does not have.
THEOREM UnitsTyped == UnitsSpec => []UnitTypes
<1>1. UnitsInit => UnitsInv
  BY EngineInitially, PeriodicTypesInitially, EncoderTypesInitially
  DEF UnitsInit, UnitsInv, EncoderTypes
<1>2. UnitsInv /\ [UnitsNext]_<<vars, periodicVars, encoderVars, unit>> => UnitsInv'
  BY UnitsStep, EngineStays, PeriodicTypesStay, EncoderTypesStay DEF UnitsInv
<1>3. UnitsInv => UnitTypes
  BY DEF UnitsInv, UnitTypes, EngineInv, EncoderTypes
<1> QED
  BY <1>1, <1>2, <1>3, PTL DEF UnitsSpec
================================================================================
