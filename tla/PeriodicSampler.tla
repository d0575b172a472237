---------------------------- MODULE PeriodicSampler ----------------------------
(***************************************************************************)
(* A node with periodic sensors: sample_task, its schedule and its queue in *)
(* sensor-node/src/sampler/sampler.c, with the inertial sensor of           *)
(* sensors/mpu6500.c, whose channels share one burst read.  (The engine     *)
(* node's path through the same file is Sampler.)                           *)
(*                                                                          *)
(* The ESP32-C3 has one core.  Commands run in the CAN dispatch task, of a  *)
(* higher priority than sample_task, and sampler_start does not block: it   *)
(* is one step, which may come between any two of sample_task: while that   *)
(* waits for the I2C bus, and between the load and the store of the due     *)
(* time that it moves on, so that the time set by the start is lost.        *)
(***************************************************************************)
EXTENDS Naturals, Sequences

CONSTANTS
    Channels,       \* descriptors in the registry; the first makes the burst read
    SamplePeriod,   \* MPU_SAMPLE_PERIOD_US
    SampleLength,   \* SAMPLE_QUEUE_LENGTH
    LastMoment,     \* bound: time
    MaxStarts       \* bound: recordings

ASSUME PeriodicBounds ==
    /\ Channels \in Nat \ {0} /\ SamplePeriod \in Nat \ {0} /\ SampleLength \in Nat \ {0}
    /\ LastMoment \in Nat /\ MaxStarts \in Nat

Moments == 0 .. LastMoment
Channel == 1 .. Channels
\* Numbers of rounds and bursts; 0 is the value that start_mpu leaves.
Rounds == 0 .. LastMoment + 1

VARIABLES
    moment,           \* esp_timer_get_time
    on,               \* active
    next_sample,      \* per descriptor, next_sample_us
    sample_status,    \* of the last burst: "ok", or an error
    values,           \* the burst that the values are from
    place,            \* where sample_task is
    channel,          \* the descriptor it has come to
    loop_now, wake,   \* the time it read for this round; when it wakes
    reading,          \* the burst it received from the sensor, 0 if that failed
    due,              \* the due time it has computed and not yet stored
    new_sample,       \* the sample it is about to queue
    queue,            \* sample_queue
    starts,           \* recordings so far
    round,            \* history: this round's number and the recording it began in
    taken,            \* history: samples taken so far
    armed,            \* history: when the recording was started
    slots,            \* history: per descriptor the last slot, and samples taken in it
    shifted           \* history: recordings begun between such a load and its store

schedule == <<next_sample, loop_now, wake, due>>
device   == <<sample_status, values, reading>>
queued   == <<new_sample, queue, taken>>
past     == <<armed, slots, shifted>>
periodicVars == <<moment, on, schedule, device, place, channel, queued, starts, round, past>>

SampleRecord == [n : Nat, round : Rounds, starts : 0 .. MaxStarts, burst : Rounds]

PeriodicTypeOK ==
    /\ moment \in Moments /\ on \in BOOLEAN /\ loop_now \in Moments
    /\ next_sample \in [Channel -> Nat] /\ wake \in Nat /\ due \in Nat
    /\ sample_status \in {"ok", "error"} /\ values \in Rounds /\ reading \in Rounds
    /\ shifted \subseteq 1 .. MaxStarts
    /\ place \in {"wait", "sensor", "burst", "status", "values", "check", "value",
                  "advance", "store", "queue", "discard", "again"}
    /\ channel \in 1 .. Channels + 1
    /\ new_sample \in SampleRecord
    /\ queue \in Seq(SampleRecord) /\ Len(queue) =< SampleLength
    /\ starts \in 0 .. MaxStarts /\ taken \in Nat
    /\ round \in [number : Rounds, starts : 0 .. MaxStarts]
    /\ armed \in Moments /\ slots \in [Channel -> [slot : Nat, samples : Nat]]

NoReading == [n |-> 0, round |-> 0, starts |-> 0, burst |-> 0]

PeriodicInit ==
    /\ moment = 0 /\ on = FALSE /\ loop_now = 0 /\ wake = 0
    /\ next_sample = [c \in Channel |-> 0]
    /\ sample_status = "error" /\ values = 0 /\ reading = 0
    /\ place = "wait" /\ channel = 1 /\ due = 0
    /\ new_sample = NoReading /\ queue = <<>> /\ taken = 0
    /\ starts = 0 /\ round = [number |-> 0, starts |-> 0]
    /\ armed = 0 /\ slots = [c \in Channel |-> [slot |-> 0, samples |-> 0]]
    /\ shifted = {}

TimePasses ==
    /\ moment < LastMoment
    /\ moment' = moment + 1
    /\ UNCHANGED <<on, schedule, device, place, channel, queued, starts, round, past>>

(***************************************************************************)
(* sampler_start with start_mpu and arm_schedule, sampler_stop and          *)
(* sampler_discard_pending.                                                 *)
(***************************************************************************)
start_mpu == sample_status' = "error" /\ values' = 0

PeriodicStart ==
    /\ ~on /\ starts < MaxStarts
    /\ queue' = <<>>
    /\ start_mpu
    /\ next_sample' = [c \in Channel |-> moment]
    /\ on' = TRUE
    /\ starts' = starts + 1
    /\ armed' = moment /\ slots' = [c \in Channel |-> [slot |-> 0, samples |-> 0]]
    /\ shifted' = IF place = "store" THEN shifted \cup {starts + 1} ELSE shifted
    /\ UNCHANGED <<moment, loop_now, wake, due, reading, place, channel, new_sample, taken, round>>

PeriodicStop ==
    /\ on
    /\ on' = FALSE /\ queue' = <<>>
    /\ UNCHANGED <<moment, schedule, device, place, channel, new_sample, taken, starts, round,
                   past>>

PeriodicDiscard ==
    /\ queue # <<>>
    /\ queue' = <<>>
    /\ UNCHANGED <<moment, on, schedule, device, place, channel, new_sample, taken, starts,
                   round, past>>

(***************************************************************************)
(* sample_task                                                              *)
(***************************************************************************)
Go(to) == place' = to
TaskFrame == UNCHANGED <<moment, on, starts, armed, shifted>>

\* Not active, it looks again after a while; active, a round begins.
RoundBegins ==
    /\ place = "wait" /\ on /\ moment >= wake
    /\ loop_now' = moment /\ channel' = 1
    /\ round' = [number |-> moment + 1, starts |-> starts]
    /\ Go("sensor")
    /\ UNCHANGED <<next_sample, wake, due, device, queued, slots>> /\ TaskFrame

\* A due sensor is read; the first one talks to the device.
SensorDue ==
    /\ place = "sensor" /\ channel =< Channels
    /\ IF loop_now >= next_sample[channel]
       THEN Go(IF channel = 1 THEN "burst" ELSE "check") /\ UNCHANGED channel
       ELSE UNCHANGED place /\ channel' = channel + 1
    /\ UNCHANGED <<schedule, device, queued, round, slots>> /\ TaskFrame

\* The I2C transfer, which may fail; then the status and the values are stored.
BurstRead ==
    /\ place = "burst"
    /\ reading' \in {0, round.number}
    /\ Go("status")
    /\ UNCHANGED <<schedule, sample_status, values, channel, queued, round, slots>>
    /\ TaskFrame

\* Faulty variant: a failed burst leaves the status of the one before.
BurstStatusOk ==
    /\ place = "status"
    /\ sample_status' = IF reading = 0 THEN sample_status ELSE "ok"
    /\ Go(IF reading = 0 THEN "check" ELSE "values")
    /\ UNCHANGED <<schedule, values, reading, channel, queued, round, slots>> /\ TaskFrame

BurstStatus ==
    /\ place = "status"
    /\ sample_status' = IF reading = 0 THEN "error" ELSE "ok"
    /\ Go(IF reading = 0 THEN "check" ELSE "values")
    /\ UNCHANGED <<schedule, values, reading, channel, queued, round, slots>> /\ TaskFrame

BurstValues ==
    /\ place = "values"
    /\ values' = reading
    /\ Go("check")
    /\ UNCHANGED <<schedule, sample_status, reading, channel, queued, round, slots>>
    /\ TaskFrame

\* The slot, counted from the start, in which a sample of this round falls.
InSlot(c) ==
    LET slot == (loop_now - armed) \div SamplePeriod IN
    IF loop_now < armed THEN slots[c]
    ELSE [slot |-> slot,
          samples |-> IF slots[c].slot = slot THEN slots[c].samples + 1 ELSE 1]

ReadFails ==
    /\ place = "check" /\ sample_status # "ok"
    /\ Go("advance")
    /\ UNCHANGED <<schedule, device, channel, queued, round, slots>> /\ TaskFrame

ReadPasses ==
    /\ place = "check" /\ sample_status = "ok"
    /\ Go("value")
    /\ UNCHANGED <<schedule, device, channel, queued, round, slots>> /\ TaskFrame

ReadValue ==
    /\ place = "value"
    /\ new_sample' = [n |-> taken + 1, round |-> round.number, starts |-> round.starts,
                  burst |-> values]
    /\ taken' = taken + 1
    /\ slots' = [slots EXCEPT ![channel] = InSlot(channel)]
    /\ Go("advance")
    /\ UNCHANGED <<schedule, device, channel, queue, round>> /\ TaskFrame

\* The slots up to loop_now are skipped.  Faulty variant: one slot at a time.
NextSlot(from) == IF from =< loop_now THEN from + SamplePeriod ELSE from
CaughtUp(from) ==
    IF from =< loop_now THEN loop_now + SamplePeriod - ((loop_now - from) % SamplePeriod)
    ELSE from

\* With its due time moved on, a sensor that gave a sample has it queued.
AdvanceDone ==
    IF new_sample.n = 0 THEN channel' = channel + 1 /\ Go("sensor")
    ELSE UNCHANGED channel /\ Go("queue")

\* while (next_sample_us <= now) next_sample_us += period_us, without a lock: what is
\* stored is computed from the due time found by the comparison, or from the one that
\* the addition reads again, which a start may have set in between.
AdvanceLoad ==
    /\ place = "advance"
    /\ IF next_sample[channel] =< loop_now
       THEN due' = CaughtUp(next_sample[channel]) /\ Go("store") /\ UNCHANGED channel
       ELSE UNCHANGED due /\ AdvanceDone
    /\ UNCHANGED <<next_sample, loop_now, wake, device, queued, round, slots>> /\ TaskFrame

ReadAgain ==
    IF next_sample[channel] =< loop_now THEN CaughtUp(next_sample[channel])
    ELSE next_sample[channel] + SamplePeriod

AdvanceStore ==
    /\ place = "store"
    /\ \E to \in {due, ReadAgain} : next_sample' = [next_sample EXCEPT ![channel] = to]
    /\ due' = 0
    /\ AdvanceDone
    /\ UNCHANGED <<loop_now, wake, device, queued, round, slots>> /\ TaskFrame

\* enqueue_latest: the sample, or room for it at the cost of the oldest.
SampleDone ==
    /\ channel' = channel + 1 /\ Go("sensor")
    /\ new_sample' = NoReading

Room == Len(queue) < SampleLength

EnqueueLatest ==
    /\ place = "queue"
    /\ IF Room
       THEN queue' = Append(queue, new_sample) /\ SampleDone
       ELSE Go("discard") /\ UNCHANGED <<queue, channel, new_sample>>
    /\ UNCHANGED <<schedule, device, taken, round, slots>> /\ TaskFrame

\* Faulty variant: what does not fit is dropped.
DiscardNewest ==
    /\ place = "discard"
    /\ SampleDone
    /\ UNCHANGED <<schedule, device, queue, taken, round, slots>> /\ TaskFrame

DiscardOldest ==
    /\ place = "discard"
    /\ queue' = IF queue = <<>> THEN queue ELSE Tail(queue)
    /\ Go("again")
    /\ UNCHANGED <<schedule, device, channel, new_sample, taken, round, slots>> /\ TaskFrame

EnqueueAgain ==
    /\ place = "again"
    /\ queue' = IF Room THEN Append(queue, new_sample) ELSE queue
    /\ SampleDone
    /\ UNCHANGED <<schedule, device, taken, round, slots>> /\ TaskFrame

\* Every sensor had its turn: sleep until the first slot, a tick at least.
RoundEnds ==
    /\ place = "sensor" /\ channel > Channels
    /\ \E c \in Channel :
        /\ \A d \in Channel : next_sample[c] =< next_sample[d]
        /\ wake' = IF next_sample[c] > moment THEN next_sample[c] ELSE moment + 1
    /\ Go("wait")
    /\ UNCHANGED <<next_sample, loop_now, due, device, channel, queued, round, slots>>
    /\ TaskFrame

PeriodicTask ==
    \/ RoundBegins \/ SensorDue \/ BurstRead \/ BurstStatus \/ BurstValues
    \/ ReadFails \/ ReadPasses \/ ReadValue \/ AdvanceLoad \/ AdvanceStore
    \/ EnqueueLatest \/ DiscardOldest \/ EnqueueAgain \/ RoundEnds

\* send_task takes the oldest sample; what it does with it is Sampler's.
PeriodicSend ==
    /\ queue # <<>>
    /\ queue' = Tail(queue)
    /\ UNCHANGED <<moment, on, schedule, device, place, channel, new_sample, taken, starts,
                   round, past>>

PeriodicNext ==
    \/ TimePasses \/ PeriodicStart \/ PeriodicStop \/ PeriodicDiscard
    \/ PeriodicTask \/ PeriodicSend

PeriodicSpec == PeriodicInit /\ [][PeriodicNext]_periodicVars

-------------------------------------------------------------------------------
(* Correctness *)

\* A sample holds the burst that its round has read: a failed burst never lets an older
\* value through.  There are two exceptions, both for a start in the middle of a round:
\* the round that it interrupts may put the zero of the reset into the new recording;
\* and when the start's due time was lost, the channels of that recording are due at
\* different times, and one may hold a burst that is older, though by less than a period.
OfItsRound(s) ==
    \/ s.burst = s.round
    \/ s.burst = 0 /\ s.starts < starts
    \/ s.starts \in shifted /\ s.burst =< s.round /\ s.round < s.burst + SamplePeriod

ValuesOfTheRound == \A k \in 1 .. Len(queue) : OfItsRound(queue[k])

\* However late a round is, a channel is sampled once per slot of its schedule: a
\* stall costs samples, it does not make a burst of them.  In a recording of which a due
\* time was lost the schedule is no longer in step with the slots: two in one of them.
OncePerSlot ==
    \A c \in Channel : slots[c].samples =< IF starts \in shifted THEN 2 ELSE 1

\* When sending is too slow it is the oldest samples that are lost: what is queued has
\* no gap and ends with the sample taken last, whatever is taken out meanwhile.
NewestAreKept ==
    /\ \A k \in 2 .. Len(queue) : queue[k].n = queue[k - 1].n + 1
    /\ queue # <<>> =>
        queue[Len(queue)].n = IF new_sample.n # 0 THEN taken - 1 ELSE taken
================================================================================
