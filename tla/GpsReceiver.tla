------------------------------ MODULE GpsReceiver ------------------------------
(***************************************************************************)
(* The GPS task of the master, master-node/src/gps/gps_receiver.c: setting   *)
(* up the receiver, and finding in its byte stream, for each measurement,    *)
(* the time of day and the moment it belongs to.                            *)
(*                                                                          *)
(* After each measurement the receiver sends a burst: an RMC sentence, then *)
(* the sentences that were not turned off.  A byte takes one tick.  The task *)
(* may read it up to MaxLag ticks late, and takes the time then.  Bytes may  *)
(* be lost, or arrive as NUL.  A sentence is Parts bytes and a newline; that *)
(* gps_rmc_parse accepts exactly the whole RMC sentences (checksum) is       *)
(* assumed, and what absolute_clock_observe_utc makes of an observation is   *)
(* ClockDiscipline.                                                         *)
(***************************************************************************)
EXTENDS Naturals, Sequences, FiniteSets

CONSTANTS
    Unused,       \* sentences turned off one by one: unused_nmea_ids
    Parts,        \* bytes of a sentence, without its newline
    LineMax,      \* bytes that a line holds
    BurstGap,     \* GPS_BURST_GAP_US
    FastPeriod, SlowPeriod,      \* ticks between measurements
    MaxLag,
    MaxBursts,    \* bound: measurements
    MaxGarbled    \* bound: bytes lost or garbled

\* A silence is heard as one, and no delay within a burst is.  For the slow period and
\* all sentences, and for the fast one and RMC alone.  Not everything from one sentence's
\* newline to the next one's is lost: a line left open is not closed by silence.
ASSUME GpsTiming ==
    /\ {Unused, Parts, LineMax, BurstGap, FastPeriod, SlowPeriod, MaxLag} \subseteq Nat
    /\ {MaxBursts, MaxGarbled} \subseteq Nat
    /\ Parts > 0 /\ LineMax >= Parts /\ MaxBursts > 0
    /\ MaxGarbled =< Parts /\ 1 + MaxGarbled + MaxLag < BurstGap
    /\ FastPeriod >= Parts + BurstGap + MaxLag
    /\ SlowPeriod >= (Parts + 1) * (Unused + 1) - 1 + BurstGap + MaxLag

VARIABLES
    stage,            \* "configure" or "read"
    command, attempt, acknowledged,      \* configure_update_rate
    sentences,        \* the receiver: unused sentences still on
    fast,             \* and whether its rate was raised
    late_acks,        \* acknowledgements of CFG-MSG not read yet
    tick,             \* time
    phase, measured,  \* the receiver: ticks since this measurement, and its number
    uart,             \* bytes received and not read
    text, overflow,   \* read_sentences: the sentence so far
    burst_start, previous_byte,          \* times, 0 for none
    garbled,          \* bytes lost or garbled
    since,            \* history: the bytes read since the last newline
    first,            \* history: when each burst's first byte arrived
    heard,            \* history: bursts whose RMC came whole on a line of its own
    observed          \* per burst, the moments given to absolute_clock_observe_utc

setup    == <<command, attempt, acknowledged, sentences, fast, late_acks>>
receiver == <<tick, phase, measured>>
assembly == <<text, overflow, burst_start, previous_byte>>
gpsVars  == <<stage, setup, receiver, uart, assembly, garbled, since, first, heard, observed>>

Bursts == 1 .. MaxBursts
\* A byte of a burst's sentence, the first of which is RMC; part 0 is the newline.
Nul == [burst |-> 0, sentence |-> 0, part |-> 0]
Byte == [burst : Bursts, sentence : 1 .. Unused + 1, part : 0 .. Parts] \cup {Nul}

Rmc(b) == [i \in 1 .. Parts |-> [burst |-> b, sentence |-> 1, part |-> i]]

GpsTypeOK ==
    /\ stage \in {"configure", "read"}
    /\ command \in 1 .. Unused + 2 /\ attempt \in 1 .. 2
    /\ acknowledged \in 0 .. Unused + 1
    /\ sentences \in SUBSET (1 .. Unused) /\ fast \in BOOLEAN /\ late_acks \in Nat
    /\ phase \in Nat /\ measured \in 0 .. MaxBursts /\ tick \in Nat
    /\ uart \in Seq([byte : Byte, at : Nat])
    /\ text \in Seq(Byte) /\ Len(text) =< LineMax /\ overflow \in BOOLEAN
    /\ burst_start \in Nat /\ previous_byte \in Nat
    /\ garbled \in 0 .. MaxGarbled /\ since \in Seq(Byte)
    /\ first \in [Bursts -> Nat] /\ heard \subseteq Bursts
    /\ observed \in [Bursts -> Seq(Nat)]

GpsInit ==
    /\ stage = "configure"
    /\ command = 1 /\ attempt = 1 /\ acknowledged = 0
    /\ sentences = 1 .. Unused /\ fast = FALSE /\ late_acks = 0
    /\ tick = 1 /\ phase = 0 /\ measured = 0
    /\ uart = <<>> /\ text = <<>> /\ overflow = FALSE
    /\ burst_start = 0 /\ previous_byte = 0
    /\ garbled = 0 /\ since = <<>> /\ heard = {}
    /\ first = [b \in Bursts |-> 0] /\ observed = [b \in Bursts |-> <<>>]

(***************************************************************************)
(* configure_update_rate: the command to the receiver and wait_for_ack.     *)
(* The command or its answer may be lost.  All CFG-MSG commands have the    *)
(* same acknowledgement, so a late one can be taken for the next command's.  *)
(***************************************************************************)
ReadFrame == UNCHANGED <<receiver, uart, assembly, garbled, since, first, heard, observed>>

Applied ==
    IF command =< Unused
    THEN sentences' = sentences \ {command} /\ UNCHANGED fast
    ELSE fast' = TRUE /\ UNCHANGED sentences

Proceed(answered) ==
    IF answered
    THEN /\ acknowledged' = acknowledged + 1
         /\ command' = command + 1 /\ attempt' = 1
    ELSE /\ UNCHANGED acknowledged
         /\ IF attempt = 1 THEN attempt' = 2 /\ UNCHANGED command
            ELSE attempt' = 1 /\ command' = command + 1

\* The last command raises the rate.
MayRaise == command =< Unused \/ acknowledged = Unused

\* arrives: at the receiver; answers: its answer comes back; in_time: within the timeout;
\* stale: an earlier answer is read for it.
Command ==
    /\ stage = "configure" /\ command =< Unused + 1 /\ MayRaise
    /\ \E arrives, answers, in_time, stale \in BOOLEAN :
        LET answered == in_time \/ stale IN
        /\ in_time => answers
        /\ answers => arrives
        /\ stale => late_acks > 0 /\ command =< Unused
        /\ IF arrives THEN Applied ELSE UNCHANGED <<sentences, fast>>
        /\ Proceed(answered)
        /\ late_acks' = IF command > Unused THEN late_acks
                        ELSE late_acks + (IF answers THEN 1 ELSE 0)
                                       - (IF answered THEN 1 ELSE 0)
    /\ UNCHANGED stage /\ ReadFrame

Configured == command > Unused + 1 \/ ~MayRaise
Quiet == fast => sentences = {}

\* uart_flush_input: reading begins anywhere in a period.  A receiver whose bursts run
\* into each other is not followed further.
Flush ==
    /\ stage = "configure" /\ Configured /\ Quiet
    /\ stage' = "read"
    /\ phase' \in 0 .. (IF fast THEN FastPeriod ELSE SlowPeriod) - 1
    /\ measured' = 1
    /\ UNCHANGED <<setup, tick, uart, assembly, garbled, since, first, heard, observed>>

(***************************************************************************)
(* The receiver's bytes, one a tick; time waits for a reader that is late.  *)
(***************************************************************************)
\* The byte of phase p, if the burst is that long.
Sends(p) == p \div (Parts + 1) =< Cardinality(sentences)
ByteAt(p) == [burst |-> measured, sentence |-> p \div (Parts + 1) + 1,
              part |-> ((p % (Parts + 1)) + 1) % (Parts + 1)]

Arrives(byte) ==
    /\ uart' = Append(uart, [byte |-> byte, at |-> tick + 1])
    /\ first' = IF first[measured] = 0 THEN [first EXCEPT ![measured] = tick + 1] ELSE first

NextTick ==
    /\ stage = "read"
    /\ \A k \in 1 .. Len(uart) : tick - uart[k].at < MaxLag
    /\ tick' = tick + 1
    /\ LET period == IF fast THEN FastPeriod ELSE SlowPeriod IN
       IF phase + 1 < period THEN phase' = phase + 1 /\ UNCHANGED measured
       ELSE measured < MaxBursts /\ phase' = 0 /\ measured' = measured + 1
    /\ IF ~Sends(phase) THEN UNCHANGED <<uart, first, garbled>>
       ELSE \/ Arrives(ByteAt(phase)) /\ UNCHANGED garbled
            \/ /\ garbled < MaxGarbled /\ garbled' = garbled + 1
               /\ (Arrives(Nul) \/ UNCHANGED <<uart, first>>)
    /\ UNCHANGED <<stage, setup, assembly, since, heard, observed>>

\* The instance's measurements are over.
StreamEnds ==
    /\ \/ stage = "read" /\ uart = <<>> /\ measured = MaxBursts
       \/ stage = "configure" /\ Configured /\ ~Quiet
    /\ UNCHANGED gpsVars

(***************************************************************************)
(* read_sentences                                                           *)
(***************************************************************************)
\* Faulty variant: the gap is looked for between the bytes of one burst.
StartsAtAnyByte(received, previous) == previous = 0 \/ received - previous > 0
starts_new_burst(received, previous) == previous = 0 \/ received - previous >= BurstGap

Start == IF starts_new_burst(tick, previous_byte) THEN tick ELSE burst_start

Others == UNCHANGED <<stage, setup, receiver, garbled, first>>

Take == stage = "read" /\ uart # <<>> /\ uart' = Tail(uart) /\ previous_byte' = tick

\* Room is left for the end of the string.
Fits(byte) == byte # Nul /\ Len(text) < LineMax

Text ==
    /\ Take
    /\ LET byte == Head(uart).byte IN
       /\ byte = Nul \/ byte.part # 0
       /\ text' = IF Fits(byte) THEN Append(text, byte) ELSE text
       /\ overflow' = (overflow \/ ~Fits(byte))
       /\ since' = Append(since, byte)
    /\ burst_start' = Start
    /\ UNCHANGED <<heard, observed>> /\ Others

\* Whether gps_rmc_parse takes the line.
Parsed(b) == ~overflow /\ text = Rmc(b)

\* A newline ends an over-long line as well.
Sentence ==
    /\ Take
    /\ LET byte == Head(uart).byte IN byte # Nul /\ byte.part = 0
    /\ text' = <<>> /\ overflow' = FALSE /\ since' = <<>>
    /\ heard' = heard \cup {b \in Bursts : since = Rmc(b)}
    /\ IF Start # 0 /\ \E b \in Bursts : Parsed(b)
       THEN /\ observed' = [b \in Bursts |->
                  IF Parsed(b) THEN Append(observed[b], Start) ELSE observed[b]]
            /\ burst_start' = 0
       ELSE burst_start' = Start /\ UNCHANGED observed
    /\ Others

read_sentences == Text \/ Sentence

GpsNext == Command \/ Flush \/ NextTick \/ read_sentences \/ StreamEnds

GpsSpec == GpsInit /\ [][GpsNext]_gpsVars

-------------------------------------------------------------------------------
(* Correctness *)

\* The comment at gps_receiver.c:91: with any other sentence still on the receiver stays at
\* its slow rate.  It does not: the late answer to one CFG-MSG command is taken for that to
\* the next, which was lost.
RateOnlyIfQuiet == Quiet

\* Each measurement whose RMC sentence came through whole sets the clock exactly once, with
\* the moment at which its burst began to arrive, read at most MaxLag late; none of a
\* measurement that did not, and none with the start of another one's burst.
ObservedAtItsStart ==
    \A b \in Bursts :
        IF b \in heard
        THEN Len(observed[b]) = 1 /\ observed[b][1] - first[b] \in 0 .. MaxLag
        ELSE observed[b] = <<>>
================================================================================
