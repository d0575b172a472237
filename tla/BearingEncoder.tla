---------------------------- MODULE BearingEncoder ----------------------------
(***************************************************************************)
(* The wheel speed of sensor-node/src/sensors/bearing_encoder.c: the        *)
(* interrupt that decodes the two quadrature lines, the count that it shares *)
(* with read_rpm, and the sliding window from which read_rpm takes the       *)
(* average.                                                                 *)
(*                                                                          *)
(* An interrupt is served before the next edge; it may come between any two *)
(* steps of a task.  start_encoder runs in the CAN dispatch task, preempts   *)
(* read_rpm (one core, higher priority) and does not block: it is one step.  *)
(* The speed is left as the pair of a count and a duration: calculate_rpm    *)
(* divides and rounds it.                                                   *)
(***************************************************************************)
EXTENDS Integers, Sequences

CONSTANTS
    Window,           \* ENCODER_WINDOW_SAMPLES
    EdgeTimeout,      \* ENCODER_STOP_TIMEOUT_US
    LastTime,         \* bound: time
    Travel,           \* bound: positions of the wheel, in edges from -1
    MaxSpins          \* bound: starts

ASSUME EncoderBounds ==
    /\ Window \in Nat \ {0} /\ EdgeTimeout \in Nat \ {0}
    /\ LastTime \in Nat \ {0} /\ Travel \in Nat /\ MaxSpins \in Nat

Clock == 0 .. LastTime
Positions == -1 .. Travel
Slots == 0 .. Window - 1

VARIABLES
    time,                \* esp_timer_get_time, from 1: 0 means never
    wheel,               \* the wheel's true position
    pending_count, last_valid_edge,
    last_state,          \* the lines as the interrupt saw them last
    count_window, time_window, window_index, window_size, last_read,
    reader,              \* where read_rpm is
    now_read, elapsed, count, edge,      \* its local variables, 0 while it is idle
    rpm,                 \* its result: a count and a duration
    spins,               \* starts so far
    served,              \* history: the position that the last interrupt saw
    swapped,             \* history: the same when read_rpm took the count
    marks                \* history: time and position of the start and of the reads
                         \* since, as many as the window spans; none after a start
                         \* that came into a read_rpm

shared == <<pending_count, last_valid_edge, last_state>>
window == <<count_window, time_window, window_index, window_size>>
locals == <<now_read, elapsed, count, edge>>
encoderVars == <<time, wheel, shared, window, last_read, reader, locals, rpm, spins,
                 served, swapped, marks>>

\* The lines over four edges forward, line A the high bit.
Lines(position) == <<0, 2, 3, 1>>[(position % 4) + 1]

\* transitions: an edge forward or backward, 0 for none or for a state left out.
encoder_transition(previous, current) ==
    <<0, -1, 1, 0,  1, 0, 0, -1,  -1, 0, 0, 1,  0, 1, -1, 0>>[4 * previous + current + 1]

Zero == [count |-> 0, time |-> 0]

EncoderTypeOK ==
    /\ time \in Clock /\ last_read \in Clock /\ now_read \in Clock
    /\ last_valid_edge \in Clock /\ edge \in Clock
    /\ {wheel, served, swapped} \subseteq Positions
    /\ pending_count \in Int /\ count \in Int /\ elapsed \in Int
    /\ last_state \in 0 .. 3
    /\ count_window \in [Slots -> Int] /\ time_window \in [Slots -> Clock]
    /\ window_index \in Slots /\ window_size \in 0 .. Window
    /\ reader \in {"idle", "elapsed", "swap", "window"}
    /\ rpm \in [count : Int, time : Nat] /\ spins \in 0 .. MaxSpins
    /\ marks \in Seq([at : Clock, wheel : Positions]) /\ Len(marks) =< Window + 1

EncoderInit ==
    /\ time = 1 /\ wheel = 0 /\ spins = 0 /\ reader = "idle"
    /\ pending_count = 0 /\ last_valid_edge = 0 /\ last_state = Lines(0)
    /\ count_window = [i \in Slots |-> 0] /\ time_window = [i \in Slots |-> 0]
    /\ window_index = 0 /\ window_size = 0 /\ last_read = 0
    /\ now_read = 0 /\ elapsed = 0 /\ count = 0 /\ edge = 0 /\ rpm = Zero
    /\ served = 0 /\ swapped = 0 /\ marks = <<>>

TimeGoesOn ==
    /\ time < LastTime
    /\ time' = time + 1
    /\ UNCHANGED <<wheel, shared, window, last_read, reader, locals, rpm, spins, served,
                   swapped, marks>>

\* The wheel turns by an edge, if the last one has been served.
Turn ==
    /\ wheel = served
    /\ wheel' \in {wheel - 1, wheel + 1} \cap Positions
    /\ UNCHANGED <<time, shared, window, last_read, reader, locals, rpm, spins, served,
                   swapped, marks>>

\* The two lines share the handler, so that it may also run without a change.
encoder_isr ==
    LET transition == encoder_transition(last_state, Lines(wheel)) IN
    /\ pending_count' = pending_count + transition
    /\ last_valid_edge' = IF transition # 0 THEN time ELSE last_valid_edge
    /\ last_state' = Lines(wheel)
    /\ served' = wheel
    /\ UNCHANGED <<time, wheel, window, last_read, reader, locals, rpm, spins, swapped,
                   marks>>

ClearWindow ==
    /\ count_window' = [i \in Slots |-> 0] /\ time_window' = [i \in Slots |-> 0]
    /\ window_index' = 0 /\ window_size' = 0

start_encoder ==
    /\ spins < MaxSpins
    /\ spins' = spins + 1
    /\ pending_count' = 0 /\ last_valid_edge' = 0
    /\ ClearWindow
    /\ last_read' = time
    /\ marks' = IF reader = "idle" THEN <<[at |-> time, wheel |-> served]>> ELSE <<>>
    /\ UNCHANGED <<time, wheel, last_state, reader, locals, rpm, served, swapped>>

(***************************************************************************)
(* read_rpm                                                                 *)
(***************************************************************************)
ReaderFrame == UNCHANGED <<time, wheel, last_state, last_valid_edge, spins, served>>

ReadTime ==
    /\ reader = "idle" /\ spins > 0
    /\ now_read' = time
    /\ reader' = "elapsed"
    /\ UNCHANGED <<pending_count, window, last_read, elapsed, count, edge, rpm, swapped,
                   marks>>
    /\ ReaderFrame

\* Nothing has elapsed, or a start came between: the result is 0.
ReadElapsed ==
    /\ reader = "elapsed"
    /\ IF now_read =< last_read
       THEN /\ reader' = "idle" /\ now_read' = 0
            /\ rpm' = Zero
            /\ UNCHANGED <<elapsed, last_read>>
       ELSE /\ reader' = "swap"
            /\ elapsed' = now_read - last_read /\ last_read' = now_read
            /\ UNCHANGED <<now_read, rpm>>
    /\ UNCHANGED <<pending_count, window, count, edge, swapped, marks>>
    /\ ReaderFrame

\* Under the lock.  Faulty variant: the count is taken and not reset.
ReadCopies ==
    /\ reader = "swap"
    /\ count' = pending_count /\ edge' = last_valid_edge
    /\ swapped' = served
    /\ reader' = "window"
    /\ UNCHANGED <<pending_count, window, last_read, now_read, elapsed, rpm, marks>>
    /\ ReaderFrame

ReadSwaps ==
    /\ reader = "swap"
    /\ count' = pending_count /\ pending_count' = 0 /\ edge' = last_valid_edge
    /\ swapped' = served
    /\ reader' = "window"
    /\ UNCHANGED <<window, last_read, now_read, elapsed, rpm, marks>>
    /\ ReaderFrame

encoder_is_stopped == edge = 0 \/ now_read - edge >= EdgeTimeout

Total(f, n) ==
    LET sum[i \in 0 .. n] == IF i = 0 THEN 0 ELSE f[i - 1] + sum[i - 1] IN sum[n]

Marked ==
    LET longer == Append(marks, [at |-> now_read, wheel |-> swapped]) IN
    IF marks = <<>> THEN marks
    ELSE IF Len(longer) > Window + 1 THEN Tail(longer) ELSE longer

NextIndex == (window_index + 1) % Window

ReadWindow ==
    /\ reader = "window"
    /\ count_window' = [count_window EXCEPT ![window_index] = count]
    /\ time_window' = [time_window EXCEPT ![window_index] = elapsed]
    /\ window_index' = NextIndex
    /\ window_size' = IF window_size < Window THEN window_size + 1 ELSE window_size
    /\ rpm' = IF encoder_is_stopped THEN Zero
              ELSE [count |-> Total(count_window', window_size'),
                    time |-> Total(time_window', window_size')]
    /\ marks' = Marked
    /\ reader' = "idle"
    /\ now_read' = 0 /\ elapsed' = 0 /\ count' = 0 /\ edge' = 0 /\ swapped' = 0
    /\ UNCHANGED <<pending_count, last_read>> /\ ReaderFrame

read_rpm == ReadTime \/ ReadElapsed \/ ReadSwaps \/ ReadWindow

EncoderNext == TimeGoesOn \/ Turn \/ encoder_isr \/ start_encoder \/ read_rpm

EncoderSpec == EncoderInit /\ [][EncoderNext]_encoderVars

-------------------------------------------------------------------------------
(* Correctness *)

\* A speed that read_rpm reports is the wheel's true movement, either way, between this
\* read and the one a full window ago, or the start, and the time between the two: no
\* edge is lost or counted twice between the interrupt and the window, and nothing of
\* an earlier recording is in it, unless the start came into a read.
AverageIsRight ==
    rpm.time # 0 /\ marks # <<>> /\ reader = "idle" /\ Len(marks) > 1 =>
        LET newest == marks[Len(marks)] IN
        rpm = [count |-> newest.wheel - marks[1].wheel, time |-> newest.at - marks[1].at]
===============================================================================
