--------------------------- MODULE ClockDiscipline ---------------------------
(***************************************************************************)
(* The master's UTC estimate: master-node/src/time/clock_discipline.c under *)
(* the lock of time/absolute_clock.c, fed by the RMC sentences that          *)
(* gps/gps_receiver.c pairs with the start of their burst.                  *)
(*                                                                          *)
(* The code uses times only through differences, so everything is kept      *)
(* relative: an uptime as the ticks passed since then, a UTC value as its   *)
(* error against true UTC at that uptime.  The master's oscillator is taken *)
(* to be exact; drift is one more error of the GPS values.  Times beyond     *)
(* which the code cannot tell the difference are capped.                    *)
(***************************************************************************)
EXTENDS Integers

CONSTANTS
    Correction,       \* CLOCK_DISCIPLINE_CORRECTION_US
    MaxError,         \* CLOCK_DISCIPLINE_MAX_ERROR_US
    StepAfter,        \* CLOCK_DISCIPLINE_STEP_AFTER_US
    StepRejections,   \* CLOCK_DISCIPLINE_STEP_AFTER_REJECTIONS
    CountMax,         \* UINT8_MAX, the largest rejected_in_a_row
    Period,           \* ticks between two bursts of the receiver
    MaxDelay,         \* most ticks from the start of a burst to the end of its RMC
    GpsErrors         \* how far the UTC of a sentence may be off

ASSUME TimesAssumption ==
    /\ Correction \in Nat \ {0} /\ MaxError \in 0 .. Correction
    /\ StepAfter \in Nat /\ CountMax \in Nat /\ StepRejections \in 1 .. CountMax
    /\ Period \in Nat \ {0} /\ MaxDelay \in 0 .. Period - 1

ASSUME ErrorsAssumption == GpsErrors \subseteq Int /\ 0 \in GpsErrors

VARIABLES
    synchronized,
    elapsed,     \* ticks since anchor_uptime_us
    anchor,      \* anchor_utc_us, as an error
    correction,  \* correction_us
    rejected,    \* rejected_in_a_row
    rejecting,   \* ticks since rejecting_since_us
    burst,       \* ticks since burst_start_us, or NoBurst
    quiet,       \* ticks since the last burst began
    gps          \* history: error of the last GPS value observed

line   == <<synchronized, elapsed, anchor, correction>>
reject == <<rejected, rejecting>>
vars   == <<line, reject, burst, quiet, gps>>

NoBurst == -1

ElapsedCap   == Correction + MaxDelay
RejectingCap == StepAfter + MaxDelay

TypeOK ==
    /\ synchronized \in BOOLEAN
    /\ elapsed \in 0 .. ElapsedCap
    /\ anchor \in Int /\ correction \in -MaxError .. MaxError
    /\ rejected \in 0 .. CountMax
    /\ rejecting \in 0 .. RejectingCap
    /\ burst \in {NoBurst} \cup 0 .. MaxDelay
    /\ quiet \in 0 .. Period
    /\ gps \in GpsErrors

Init ==
    /\ synchronized = FALSE /\ elapsed = 0 /\ anchor = 0 /\ correction = 0
    /\ rejected = 0 /\ rejecting = 0
    /\ burst = NoBurst /\ quiet = Period
    /\ gps = 0

AtMost(a, b) == IF a < b THEN a ELSE b
Abs(a) == IF a < 0 THEN -a ELSE a

\* Division as in C, towards zero.
Quotient(a, b) == IF a < 0 THEN -((-a) \div b) ELSE a \div b

\* The error of the estimate at a time when ticks have elapsed since the anchor.
clock_discipline_utc_us(ticks) ==
    anchor + Quotient(correction * AtMost(ticks, Correction), Correction)

Tick ==
    /\ burst < MaxDelay
    /\ elapsed' = AtMost(elapsed + 1, ElapsedCap)
    /\ rejecting' = AtMost(rejecting + 1, RejectingCap)
    /\ burst' = IF burst = NoBurst THEN NoBurst ELSE burst + 1
    /\ quiet' = AtMost(quiet + 1, Period)
    /\ UNCHANGED <<synchronized, anchor, correction, rejected, gps>>

\* A byte after a silence: starts_new_burst.
BurstStarts ==
    /\ burst = NoBurst /\ quiet = Period
    /\ burst' = 0 /\ quiet' = 0
    /\ UNCHANGED <<line, reject, gps>>

\* No sentence of the burst has a usable UTC.
BurstUnused ==
    /\ burst # NoBurst
    /\ burst' = NoBurst
    /\ UNCHANGED <<line, reject, quiet, gps>>

\* The first RMC of the burst that has one: burst_start_us is used up.
Observes(e) ==
    /\ burst # NoBurst
    /\ burst' = NoBurst /\ gps' = e
    /\ UNCHANGED quiet

jump_to(e) ==
    /\ synchronized' = TRUE /\ elapsed' = burst /\ anchor' = e /\ correction' = 0
    /\ rejected' = 0 /\ rejecting' = 0

(***************************************************************************)
(* clock_discipline_observe, for the uptime at which the burst began.       *)
(***************************************************************************)
Estimate == clock_discipline_utc_us(elapsed - burst)

Anchored(e) ==
    /\ Observes(e)
    /\ ~synchronized
    /\ jump_to(e)

\* Faulty variant: the line is not restarted from the estimate.
CorrectedAtOnce(e) ==
    /\ Observes(e)
    /\ synchronized /\ Abs(e - Estimate) =< MaxError
    /\ elapsed' = burst /\ anchor' = e /\ correction' = 0 /\ rejected' = 0
    /\ UNCHANGED <<synchronized, rejecting>>

\* Faulty variant: what is left of the previous correction is kept.
CorrectedTwice(e) ==
    /\ Observes(e)
    /\ synchronized /\ Abs(e - Estimate) =< MaxError
    /\ elapsed' = burst /\ anchor' = anchor + correction /\ correction' = e - Estimate
    /\ rejected' = 0
    /\ UNCHANGED <<synchronized, rejecting>>

Corrected(e) ==
    /\ Observes(e)
    /\ synchronized /\ Abs(e - Estimate) =< MaxError
    /\ elapsed' = burst /\ anchor' = Estimate /\ correction' = e - Estimate
    /\ rejected' = 0
    /\ UNCHANGED <<synchronized, rejecting>>

\* The count stops at its maximum.  Faulty variants: it goes on, or it wraps.
CountUnbounded == rejected + 1
CountWraps == (rejected + 1) % (CountMax + 1)
Count == AtMost(rejected + 1, CountMax)

\* rejecting_since_us after this rejection.
Since == IF rejected = 0 THEN burst ELSE rejecting

\* GPS has disagreed often and long enough to be believed.
Lasting == Count >= StepRejections /\ Since - burst >= StepAfter

Rejected(e) ==
    /\ Observes(e)
    /\ synchronized /\ Abs(e - Estimate) > MaxError
    /\ ~Lasting
    /\ rejected' = Count /\ rejecting' = Since
    /\ UNCHANGED line

Stepped(e) ==
    /\ Observes(e)
    /\ synchronized /\ Abs(e - Estimate) > MaxError
    /\ Lasting
    /\ jump_to(e)

absolute_clock_observe_utc(e) == Anchored(e) \/ Corrected(e) \/ Rejected(e) \/ Stepped(e)

RmcParsed == \E e \in GpsErrors : absolute_clock_observe_utc(e)

Next ==
    \/ Tick \/ BurstStarts \/ BurstUnused
    \/ RmcParsed

Spec == Init /\ [][Next]_vars

(***************************************************************************)
(* Time passes, and again and again a burst with a usable sentence comes.    *)
(***************************************************************************)
Fairness ==
    /\ WF_vars(Tick)
    /\ WF_vars(BurstStarts)
    /\ SF_vars(RmcParsed)

FairSpec == Spec /\ Fairness

-------------------------------------------------------------------------------
(* Correctness *)

\* The error of what a task reads from the clock now.
Error == clock_discipline_utc_us(elapsed)

\* The most that restarting the line at the start of a burst takes back: what the old
\* correction added since then, and what the new one would have taken off.
Slip == (2 * MaxError * MaxDelay + Correction - 1) \div Correction

\* The error after a step of the clock may not be smaller by more than this, unless the
\* clock was stepped: what passed in a tick, and otherwise `slip`.
FallsAtMost(slip) ==
    synchronized /\ ~(\E e \in GpsErrors : Stepped(e))
        => IF Tick THEN Error' + 1 >= Error ELSE Error' + slip >= Error

\* What ABSOLUTE_TIME.md says of the estimate: short of a step it never runs backwards.
\* It does: an observation is applied at the end of its sentence for the moment at which
\* its burst began, and takes back what the old correction added in between.
NeverBackwards == [][FallsAtMost(0)]_vars

\* How far it runs backwards, short of a step: when an observation restarts
\* the line it falls by no more than the slip of a sentence that comes after its burst
\* began, and in a tick it loses no more than that tick.
HardlyBackwards == [][FallsAtMost(Slip)]_vars

\* Corrections that are cut off by the next one never add up to an overshoot: the
\* estimate is never further off than some GPS value was.
NoOvershoot ==
    synchronized => \E low, high \in GpsErrors : low =< Error /\ Error =< high

\* The largest error whose correction rounds to zero between two bursts.
Residue == (Correction - 1) \div Period

\* Once GPS is right for good the estimate settles next to it, from any error: a
\* small one is corrected, a large one leads to a step.
Settles ==
    <>[](gps = 0 /\ synchronized) => <>[](-Residue =< Error /\ Error =< Residue)
==============================================================================
