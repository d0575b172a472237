-------------------------- MODULE MCClockDiscipline --------------------------
(* Instances of ClockDiscipline, GpsReceiver and RmcDate for TLC: `unit` says
   which of them, which share no state, a behaviour belongs to. *)
EXTENDS ClockDiscipline, GpsReceiver, RmcDate

VARIABLE unit

UnitsInit ==
    /\ Init /\ GpsInit /\ DateInit
    /\ unit \in {"clock", "receiver", "date"}
    /\ unit # "date" => date.short_year = 0

UnitsNext ==
    \/ unit = "clock" /\ Next /\ UNCHANGED <<gpsVars, dateVars, unit>>
    \/ unit = "receiver" /\ GpsNext /\ UNCHANGED <<vars, dateVars, unit>>
    \/ unit = "date" /\ DateNext /\ UNCHANGED <<vars, gpsVars, unit>>

UnitsSpec == UnitsInit /\ [][UnitsNext]_<<vars, gpsVars, dateVars, unit>> /\ Fairness

\* The variables of the clock and the receiver are typed: the count of rejections and the
\* line stay within their sizes.
UnitTypes == TypeOK /\ GpsTypeOK

\* Small errors, which are corrected, and large ones, which are rejected.
SomeErrors == {-5, -2, -1, 0, 1, 3, 6}
==============================================================================
