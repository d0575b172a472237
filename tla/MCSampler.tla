------------------------------ MODULE MCSampler -------------------------------
(* Instances of Sampler, PeriodicSampler and BearingEncoder for TLC: `unit` says
   which of them, which share no state, a behaviour belongs to.  A node is built
   with one set of sensors. *)
EXTENDS Sampler, PeriodicSampler, BearingEncoder

VARIABLE unit

\* The master's clock and then, of a beacon, one that has fallen behind it by a tick.
TheOffsets == {0, -1}

UnitsInit ==
    /\ Init /\ PeriodicInit /\ EncoderInit
    /\ unit \in {"engine", "periodic", "encoder"}

UnitsNext ==
    \/ unit = "engine" /\ Next /\ UNCHANGED <<periodicVars, encoderVars, unit>>
    \/ unit = "periodic" /\ PeriodicNext /\ UNCHANGED <<vars, encoderVars, unit>>
    \/ unit = "encoder" /\ EncoderNext /\ UNCHANGED <<vars, periodicVars, unit>>

UnitsSpec == UnitsInit /\ [][UnitsNext]_<<vars, periodicVars, encoderVars, unit>>

\* The variables of all units are typed: both queues of the engine node, the queue of
\* the periodic one, and the window and its index stay within their sizes.
UnitTypes == TypeOK /\ PeriodicTypeOK /\ EncoderTypeOK
===============================================================================
