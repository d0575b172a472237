---------------------------- MODULE LoggerSession ----------------------------
(***************************************************************************)
(* What the rest of the master relies on of the recording engine            *)
(* (logger/data_logger.h): a session begins only when the logger is idle,   *)
(* is asked to stop only while it runs, and ends by itself after the stop.  *)
(* DataLogger implements this specification between two power losses, and   *)
(* AppControl is built on it.                                               *)
(***************************************************************************)

VARIABLE state

Idle     == "idle"
Running  == "running"
Stopping == "stopping"

Init == state = Idle

\* data_logger_start returned DATA_LOGGER_START_OK.
Begin == state = Idle /\ state' = Running

\* data_logger_stop returned true.
RequestStop == state = Running /\ state' = Stopping

\* The writer task has drained and closed the files.
Finish == state = Stopping /\ state' = Idle

Next == Begin \/ RequestStop \/ Finish

Spec == Init /\ [][Next]_state

FairSpec == Spec /\ WF_state(Finish)
==============================================================================
