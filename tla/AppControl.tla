------------------------------ MODULE AppControl ------------------------------
(***************************************************************************)
(* The application policy of the master: master-node/src/app/app_control.c  *)
(* with the live view of live/live_data.c, as driven by the HTTP server     *)
(* (web/web_server.c), the serial console (console/serial_console.c) and    *)
(* the automatic start after boot (main.c).                                 *)
(*                                                                          *)
(* The recording engine is represented by LoggerSession, which DataLogger   *)
(* implements.  Each call takes lifecycle_mutex; a call that times out on   *)
(* it returns without an effect and is not a step.  The HTTP server handles *)
(* one request at a time.  live_data.c does all its work in critical        *)
(* sections, so each of its operations is one step.                         *)
(*                                                                          *)
(* The lease is what is left of lease_deadline_us, in units of which Lease  *)
(* make 10 s; with none left the view has expired but is still enabled until *)
(* the next operation notices.  A live sample is represented by the number  *)
(* of the lease under which it was recorded.                                *)
(***************************************************************************)
EXTENDS Naturals

CONSTANTS
    Signals,       \* ids with an entry in the signals table
    Tokens,        \* nonzero values of esp_random
    Lease,         \* LIVE_DATA_LEASE_SECONDS
    MaxSessions,   \* bound: recordings started
    MaxLeases      \* bound: live views started

ASSUME BoundsAssumption ==
    /\ Lease \in Nat \ {0}
    /\ MaxSessions \in Nat
    /\ MaxLeases \in Nat

ASSUME TokensAssumption == 0 \notin Tokens /\ 0 \notin Signals

VARIABLES
    logger,           \* the state of data_logger
    lifecycle_mutex,  \* its holder, or "none"
    pc,               \* where each calling task is
    monitoring,       \* node_registry: sensor traffic is watched
    recording,        \* time_beacon: the flag the beacons carry
    burst,            \* the last command broadcast that was sent without error
    enabled,          \* live view switched on
    owner_token,      \* token of its viewer, 0 for none
    lease,            \* time left
    latest,           \* per signal, the lease its sample was recorded under, 0 if invalid
    issued,           \* tokens that viewers were given
    leases,           \* live views started so far
    sessions          \* recordings started so far

Callers == {"http", "console", "auto_start"}

live == <<enabled, owner_token, lease, latest, issued, leases>>
vars == <<logger, lifecycle_mutex, pc, monitoring, recording, burst, live, sessions>>

L == INSTANCE LoggerSession WITH state <- logger

\* Positions inside the three calls, in the order of the code.
Steps == {"start", "monitor", "record", "send_start",
          "stop", "stop_logger", "unrecord", "unmonitor", "send_stop",
          "live"}

TypeOK ==
    /\ logger \in {L!Idle, L!Running, L!Stopping}
    /\ lifecycle_mutex \in Callers \cup {"none"}
    /\ pc \in [Callers -> {"ready", "gone"} \cup Steps]
    /\ monitoring \in BOOLEAN /\ recording \in BOOLEAN
    /\ burst \in {"none", "start", "stop"}
    /\ enabled \in BOOLEAN
    /\ owner_token \in Tokens \cup {0}
    /\ lease \in 0 .. Lease
    /\ latest \in [Signals -> 0 .. MaxLeases]
    /\ issued \in SUBSET Tokens
    /\ leases \in 0 .. MaxLeases /\ sessions \in 0 .. MaxSessions

NoSamples == [s \in Signals |-> 0]

\* app_main: the nodes are told to stop before any caller exists.
Init ==
    /\ L!Init
    /\ lifecycle_mutex = "none"
    /\ pc = [c \in Callers |-> "ready"]
    /\ monitoring = FALSE /\ recording = FALSE
    /\ burst \in {"none", "stop"}
    /\ enabled = FALSE /\ owner_token = 0 /\ lease = 0 /\ latest = NoSamples
    /\ issued = {} /\ leases = 0 /\ sessions = 0

(***************************************************************************)
(* Taking and giving lifecycle_mutex.                                       *)
(***************************************************************************)
Commands(c) == CASE c = "http"       -> {"start", "stop", "live"}
                 [] c = "console"    -> {"start", "stop"}
                 [] c = "auto_start" -> {"start"}

Call(c) ==
    /\ pc[c] = "ready"
    /\ lifecycle_mutex = "none"
    /\ lifecycle_mutex' = c
    /\ \E command \in Commands(c) :
          /\ command = "live" => leases < MaxLeases
          /\ pc' = [pc EXCEPT ![c] = command]
    /\ UNCHANGED <<logger, monitoring, recording, burst, live, sessions>>

Goto(c, step) == pc' = [pc EXCEPT ![c] = step] /\ UNCHANGED lifecycle_mutex

\* The automatic start is made once.
Return(c) ==
    /\ lifecycle_mutex' = "none"
    /\ pc' = [pc EXCEPT ![c] = IF c = "auto_start" THEN "gone" ELSE "ready"]

(***************************************************************************)
(* app_control_start_logging                                                *)
(***************************************************************************)
StartLogger(c) ==
    /\ pc[c] = "start"
    /\ \/ /\ L!Begin
          /\ sessions < MaxSessions
          /\ sessions' = sessions + 1
          /\ Goto(c, "monitor")
       \/ /\ Return(c)             \* not idle, or data_logger_start failed
          /\ UNCHANGED <<logger, sessions>>
    /\ UNCHANGED <<monitoring, recording, burst, live>>

StartMonitoring(c) ==
    /\ pc[c] = "monitor"
    /\ monitoring' = TRUE
    /\ Goto(c, "record")
    /\ UNCHANGED <<logger, recording, burst, live, sessions>>

StartRecording(c) ==
    /\ pc[c] = "record"
    /\ recording' = TRUE
    /\ Goto(c, "send_start")
    /\ UNCHANGED <<logger, monitoring, burst, live, sessions>>

\* A failed broadcast is reported and not undone.
StartNodes(c) ==
    /\ pc[c] = "send_start"
    /\ burst' \in {"start", burst}
    /\ Return(c)
    /\ UNCHANGED <<logger, monitoring, recording, live, sessions>>

app_control_start_logging(c) ==
    StartLogger(c) \/ StartMonitoring(c) \/ StartRecording(c) \/ StartNodes(c)

(***************************************************************************)
(* live_data.c                                                              *)
(***************************************************************************)
\* Faulty variant without the memset: the samples stay behind.
ClearKeepsSamples ==
    /\ enabled' = FALSE /\ owner_token' = 0 /\ lease' = 0
    /\ UNCHANGED latest

clear_locked ==
    /\ enabled' = FALSE /\ owner_token' = 0 /\ lease' = 0
    /\ latest' = NoSamples

\* expire_locked: what the operations below see.
Alive == enabled /\ lease > 0

live_data_start ==
    /\ ~Alive
    /\ leases < MaxLeases
    /\ leases' = leases + 1
    /\ latest' = NoSamples
    /\ \E t \in Tokens : owner_token' = t /\ issued' = issued \cup {t}
    /\ lease' = Lease
    /\ enabled' = TRUE

\* What an operation on the view leaves alone.
LiveFrame == UNCHANGED <<logger, lifecycle_mutex, pc, monitoring, recording, burst,
                         issued, leases, sessions>>

Expire == enabled /\ ~Alive /\ clear_locked

live_data_force_stop == clear_locked /\ UNCHANGED <<issued, leases>>

\* CAN dispatch and GPS tasks.
live_data_record(s) ==
    /\ \/ Alive /\ latest' = [latest EXCEPT ![s] = leases]
               /\ UNCHANGED <<enabled, owner_token, lease>>
       \/ Expire
    /\ LiveFrame

\* A request with a token some viewer once got; only the owner's renews the lease.
live_data_snapshot(t) ==
    /\ pc["http"] = "ready"
    /\ \/ Alive /\ t = owner_token /\ lease' = Lease
               /\ UNCHANGED <<enabled, owner_token, latest>>
       \/ Expire
    /\ LiveFrame

live_data_stop(t) ==
    /\ pc["http"] = "ready"
    /\ Expire \/ (Alive /\ t = owner_token /\ clear_locked)
    /\ LiveFrame

\* app_control_get_status, from the HTTP server or the console.
live_data_is_enabled ==
    /\ Expire
    /\ LiveFrame

Tick ==
    /\ lease > 0
    /\ lease' = lease - 1
    /\ UNCHANGED <<enabled, owner_token, latest>>
    /\ LiveFrame

(***************************************************************************)
(* app_control_start_live_data and app_control_stop_logging                 *)
(***************************************************************************)
app_control_start_live_data(c) ==
    /\ pc[c] = "live"
    /\ \/ logger = L!Running /\ live_data_start
       \/ logger = L!Running /\ Alive /\ UNCHANGED live   \* busy
       \/ logger # L!Running /\ UNCHANGED live            \* conflict
    /\ Return(c)
    /\ UNCHANGED <<logger, monitoring, recording, burst, sessions>>

\* Faulty variants: the live view is left on; the refusal keeps the mutex.
StopLeavesLive(c) ==
    /\ pc[c] = "stop"
    /\ \/ logger = L!Running /\ Goto(c, "stop_logger")
       \/ logger # L!Running /\ Return(c)
    /\ UNCHANGED <<logger, monitoring, recording, burst, live, sessions>>

StopKeepsMutex(c) ==
    /\ pc[c] = "stop"
    /\ \/ logger = L!Running /\ live_data_force_stop /\ Goto(c, "stop_logger")
       \/ logger # L!Running /\ Goto(c, "ready") /\ UNCHANGED live
    /\ UNCHANGED <<logger, monitoring, recording, burst, sessions>>

StopLive(c) ==
    /\ pc[c] = "stop"
    /\ \/ /\ logger = L!Running
          /\ live_data_force_stop
          /\ Goto(c, "stop_logger")
       \/ /\ logger # L!Running
          /\ Return(c)
          /\ UNCHANGED live
    /\ UNCHANGED <<logger, monitoring, recording, burst, sessions>>

\* Faulty variant: the call goes on without having stopped the logger.
StopSkipsLogger(c) ==
    /\ pc[c] = "stop_logger"
    /\ Goto(c, "unrecord")
    /\ UNCHANGED <<logger, monitoring, recording, burst, live, sessions>>

\* The logger was running when the mutex was taken, so data_logger_stop succeeds.
StopLogger(c) ==
    /\ pc[c] = "stop_logger"
    /\ L!RequestStop
    /\ Goto(c, "unrecord")
    /\ UNCHANGED <<monitoring, recording, burst, live, sessions>>

StopRecording(c) ==
    /\ pc[c] = "unrecord"
    /\ recording' = FALSE
    /\ Goto(c, "unmonitor")
    /\ UNCHANGED <<logger, monitoring, burst, live, sessions>>

\* Faulty variant: the registry is not told.
StopForgetsMonitoring(c) ==
    /\ pc[c] = "unmonitor"
    /\ Goto(c, "send_stop")
    /\ UNCHANGED <<logger, monitoring, recording, burst, live, sessions>>

StopMonitoring(c) ==
    /\ pc[c] = "unmonitor"
    /\ monitoring' = FALSE
    /\ Goto(c, "send_stop")
    /\ UNCHANGED <<logger, recording, burst, live, sessions>>

StopNodes(c) ==
    /\ pc[c] = "send_stop"
    /\ burst' \in {"stop", burst}
    /\ Return(c)
    /\ UNCHANGED <<logger, monitoring, recording, live, sessions>>

app_control_stop_logging(c) ==
    StopLive(c) \/ StopLogger(c) \/ StopRecording(c) \/ StopMonitoring(c) \/ StopNodes(c)

LoggerFinishes ==
    /\ L!Finish
    /\ UNCHANGED <<lifecycle_mutex, pc, monitoring, recording, burst, live, sessions>>

InCall(c) ==
    app_control_start_logging(c) \/ app_control_stop_logging(c) \/ app_control_start_live_data(c)

LiveStep ==
    \/ \E s \in Signals : live_data_record(s)
    \/ \E t \in issued : live_data_snapshot(t) \/ live_data_stop(t)
    \/ live_data_is_enabled
    \/ Tick

Next ==
    \/ \E c \in Callers : Call(c) \/ InCall(c)
    \/ LiveStep
    \/ LoggerFinishes

Spec == Init /\ [][Next]_vars

(***************************************************************************)
(* A task inside a call goes on: everything it waits for is bounded by a    *)
(* timeout, or is file_mutex.  The end of a stopped session is what         *)
(* DataLogger!ImplementsSession shows.                                      *)
(***************************************************************************)
Fairness ==
    /\ \A c \in Callers : WF_vars(InCall(c))
    /\ WF_vars(LoggerFinishes)

FairSpec == Spec /\ Fairness

-------------------------------------------------------------------------------
(* Correctness *)

\* Live samples are offered only while a recording runs: the view is switched on
\* under lifecycle_mutex after a look at the logger, and switched off before the
\* logger is stopped, so no viewer outlives the recording, not even while the
\* logger is draining.
LiveOnlyWhileRunning == enabled => logger = L!Running

\* Between calls, the beacons announce a recording and the registry watches for
\* sensor traffic exactly when the logger runs, whichever tasks called start and
\* stop, in whatever order, and whether or not the broadcasts got through.
FlagsFollowLogger ==
    lifecycle_mutex = "none" =>
        /\ recording <=> logger = L!Running
        /\ monitoring <=> logger = L!Running

\* A viewer is shown only samples that arrived under its own lease: nothing is left
\* of an earlier viewer's, however that one ended (stop, forced stop, expiry).
LiveSamplesAreCurrent ==
    \A s \in Signals : latest[s] # 0 => enabled /\ latest[s] = leases

\* No path through a call keeps lifecycle_mutex, which would turn away every later
\* start and stop.
MutexReturned == lifecycle_mutex # "none" ~> lifecycle_mutex = "none"

\* A stop that was accepted ends with an idle logger.
StopTakesEffect == (\E c \in Callers : pc[c] = "stop_logger") ~> logger = L!Idle
===============================================================================
