------------------------------- MODULE CanLink -------------------------------
(***************************************************************************)
(* The CAN transport that master-node/src/can/can_master.c and              *)
(* sensor-node/src/can/can_node.c have in common: sending through one       *)
(* static frame, and the recovery from bus-off.  RecordingSync treats both  *)
(* as given and is about what the frames do.                                *)
(*                                                                          *)
(* The TWAI driver is external.  It keeps a pointer to the frame it was     *)
(* given, so what goes out is what tx_frame holds at that moment; a         *)
(* bus-off may make it forget the frame.  It stays in bus-off until it is   *)
(* asked to recover and has then seen the bus idle; meanwhile it reports    *)
(* bus-off, and the bus may fail again before anybody looks.                *)
(***************************************************************************)
EXTENDS Naturals, Sequences

CONSTANTS
    Tasks,         \* tasks that send
    Frames,        \* contents of a frame
    MaxBusOffs,    \* bound: bus-offs
    MaxFailures    \* bound: driver calls of the recovery task that fail for no reason

ASSUME CanBounds == MaxBusOffs \in Nat /\ MaxFailures \in Nat

ASSUME CanFrames == "none" \notin Frames /\ "none" \notin Tasks

VARIABLES
    side,             \* which program runs: "master" or "node"
    link,             \* the controller: "active", "off", or "leaving" the bus-off
    generation,       \* bus_off_generation
    on_wire,          \* frames the driver was given, as they were then
    tx_frame,         \* the static buffer that all of them point to
    tx_pending, tx_mutex,
    tpc,              \* where each sending task is
    tframe,           \* and the frame it was called with
    poll,             \* where recovery_task is
    snapshot,         \* its copy of the generation
    recovering, recovery_generation,
    unreported,       \* history: the controller came back; neither a report followed yet
                      \* nor a request that came too late, and was refused
    failures          \* driver calls that failed for no reason

bus     == <<link, generation, unreported>>
buffer  == <<on_wire, tx_frame, tx_pending>>
tasks   == <<tx_mutex, tpc, tframe>>
recover == <<poll, snapshot, recovering, recovery_generation, failures>>
canVars == <<side, bus, buffer, tasks, recover>>

CanTypeOK ==
    /\ side \in {"master", "node"} /\ link \in {"active", "off", "leaving"}
    /\ generation \in 0 .. MaxBusOffs /\ snapshot \in 0 .. MaxBusOffs
    /\ on_wire \in Seq(Frames) /\ Len(on_wire) =< 1 /\ tx_frame \in Frames \cup {"none"}
    /\ tx_mutex \in Tasks \cup {"none"}
    /\ tpc \in [Tasks -> {"ready", "settle", "fill", "transmit", "wait"}]
    /\ tframe \in [Tasks -> Frames \cup {"none"}]
    /\ poll \in {"snapshot", "status", "recover", "report"}
    /\ recovery_generation \in 0 .. MaxBusOffs /\ failures \in 0 .. MaxFailures
    /\ tx_pending \in BOOLEAN /\ recovering \in BOOLEAN /\ unreported \in BOOLEAN

CanInit ==
    /\ side \in {"master", "node"}
    /\ link = "active" /\ generation = 0 /\ unreported = FALSE
    /\ on_wire = <<>> /\ tx_frame = "none" /\ tx_pending = FALSE
    /\ tx_mutex = "none"
    /\ tpc = [t \in Tasks |-> "ready"] /\ tframe = [t \in Tasks |-> "none"]
    /\ poll = "snapshot" /\ snapshot = 0
    /\ recovering = FALSE /\ recovery_generation = 0 /\ failures = 0

(***************************************************************************)
(* The driver: a frame goes out; the controller goes bus-off, announced by  *)
(* state_change_callback; it has recovered.                                 *)
(***************************************************************************)
FrameGoesOut ==
    /\ link = "active" /\ on_wire # <<>>
    /\ on_wire' = Tail(on_wire)
    /\ UNCHANGED <<side, bus, tx_frame, tx_pending, tasks, recover>>

state_change_callback ==
    /\ link = "active" /\ generation < MaxBusOffs
    /\ link' = "off"
    /\ generation' = generation + 1
    /\ on_wire' \in {on_wire, <<>>}
    /\ UNCHANGED <<side, unreported, tx_frame, tx_pending, tasks, recover>>

BusIdle ==
    /\ link = "leaving"
    /\ link' = "active" /\ unreported' = (side = "node")
    /\ UNCHANGED <<side, generation, buffer, tasks, recover>>

(***************************************************************************)
(* can_master_send and can_node_send.  A task that cannot get the mutex in  *)
(* time returns without a step.                                             *)
(***************************************************************************)
SendReturns(t) ==
    /\ tx_mutex' = "none"
    /\ tpc' = [tpc EXCEPT ![t] = "ready"]
    /\ tframe' = [tframe EXCEPT ![t] = "none"]

SendTake(t, f) ==
    /\ tpc[t] = "ready" /\ tx_mutex = "none"
    /\ tx_mutex' = t
    /\ tframe' = [tframe EXCEPT ![t] = f]
    /\ tpc' = [tpc EXCEPT ![t] = IF tx_pending THEN "settle" ELSE "fill"]
    /\ UNCHANGED <<side, bus, buffer, recover>>

\* Faulty variant: whether the driver still holds the last frame is not asked.
SendSettleHopes(t) ==
    /\ tpc[t] = "settle"
    /\ tx_pending' = FALSE
    /\ tpc' = [tpc EXCEPT ![t] = "fill"]
    /\ UNCHANGED <<side, bus, on_wire, tx_frame, tx_mutex, tframe, recover>>

\* A transmission that timed out before is waited for again; if that fails too, the
\* call ends with the buffer as it is.
SendSettle(t) ==
    /\ tpc[t] = "settle"
    /\ IF on_wire = <<>>
       THEN /\ tx_pending' = FALSE
            /\ tpc' = [tpc EXCEPT ![t] = "fill"]
            /\ UNCHANGED <<tx_mutex, tframe>>
       ELSE UNCHANGED tx_pending /\ SendReturns(t)
    /\ UNCHANGED <<side, bus, on_wire, tx_frame, recover>>

SendFill(t) ==
    /\ tpc[t] = "fill"
    /\ tx_frame' = tframe[t]
    /\ tpc' = [tpc EXCEPT ![t] = "transmit"]
    /\ UNCHANGED <<side, bus, on_wire, tx_pending, tx_mutex, tframe, recover>>

\* twai_node_transmit takes the pointer, or fails.
SendTransmit(t) ==
    /\ tpc[t] = "transmit"
    /\ \/ /\ link = "active"
          /\ on_wire' = Append(on_wire, tframe[t])
          /\ tx_pending' = TRUE
          /\ tpc' = [tpc EXCEPT ![t] = "wait"]
          /\ UNCHANGED <<tx_mutex, tframe>>
       \/ UNCHANGED <<on_wire, tx_pending>> /\ SendReturns(t)
    /\ UNCHANGED <<side, bus, tx_frame, recover>>

\* The wait ends with everything sent, or by its timeout.
SendWait(t) ==
    /\ tpc[t] = "wait"
    /\ tx_pending' = (on_wire # <<>>)
    /\ SendReturns(t)
    /\ UNCHANGED <<side, bus, on_wire, tx_frame, recover>>

Send(t) ==
    \/ \E f \in Frames : SendTake(t, f)
    \/ SendSettle(t) \/ SendFill(t) \/ SendTransmit(t) \/ SendWait(t)

(***************************************************************************)
(* recovery_task of both programs, one round: the generation, the status,   *)
(* and what is done about it.                                               *)
(***************************************************************************)
BusOff == link # "active"           \* status.state == TWAI_ERROR_BUS_OFF

RecoveryFrame == UNCHANGED <<side, generation, buffer, tasks>>

PollSnapshot ==
    /\ poll = "snapshot"
    /\ snapshot' = generation
    /\ poll' = "status"
    /\ UNCHANGED <<bus, recovering, recovery_generation, failures>>
    /\ RecoveryFrame

\* Faulty variant: one request per bus-off seen, whatever happened since.
NotYetAsked == ~recovering
MustAsk == ~recovering \/ snapshot # recovery_generation

\* Faulty variant: a recovery that was asked for before its bus-off was counted is not
\* reported.
ReportedIfCounted == side = "node" /\ snapshot = recovery_generation
Reported == side = "node"

PollStatus ==
    /\ poll = "status"
    /\ recovering' = (recovering /\ BusOff)
    /\ poll' = IF BusOff /\ MustAsk THEN "recover"
               ELSE IF recovering /\ ~BusOff /\ Reported THEN "report"
               ELSE "snapshot"
    /\ UNCHANGED <<bus, snapshot, recovery_generation, failures>>
    /\ RecoveryFrame

PollFails ==
    /\ poll = "status" /\ failures < MaxFailures
    /\ failures' = failures + 1
    /\ poll' = "snapshot"
    /\ UNCHANGED <<bus, snapshot, recovering, recovery_generation>>
    /\ RecoveryFrame

\* twai_node_recover: refused when the controller is not, or no longer, bus-off.
PollRecover ==
    /\ poll = "recover"
    /\ \/ /\ BusOff
          /\ link' = "leaving"
          /\ recovering' = TRUE /\ recovery_generation' = snapshot
          /\ UNCHANGED <<failures, unreported>>
       \/ /\ \/ ~BusOff /\ UNCHANGED failures
             \/ link = "off" /\ failures < MaxFailures /\ failures' = failures + 1
          /\ recovering' = FALSE /\ unreported' = FALSE
          /\ UNCHANGED <<link, recovery_generation>>
    /\ poll' = "snapshot"
    /\ UNCHANGED snapshot /\ RecoveryFrame

\* The node's can_node_report_state(.., NODE_STATE_REASON_RECOVERY).
PollReport ==
    /\ poll = "report"
    /\ unreported' = FALSE
    /\ poll' = "snapshot"
    /\ UNCHANGED <<link, snapshot, recovering, recovery_generation, failures>>
    /\ RecoveryFrame

recovery_task ==
    PollSnapshot \/ PollStatus \/ PollFails \/ PollRecover \/ PollReport

CanNext ==
    \/ FrameGoesOut \/ state_change_callback \/ BusIdle
    \/ \E t \in Tasks : Send(t)
    \/ recovery_task

CanSpec == CanInit /\ [][CanNext]_canVars

(***************************************************************************)
(* The recovery task polls for ever, and the bus becomes idle for long      *)
(* enough at some time.                                                     *)
(***************************************************************************)
CanFairness ==
    /\ WF_canVars(recovery_task)
    /\ WF_canVars(BusIdle)

CanFairSpec == CanSpec /\ CanFairness

-------------------------------------------------------------------------------
(* Correctness *)

\* The driver holds pointers into the static buffer: as long as it does, the buffer
\* is not filled again, so every frame goes out with the contents it was sent with,
\* however late, and whatever calls came and timed out in between.
FrameKept == \A i \in 1 .. Len(on_wire) : on_wire[i] = tx_frame

\* The strengthening that proves it.  A frame with the driver is always covered by
\* tx_pending, and nobody who saw it unset is past the buffer without the mutex.
PendingCovers ==
    /\ on_wire # <<>> => tx_pending
    /\ \A t \in Tasks :
        /\ tpc[t] # "ready" <=> tx_mutex = t
        /\ tpc[t] # "ready" => tframe[t] \in Frames
        /\ tpc[t] \in {"fill", "transmit"} => ~tx_pending
        /\ tpc[t] = "transmit" => tx_frame = tframe[t]

\* Every bus-off is left again, one that follows before the recovery of the last was
\* noticed as well, and although driver calls may fail.
BusOffIsLeft == link = "off" ~> link = "active"

\* After every recovery of a node's controller the node reports its state, whichever
\* bus-offs came before or between; unless it had asked once more for a recovery that was
\* over by then.
RecoveryIsReported == unreported ~> ~unreported
===============================================================================
