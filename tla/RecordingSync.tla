---------------------------- MODULE RecordingSync ----------------------------
(***************************************************************************)
(* How the sensor nodes follow the master's recording: START and STOP        *)
(* bursts (master-node/src/can/can_master.c), the periodic beacon with its  *)
(* recording flag (time/time_beacon.c), and on each node the receive queue, *)
(* dispatch_task and recovery_task of sensor-node/src/can/can_node.c, the   *)
(* sampler switch of sampler/sampler.c and the boot sequence of main.c.     *)
(*                                                                          *)
(* The bus loses frames for any subset of the nodes, and the master's driver *)
(* may keep a frame whose wait timed out and send it later.  Nodes get the   *)
(* frames that reach them in the order of the bus.  The times in beacons are *)
(* left out, and so are state reports: the master only prints them.          *)
(***************************************************************************)
EXTENDS Naturals, Sequences

CONSTANTS
    Nodes,
    RxLength,      \* CAN_RX_QUEUE_LENGTH of a node
    BurstCount,    \* CAN_COMMAND_REPEAT_COUNT
    NodesFirst,    \* are the nodes up before the master starts?
    MaxChanges,    \* bound: starts and stops of recordings
    MaxResets,     \* bound: node reboots
    MaxBusOffs     \* bound: bus-off events of nodes

ASSUME BoundsAssumption ==
    /\ RxLength \in Nat \ {0} /\ BurstCount \in Nat \ {0}
    /\ NodesFirst \in BOOLEAN
    /\ MaxChanges \in Nat /\ MaxResets \in Nat /\ MaxBusOffs \in Nat

VARIABLES
    recording,      \* the master's flag, set by app_control
    burst,          \* the command being repeated and how many copies are left
    beacon,         \* beacon_task: the flag it has read and not sent yet, or "none"
    tx_frame,       \* the frame of a timed-out send that the driver keeps, or "none"
    changes,        \* starts and stops so far
    rx_queue,       \* node: received frames not yet dispatched
    boot,           \* node: "off", "enabled" (CAN runs, boot report due) or "up"
    dispatch,       \* node: the state dispatch_task is about to assign, or "none"
    recovery,       \* node: the state recovery_task is about to assign back, or "none"
    bus,            \* node: "on", "off" (bus-off), "back" (recovered, not yet noticed)
    current_state,  \* node: can_node.c
    active,         \* node: sampler.c
    resets, busoffs \* bounds

master == <<recording, burst, beacon, tx_frame, changes>>
can    == <<rx_queue, boot, dispatch, recovery, bus, current_state>>
vars   == <<master, can, active, resets, busoffs>>

ACTIVE == "active"
IDLE   == "idle"

\* A frame is a command or a beacon's recording flag.
Frames == {"START", "STOP", "BEACON_ON", "BEACON_OFF"}

Pending == {"none", ACTIVE, IDLE}

MasterTyped ==
    /\ recording \in BOOLEAN
    /\ burst \in [frame : Frames, left : 0 .. BurstCount]
    /\ beacon \in Frames \cup {"none"} /\ tx_frame \in Frames \cup {"none"}
    /\ changes \in 0 .. MaxChanges

QueuesTyped ==
    /\ rx_queue \in [Nodes -> Seq(Frames)]
    /\ \A n \in Nodes : Len(rx_queue[n]) =< RxLength

NodesTyped ==
    /\ boot \in [Nodes -> {"off", "enabled", "up"}]
    /\ dispatch \in [Nodes -> Pending] /\ recovery \in [Nodes -> Pending]
    /\ bus \in [Nodes -> {"on", "off", "back"}]
    /\ current_state \in [Nodes -> {ACTIVE, IDLE}]
    /\ active \in [Nodes -> BOOLEAN]
    /\ resets \in 0 .. MaxResets /\ busoffs \in 0 .. MaxBusOffs

TypeOK == MasterTyped /\ QueuesTyped /\ NodesTyped

All(v) == [n \in Nodes |-> v]

\* The master has booted and app_main broadcasts STOP (its three bursts are one here)
\* before it creates beacon_task and anybody can start a recording.  A node that is up
\* may still be sampling for a recording that the master's reset has ended.
Init ==
    /\ recording = FALSE /\ burst = [frame |-> "STOP", left |-> BurstCount]
    /\ beacon = "none" /\ tx_frame = "none" /\ changes = 0
    /\ rx_queue = All(<<>>) /\ boot = All(IF NodesFirst THEN "up" ELSE "off")
    /\ dispatch = All("none") /\ recovery = All("none") /\ bus = All("on")
    /\ active \in [Nodes -> {FALSE, NodesFirst}]
    /\ current_state = [n \in Nodes |-> IF active[n] THEN ACTIVE ELSE IDLE]
    /\ resets = 0 /\ busoffs = 0

(***************************************************************************)
(* The bus: a frame is queued by the receive ISR of the nodes in to, except *)
(* where the queue is full.                                                 *)
(***************************************************************************)
Listening == {n \in Nodes : boot[n] # "off" /\ bus[n] # "off"}

receive_callback(frame, to) ==
    rx_queue' = [n \in Nodes |-> IF n \in to /\ Len(rx_queue[n]) < RxLength
                                 THEN Append(rx_queue[n], frame) ELSE rx_queue[n]]

Transmit(frame, to) ==
    /\ to \subseteq Listening
    /\ receive_callback(frame, to)
    /\ UNCHANGED <<boot, dispatch, recovery, bus, current_state, active, resets, busoffs>>

NodesFrame == UNCHANGED <<can, active, resets, busoffs>>

(***************************************************************************)
(* can_master_send: the frame goes out (Sent) or stays with the driver        *)
(* (Kept); while the driver keeps an earlier one, the call fails (Refused).   *)
(***************************************************************************)
Sent(frame, to)  == tx_frame = "none" /\ Transmit(frame, to) /\ UNCHANGED tx_frame
Kept(frame)      == tx_frame = "none" /\ tx_frame' = frame /\ NodesFrame
Refused          == tx_frame # "none" /\ UNCHANGED tx_frame /\ NodesFrame

can_master_send(frame, to) == Sent(frame, to) \/ Kept(frame) \/ Refused

\* The driver sends the frame it has kept.
TxDone(to) ==
    /\ tx_frame # "none"
    /\ Transmit(tx_frame, to)
    /\ tx_frame' = "none"
    /\ UNCHANGED <<recording, burst, beacon, changes>>

(***************************************************************************)
(* The master.  app_control sets the flag and then repeats the command,      *)
(* under lifecycle_mutex, so two bursts never overlap.                      *)
(***************************************************************************)
Begin ==
    /\ burst.left = 0 /\ ~recording /\ changes < MaxChanges
    /\ recording' = TRUE
    /\ burst' = [frame |-> "START", left |-> BurstCount]
    /\ changes' = changes + 1
    /\ UNCHANGED <<beacon, tx_frame>> /\ NodesFrame

End ==
    /\ burst.left = 0 /\ recording /\ changes < MaxChanges
    /\ recording' = FALSE
    /\ burst' = [frame |-> "STOP", left |-> BurstCount]
    /\ changes' = changes + 1
    /\ UNCHANGED <<beacon, tx_frame>> /\ NodesFrame

send_command_burst(to) ==
    /\ burst.left > 0
    /\ can_master_send(burst.frame, to)
    /\ burst' = [burst EXCEPT !.left = @ - 1]
    /\ UNCHANGED <<recording, beacon, changes>>

\* beacon_task reads the flag, and may then wait for tx_mutex before it sends.
BeaconRead ==
    /\ beacon = "none"
    /\ changes = 0 => burst.left = 0      \* the boot burst is over
    /\ beacon' = IF recording THEN "BEACON_ON" ELSE "BEACON_OFF"
    /\ UNCHANGED <<recording, burst, tx_frame, changes>> /\ NodesFrame

BeaconSend(to) ==
    /\ beacon # "none"
    /\ can_master_send(beacon, to)
    /\ beacon' = "none"
    /\ UNCHANGED <<recording, burst, changes>>

(***************************************************************************)
(* A node.  can_node_init enables reception and creates the tasks; only then *)
(* does app_main report the boot, which sets current_state.                 *)
(***************************************************************************)
NodeFrame == UNCHANGED <<master, resets, busoffs>>

can_node_init(n) ==
    /\ boot[n] = "off"
    /\ boot' = [boot EXCEPT ![n] = "enabled"]
    /\ UNCHANGED <<rx_queue, dispatch, recovery, bus, current_state, active>>
    /\ NodeFrame

BootReport(n) ==
    /\ boot[n] = "enabled"
    /\ boot' = [boot EXCEPT ![n] = "up"]
    /\ current_state' = [current_state EXCEPT ![n] = IDLE]
    /\ UNCHANGED <<rx_queue, dispatch, recovery, bus, active>>
    /\ NodeFrame

Asks(frame) == IF frame \in {"START", "BEACON_ON"} THEN ACTIVE ELSE IDLE

\* Faulty variant: only commands are followed.
FollowsCommands(n, frame) == current_state[n] # Asks(frame) /\ frame \in {"START", "STOP"}

\* The callback runs, and the state is assigned, only if it differs.
Follows(n, frame) == current_state[n] # Asks(frame)

\* Faulty variant: a beacon updates the state without the callback.
DispatchSkipsCallback(n) ==
    /\ dispatch[n] = "none"
    /\ rx_queue[n] # <<>>
    /\ LET frame == Head(rx_queue[n]) IN
         /\ active' = [active EXCEPT ![n] = IF frame \in {"START", "STOP"} THEN Asks(frame) = ACTIVE ELSE @]
         /\ dispatch' = [dispatch EXCEPT ![n] = Asks(frame)]
    /\ rx_queue' = [rx_queue EXCEPT ![n] = Tail(@)]
    /\ UNCHANGED <<boot, recovery, bus, current_state>>
    /\ NodeFrame

\* dispatch_task takes a frame and calls sampler_start or sampler_stop ...
DispatchFrame(n) ==
    /\ dispatch[n] = "none"
    /\ rx_queue[n] # <<>>
    /\ LET frame == Head(rx_queue[n]) IN
         /\ active' = [active EXCEPT ![n] = IF Follows(n, frame) THEN Asks(frame) = ACTIVE ELSE @]
         /\ dispatch' = [dispatch EXCEPT ![n] =
                IF Follows(n, frame) \/ frame \in {"START", "STOP"} THEN Asks(frame) ELSE "none"]
    /\ rx_queue' = [rx_queue EXCEPT ![n] = Tail(@)]
    /\ UNCHANGED <<boot, recovery, bus, current_state>>
    /\ NodeFrame

\* ... and then can_node_report_state, whose first statement assigns the state.
DispatchReport(n) ==
    /\ dispatch[n] # "none"
    /\ current_state' = [current_state EXCEPT ![n] = dispatch[n]]
    /\ dispatch' = [dispatch EXCEPT ![n] = "none"]
    /\ UNCHANGED <<rx_queue, boot, recovery, bus, active>>
    /\ NodeFrame

\* recovery_task: after a bus-off it reports the state it reads, which assigns it back.
Recovered(n) ==
    /\ bus[n] = "off"
    /\ bus' = [bus EXCEPT ![n] = "back"]
    /\ UNCHANGED <<rx_queue, boot, dispatch, recovery, current_state, active>>
    /\ NodeFrame

RecoveryRead(n) ==
    /\ bus[n] = "back" /\ recovery[n] = "none"
    /\ recovery' = [recovery EXCEPT ![n] = current_state[n]]
    /\ bus' = [bus EXCEPT ![n] = "on"]
    /\ UNCHANGED <<rx_queue, boot, dispatch, current_state, active>>
    /\ NodeFrame

RecoveryReport(n) ==
    /\ recovery[n] # "none"
    /\ current_state' = [current_state EXCEPT ![n] = recovery[n]]
    /\ recovery' = [recovery EXCEPT ![n] = "none"]
    /\ UNCHANGED <<rx_queue, boot, dispatch, bus, active>>
    /\ NodeFrame

BusOff(n) ==
    /\ boot[n] # "off" /\ bus[n] # "off" /\ busoffs < MaxBusOffs
    /\ busoffs' = busoffs + 1
    /\ bus' = [bus EXCEPT ![n] = "off"]
    /\ UNCHANGED <<rx_queue, boot, dispatch, recovery, current_state, active, master, resets>>

\* A node loses power or resets.
Reset(n) ==
    /\ boot[n] # "off" /\ resets < MaxResets
    /\ resets' = resets + 1
    /\ rx_queue' = [rx_queue EXCEPT ![n] = <<>>]
    /\ boot' = [boot EXCEPT ![n] = "off"]
    /\ dispatch' = [dispatch EXCEPT ![n] = "none"]
    /\ recovery' = [recovery EXCEPT ![n] = "none"]
    /\ bus' = [bus EXCEPT ![n] = "on"]
    /\ current_state' = [current_state EXCEPT ![n] = IDLE]
    /\ active' = [active EXCEPT ![n] = FALSE]
    /\ UNCHANGED <<master, busoffs>>

Dispatch(n) == DispatchFrame(n) \/ DispatchReport(n)
Boot(n)     == can_node_init(n) \/ BootReport(n)
Recovery(n) == Recovered(n) \/ RecoveryRead(n) \/ RecoveryReport(n)

Next ==
    \/ Begin \/ End \/ BeaconRead
    \/ \E to \in SUBSET Nodes : send_command_burst(to) \/ BeaconSend(to) \/ TxDone(to)
    \/ \E n \in Nodes : Boot(n) \/ Dispatch(n) \/ Recovery(n) \/ BusOff(n) \/ Reset(n)

Spec == Init /\ [][Next]_vars

\* beacon_task sends a beacon at once and node n has room for it.
BeaconArrives(n) ==
    /\ tx_frame = "none" /\ Len(rx_queue[n]) < RxLength
    /\ \E to \in SUBSET Nodes : n \in to /\ Sent(beacon, to)
    /\ beacon # "none" /\ beacon' = "none"
    /\ UNCHANGED <<recording, burst, changes>>

(***************************************************************************)
(* All tasks go on (each blocks only with a timeout or for its queue), and  *)
(* a beacon that is sent again and again gets through to a listening node   *)
(* with room in its queue again and again: the bus is not lost for good.    *)
(***************************************************************************)
Fairness ==
    /\ WF_vars(\E to \in SUBSET Nodes : send_command_burst(to))
    /\ WF_vars(BeaconRead)
    /\ WF_vars(\E to \in SUBSET Nodes : BeaconSend(to))
    /\ WF_vars(\E to \in SUBSET Nodes : TxDone(to))
    /\ \A n \in Nodes :
        /\ WF_vars(Boot(n))
        /\ WF_vars(Dispatch(n))
        /\ WF_vars(Recovery(n))
        /\ SF_vars(BeaconArrives(n))

FairSpec == Spec /\ Fairness

-------------------------------------------------------------------------------
(* Correctness *)

\* Until a node reboots or leaves the bus, the state it acts on and reports is that of its
\* sampler whenever dispatch_task is between frames.
StateMatchesSampler ==
    resets = 0 /\ busoffs = 0 =>
        \A n \in Nodes : dispatch[n] = "none" => (current_state[n] = ACTIVE <=> active[n])

\* A recording that goes on gets every node to sample, whatever frames are lost and
\* whenever the node reboots: beacons make up for missed commands.
RecordingReachesNodes == \A n \in Nodes : <>[]recording => <>[](active[n])

\* The state a node acknowledges settles at the master's, whatever frames are lost and
\* whenever the node reboots or leaves the bus.
StateFollowsMaster ==
    \A n \in Nodes :
        /\ <>[]recording => <>[](current_state[n] = ACTIVE)
        /\ <>[](~recording) => <>[](current_state[n] = IDLE)

\* A recording that has ended leaves no node sampling.
StopReachesNodes == \A n \in Nodes : <>[](~recording) => <>[](~active[n])

\* Both, for nodes that never reboot or leave the bus: they end up doing what the master
\* has settled on, whatever frames are lost or late.
NodesFollow ==
    [](resets = 0 /\ busoffs = 0) => RecordingReachesNodes /\ StopReachesNodes
==============================================================================
