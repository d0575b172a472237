----------------------------- MODULE NodeRegistry -----------------------------
(***************************************************************************)
(* Which nodes the master believes to be alive:                             *)
(* master-node/src/node_state/node_registry.c.                              *)
(*                                                                          *)
(* Nothing protects the table.  Three tasks use it at once: can_dispatch     *)
(* records sensor frames, node_monitor looks for silent nodes every 250 ms, *)
(* and whoever starts or stops a recording switches the monitoring.  Every  *)
(* read and every assignment that another task could come between is a step. *)
(* TickType_t is unsigned and wraps around at 2^Width; silent is the true   *)
(* age of a node's last sensor frame, in ticks.  State reports (the fields   *)
(* seen, state and reason) are only printed and are left out.               *)
(***************************************************************************)
EXTENDS Naturals

CONSTANTS
    SlotCount,  \* CAN_NODE_SLOT_COUNT: the table has the slots 0 .. SlotCount - 1
    SenderIds,  \* results of protocol_sensor_node_id: 0 for a frame that is no sensor's
    Expected,   \* configured nodes: MASTER_EXPECTED_NODE_MASK
    Timeout,    \* NODE_OFFLINE_TIMEOUT_MS, in ticks
    Width,      \* bits of TickType_t
    MaxLag      \* most ticks between two starts of the monitor's loop body

ASSUME IdsAssumption ==
    /\ SlotCount \in Nat \ {0} /\ SenderIds \subseteq Nat
    /\ Expected \subseteq 1 .. SlotCount - 1

ASSUME TicksAssumption ==
    /\ Timeout \in Nat \ {0} /\ Width \in Nat /\ MaxLag \in Nat \ {0}
    /\ 2 ^ Width \in Nat /\ Timeout + MaxLag < 2 ^ Width

Ticks == 0 .. 2 ^ Width - 1

Slots == 0 .. SlotCount - 1

VARIABLES
    tick,         \* xTaskGetTickCount
    monitoring, data_seen, last_seen, offline,
    frame,        \* can_dispatch: the node whose frame it is recording
    fpc,          \* and what it assigns next
    setter,       \* set_monitoring: nodes not yet reset and the tick it read
    now, todo,    \* monitor_task: the tick it read and the nodes left to look at
    overdue,      \* the node it found overdue and is about to mark, or 0
    lag,          \* ticks since the monitor read now
    silent        \* history: ticks since an expected node's last frame, at most Timeout

table == <<monitoring, data_seen, last_seen, offline>>
recorder == <<frame, fpc>>
monitor == <<now, todo, overdue, lag>>
registryVars == <<tick, table, recorder, setter, monitor, silent>>

RegistryTypeOK ==
    /\ tick \in Ticks /\ now \in Ticks /\ lag \in 0 .. MaxLag
    /\ monitoring \in BOOLEAN
    /\ data_seen \in [Slots -> BOOLEAN] /\ offline \in [Slots -> BOOLEAN]
    /\ last_seen \in [Slots -> Ticks] /\ silent \in [Expected -> 0 .. Timeout]
    /\ frame \in Slots /\ fpc \in {"idle", "time", "online"}
    /\ setter \in [nodes : SUBSET Expected, at : Ticks]
    /\ todo \in SUBSET Expected /\ overdue \in Expected \cup {0}

RegistryInit ==
    /\ tick = 0 /\ now = 0 /\ lag = 0
    /\ monitoring = FALSE
    /\ data_seen = [n \in Slots |-> FALSE] /\ offline = [n \in Slots |-> FALSE]
    /\ last_seen = [n \in Slots |-> 0] /\ silent = [n \in Expected |-> Timeout]
    /\ frame = 0 /\ fpc = "idle"
    /\ setter = [nodes |-> {}, at |-> 0]
    /\ todo = {} /\ overdue = 0

Tick ==
    /\ lag < MaxLag
    /\ tick' = (tick + 1) % 2 ^ Width
    /\ lag' = lag + 1
    /\ silent' = [n \in Expected |-> IF silent[n] < Timeout THEN silent[n] + 1 ELSE Timeout]
    /\ UNCHANGED <<table, recorder, setter, now, todo, overdue>>

(***************************************************************************)
(* node_registry_record_sensor_frame                                        *)
(***************************************************************************)
\* Faulty variant of the range check.
InRangeOrNext(id) == id # 0 /\ id =< SlotCount
InRange(id) == id # 0 /\ id < SlotCount

\* Every node that the range check lets pass is recorded, expected or not.
RecordCheck(id) ==
    /\ fpc = "idle"
    /\ monitoring
    /\ InRange(id)
    /\ frame' = id /\ fpc' = "time"
    /\ UNCHANGED <<tick, table, setter, monitor, silent>>

RecordTime ==
    /\ fpc = "time"
    /\ data_seen' = [data_seen EXCEPT ![frame] = TRUE]
    /\ last_seen' = [last_seen EXCEPT ![frame] = tick]
    /\ silent' = [n \in Expected |-> IF n = frame THEN 0 ELSE silent[n]]
    /\ fpc' = "online"
    /\ UNCHANGED <<tick, monitoring, offline, frame, setter, monitor>>

\* Faulty variant: a node once offline stays so.
RecordLeavesOffline ==
    /\ fpc = "online"
    /\ fpc' = "idle" /\ frame' = 0
    /\ UNCHANGED <<tick, table, setter, monitor, silent>>

RecordOnline ==
    /\ fpc = "online"
    /\ offline' = [offline EXCEPT ![frame] = FALSE]
    /\ fpc' = "idle" /\ frame' = 0
    /\ UNCHANGED <<tick, monitoring, data_seen, last_seen, setter, monitor, silent>>

node_registry_record_sensor_frame(id) == RecordCheck(id) \/ RecordTime \/ RecordOnline

(***************************************************************************)
(* node_registry_set_monitoring: the flag first, then node by node.  Calls  *)
(* alternate between on and off and never overlap (AppControl).             *)
(***************************************************************************)
SetFlag ==
    /\ setter.nodes = {}
    /\ monitoring' = ~monitoring
    /\ setter' = [nodes |-> Expected, at |-> tick]
    /\ UNCHANGED <<tick, data_seen, last_seen, offline, recorder, monitor, silent>>

SetNode(n) ==
    /\ n \in setter.nodes
    /\ data_seen' = [data_seen EXCEPT ![n] = FALSE]
    /\ last_seen' = [last_seen EXCEPT ![n] = setter.at]
    /\ offline' = [offline EXCEPT ![n] = FALSE]
    /\ setter' = [setter EXCEPT !.nodes = @ \ {n}]
    /\ UNCHANGED <<tick, monitoring, recorder, monitor, silent>>

(***************************************************************************)
(* monitor_task                                                             *)
(***************************************************************************)
MonitorNow ==
    /\ todo = {} /\ overdue = 0
    /\ now' = tick /\ lag' = 0 /\ todo' = Expected
    /\ UNCHANGED <<tick, table, recorder, setter, overdue, silent>>

\* now - last_seen, in unsigned arithmetic.  Faulty variant: only nodes that have
\* sent something are looked at.
LateIfHeard(n) == data_seen[n] /\ (now + 2 ^ Width - last_seen[n]) % 2 ^ Width >= Timeout
Late(n) == (now + 2 ^ Width - last_seen[n]) % 2 ^ Width >= Timeout

MonitorCheck(n) ==
    /\ n \in todo /\ overdue = 0
    /\ todo' = todo \ {n}
    /\ overdue' = IF monitoring /\ ~offline[n] /\ Late(n) THEN n ELSE 0
    /\ UNCHANGED <<tick, table, recorder, setter, now, lag, silent>>

MonitorMark ==
    /\ overdue # 0
    /\ offline' = [offline EXCEPT ![overdue] = TRUE]
    /\ overdue' = 0
    /\ UNCHANGED <<tick, monitoring, data_seen, last_seen, recorder, setter, now, todo,
                   lag, silent>>

monitor_task == MonitorNow \/ MonitorMark \/ \E n \in Expected : MonitorCheck(n)

RegistryNext ==
    \/ Tick
    \/ \E id \in SenderIds : node_registry_record_sensor_frame(id)
    \/ SetFlag
    \/ \E n \in Expected : SetNode(n)
    \/ monitor_task

RegistrySpec == RegistryInit /\ [][RegistryNext]_registryVars

(***************************************************************************)
(* Time passes and every task finishes what it has begun; the monitor comes *)
(* round again.  Frames, starts and stops need not come.                    *)
(***************************************************************************)
RegistryFairness ==
    /\ WF_registryVars(Tick)
    /\ WF_registryVars(monitor_task)
    /\ WF_registryVars(RecordTime \/ RecordOnline)
    /\ \A n \in Expected : WF_registryVars(SetNode(n))

RegistryFairSpec == RegistrySpec /\ RegistryFairness

\* node_registry_state_name of a configured node.
StateName(n) ==
    IF ~monitoring THEN "off"
    ELSE IF offline[n] THEN "offline"
    ELSE IF data_seen[n] THEN "active" ELSE "waiting"

-------------------------------------------------------------------------------
(* Correctness *)

\* During a recording a node that has gone silent ends up shown as offline, across
\* the wrap-around of the tick counter and whatever the three tasks interleave.
SilenceIsNoticed ==
    \A n \in Expected :
        <>[](monitoring /\ silent[n] = Timeout) => <>[](StateName(n) = "offline")

\* A node that keeps sending during a recording is shown as active again and again:
\* no race leaves it marked offline for good.
TrafficIsNoticed ==
    \A n \in Expected :
        <>[]monitoring /\ []<>(silent[n] = 0) => []<>(StateName(n) = "active")

\* PROTOCOL.md:45: a configured node is shown as offline only after Timeout without a
\* frame of its own, or while one is being recorded.
OfflineMeansSilent ==
    \A n \in Expected :
        StateName(n) = "offline" /\ frame # n => silent[n] >= Timeout
===============================================================================
