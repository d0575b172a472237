-------------------------- MODULE NodeRegistryProofs --------------------------
(***************************************************************************)
(* The type invariant of NodeRegistry for any number of slots, any expected  *)
(* nodes, any width of the tick counter and any timeout.                    *)
(*                                                                          *)
(* That the table is only indexed within its slots follows from the range    *)
(* check, whatever id protocol_sensor_node_id returns; that slot 0 is never  *)
(* recorded is not inductive by itself and needs to be said of fpc.          *)
(***************************************************************************)
EXTENDS NodeRegistry, TLAPS

\* A frame that is being recorded is that of a node with a slot.
FrameIsThere == fpc # "idle" => frame \in Slots \ {0}

LEMMA RegistryInitially == RegistryInit => RegistryTypeOK /\ FrameIsThere
<1> USE TicksAssumption
<1>1. /\ 0 \in Ticks /\ 0 \in 0 .. MaxLag /\ Timeout \in 0 .. Timeout
      /\ 0 \in Slots
  BY IdsAssumption DEF Ticks, Slots
<1>2. RegistryInit => RegistryTypeOK
  <2> SUFFICES ASSUME RegistryInit PROVE RegistryTypeOK
    OBVIOUS
  <2>1. setter \in [nodes : SUBSET Expected, at : Ticks] /\ todo \in SUBSET Expected
    BY <1>1 DEF RegistryInit
  <2>2. /\ last_seen \in [Slots -> Ticks] /\ silent \in [Expected -> 0 .. Timeout]
        /\ data_seen \in [Slots -> BOOLEAN] /\ offline \in [Slots -> BOOLEAN]
    BY <1>1 DEF RegistryInit
  <2>3. tick \in Ticks /\ now \in Ticks /\ lag \in 0 .. MaxLag
    BY <1>1 DEF RegistryInit
  <2>4. monitoring = FALSE /\ frame \in Slots /\ fpc = "idle" /\ overdue = 0
    BY <1>1 DEF RegistryInit
  <2> QED
    BY <2>1, <2>2, <2>3, <2>4 DEF RegistryTypeOK
<1>3. RegistryInit => FrameIsThere
  BY DEF RegistryInit, FrameIsThere
<1> QED
  BY <1>2, <1>3

LEMMA TickIsTyped ==
  ASSUME RegistryTypeOK, FrameIsThere, Tick
  PROVE  RegistryTypeOK' /\ FrameIsThere'
<1> USE TicksAssumption DEF RegistryTypeOK, FrameIsThere
<1>1. tick' \in Ticks
  <2> DEFINE N == 2 ^ Width
  <2>1. N \in Nat /\ N > 0 /\ tick \in 0 .. N - 1 /\ tick' = (tick + 1) % N
    BY DEF Tick, Ticks
  <2> HIDE DEF N
  <2>2. tick' \in 0 .. N - 1
    BY <2>1
  <2> QED
    BY <2>2 DEF N, Ticks
<1>2. lag' \in 0 .. MaxLag
  BY DEF Tick
<1>3. silent' \in [Expected -> 0 .. Timeout]
  BY DEF Tick
<1> QED
  BY <1>1, <1>2, <1>3 DEF Tick, table, recorder

\* What the range check lets pass has a slot.
LEMMA InRangeHasSlot == ASSUME NEW id \in SenderIds, InRange(id) PROVE id \in Slots \ {0}
BY IdsAssumption DEF InRange, Slots

LEMMA RecorderIsTyped ==
  ASSUME RegistryTypeOK, FrameIsThere,
         NEW id \in SenderIds, node_registry_record_sensor_frame(id)
  PROVE  RegistryTypeOK' /\ FrameIsThere'
<1> USE TicksAssumption DEF RegistryTypeOK, FrameIsThere, table, monitor
<1>1. CASE RecordCheck(id)
  BY <1>1, InRangeHasSlot DEF RecordCheck
<1>2. CASE RecordTime
  BY <1>2 DEF RecordTime
<1>3. CASE RecordOnline
  <2>1. 0 \in Slots
    BY IdsAssumption DEF Slots
  <2> QED
    BY <1>3, <2>1 DEF RecordOnline
<1> QED
  BY <1>1, <1>2, <1>3 DEF node_registry_record_sensor_frame

LEMMA SetterIsTyped ==
  ASSUME RegistryTypeOK, FrameIsThere, SetFlag \/ \E n \in Expected : SetNode(n)
  PROVE  RegistryTypeOK' /\ FrameIsThere'
<1> USE DEF RegistryTypeOK, FrameIsThere, recorder, monitor
<1>1. CASE SetFlag
  BY <1>1 DEF SetFlag
<1>2. ASSUME NEW n \in Expected, SetNode(n)
      PROVE  RegistryTypeOK' /\ FrameIsThere'
  BY <1>2 DEF SetNode
<1> QED
  BY <1>1, <1>2

LEMMA MonitorIsTyped ==
  ASSUME RegistryTypeOK, FrameIsThere, monitor_task
  PROVE  RegistryTypeOK' /\ FrameIsThere'
<1> USE TicksAssumption DEF RegistryTypeOK, FrameIsThere, table, recorder
<1>1. CASE MonitorNow
  BY <1>1 DEF MonitorNow
<1>2. CASE MonitorMark
  BY <1>2 DEF MonitorMark
<1>3. ASSUME NEW n \in Expected, MonitorCheck(n)
      PROVE  RegistryTypeOK' /\ FrameIsThere'
  BY <1>3 DEF MonitorCheck
<1> QED
  BY <1>1, <1>2, <1>3 DEF monitor_task

LEMMA RegistryStays ==
  RegistryTypeOK /\ FrameIsThere /\ [RegistryNext]_registryVars => RegistryTypeOK' /\ FrameIsThere'
<1> SUFFICES ASSUME RegistryTypeOK, FrameIsThere, [RegistryNext]_registryVars PROVE RegistryTypeOK' /\ FrameIsThere'
  OBVIOUS
<1>1. CASE UNCHANGED registryVars
  BY <1>1 DEF registryVars, table, recorder, monitor, RegistryTypeOK, FrameIsThere
<1> QED
  BY <1>1, TickIsTyped, RecorderIsTyped, SetterIsTyped, MonitorIsTyped DEF RegistryNext

\* However the three tasks interleave, the time stamps stay within the width of the tick
\* counter across its wrap, and record_sensor_frame, which gets any id that the frames of the
\* bus have, expected or not, indexes the table within its slots and never slot 0.
THEOREM RegistryTypes ==
  RegistrySpec => [](RegistryTypeOK /\ (fpc # "idle" => frame \in Slots \ {0}))
<1>1. RegistryTypeOK /\ FrameIsThere
        => RegistryTypeOK /\ (fpc # "idle" => frame \in Slots \ {0})
  BY DEF FrameIsThere
<1> QED
  BY RegistryInitially, RegistryStays, <1>1, PTL DEF RegistrySpec
===============================================================================
