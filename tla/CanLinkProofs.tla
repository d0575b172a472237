----------------------------- MODULE CanLinkProofs -----------------------------
(***************************************************************************)
(* Proofs about CanLink for any number of sending tasks and of bus-offs: its *)
(* type invariant, and that a frame the driver holds is never overwritten.  *)
(*                                                                          *)
(* FrameKept is not inductive: that nobody fills the buffer rests on         *)
(* tx_pending, which is unset only when the driver holds nothing, and on     *)
(* tx_mutex, without which nobody is past the look at it: PendingCovers.     *)
(***************************************************************************)
EXTENDS CanLink, TLAPS

\* The inductive invariant.
CanInv == CanTypeOK /\ PendingCovers /\ FrameKept

LEMMA CanInitially == CanInit => CanInv
<1> SUFFICES ASSUME CanInit PROVE CanInv
  OBVIOUS
<1> USE CanBounds, CanFrames DEF CanInit
<1>1. on_wire \in Seq(Frames) /\ Len(on_wire) = 0
  OBVIOUS
<1>2. tpc \in [Tasks -> {"ready", "settle", "fill", "transmit", "wait"}]
  OBVIOUS
<1>3. tframe \in [Tasks -> Frames \cup {"none"}]
  OBVIOUS
<1>4. tx_pending \in BOOLEAN /\ recovering \in BOOLEAN /\ unreported \in BOOLEAN
  OBVIOUS
<1>5. CanTypeOK
  BY <1>1, <1>2, <1>3, <1>4 DEF CanTypeOK
<1>6. PendingCovers
  BY DEF PendingCovers
<1>7. FrameKept
  BY <1>1 DEF FrameKept
<1> QED
  BY <1>5, <1>6, <1>7 DEF CanInv

\* The bus: what the driver holds only gets less.
LEMMA BusKeeps ==
  ASSUME CanInv, FrameGoesOut \/ state_change_callback \/ BusIdle
  PROVE  CanInv'
<1> USE CanBounds, CanFrames
    DEF CanInv, CanTypeOK, PendingCovers, FrameKept, bus, tasks, recover, buffer
<1>1. CASE FrameGoesOut
  <2>1. on_wire' = <<>>
    BY <1>1 DEF FrameGoesOut
  <2> QED
    BY <1>1, <2>1 DEF FrameGoesOut
<1>2. CASE state_change_callback
  <2>1. on_wire' = on_wire \/ on_wire' = <<>>
    BY <1>2 DEF state_change_callback
  <2>2. generation' \in 0 .. MaxBusOffs
    BY <1>2 DEF state_change_callback
  <2>3. on_wire' \in Seq(Frames) /\ Len(on_wire') =< 1
    <3>1. CASE on_wire' = on_wire
      BY <3>1
    <3>2. CASE on_wire' = <<>>
      BY <3>2
    <3> QED
      BY <2>1, <3>1, <3>2
  <2>4. CanTypeOK'
    BY <1>2, <2>2, <2>3 DEF state_change_callback
  <2>5. PendingCovers'
    BY <1>2, <2>1 DEF state_change_callback
  <2>6. FrameKept'
    BY <1>2, <2>1 DEF state_change_callback
  <2> QED
    BY <2>4, <2>5, <2>6
<1>3. CASE BusIdle
  BY <1>3 DEF BusIdle
<1> QED
  BY <1>1, <1>2, <1>3

\* A call of can_master_send or can_node_send: its task alone holds the mutex.
LEMMA SendKeeps ==
  ASSUME CanInv, NEW t \in Tasks, Send(t)
  PROVE  CanInv'
<1> USE CanBounds, CanFrames
    DEF CanInv, CanTypeOK, PendingCovers, FrameKept, bus, buffer, recover
<1>1. CASE \E f \in Frames : SendTake(t, f)
  <2>1. PICK f \in Frames : SendTake(t, f)
    BY <1>1
  <2> QED
    BY <2>1 DEF SendTake
<1>2. CASE SendSettle(t)
  <2>1. CanTypeOK'
    BY <1>2 DEF SendSettle, SendReturns
  <2>2. CASE on_wire = <<>>
    <3>1. PendingCovers'
      BY <1>2, <2>2 DEF SendSettle
    <3>2. FrameKept'
      BY <1>2 DEF SendSettle
    <3> QED
      BY <2>1, <3>1, <3>2
  <2>3. CASE on_wire # <<>>
    <3>1. PendingCovers'
      BY <1>2, <2>3 DEF SendSettle, SendReturns
    <3>2. FrameKept'
      BY <1>2 DEF SendSettle
    <3> QED
      BY <2>1, <3>1, <3>2
  <2> QED
    BY <2>2, <2>3
<1>3. CASE SendFill(t)
  <2>1. on_wire = <<>>
    BY <1>3 DEF SendFill
  <2>2. tframe[t] \in Frames \cup {"none"}
    OBVIOUS
  <2> QED
    BY <1>3, <2>1, <2>2 DEF SendFill
<1>4. CASE SendTransmit(t)
  <2>1. on_wire = <<>> /\ tframe[t] \in Frames /\ tx_frame = tframe[t] /\ tx_mutex = t
    BY <1>4 DEF SendTransmit
  <2>2. CASE on_wire' = on_wire
    <3>1. SendReturns(t) /\ UNCHANGED tx_pending
      BY <1>4, <2>1, <2>2 DEF SendTransmit
    <3> QED
      BY <1>4, <2>1, <2>2, <3>1 DEF SendTransmit, SendReturns
  <2>3. CASE on_wire' = Append(on_wire, tframe[t])
    <3>1. on_wire' = <<tframe[t]>> /\ on_wire' # on_wire
      BY <2>1, <2>3
    <3>2. /\ tx_pending' = TRUE
          /\ tpc' = [tpc EXCEPT ![t] = "wait"]
          /\ UNCHANGED <<tx_mutex, tframe>>
      BY <1>4, <3>1 DEF SendTransmit
    <3>3. on_wire' \in Seq(Frames) /\ Len(on_wire') = 1
      BY <2>1, <3>1
    <3>4. CanTypeOK'
      BY <1>4, <3>2, <3>3 DEF SendTransmit
    <3>5. PendingCovers'
      BY <1>4, <2>1, <3>2 DEF SendTransmit
    <3>6. FrameKept'
      BY <1>4, <2>1, <3>1 DEF SendTransmit
    <3> QED
      BY <3>4, <3>5, <3>6
  <2> QED
    BY <1>4, <2>2, <2>3 DEF SendTransmit
<1>5. CASE SendWait(t)
  BY <1>5 DEF SendWait, SendReturns
<1> QED
  BY <1>1, <1>2, <1>3, <1>4, <1>5 DEF Send

\* The recovery task does not touch the buffer.
LEMMA RecoveryKeeps ==
  ASSUME CanInv, recovery_task
  PROVE  CanInv'
<1> USE CanBounds
    DEF CanInv, CanTypeOK, PendingCovers, FrameKept, bus, buffer, tasks, RecoveryFrame
<1>1. CASE PollSnapshot
  BY <1>1 DEF PollSnapshot
<1>2. CASE PollStatus
  BY <1>2 DEF PollStatus, BusOff
<1>3. CASE PollFails
  BY <1>3 DEF PollFails
<1>4. CASE PollRecover
  <2>1. recovering' \in BOOLEAN /\ (unreported' = unreported \/ unreported' = FALSE)
    BY <1>4 DEF PollRecover
  <2>2. failures' \in 0 .. MaxFailures
    BY <1>4 DEF PollRecover
  <2>3. link' \in {"active", "off", "leaving"} /\ recovery_generation' \in 0 .. MaxBusOffs
    BY <1>4 DEF PollRecover
  <2>4. poll' = "snapshot" /\ UNCHANGED <<snapshot, side, generation, buffer, tasks>>
    BY <1>4 DEF PollRecover
  <2>5. unreported' \in BOOLEAN
    BY <2>1
  <2> QED
    BY <2>1, <2>2, <2>3, <2>4, <2>5
<1>5. CASE PollReport
  BY <1>5 DEF PollReport
<1> QED
  BY <1>1, <1>2, <1>3, <1>4, <1>5 DEF recovery_task

LEMMA CanStays == CanInv /\ [CanNext]_canVars => CanInv'
<1> SUFFICES ASSUME CanInv, [CanNext]_canVars PROVE CanInv'
  OBVIOUS
<1>1. CASE FrameGoesOut \/ state_change_callback \/ BusIdle
  BY <1>1, BusKeeps
<1>2. CASE \E t \in Tasks : Send(t)
  BY <1>2, SendKeeps
<1>3. CASE recovery_task
  BY <1>3, RecoveryKeeps
<1>4. CASE UNCHANGED canVars
  BY <1>4 DEF canVars, bus, buffer, tasks, recover, CanInv, CanTypeOK, PendingCovers, FrameKept
<1> QED
  BY <1>1, <1>2, <1>3, <1>4 DEF CanNext

THEOREM CanInvariant == CanSpec => []CanInv
  BY CanInitially, CanStays, PTL DEF CanSpec

\* Types; the driver never holds more than one frame of the transport.
THEOREM CanTypes == CanSpec => []CanTypeOK
<1>1. CanInv => CanTypeOK
  BY DEF CanInv
<1> QED
  BY CanInvariant, <1>1, PTL

\* can_master_send and can_node_send: the static tx_frame is not filled again while the
\* driver holds a pointer to it, for any tasks, frames, timeouts and bus-offs.
THEOREM FramesAreKept == CanSpec => []FrameKept
<1>1. CanInv => FrameKept
  BY DEF CanInv
<1> QED
  BY CanInvariant, <1>1, PTL
================================================================================
