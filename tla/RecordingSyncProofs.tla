-------------------------- MODULE RecordingSyncProofs --------------------------
(***************************************************************************)
(* Proofs about RecordingSync for any number of nodes, any queue length and  *)
(* any number of commands: its type invariant, with reboots and bus-offs,    *)
(* and that the state a running node reports is its sampler's, without.      *)
(*                                                                          *)
(* StateMatchesSampler says nothing of a node between the sampler's switch   *)
(* and the report.  What it needs there is that the state about to be        *)
(* assigned is the sampler's, and that nobody else is about to assign one.   *)
(***************************************************************************)
EXTENDS RecordingSync, TLAPS

LEMMA TypesInitially == Init => TypeOK
<1> SUFFICES ASSUME Init PROVE TypeOK
  OBVIOUS
<1> USE BoundsAssumption DEF Init, All
<1>1. MasterTyped
  <2>1. burst \in [frame : Frames, left : 0 .. BurstCount]
    BY DEF Frames
  <2>2. changes \in 0 .. MaxChanges
    OBVIOUS
  <2> QED
    BY <2>1, <2>2 DEF MasterTyped
<1>2. QueuesTyped
  <2>1. rx_queue \in [Nodes -> Seq(Frames)]
    OBVIOUS
  <2>2. ASSUME NEW n \in Nodes
        PROVE  Len(rx_queue[n]) =< RxLength
    <3>1. rx_queue[n] = <<>>
      OBVIOUS
    <3>2. 0 =< RxLength
      OBVIOUS
    <3> QED
      BY <3>1, <3>2
  <2> QED
    BY <2>1, <2>2 DEF QueuesTyped
<1>3. NodesTyped
  <2>1. /\ dispatch \in [Nodes -> Pending] /\ recovery \in [Nodes -> Pending]
        /\ bus \in [Nodes -> {"on", "off", "back"}]
        /\ boot \in [Nodes -> {"off", "enabled", "up"}]
    BY DEF Pending
  <2>2. active \in [Nodes -> BOOLEAN] /\ current_state \in [Nodes -> {ACTIVE, IDLE}]
    OBVIOUS
  <2>3. resets \in 0 .. MaxResets /\ busoffs \in 0 .. MaxBusOffs
    OBVIOUS
  <2> QED
    BY <2>1, <2>2, <2>3 DEF NodesTyped
<1> QED
  BY <1>1, <1>2, <1>3 DEF TypeOK

\* A frame that arrives leaves every queue within its length.
LEMMA ReceptionIsBounded ==
  ASSUME QueuesTyped, NEW frame \in Frames, NEW to, receive_callback(frame, to)
  PROVE  QueuesTyped'
<1> USE BoundsAssumption DEF receive_callback, QueuesTyped
<1>1. ASSUME NEW n \in Nodes
      PROVE  rx_queue'[n] \in Seq(Frames) /\ Len(rx_queue'[n]) =< RxLength
  <2>1. CASE n \in to /\ Len(rx_queue[n]) < RxLength
    BY <2>1
  <2>2. CASE ~(n \in to /\ Len(rx_queue[n]) < RxLength)
    BY <2>2
  <2> QED
    BY <2>1, <2>2
<1> QED
  BY <1>1

\* What is left alone keeps its type.
LEMMA NodeFrameTyped ==
  ASSUME NodesTyped, UNCHANGED <<boot, dispatch, recovery, bus, current_state, active,
                                 resets, busoffs>>
  PROVE  NodesTyped'
  BY DEF NodesTyped

\* What a send does to the nodes and to the driver, whichever way it ends.
LEMMA SendIsTyped ==
  ASSUME TypeOK, NEW frame \in Frames, NEW to, can_master_send(frame, to)
  PROVE  /\ tx_frame' \in Frames \cup {"none"}
         /\ QueuesTyped' /\ NodesTyped'
<1>1. CASE Sent(frame, to)
  <2>1. QueuesTyped'
    BY <1>1, ReceptionIsBounded DEF Sent, Transmit, TypeOK
  <2>2. NodesTyped'
    BY <1>1, NodeFrameTyped DEF Sent, Transmit, TypeOK
  <2> QED
    BY <1>1, <2>1, <2>2 DEF Sent, TypeOK, MasterTyped
<1>2. CASE Kept(frame) \/ Refused
  BY <1>2, NodeFrameTyped DEF Kept, Refused, NodesFrame, can, TypeOK, MasterTyped, QueuesTyped
<1> QED
  BY <1>1, <1>2 DEF can_master_send

LEMMA MasterIsTyped ==
  ASSUME TypeOK,
         \/ Begin \/ End \/ BeaconRead
         \/ \E to \in SUBSET Nodes : send_command_burst(to) \/ BeaconSend(to) \/ TxDone(to)
  PROVE  TypeOK'
<1> USE BoundsAssumption DEF TypeOK
<1>1. CASE Begin \/ End \/ BeaconRead
  <2>1. QueuesTyped' /\ NodesTyped'
    BY <1>1, NodeFrameTyped DEF Begin, End, BeaconRead, NodesFrame, can, QueuesTyped
  <2>2. MasterTyped'
    <3>1. CASE Begin
      BY <3>1 DEF Begin, MasterTyped, Frames
    <3>2. CASE End
      <4>1. burst' \in [frame : Frames, left : 0 .. BurstCount]
        BY <3>2 DEF End, Frames
      <4>2. changes' \in 0 .. MaxChanges
        BY <3>2 DEF End, MasterTyped
      <4>3. recording' = FALSE /\ UNCHANGED <<beacon, tx_frame>>
        BY <3>2 DEF End
      <4> QED
        BY <4>1, <4>2, <4>3 DEF MasterTyped
    <3>3. CASE BeaconRead
      BY <3>3 DEF BeaconRead, MasterTyped, Frames
    <3> QED
      BY <1>1, <3>1, <3>2, <3>3
  <2> QED
    BY <2>1, <2>2
<1>2. ASSUME NEW to \in SUBSET Nodes, send_command_burst(to)
      PROVE  TypeOK'
  <2>1. burst.frame \in Frames /\ can_master_send(burst.frame, to)
    BY <1>2 DEF send_command_burst, MasterTyped
  <2>2. burst' \in [frame : Frames, left : 0 .. BurstCount]
    BY <1>2 DEF send_command_burst, MasterTyped
  <2>3. tx_frame' \in Frames \cup {"none"} /\ QueuesTyped' /\ NodesTyped'
    BY <2>1, SendIsTyped
  <2>4. MasterTyped'
    BY <1>2, <2>2, <2>3 DEF send_command_burst, MasterTyped
  <2> QED
    BY <2>3, <2>4
<1>3. ASSUME NEW to \in SUBSET Nodes, BeaconSend(to)
      PROVE  TypeOK'
  <2>1. beacon \in Frames /\ can_master_send(beacon, to)
    BY <1>3 DEF BeaconSend, MasterTyped
  <2>2. tx_frame' \in Frames \cup {"none"} /\ QueuesTyped' /\ NodesTyped'
    BY <2>1, SendIsTyped
  <2>3. MasterTyped'
    BY <1>3, <2>2 DEF BeaconSend, MasterTyped
  <2> QED
    BY <2>2, <2>3
<1>4. ASSUME NEW to \in SUBSET Nodes, TxDone(to)
      PROVE  TypeOK'
  <2>1. tx_frame \in Frames /\ receive_callback(tx_frame, to)
    BY <1>4 DEF TxDone, Transmit, MasterTyped
  <2>2. QueuesTyped'
    BY <2>1, ReceptionIsBounded
  <2>3. NodesTyped'
    BY <1>4, NodeFrameTyped DEF TxDone, Transmit
  <2>4. MasterTyped'
    BY <1>4 DEF TxDone, MasterTyped
  <2> QED
    BY <2>2, <2>3, <2>4
<1> QED
  BY <1>1, <1>2, <1>3, <1>4

LEMMA NodeIsTyped ==
  ASSUME TypeOK, NEW n \in Nodes,
         Boot(n) \/ Dispatch(n) \/ Recovery(n) \/ BusOff(n) \/ Reset(n)
  PROVE  TypeOK'
<1> USE BoundsAssumption DEF TypeOK
<1>1. MasterTyped'
  BY DEF MasterTyped, Boot, can_node_init, BootReport, Dispatch, DispatchFrame, DispatchReport,
         Recovery, Recovered, RecoveryRead, RecoveryReport, BusOff, Reset, NodeFrame, master
<1>2. QueuesTyped'
  <2>1. CASE UNCHANGED rx_queue
    BY <2>1 DEF QueuesTyped
  <2>2. CASE DispatchFrame(n)
    BY <2>2 DEF DispatchFrame, QueuesTyped
  <2>3. CASE Reset(n)
    BY <2>3 DEF Reset, QueuesTyped
  <2> QED
    BY <2>1, <2>2, <2>3
    DEF Boot, can_node_init, BootReport, Dispatch, DispatchReport, Recovery, Recovered,
        RecoveryRead, RecoveryReport, BusOff
<1>3. NodesTyped'
  <2> USE DEF NodesTyped, NodeFrame, Pending
  <2>1. CASE Boot(n)
    BY <2>1 DEF Boot, can_node_init, BootReport
  <2>2. CASE DispatchFrame(n)
    <3>1. dispatch' \in [Nodes -> Pending] /\ active' \in [Nodes -> BOOLEAN]
      BY <2>2 DEF DispatchFrame, Asks
    <3> QED
      BY <2>2, <3>1 DEF DispatchFrame
  <2>3. CASE DispatchReport(n)
    BY <2>3 DEF DispatchReport
  <2>4. CASE Recovery(n)
    BY <2>4 DEF Recovery, Recovered, RecoveryRead, RecoveryReport
  <2>5. CASE BusOff(n)
    BY <2>5 DEF BusOff
  <2>6. CASE Reset(n)
    BY <2>6 DEF Reset
  <2> QED
    BY <2>1, <2>2, <2>3, <2>4, <2>5, <2>6 DEF Dispatch
<1> QED
  BY <1>1, <1>2, <1>3

LEMMA TypesStay == TypeOK /\ [Next]_vars => TypeOK'
<1> SUFFICES ASSUME TypeOK, [Next]_vars PROVE TypeOK'
  OBVIOUS
<1>1. CASE Next
  BY <1>1, MasterIsTyped, NodeIsTyped DEF Next
<1>2. CASE UNCHANGED vars
  BY <1>2 DEF vars, master, can, TypeOK, MasterTyped, QueuesTyped, NodesTyped
<1> QED
  BY <1>1, <1>2

\* The receive queues never exceed their length, and every task of the master and of the
\* nodes is where the code can be, with any number of reboots and bus-offs.
THEOREM SyncTypes == Spec => []TypeOK
  BY TypesInitially, TypesStay, PTL DEF Spec

(***************************************************************************)
(* A node that stays up and on the bus: only dispatch_task assigns its state.*)
(***************************************************************************)
Undisturbed == resets = 0 /\ busoffs = 0

Settled ==
    \A n \in Nodes :
        /\ boot[n] = "up" /\ bus[n] = "on" /\ recovery[n] = "none"
        /\ (IF dispatch[n] = "none" THEN current_state[n] ELSE dispatch[n]) = ACTIVE
             <=> active[n]

LEMMA SettledInitially ==
  ASSUME NodesFirst, Init
  PROVE  Settled
  BY DEF Init, Settled, All, ACTIVE, IDLE

LEMMA SettledStays ==
  ASSUME TypeOK, Undisturbed => Settled, [Next]_vars, Undisturbed'
  PROVE  Settled'
<1> USE DEF Settled, TypeOK, NodesTyped
<1>0. Undisturbed /\ UNCHANGED <<resets, busoffs>>
  <2>1. resets \in Nat /\ busoffs \in Nat /\ resets' = 0 /\ busoffs' = 0
    BY BoundsAssumption DEF Undisturbed
  <2>2. /\ resets' = resets \/ resets' = resets + 1
        /\ busoffs' = busoffs \/ busoffs' = busoffs + 1
    BY DEF Next, vars, Begin, End, BeaconRead, send_command_burst, BeaconSend, TxDone,
           NodesFrame, can_master_send, Sent, Kept, Refused, Transmit, Boot, can_node_init,
           BootReport, Dispatch, DispatchFrame, DispatchReport, Recovery, Recovered,
           RecoveryRead, RecoveryReport, BusOff, Reset, NodeFrame
  <2> QED
    BY <2>1, <2>2 DEF Undisturbed
<1>s. Settled
  BY <1>0
<1>1. CASE \/ Begin \/ End \/ BeaconRead
           \/ \E to \in SUBSET Nodes : send_command_burst(to) \/ BeaconSend(to) \/ TxDone(to)
  <2>1. UNCHANGED <<boot, dispatch, recovery, bus, current_state, active, resets, busoffs>>
    BY <1>1 DEF Begin, End, BeaconRead, send_command_burst, BeaconSend, TxDone, NodesFrame,
                can, can_master_send, Sent, Kept, Refused, Transmit
  <2> QED
    BY <1>s, <2>1
<1>2. ASSUME NEW n \in Nodes, DispatchFrame(n)
      PROVE  Settled'
  <2>1. Asks(Head(rx_queue[n])) \in {ACTIVE, IDLE}
    BY DEF Asks
  <2>2. (IF dispatch'[n] = "none" THEN current_state[n] ELSE dispatch'[n]) = ACTIVE
          <=> active'[n]
    BY <1>s, <1>2, <2>1 DEF DispatchFrame, Follows, ACTIVE, IDLE
  <2> QED
    BY <1>s, <1>2, <2>2 DEF DispatchFrame, NodeFrame
<1>3. ASSUME NEW n \in Nodes, DispatchReport(n)
      PROVE  Settled'
  BY <1>s, <1>3 DEF DispatchReport, NodeFrame
<1>4. ASSUME NEW n \in Nodes, Boot(n) \/ Recovery(n) \/ BusOff(n) \/ Reset(n)
      PROVE  FALSE
  BY <1>0, <1>4 DEF Undisturbed, Boot, can_node_init, BootReport, Recovery, Recovered, RecoveryRead,
              RecoveryReport, BusOff, Reset
<1>5. CASE UNCHANGED vars
  BY <1>s, <1>5 DEF vars, master, can
<1> QED
  BY <1>1, <1>2, <1>3, <1>4, <1>5 DEF Next, Dispatch

\* dispatch_task alone, whatever frames come: between two frames the state that
\* can_node.c holds and reports is that of the sampler, as long as no node reboots or
\* leaves the bus.  From then on the boot report and recovery_task assign the state as
\* well, and it need not be.
THEOREM StateIsTrue ==
  ASSUME NodesFirst
  PROVE  Spec => []StateMatchesSampler
<1>1. Init => (Undisturbed => Settled)
  BY SettledInitially
<1>2. TypeOK /\ (Undisturbed => Settled) /\ [Next]_vars => (Undisturbed => Settled)'
  BY SettledStays
<1>3. (Undisturbed => Settled) => StateMatchesSampler
  BY DEF Undisturbed, Settled, StateMatchesSampler
<1> QED
  BY SyncTypes, <1>1, <1>2, <1>3, PTL DEF Spec
================================================================================
