--------------------------- MODULE AppControlProofs ---------------------------
(***************************************************************************)
(* Proofs about AppControl for every set of signals and tokens and every    *)
(* bound.  The properties follow from IInv, which says who holds the mutex  *)
(* (Holder), what the call in progress has already done (Position), and     *)
(* what the live view holds (LiveOnlyWhileRunning, LiveSamplesAreCurrent).  *)
(***************************************************************************)
EXTENDS AppControl, TLAPS

\* A task is inside a call exactly when it holds lifecycle_mutex.
Holder == \A c \in Callers : pc[c] \in Steps <=> lifecycle_mutex = c

\* At which positions the flags agree with the logger, and how they differ elsewhere.
Position ==
    \A c \in Callers :
        /\ pc[c] \in {"start", "stop", "live"} =>
              /\ recording <=> logger = L!Running
              /\ monitoring <=> logger = L!Running
        /\ pc[c] \in {"monitor", "record", "send_start", "stop_logger"} => logger = L!Running
        /\ pc[c] \in {"unrecord", "unmonitor", "send_stop"} => logger # L!Running
        /\ pc[c] \in {"record", "send_start", "stop_logger"} => monitoring
        /\ pc[c] \in {"send_start", "stop_logger"} => recording
        /\ pc[c] \in {"stop_logger", "unrecord", "unmonitor", "send_stop"} => ~enabled
        /\ pc[c] \in {"unmonitor", "send_stop"} => ~recording
        /\ pc[c] = "send_stop" => ~monitoring

IInv ==
    /\ TypeOK
    /\ Holder
    /\ Position
    /\ FlagsFollowLogger
    /\ LiveOnlyWhileRunning
    /\ LiveSamplesAreCurrent

USE DEF L!Idle, L!Running, L!Stopping, live

\* A cleared table of samples is well typed.
LEMMA NoSamplesType == NoSamples \in [Signals -> 0 .. MaxLeases]
BY BoundsAssumption DEF NoSamples

\* The state app_main leaves behind satisfies the invariant.
LEMMA InitInv == Init => IInv
<1> SUFFICES ASSUME Init PROVE IInv
  OBVIOUS
<1>1. TypeOK
  <2>1. pc \in [Callers -> {"ready", "gone"} \cup Steps]
    BY DEF Init
  <2>2. enabled \in BOOLEAN /\ monitoring \in BOOLEAN /\ recording \in BOOLEAN
    BY DEF Init
  <2> QED
    BY <2>1, <2>2, NoSamplesType, BoundsAssumption DEF Init, L!Init, TypeOK
<1>2. pc \in [Callers -> {"ready"}] /\ lifecycle_mutex = "none"
  BY DEF Init
<1>3. Holder
  BY <1>2 DEF Holder, Steps, Callers
<1>4. Position
  BY <1>2 DEF Position
<1> QED
  BY <1>1, <1>3, <1>4 DEF Init, L!Init, IInv, FlagsFollowLogger, LiveOnlyWhileRunning,
                    LiveSamplesAreCurrent, NoSamples

\* Taking lifecycle_mutex keeps the invariant.
LEMMA CallInv ==
    ASSUME IInv, NEW c \in Callers, Call(c)
    PROVE  IInv'
<1> USE DEF IInv
<1>1. PICK command \in {"start", "stop", "live"} : pc' = [pc EXCEPT ![c] = command]
  BY DEF Call, Commands, Callers
<1>2. /\ lifecycle_mutex = "none" /\ lifecycle_mutex' = c /\ pc[c] = "ready"
      /\ UNCHANGED <<logger, monitoring, recording, burst, live, sessions>>
  BY DEF Call
<1>3. TypeOK'
  BY <1>1, <1>2 DEF TypeOK, Steps
<1>4. Holder'
  BY <1>1, <1>2 DEF TypeOK, Holder, Steps, Callers
<1>5. \A d \in Callers : d # c => pc[d] \notin Steps
  BY <1>2 DEF Holder, Callers
<1>6. Position'
  BY <1>1, <1>2, <1>5 DEF TypeOK, Position, FlagsFollowLogger, Steps
<1>7. FlagsFollowLogger'
  BY <1>2 DEF FlagsFollowLogger, Callers
<1> QED
  BY <1>2, <1>3, <1>4, <1>6, <1>7 DEF LiveOnlyWhileRunning, LiveSamplesAreCurrent

\* Every step inside a call, including the returns, keeps the invariant.
LEMMA InCallInv ==
    ASSUME IInv, NEW c \in Callers, InCall(c)
    PROVE  IInv'
<1> USE BoundsAssumption
<1>0. TypeOK /\ Holder /\ Position /\ FlagsFollowLogger /\ LiveOnlyWhileRunning
      /\ LiveSamplesAreCurrent
  BY DEF IInv
<1>1. pc[c] \in Steps /\ lifecycle_mutex = c /\ c # "none"
  <2>1. pc[c] \in Steps
    BY DEF InCall, app_control_start_logging, StartLogger, StartMonitoring, StartRecording,
           StartNodes, app_control_stop_logging, StopLive, StopLogger, StopRecording,
           StopMonitoring, StopNodes, app_control_start_live_data, Steps
  <2> QED
    BY <1>0, <2>1 DEF Holder, Callers
<1>2. PICK next \in {"ready", "gone"} \cup Steps :
        /\ pc' = [pc EXCEPT ![c] = next]
        /\ lifecycle_mutex' = IF next \in Steps THEN c ELSE "none"
  BY <1>1 DEF InCall, app_control_start_logging, StartLogger, StartMonitoring, StartRecording,
         StartNodes, app_control_stop_logging, StopLive, StopLogger, StopRecording,
         StopMonitoring, StopNodes, app_control_start_live_data, Steps, Goto, Return
<1>3. \A d \in Callers : d # c => pc'[d] = pc[d] /\ pc[d] \notin Steps
  BY <1>0, <1>1, <1>2 DEF Holder, TypeOK
<1>4. Holder'
  BY <1>0, <1>1, <1>2, <1>3 DEF Holder, TypeOK, Callers, Steps
<1>5. pc'[c] = next /\ pc' \in [Callers -> {"ready", "gone"} \cup Steps]
  BY <1>0, <1>2 DEF TypeOK
<1>6. lifecycle_mutex' \in Callers \cup {"none"}
  BY <1>2
<1>7. CASE StartLogger(c)
  <2>1. CASE L!Begin
    <3>1. logger = "idle" /\ logger' = "running" /\ pc' = [pc EXCEPT ![c] = "monitor"]
          /\ UNCHANGED <<monitoring, recording, burst, live>> /\ sessions' \in 0 .. MaxSessions
          /\ lifecycle_mutex' = lifecycle_mutex
      BY <1>0, <1>7, <2>1 DEF StartLogger, L!Begin, Goto, Return, TypeOK
    <3> QED
      BY <1>0, <1>1, <1>3, <1>4, <1>5, <3>1 DEF IInv, TypeOK, Position, FlagsFollowLogger,
            LiveOnlyWhileRunning, LiveSamplesAreCurrent, Steps
  <2>2. CASE Return(c) /\ UNCHANGED <<logger, sessions>>
    BY <1>0, <1>1, <1>3, <1>4, <1>5, <1>6, <1>7, <2>2 DEF StartLogger, Return, IInv, TypeOK,
       Position, FlagsFollowLogger, LiveOnlyWhileRunning, LiveSamplesAreCurrent, Steps
  <2> QED
    BY <1>7, <2>1, <2>2 DEF StartLogger
<1>8. CASE StartMonitoring(c) \/ StartRecording(c) \/ StartNodes(c)
  <2> USE <1>0, <1>1, <1>3, <1>4, <1>5, <1>6 DEF Goto, Return, IInv, TypeOK, Position,
      FlagsFollowLogger, LiveOnlyWhileRunning, LiveSamplesAreCurrent, Steps
  <2>1. CASE StartMonitoring(c)
    BY <2>1 DEF StartMonitoring
  <2>2. CASE StartRecording(c)
    BY <2>2 DEF StartRecording
  <2>3. CASE StartNodes(c)
    BY <2>3 DEF StartNodes
  <2> QED
    BY <1>8, <2>1, <2>2, <2>3
<1>9. CASE app_control_start_live_data(c)
  <2>1. /\ Return(c) /\ UNCHANGED <<logger, monitoring, recording, burst, sessions>>
        /\ pc[c] = "live"
    BY <1>9 DEF app_control_start_live_data
  <2>2. CASE UNCHANGED live
    BY <1>0, <1>1, <1>3, <1>4, <1>5, <1>6, <2>1, <2>2 DEF Return, IInv, TypeOK,
       Position, FlagsFollowLogger, LiveOnlyWhileRunning, LiveSamplesAreCurrent, Steps
  <2>3. CASE logger = "running" /\ live_data_start
    <3>1. /\ leases' \in 0 .. MaxLeases /\ latest' = NoSamples /\ lease' = Lease
          /\ enabled' = TRUE /\ owner_token' \in Tokens /\ issued' \in SUBSET Tokens
      BY <1>0, <2>1, <2>3 DEF live_data_start, TypeOK
    <3>2. TypeOK'
      BY <1>0, <1>5, <1>6, <2>1, <3>1 DEF TypeOK, NoSamples
    <3>3. Position'
      BY <1>1, <1>3, <1>5, <2>1, <2>3 DEF Position, Return, Steps
    <3> QED
      BY <1>0, <1>1, <1>4, <2>1, <2>3, <3>1, <3>2, <3>3 DEF IInv, Return, Position,
         FlagsFollowLogger, LiveOnlyWhileRunning, LiveSamplesAreCurrent, NoSamples
  <2> QED
    BY <1>9, <2>2, <2>3 DEF app_control_start_live_data
<1>10. CASE StopLive(c)
  <2>1. CASE logger = "running" /\ live_data_force_stop /\ Goto(c, "stop_logger")
    <3>1. enabled' = FALSE /\ owner_token' = 0 /\ lease' = 0 /\ latest' = NoSamples
          /\ UNCHANGED <<issued, leases>>
      BY <2>1 DEF live_data_force_stop, clear_locked
    <3>2. TypeOK'
      <4>1. UNCHANGED <<logger, monitoring, recording, burst, sessions>>
        BY <1>10 DEF StopLive
      <4>2. enabled' \in BOOLEAN /\ latest' \in [Signals -> 0 .. MaxLeases]
        BY <3>1, NoSamplesType
      <4>3. lease' \in 0 .. Lease /\ owner_token' \in Tokens \cup {0}
        BY <3>1
      <4> QED
        BY <1>0, <1>5, <1>6, <3>1, <4>1, <4>2, <4>3 DEF TypeOK
    <3> QED
      BY <1>0, <1>1, <1>3, <1>4, <1>5, <1>10, <2>1, <3>1, <3>2 DEF StopLive, Goto, IInv, Position,
         FlagsFollowLogger, LiveOnlyWhileRunning, LiveSamplesAreCurrent, NoSamples, Steps, TypeOK
  <2>2. CASE logger # "running" /\ Return(c) /\ UNCHANGED live
    BY <1>0, <1>1, <1>3, <1>4, <1>5, <1>6, <1>10, <2>2 DEF StopLive, Return, IInv, TypeOK,
       Position, FlagsFollowLogger, LiveOnlyWhileRunning, LiveSamplesAreCurrent, Steps
  <2> QED
    BY <1>10, <2>1, <2>2 DEF StopLive
<1>11. CASE StopLogger(c)
  <2>1. TypeOK'
    BY <1>0, <1>5, <1>6, <1>11 DEF StopLogger, L!RequestStop, TypeOK
  <2>2. Position'
    BY <1>0, <1>1, <1>3, <1>5, <1>11 DEF StopLogger, L!RequestStop, Goto, Return, Position, Steps, TypeOK
  <2>3. FlagsFollowLogger'
    BY <1>0, <1>1, <1>11 DEF StopLogger, L!RequestStop, Goto, Return, Position, FlagsFollowLogger
  <2>4. LiveOnlyWhileRunning' /\ LiveSamplesAreCurrent'
    BY <1>0, <1>11 DEF StopLogger, L!RequestStop, Position, LiveOnlyWhileRunning, LiveSamplesAreCurrent
  <2> QED
    BY <1>4, <2>1, <2>2, <2>3, <2>4 DEF IInv
<1>12. CASE StopRecording(c)
  <2>1. TypeOK'
    BY <1>0, <1>5, <1>6, <1>12 DEF StopRecording, TypeOK
  <2>2. Position'
    BY <1>0, <1>1, <1>3, <1>5, <1>12 DEF StopRecording, Goto, Return, Position, Steps, TypeOK
  <2>3. FlagsFollowLogger'
    BY <1>0, <1>1, <1>12 DEF StopRecording, Goto, Return, Position, FlagsFollowLogger
  <2>4. LiveOnlyWhileRunning' /\ LiveSamplesAreCurrent'
    BY <1>0, <1>12 DEF StopRecording, Position, LiveOnlyWhileRunning, LiveSamplesAreCurrent
  <2> QED
    BY <1>4, <2>1, <2>2, <2>3, <2>4 DEF IInv
<1>13. CASE StopMonitoring(c)
  <2>1. TypeOK'
    BY <1>0, <1>5, <1>6, <1>13 DEF StopMonitoring, TypeOK
  <2>2. Position'
    BY <1>0, <1>1, <1>3, <1>5, <1>13 DEF StopMonitoring, Goto, Return, Position, Steps, TypeOK
  <2>3. FlagsFollowLogger'
    BY <1>0, <1>1, <1>13 DEF StopMonitoring, Goto, Return, Position, FlagsFollowLogger
  <2>4. LiveOnlyWhileRunning' /\ LiveSamplesAreCurrent'
    BY <1>0, <1>13 DEF StopMonitoring, Position, LiveOnlyWhileRunning, LiveSamplesAreCurrent
  <2> QED
    BY <1>4, <2>1, <2>2, <2>3, <2>4 DEF IInv
<1>14. CASE StopNodes(c)
  <2>1. TypeOK'
    BY <1>0, <1>5, <1>6, <1>14 DEF StopNodes, TypeOK
  <2>2. Position'
    BY <1>0, <1>1, <1>3, <1>5, <1>14 DEF StopNodes, Goto, Return, Position, Steps, TypeOK
  <2>3. FlagsFollowLogger'
    BY <1>0, <1>1, <1>14 DEF StopNodes, Goto, Return, Position, FlagsFollowLogger
  <2>4. LiveOnlyWhileRunning' /\ LiveSamplesAreCurrent'
    BY <1>0, <1>14 DEF StopNodes, Position, LiveOnlyWhileRunning, LiveSamplesAreCurrent
  <2> QED
    BY <1>4, <2>1, <2>2, <2>3, <2>4 DEF IInv
<1> QED
  BY <1>7, <1>8, <1>9, <1>10, <1>11, <1>12, <1>13, <1>14
     DEF InCall, app_control_start_logging, app_control_stop_logging

\* The live view's own operations, and the passing of its lease, keep the invariant.
LEMMA LiveInv ==
    ASSUME IInv, LiveStep
    PROVE  IInv'
<1> USE BoundsAssumption
<1>0. TypeOK /\ Holder /\ Position /\ FlagsFollowLogger /\ LiveOnlyWhileRunning
      /\ LiveSamplesAreCurrent
  BY DEF IInv
<1>1. UNCHANGED <<logger, lifecycle_mutex, pc, monitoring, recording, burst, issued, leases,
                  sessions>>
  BY DEF LiveStep, live_data_record, live_data_snapshot, live_data_stop, live_data_is_enabled,
         Tick, LiveFrame
<1>2. Holder' /\ FlagsFollowLogger'
  BY <1>0, <1>1 DEF Holder, FlagsFollowLogger
<1>3. CASE Alive /\ UNCHANGED <<enabled, owner_token>> /\ lease' \in 0 .. Lease /\
           (latest' = latest \/ \E s \in Signals : latest' = [latest EXCEPT ![s] = leases])
  BY <1>0, <1>1, <1>2, <1>3 DEF IInv, TypeOK, Position, Alive, LiveOnlyWhileRunning,
     LiveSamplesAreCurrent
<1>4. CASE clear_locked
  <2>1. TypeOK'
    <3>1. enabled' \in BOOLEAN /\ latest' \in [Signals -> 0 .. MaxLeases]
      BY <1>4, NoSamplesType DEF clear_locked
    <3>2. lease' \in 0 .. Lease /\ owner_token' \in Tokens \cup {0}
      BY <1>4 DEF clear_locked
    <3> QED
      BY <1>0, <1>1, <3>1, <3>2 DEF TypeOK
  <2> QED
    BY <1>0, <1>1, <1>2, <1>4, <2>1 DEF IInv, Position, clear_locked, NoSamples,
       LiveOnlyWhileRunning, LiveSamplesAreCurrent
<1>5. CASE Tick
  BY <1>0, <1>1, <1>2, <1>5 DEF Tick, IInv, TypeOK, Position, LiveOnlyWhileRunning,
     LiveSamplesAreCurrent
<1>6. CASE \E s \in Signals : live_data_record(s)
  <2>1. clear_locked \/ (Alive /\ UNCHANGED <<enabled, owner_token, lease>> /\
                         \E s \in Signals : latest' = [latest EXCEPT ![s] = leases])
    BY <1>6 DEF live_data_record, Expire
  <2> QED
    BY <1>0, <1>3, <1>4, <2>1 DEF TypeOK
<1>7. CASE \E t \in issued : live_data_snapshot(t)
  <2>1. clear_locked \/ (Alive /\ UNCHANGED <<enabled, owner_token, latest>> /\ lease' = Lease)
    BY <1>7 DEF live_data_snapshot, Expire
  <2> QED
    BY <1>3, <1>4, <2>1
<1>8. CASE (\E t \in issued : live_data_stop(t)) \/ live_data_is_enabled
  BY <1>4, <1>8 DEF live_data_stop, live_data_is_enabled, Expire
<1> QED
  BY <1>5, <1>6, <1>7, <1>8 DEF LiveStep

\* Every behaviour of the three calling tasks, the viewers and the logger stays
\* within the invariant.
THEOREM Invariance == Spec => []IInv
<1>1. IInv /\ [Next]_vars => IInv'
  <2> SUFFICES ASSUME IInv, [Next]_vars PROVE IInv'
    OBVIOUS
  <2>1. CASE UNCHANGED vars
    BY <2>1 DEF vars, IInv, TypeOK, Holder, Position, FlagsFollowLogger,
       LiveOnlyWhileRunning, LiveSamplesAreCurrent
  <2>2. CASE LoggerFinishes
    BY <2>2 DEF LoggerFinishes, L!Finish, IInv, TypeOK, Holder, Position,
       FlagsFollowLogger, LiveOnlyWhileRunning, LiveSamplesAreCurrent
  <2> QED
    BY <2>1, <2>2, CallInv, InCallInv, LiveInv DEF Next
<1> QED
  BY <1>1, InitInv, PTL DEF Spec

\* Callers, flags and leases keep their types; the samples a viewer sees are those of a
\* lease that was given.
THEOREM ControlTypes == Spec => []TypeOK
<1>1. IInv => TypeOK
  BY DEF IInv
<1> QED
  BY <1>1, Invariance, PTL

\* No live view outlives or precedes a recording.
THEOREM LiveIsWithinRecording == Spec => []LiveOnlyWhileRunning
<1>1. IInv => LiveOnlyWhileRunning
  BY DEF IInv
<1> QED
  BY <1>1, Invariance, PTL

\* Between calls, the beacon flag and the registry agree with the logger.
THEOREM FlagsAgree == Spec => []FlagsFollowLogger
<1>1. IInv => FlagsFollowLogger
  BY DEF IInv
<1> QED
  BY <1>1, Invariance, PTL

\* A viewer sees samples of its own lease only.
THEOREM ViewersSeeTheirOwn == Spec => []LiveSamplesAreCurrent
<1>1. IInv => LiveSamplesAreCurrent
  BY DEF IInv
<1> QED
  BY <1>1, Invariance, PTL
===============================================================================
