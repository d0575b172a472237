---------------------------- MODULE MCAppControl ----------------------------
(* Instances for TLC of AppControl, of CanLink and of the recorder, whose session
   AppControl relies on: `unit` says which of them, which share no state here, a
   behaviour belongs to. *)
EXTENDS AppControl, CanLink

VARIABLES
    unit,
    state, log_path, log_file, utc_file, file_mutex, log_queue, records, queue_drops,
    wpc, ppc, held, seen, cpc, cname, rpc, rold, rnew, rsame, binDir, utcDir, bin, utc,
    bin_size, utc_size, created, samples, crashes, faults, session, card, owed, slipped,
    refused

recorderVars ==
    <<state, log_path, log_file, utc_file, file_mutex, log_queue, records, queue_drops,
      wpc, ppc, held, seen, cpc, cname, rpc, rold, rnew, rsame, binDir, utcDir, bin, utc,
      bin_size, utc_size, created, samples, crashes, faults, session, card, owed, slipped,
      refused>>

\* A small recorder: a queue of one sample, two files and one SD failure.
Recorder == INSTANCE DataLogger WITH
    Names <- {"n1", "n2"}, NoName <- "no name", Producers <- {"p"},
    QueueLength <- 1, BlockSize <- 2, MaxSamples <- 2, MaxFiles <- 2,
    MaxCrashes <- 0, MaxFaults <- 1, OtherSpellings <- FALSE

UnitsInit ==
    /\ Init /\ CanInit /\ Recorder!Init
    /\ unit \in {"control", "can", "recorder"}
    /\ unit # "can" => side = "master"
    /\ unit # "control" => burst = "none"

UnitsNext ==
    \/ unit = "control" /\ Next /\ UNCHANGED <<canVars, recorderVars, unit>>
    \/ unit = "can" /\ CanNext /\ UNCHANGED <<vars, recorderVars, unit>>
    \/ unit = "recorder" /\ Recorder!Next /\ UNCHANGED <<vars, canVars, unit>>

UnitsSpec ==
    /\ UnitsInit /\ [][UnitsNext]_<<vars, canVars, recorderVars, unit>>
    /\ \/ unit = "control" /\ Fairness
       \/ unit = "can" /\ CanFairness
       \/ unit = "recorder" /\ Recorder!Fairness

\* The logger's state moves as LoggerSession, and with it AppControl, has it: a requested
\* stop ends with the logger idle, whatever the SD card does and whatever is renamed.
ImplementsSession == Recorder!ImplementsSession
==============================================================================
