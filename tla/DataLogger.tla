------------------------------ MODULE DataLogger ------------------------------
(***************************************************************************)
(* The recording engine of the master, master-node/src/logger/data_logger.c:*)
(* the session state machine, the bounded sample queue, the SD writer task, *)
(* the log file with its UTC companion, and renaming.                       *)
(*                                                                          *)
(* Actors, each a FreeRTOS task of the master:                              *)
(*   producers   the CAN dispatch task and the GPS task (data_logger_enqueue)*)
(*   writer      sd_writer, the loop of writer_task                         *)
(*   controller  whoever holds the lifecycle mutex of app_control, hence at *)
(*               most one at a time (data_logger_start, data_logger_stop)   *)
(*   renamer     the HTTP server task (data_logger_rename)                  *)
(*                                                                          *)
(* A .bin file is identified by a serial number, its inode: the directory   *)
(* maps a name to a serial and the contents belong to the serial, so that a *)
(* rename moves a file and a second creation under one name would be seen.  *)
(* The card's FAT ignores case in names and strcmp does not: a request may   *)
(* spell a name as log_path does, or otherwise (OtherSpellings).            *)
(* A record and its UTC entry are both represented by the sample they were  *)
(* made from.  Time is left out: the 15 s checkpoint timer and the 100 ms   *)
(* queue timeout may expire at any moment.                                  *)
(***************************************************************************)
EXTENDS Naturals, Sequences, FiniteSets

CONSTANTS
    Names,         \* valid log file names
    NoName,        \* no session yet
    Producers,     \* tasks that call data_logger_enqueue
    QueueLength,   \* LOG_QUEUE_LENGTH
    BlockSize,     \* LOG_RECORDS_PER_BLOCK
    MaxSamples,    \* bound: samples that pass the state check of enqueue
    MaxFiles,      \* bound: .bin files ever created
    MaxCrashes,    \* bound: power losses
    MaxFaults,     \* bound: steps in which an SD operation fails or is cut short
    OtherSpellings \* may a request spell log_path's name with other cases?

ASSUME SizesAssumption ==
    /\ QueueLength \in Nat \ {0}
    /\ BlockSize \in Nat \ {0}
    /\ MaxSamples \in Nat
    /\ MaxFiles \in Nat
    /\ MaxCrashes \in Nat
    /\ MaxFaults \in Nat

ASSUME NamesAssumption == NoName \notin Names

ASSUME SpellingAssumption == OtherSpellings \in BOOLEAN

Serials == 1 .. MaxFiles

Handles == 0 .. MaxFiles          \* 0 is a NULL FILE *, or an absent file

\* Queued samples, numbered as they are taken.
Samples == 1 .. MaxSamples

\* What an incomplete 16-byte record leaves in the file.
Torn == 0

Entries == Samples \cup {Torn}

VARIABLES
    state,        \* LOGGER_IDLE, LOGGER_RUNNING or LOGGER_STOPPING
    log_path,     \* name of the current or last session's file
    log_file,     \* open .bin handle
    utc_file,     \* open .utc handle
    file_mutex,   \* holder of file_mutex between two steps, or "none"
    log_queue,    \* the FreeRTOS queue
    records,      \* writer_task's block buffer, records[0 .. count-1]
    queue_drops,  \* drop counter
    wpc,          \* where writer_task is
    ppc,          \* where each producer is
    held,         \* the sample each producer is about to queue
    seen,         \* the drop counter as read by a producer that adds one to it
    cpc, cname,   \* controller: position and candidate name
    rpc, rold, rnew,     \* renamer: position and the two names,
    rsame,        \* and whether the old one is spelled as log_path is
    binDir, utcDir,      \* the directory: serial of name.bin and name.bin.utc
    bin, utc,            \* contents of each file
    bin_size, utc_size,  \* their sizes in the directory, as FAT keeps them
    created,      \* .bin files created so far
    samples,      \* samples that passed the state check so far
    crashes,      \* power losses so far
    faults,       \* steps with an SD failure so far
    session,      \* history: serial of the last session started
    card,         \* history: "failed" once the session met an SD failure or a power loss
    owed,         \* history: samples the session's file has to contain
    slipped,      \* history: files that lost records or entries unnoticed and went on
    refused       \* history: sends refused by a full queue

handles  == <<log_file, utc_file, file_mutex>>
writer   == <<wpc, records>>
producer == <<ppc, held, seen, samples, queue_drops, refused>>
control  == <<cpc, cname>>
renamer  == <<rpc, rold, rnew, rsame>>
dir      == <<binDir, utcDir, created>>
content  == <<bin, utc, bin_size, utc_size>>
history  == <<session, card, owed, slipped>>
vars == <<state, log_path, handles, log_queue, writer, producer, control,
          renamer, dir, content, crashes, faults, history>>

Idle     == "idle"
Running  == "running"
Stopping == "stopping"

WriterSteps == {"receive", "block", "timer", "ckpt_write", "ckpt_bin",
                "ckpt_utc", "stop", "drain", "close", "set_idle"}

ProducerTypes ==
    /\ ppc \in [Producers -> {"ready", "send", "count"}]
    /\ held \in [Producers -> Samples \cup {Torn}]
    /\ seen \in [Producers -> Nat]
    /\ queue_drops \in Nat /\ refused \in Nat
    /\ samples \in 0 .. MaxSamples

TaskTypes ==
    /\ state \in {Idle, Running, Stopping}
    /\ log_path \in Names \cup {NoName}
    /\ log_file \in Handles /\ utc_file \in Handles
    /\ file_mutex \in {"none", "writer", "start", "rename"}
    /\ wpc \in WriterSteps
    /\ cpc \in {"ready", "bin", "utc"} /\ cname \in Names \cup {NoName}
    /\ rpc \in {"ready", "utc"}
    /\ rold \in Names \cup {NoName} /\ rnew \in Names \cup {NoName} /\ rsame \in BOOLEAN

QueueTypes ==
    /\ log_queue \in Seq(Samples) /\ Len(log_queue) =< QueueLength
    /\ records \in Seq(Samples) /\ Len(records) =< BlockSize
    /\ owed \in Seq(Samples)

CardTypes ==
    /\ binDir \in [Names -> Handles] /\ utcDir \in [Names -> Handles]
    /\ created \in Handles /\ session \in Handles
    /\ crashes \in 0 .. MaxCrashes /\ faults \in 0 .. MaxFaults
    /\ card \in {"good", "failed"} /\ slipped \subseteq Serials

ContentTypes ==
    /\ bin \in [Serials -> Seq(Entries)]
    /\ utc \in [Serials -> Seq(Samples)]
    /\ bin_size \in [Serials -> Nat] /\ utc_size \in [Serials -> Nat]

TypeOK == ProducerTypes /\ TaskTypes /\ QueueTypes /\ CardTypes /\ ContentTypes

Init ==
    /\ state = Idle /\ log_path = NoName
    /\ log_file = 0 /\ utc_file = 0 /\ file_mutex = "none"
    /\ log_queue = <<>> /\ records = <<>> /\ queue_drops = 0
    /\ wpc = "receive"
    /\ ppc = [p \in Producers |-> "ready"]
    /\ held = [p \in Producers |-> Torn]
    /\ seen = [p \in Producers |-> 0]
    /\ cpc = "ready" /\ cname = NoName
    /\ rpc = "ready" /\ rold = NoName /\ rnew = NoName /\ rsame = TRUE
    /\ binDir = [n \in Names |-> 0] /\ utcDir = [n \in Names |-> 0]
    /\ bin = [s \in Serials |-> <<>>] /\ utc = [s \in Serials |-> <<>>]
    /\ bin_size = [s \in Serials |-> 0] /\ utc_size = [s \in Serials |-> 0]
    /\ created = 0 /\ samples = 0 /\ crashes = 0 /\ faults = 0
    /\ session = 0 /\ card = "good" /\ owed = <<>> /\ slipped = {} /\ refused = 0

\* An SD operation of the step fails; or none does.
SdFails == faults < MaxFaults /\ faults' = faults + 1
SdWorks == UNCHANGED faults

\* What the steps of each actor leave alone.
ProducerFrame == UNCHANGED <<state, log_path, handles, writer, control, renamer,
                             dir, content, crashes, faults, session, card, slipped>>
ControlFrame  == UNCHANGED <<writer, producer, renamer, content, crashes, slipped>>
RenamerFrame  == UNCHANGED <<state, log_file, utc_file, log_queue, writer, producer,
                             control, created, content, crashes, history>>
ReopenFrame   == UNCHANGED <<log_path, producer, control, renamer, crashes, session, owed>>
WriterFrame   == ReopenFrame /\ UNCHANGED dir

(***************************************************************************)
(* data_logger_enqueue, run by each producer.  The state check, the send    *)
(* and the read and write of the drop counter are separate steps: nothing   *)
(* holds the state between the check and the send, and queue_drops++ is not *)
(* atomic.                                                                  *)
(***************************************************************************)
EnqueueCheck(p) ==
    /\ ppc[p] = "ready"
    /\ state = Running
    /\ samples < MaxSamples
    /\ samples' = samples + 1
    /\ held' = [held EXCEPT ![p] = samples + 1]
    /\ ppc' = [ppc EXCEPT ![p] = "send"]
    /\ UNCHANGED <<log_queue, seen, queue_drops, refused, owed>>
    /\ ProducerFrame

EnqueueSend(p) ==
    /\ ppc[p] = "send"
    /\ Len(log_queue) < QueueLength
    /\ log_queue' = Append(log_queue, held[p])
    /\ owed' = IF state = Running THEN Append(owed, held[p]) ELSE owed
    /\ held' = [held EXCEPT ![p] = Torn]
    /\ ppc' = [ppc EXCEPT ![p] = "ready"]
    /\ UNCHANGED <<seen, samples, queue_drops, refused>>
    /\ ProducerFrame

EnqueueRefused(p) ==
    /\ ppc[p] = "send"
    /\ Len(log_queue) = QueueLength
    /\ refused' = refused + 1
    /\ seen' = [seen EXCEPT ![p] = queue_drops]
    /\ held' = [held EXCEPT ![p] = Torn]
    /\ ppc' = [ppc EXCEPT ![p] = "count"]
    /\ UNCHANGED <<log_queue, samples, queue_drops, owed>>
    /\ ProducerFrame

\* Faulty variant: the drops of late samples are not counted.
EnqueueCountRunning(p) ==
    /\ ppc[p] = "count"
    /\ queue_drops' = IF state = Running THEN seen[p] + 1 ELSE queue_drops
    /\ seen' = [seen EXCEPT ![p] = 0]
    /\ ppc' = [ppc EXCEPT ![p] = "ready"]
    /\ UNCHANGED <<log_queue, held, samples, refused, owed>>
    /\ ProducerFrame

EnqueueCount(p) ==
    /\ ppc[p] = "count"
    /\ queue_drops' = seen[p] + 1
    /\ seen' = [seen EXCEPT ![p] = 0]
    /\ ppc' = [ppc EXCEPT ![p] = "ready"]
    /\ UNCHANGED <<log_queue, held, samples, refused, owed>>
    /\ ProducerFrame

data_logger_enqueue(p) ==
    EnqueueCheck(p) \/ EnqueueSend(p) \/ EnqueueRefused(p) \/ EnqueueCount(p)

(***************************************************************************)
(* data_logger_start and data_logger_stop, run by the controller.  A start  *)
(* checks the state and the two names, then takes file_mutex and creates    *)
(* both files exclusively; a rename may come between the check and the      *)
(* creation.  A name in use, an invalid name and an active logger end the   *)
(* call without a change and are not steps.                                 *)
(***************************************************************************)
StartCheck(n) ==
    /\ cpc = "ready"
    /\ state = Idle
    /\ binDir[n] = 0 /\ utcDir[n] = 0
    /\ cname' = n
    /\ cpc' = "bin"
    /\ UNCHANGED <<state, log_path, handles, log_queue, dir, faults, session, card, owed>>
    /\ ControlFrame

\* The open succeeds only if the name is free (O_EXCL); without O_EXCL it always does.
CreatesOver(n) == TRUE
CreatesNew(n) == binDir[n] = 0

StartReturns == cpc' = "ready" /\ cname' = NoName

\* open(O_CREAT | O_EXCL) of the .bin; fdopen may fail and leave it empty.
StartBin ==
    /\ cpc = "bin"
    /\ file_mutex = "none"
    /\ \/ /\ CreatesNew(cname)
          /\ created < MaxFiles
          /\ created' = created + 1
          /\ binDir' = [binDir EXCEPT ![cname] = created + 1]
          /\ \/ /\ SdWorks
                /\ log_file' = created + 1
                /\ file_mutex' = "start"
                /\ cpc' = "utc"
                /\ UNCHANGED cname
             \/ /\ SdFails
                /\ StartReturns
                /\ UNCHANGED <<log_file, file_mutex>>
       \/ /\ (~CreatesNew(cname) /\ SdWorks) \/ SdFails
          /\ StartReturns
          /\ UNCHANGED <<log_file, file_mutex, binDir, created>>
    /\ UNCHANGED <<state, log_path, utc_file, log_queue, utcDir, session, card, owed>>
    /\ ControlFrame

\* The companion was created as well: the session begins.
StartRun ==
    /\ cpc = "utc"
    /\ utcDir[cname] = 0
    /\ utcDir' = [utcDir EXCEPT ![cname] = log_file]
    /\ utc_file' = log_file
    /\ log_path' = cname
    /\ log_queue' = <<>>
    /\ state' = Running
    /\ file_mutex' = "none"
    /\ StartReturns
    /\ session' = log_file /\ card' = "good" /\ owed' = records
    /\ UNCHANGED <<log_file, binDir, created, faults>>
    /\ ControlFrame

\* The companion exists or cannot be opened: what was created is unlinked again,
\* which may fail unnoticed.
StartUndo ==
    /\ cpc = "utc"
    /\ \/ /\ utcDir[cname] # 0 /\ SdWorks
          /\ binDir' = [binDir EXCEPT ![cname] = 0]
          /\ UNCHANGED utcDir
       \/ /\ SdFails
          /\ binDir' \in {binDir, [binDir EXCEPT ![cname] = 0]}
          /\ \/ UNCHANGED utcDir
             \/ utcDir[cname] = 0 /\ utcDir' = [utcDir EXCEPT ![cname] = log_file]
    /\ log_file' = 0
    /\ file_mutex' = "none"
    /\ StartReturns
    /\ UNCHANGED <<state, log_path, utc_file, log_queue, created, session, card, owed>>
    /\ ControlFrame

data_logger_start == (\E n \in Names : StartCheck(n)) \/ StartBin \/ StartRun \/ StartUndo

data_logger_stop ==
    /\ cpc = "ready"
    /\ state = Running
    /\ state' = Stopping
    /\ UNCHANGED <<log_path, handles, log_queue, control, dir, faults, session, card, owed>>
    /\ ControlFrame

(***************************************************************************)
(* data_logger_rename, run by the HTTP task under file_mutex: checks, the   *)
(* rename of the .bin, then that of the companion with a rollback that may  *)
(* fail as well.  Rejected requests and a failed first rename change nothing.*)
(***************************************************************************)
FollowRename(old, new, same) ==
    log_path' = IF same /\ log_path = old THEN new ELSE log_path

\* An active session's name is refused if it is spelled alike; the faulty variant looks
\* at new alone.
MayTake(old, new, same) == state = Idle \/ ~same \/ log_path # new
MayRename(old, new, same) == state = Idle \/ ~same \/ log_path \notin {old, new}

RenameBin(old, new, same) ==
    /\ rpc = "ready"
    /\ file_mutex = "none"
    /\ old # new
    /\ MayRename(old, new, same)
    /\ binDir[old] # 0
    /\ binDir[new] = 0 /\ utcDir[new] = 0
    /\ binDir' = [binDir EXCEPT ![new] = binDir[old], ![old] = 0]
    /\ IF utcDir[old] # 0
       THEN /\ rpc' = "utc" /\ rold' = old /\ rnew' = new /\ rsame' = same
            /\ file_mutex' = "rename"
            /\ UNCHANGED log_path
       ELSE /\ FollowRename(old, new, same)
            /\ UNCHANGED <<file_mutex, renamer>>
    /\ UNCHANGED <<utcDir, faults>>
    /\ RenamerFrame

RenameUtc ==
    /\ rpc = "utc"
    /\ \/ /\ SdWorks
          /\ utcDir' = [utcDir EXCEPT ![rnew] = utcDir[rold], ![rold] = 0]
          /\ FollowRename(rold, rnew, rsame)
          /\ UNCHANGED binDir
       \/ /\ SdFails
          /\ \/ binDir' = [binDir EXCEPT ![rold] = binDir[rnew], ![rnew] = 0]
             \/ UNCHANGED binDir
          /\ UNCHANGED <<log_path, utcDir>>
    /\ rpc' = "ready" /\ rold' = NoName /\ rnew' = NoName /\ rsame' = TRUE
    /\ file_mutex' = "none"
    /\ RenamerFrame

\* Whether a request may spell names as log_path does: it may, and it may not.
Spellings == IF OtherSpellings THEN {TRUE, FALSE} ELSE {TRUE}

data_logger_rename ==
    \/ \E old, new \in Names, same \in Spellings : RenameBin(old, new, same)
    \/ RenameUtc

\* The companion is closed for good after a failed write of its own and after a
\* binary write that was cut short; the faulty variant forgets the second.
CompanionStaysIfOk(utcOk, full) == utcOk
CompanionStays(utcOk, full) == utcOk /\ full

(***************************************************************************)
(* fclose, whose result is never looked at.  It puts the size into the      *)
(* directory; if it fails, the file is what the directory last said.        *)
(***************************************************************************)
CloseBin(ok) ==
    IF log_file = 0 THEN ok /\ UNCHANGED <<bin, bin_size>>
    ELSE /\ bin' = IF ok THEN bin
                   ELSE [bin EXCEPT ![log_file] = SubSeq(@, 1, bin_size[log_file])]
         /\ bin_size' = IF ok THEN [bin_size EXCEPT ![log_file] = Len(bin[log_file])]
                        ELSE bin_size

\* The companion, when u more records of the buffer have been appended to it.
CloseUtc(ok, u) ==
    IF utc_file = 0 THEN ok /\ UNCHANGED <<utc, utc_size>>
    ELSE LET entries == utc[utc_file] \o SubSeq(records, 1, u) IN
         /\ utc' = [utc EXCEPT ![utc_file] = IF ok THEN entries
                                             ELSE SubSeq(@, 1, utc_size[utc_file])]
         /\ utc_size' = IF ok THEN [utc_size EXCEPT ![utc_file] = Len(entries)] ELSE utc_size

AppendUtc(u) ==
    /\ utc' = IF utc_file = 0 THEN utc
              ELSE [utc EXCEPT ![utc_file] = @ \o SubSeq(records, 1, u)]
    /\ UNCHANGED utc_size

(***************************************************************************)
(* write_records, run under file_mutex.  Of the records in the buffer,      *)
(* fwrite accepts w and possibly a piece of the next (torn); u entries reach *)
(* the companion, which may be closed, well or not; k =< w records reach the *)
(* card when the .bin is flushed, which also goes unnoticed if it fails.     *)
(* full is the function's result.                                           *)
(***************************************************************************)
write_records(full) ==
    /\ file_mutex = "none"
    /\ \E w \in 0 .. Len(records), torn \in BOOLEAN, utcOk \in BOOLEAN, closed \in BOOLEAN :
       \E u \in 0 .. w, k \in 0 .. w :
        /\ full <=> w = Len(records)
        /\ log_file = 0 => w = 0 /\ ~torn
        /\ torn => ~full
        /\ utcOk => u = w
        /\ utc_file = 0 => utcOk
        /\ k < w => ~torn
        /\ IF utcOk /\ closed /\ k = w /\ (full \/ log_file = 0) THEN SdWorks ELSE SdFails
        /\ bin' = IF log_file = 0 THEN bin
                  ELSE [bin EXCEPT ![log_file] =
                          @ \o SubSeq(records, 1, k) \o IF torn THEN <<Torn>> ELSE <<>>]
        /\ IF CompanionStays(utcOk, full) THEN closed /\ AppendUtc(u) /\ UNCHANGED utc_file
                                          ELSE CloseUtc(closed, u) /\ utc_file' = 0
        /\ card' = IF log_file # 0 /\ k < Len(records) THEN "failed" ELSE card
        /\ slipped' = IF k < w THEN slipped \cup {log_file} ELSE slipped
    /\ UNCHANGED <<state, log_file, file_mutex, log_queue, bin_size>>
    /\ WriterFrame

(***************************************************************************)
(* One round of writer_task.                                                *)
(***************************************************************************)
UnchangedFiles == UNCHANGED <<handles, content, faults, card, slipped>>

\* ++count == LOG_RECORDS_PER_BLOCK.
BlockFull == Len(records) + 1 = BlockSize

WriterReceive ==
    /\ wpc = "receive"
    /\ \/ /\ log_queue # <<>>
          /\ records' = Append(records, Head(log_queue))
          /\ log_queue' = Tail(log_queue)
          /\ wpc' = IF BlockFull THEN "block" ELSE "timer"
       \/ /\ log_queue = <<>>
          /\ wpc' = "timer"
          /\ UNCHANGED <<log_queue, records>>
    /\ UNCHANGED state /\ UnchangedFiles /\ WriterFrame

\* A full block is written and forgotten, whatever write_records returns.
WriterBlock ==
    /\ wpc = "block"
    /\ \E full \in BOOLEAN : write_records(full)
    /\ records' = <<>>
    /\ wpc' = "timer"

WriterTimer ==
    /\ wpc = "timer"
    /\ \/ /\ state = Running
          /\ wpc' = IF records = <<>> THEN "ckpt_bin" ELSE "ckpt_write"
       \/ wpc' = "stop"
    /\ UNCHANGED <<state, log_queue, records>>
    /\ UnchangedFiles /\ WriterFrame

\* Before a checkpoint the partial block is written; after a failure it is kept.
WriterCheckpointWrite ==
    /\ wpc = "ckpt_write"
    /\ \/ write_records(TRUE) /\ records' = <<>> /\ wpc' = "ckpt_bin"
       \/ write_records(FALSE) /\ UNCHANGED records /\ wpc' = "stop"

\* fopen of the active names to append: a file that is not there is created.
ReopenBin ==
    IF binDir[log_path] # 0
      THEN log_file' = binDir[log_path] /\ UNCHANGED <<binDir, created>>
      ELSE /\ created < MaxFiles /\ created' = created + 1
           /\ log_file' = created + 1 /\ binDir' = [binDir EXCEPT ![log_path] = created + 1]

ReopenUtc ==
    IF utcDir[log_path] # 0
      THEN utc_file' = utcDir[log_path] /\ UNCHANGED <<utcDir, created>>
      ELSE /\ created < MaxFiles /\ created' = created + 1
           /\ utc_file' = created + 1 /\ utcDir' = [utcDir EXCEPT ![log_path] = created + 1]

\* checkpoint_file: the .bin is closed and opened again for appending ...
CheckpointBin ==
    /\ wpc = "ckpt_bin"
    /\ file_mutex = "none"
    /\ file_mutex' = "writer"
    /\ \E closed, opened \in BOOLEAN :
        /\ CloseBin(closed)
        /\ IF opened THEN ReopenBin ELSE log_file' = 0 /\ UNCHANGED <<binDir, created>>
        /\ IF closed /\ opened THEN SdWorks /\ UNCHANGED card ELSE SdFails /\ card' = "failed"
        /\ slipped' = IF closed THEN slipped ELSE slipped \cup {log_file}
    /\ wpc' = "ckpt_utc"
    /\ UNCHANGED <<state, utc_file, log_queue, records, utc, utc_size, utcDir>>
    /\ ReopenFrame

\* ... and then the companion, if it is still open.
CheckpointUtc ==
    /\ wpc = "ckpt_utc"
    /\ \E closed, opened \in BOOLEAN :
        /\ CloseUtc(closed, 0)
        /\ IF opened /\ utc_file # 0 THEN ReopenUtc
                                     ELSE utc_file' = 0 /\ UNCHANGED <<utcDir, created>>
        /\ IF closed /\ (opened \/ utc_file = 0) THEN SdWorks ELSE SdFails
        /\ slipped' = IF closed THEN slipped ELSE slipped \cup {utc_file}
    /\ file_mutex' = "none"
    /\ wpc' = "stop"
    /\ UNCHANGED <<state, log_file, log_queue, records, bin, bin_size, binDir, card>>
    /\ ReopenFrame

\* Stopping, and nothing left in the queue; the faulty variant does not drain.
StopSeen == state = Stopping
StopDrained == state = Stopping /\ log_queue = <<>>

WriterStop ==
    /\ wpc = "stop"
    /\ wpc' = IF StopDrained
              THEN IF records = <<>> THEN "close" ELSE "drain"
              ELSE "receive"
    /\ UNCHANGED <<state, log_queue, records>>
    /\ UnchangedFiles /\ WriterFrame

\* Faulty variants: the files are never closed; a failed last write is retried.
WriterDrainLeavesOpen ==
    /\ wpc = "drain"
    /\ \E full \in BOOLEAN : write_records(full)
    /\ records' = <<>>
    /\ wpc' = "set_idle"

WriterDrainRetries ==
    /\ wpc = "drain"
    /\ \/ write_records(TRUE) /\ records' = <<>> /\ wpc' = "close"
       \/ write_records(FALSE) /\ UNCHANGED records /\ wpc' = "receive"

WriterDrain ==
    /\ wpc = "drain"
    /\ \E full \in BOOLEAN : write_records(full)
    /\ records' = <<>>
    /\ wpc' = "close"

WriterClose ==
    /\ wpc = "close"
    /\ file_mutex = "none"
    /\ \E binOk, utcOk \in BOOLEAN :
        /\ CloseBin(binOk) /\ CloseUtc(utcOk, 0)
        /\ IF binOk /\ utcOk THEN SdWorks ELSE SdFails
        /\ card' = IF binOk THEN card ELSE "failed"
    /\ log_file' = 0 /\ utc_file' = 0
    /\ wpc' = "set_idle"
    /\ UNCHANGED <<state, file_mutex, log_queue, records, slipped>>
    /\ WriterFrame

WriterSetIdle ==
    /\ wpc = "set_idle"
    /\ state' = Idle
    /\ wpc' = "receive"
    /\ UNCHANGED <<log_queue, records>>
    /\ UnchangedFiles /\ WriterFrame

writer_task ==
    \/ WriterReceive \/ WriterBlock \/ WriterTimer \/ WriterCheckpointWrite
    \/ CheckpointBin \/ CheckpointUtc \/ WriterStop \/ WriterDrain
    \/ WriterClose \/ WriterSetIdle

(***************************************************************************)
(* Power loss and reboot: RAM is lost, and of a file that was open the card *)
(* keeps what its directory entry says, the size at its last close.         *)
(***************************************************************************)
PowerLoss ==
    /\ crashes < MaxCrashes
    /\ crashes' = crashes + 1
    /\ state' = Idle /\ log_path' = NoName
    /\ log_file' = 0 /\ utc_file' = 0 /\ file_mutex' = "none"
    /\ log_queue' = <<>> /\ records' = <<>> /\ queue_drops' = 0 /\ refused' = 0
    /\ wpc' = "receive"
    /\ ppc' = [p \in Producers |-> "ready"]
    /\ held' = [p \in Producers |-> Torn] /\ seen' = [p \in Producers |-> 0]
    /\ StartReturns
    /\ rpc' = "ready" /\ rold' = NoName /\ rnew' = NoName /\ rsame' = TRUE
    /\ bin' = [s \in Serials |-> SubSeq(bin[s], 1, bin_size[s])]
    /\ utc' = [s \in Serials |-> SubSeq(utc[s], 1, utc_size[s])]
    /\ card' = "failed"
    /\ UNCHANGED <<samples, dir, bin_size, utc_size, faults, session, owed, slipped>>

Next ==
    \/ \E p \in Producers : data_logger_enqueue(p)
    \/ data_logger_start
    \/ data_logger_stop
    \/ data_logger_rename
    \/ writer_task
    \/ PowerLoss

Spec == Init /\ [][Next]_vars

(***************************************************************************)
(* The writer has the highest priority of all tasks and FreeRTOS hands a     *)
(* mutex to its highest-priority waiter, so a writer that needs file_mutex  *)
(* again and again gets it.  A task inside file_mutex goes on and leaves it. *)
(***************************************************************************)
Fairness ==
    /\ SF_vars(writer_task)
    /\ WF_vars(StartRun \/ StartUndo)
    /\ WF_vars(RenameUtc)

FairSpec == Spec /\ Fairness

-------------------------------------------------------------------------------
(* Correctness *)

\* Whoever reads a .bin with the companion found beside it pairs each record with
\* its own UTC entry, or with none.
Aligned(n) ==
    binDir[n] # 0 /\ utcDir[n] # 0 =>
        LET records_of == bin[binDir[n]]
            entries_of == utc[utcDir[n]]
        IN  \A i \in 1 .. Len(records_of) :
                i =< Len(entries_of) => entries_of[i] = records_of[i]

\* write_records keeps the two files in step through short writes, companion failures,
\* checkpoints, closes that fail at the end of a session, and power losses, and no start or
\* half-failed rename puts a companion beside another session's records.  Only what the
\* logger does not notice and goes on from, a failed fflush of the .bin or a failed fclose in
\* a checkpoint, puts them out of step.
UtcAligned == \A n \in Names : binDir[n] \notin slipped => Aligned(n)

\* As documented (LOG_FORMAT.md:23, logger/README.md:23), of every recording.
AlwaysAligned == \A n \in Names : Aligned(n)

\* Once idle again, a session that met no SD failure has in its file every sample
\* queued while it was running, in queue order and once each (preceded only by
\* what the writer's buffer held when it started).
NoLoss ==
    state = Idle /\ session # 0 /\ card = "good" =>
        /\ Len(owed) =< Len(bin[session])
        /\ \A i \in 1 .. Len(owed) : bin[session][i] = owed[i]

\* Idle is the permission to remove power: no file, of the last session or an earlier
\* one, holds anything then that the directory does not have, because both files were
\* closed, well or not, before the state became idle.
IdleIsDurable ==
    state = Idle =>
        \A s \in Serials : bin_size[s] = Len(bin[s]) /\ utc_size[s] = Len(utc[s])

\* While a session is active its two files stay under log_path, so a checkpoint
\* reopens the session's own files: renames leave them and their name alone, as long
\* as requests spell the name as log_path does.
ActiveFilesStayPut ==
    state # Idle =>
        /\ binDir[log_path] = session
        /\ utcDir[log_path] = session
        /\ log_file \in {0, session} /\ utc_file \in {0, session}

Listed(d, s) == \E n \in Names : d[n] = s

\* The step keeps the contents of every recording but the active one, and a name
\* for every recording but one whose start is being undone.
KeepsLogs ==
    \A s \in 1 .. created :
        /\ s # session \/ state = Idle =>
               bin'[s] = bin[s] /\ utc'[s] = utc[s]
        /\ Listed(binDir, s) /\ (s # log_file \/ cpc # "utc") => Listed(binDir', s)

\* No step, not even a power loss, changes the contents of a recording that is not the
\* active one, or makes a recording's name disappear from the card: creation is exclusive, a
\* failed start removes only what it created, and a rename never replaces a file.
CompletedLogsKept == [][KeepsLogs]_vars

Session == INSTANCE LoggerSession

\* Between two power losses the logger's state moves as LoggerSession promises to
\* app_control: start, stop and the writer's end of session follow each other, and a
\* requested stop ends with the logger idle whatever the SD card does, because every
\* failure path of the writer goes on to close the files.  Under MaxCrashes = 0.
ImplementsSession == Session!FairSpec

\* The drop counter that the web page shows is short of the drops when two tasks meet
\* a full queue at once, but it never exceeds them and never stays zero over a loss.
DropsShow ==
    /\ queue_drops =< refused
    /\ (\A p \in Producers : ppc[p] # "count") /\ refused > 0 => queue_drops > 0
================================================================================
