----------------------------- MODULE ExportProofs -----------------------------
(***************************************************************************)
(* Proofs about the readers of the card (LogExport) and about the CSV        *)
(* exports (PairedCsv), for every value of their constants.                 *)
(*                                                                          *)
(* The readers rest on the recorder's invariant: IInv and Pairs of           *)
(* DataLoggerProofs.  Reading adds what a request may rely on while the      *)
(* recorder goes on: no rename runs, the recordings that were on the card    *)
(* keep their names, and the active one among them is the one left out.      *)
(***************************************************************************)
EXTENDS LogExport, PairedCsv, DataLoggerProofs

FileRecord == [serial : Handles, length : Nat]

ReaderTypes ==
    /\ xpc \in {"ready", "open", "utc", "send", "list"}
    /\ xname \in Names \cup {NoName}
    /\ xpc \in {"open", "utc", "send"} => xname \in Names
    /\ skips \in BOOLEAN
    /\ xbin \in FileRecord /\ xutc \in FileRecord
    /\ \A x \in listed : x \in FileRecord
    /\ xpc \notin {"utc", "send"} => xbin = NoFile
    /\ xpc # "send" => xutc = NoFile
    /\ xpc # "list" => listed = {}
    /\ xpc = "ready" => before = {}

Reading ==
    /\ xpc # "ready" => rpc = "ready"
    /\ \A s \in before : s \in 1 .. created /\ (cpc = "utc" => s # log_file)
    /\ state # Idle /\ session \in before =>
         IF xpc = "list" THEN skips ELSE xname # log_path
    /\ xpc = "utc" /\ xbin.serial \in before => binDir[xname] = xbin.serial

ReaderInv == ReaderTypes /\ Reading /\ DownloadsAreWhole /\ ListedAreWhole

-------------------------------------------------------------------------------
(* What the recorder does to a recording while it is read *)

USE DEF Idle, Running, Stopping, handles, writer, producer, control, renamer, dir,
        content, history, Serials, Handles, ProducerFrame, ControlFrame,
        RenamerFrame, WriterFrame, ReopenFrame, UnchangedFiles, StartReturns

\* The steps that may come between two steps of a request.
RecorderStep ==
    \/ \E p \in Producers : data_logger_enqueue(p)
    \/ data_logger_start \/ data_logger_stop \/ writer_task

\* A recording that is not the active one keeps its contents.
LEMMA ContentsStay ==
    ASSUME IInv, RecorderStep, NEW s \in Serials, s # session \/ state = Idle
    PROVE  bin'[s] = bin[s] /\ utc'[s] = utc[s]
<1>1. CASE WriterBlock \/ WriterCheckpointWrite \/ WriterDrain
  <2>1. PICK full \in BOOLEAN : write_records(full)
    BY <1>1 DEF WriterBlock, WriterCheckpointWrite, WriterDrain
  <2>2. file_mutex = "none" /\ TypeOK /\ Durable
    BY <2>1 DEF write_records, IInv
  <2>3. s # log_file /\ s # utc_file
    BY <2>2, OpenIsActive
  <2> QED
    BY <2>1, <2>2, <2>3, WriteEffect
<1>2. CASE CheckpointBin
  <2>1. s # log_file
    BY <1>2, CheckpointBinEffect
  <2> QED
    BY <1>2, <2>1, CheckpointBinEffect
<1>3. CASE CheckpointUtc
  <2>1. s # utc_file
    BY <1>3, CheckpointUtcEffect
  <2> QED
    BY <1>3, <2>1, CheckpointUtcEffect
<1>4. CASE WriterClose
  <2>1. s # log_file /\ s # utc_file
    BY <1>4, WriterCloseEffect, OpenIsActive
  <2> QED
    BY <1>4, <2>1, WriterCloseEffect
<1>5. CASE ~(\/ WriterBlock \/ WriterCheckpointWrite \/ WriterDrain
             \/ CheckpointBin \/ CheckpointUtc \/ WriterClose)
  BY <1>5 DEF RecorderStep, data_logger_enqueue, EnqueueCheck, EnqueueSend, EnqueueRefused,
              EnqueueCount, data_logger_start, StartCheck, StartBin, StartRun, StartUndo,
              data_logger_stop, writer_task, WriterReceive, WriterTimer,
              WriterStop, WriterSetIdle
<1> QED
  BY <1>1, <1>2, <1>3, <1>4, <1>5

\* The active recording changes only by a start, to one that was created last; and
\* between a start and the end of its session the name stays.
LEMMA ActiveChanges ==
    ASSUME IInv, RecorderStep
    PROVE  /\ rpc' = rpc
           /\ \/ (session' = session /\ log_path' = log_path /\ (state = Idle => state' = Idle))
              \/ (cpc = "utc" /\ session' = log_file /\ state = Idle)
<1>1. CASE data_logger_start
  <2>1. cpc = "utc" => state = Idle
    BY DEF IInv, Control
  <2> QED
    BY <1>1, <2>1 DEF data_logger_start, StartCheck, StartBin, StartRun, StartUndo
<1>2. CASE WriterBlock \/ WriterCheckpointWrite \/ WriterDrain
  <2>1. PICK full \in BOOLEAN : write_records(full)
    BY <1>2 DEF WriterBlock, WriterCheckpointWrite, WriterDrain
  <2> QED
    BY <2>1 DEF write_records
<1>3. CASE (\E p \in Producers : data_logger_enqueue(p)) \/ data_logger_stop
  BY <1>3 DEF data_logger_enqueue, EnqueueCheck, EnqueueSend, EnqueueRefused, EnqueueCount,
              data_logger_stop
<1>4. CASE WriterReceive \/ WriterTimer \/ WriterStop \/ WriterSetIdle
  BY <1>4 DEF WriterReceive, WriterTimer, WriterStop, WriterSetIdle
<1>5. CASE CheckpointBin \/ CheckpointUtc \/ WriterClose
  BY <1>5, CheckpointBinEffect, CheckpointUtcEffect, WriterCloseEffect
<1> QED
  BY <1>1, <1>2, <1>3, <1>4, <1>5 DEF RecorderStep, writer_task

\* A start creates a serial of its own, and removes at most what it created.
LEMMA NamesStay ==
    ASSUME IInv, RecorderStep
    PROVE  /\ created =< created'
           /\ cpc' = "utc" => log_file' = created + 1 \/ (cpc = "utc" /\ log_file' = log_file)
           /\ \A n \in Names : \/ binDir'[n] = binDir[n]
                               \/ binDir[n] = 0
                               \/ (cpc = "utc" /\ binDir[n] = log_file)
<1>0. CardTypes /\ Files /\ Control /\ created \in Nat
  BY SizesAssumption DEF IInv, TypeOK, CardTypes
<1>1. CASE StartBin
  <2>1. cpc = "bin" /\ cname \in Names
    BY <1>0, <1>1 DEF StartBin, Control
  <2>2. \/ UNCHANGED <<binDir, created>> /\ cpc' = "ready"
        \/ /\ binDir[cname] = 0 /\ created' = created + 1
           /\ binDir' = [binDir EXCEPT ![cname] = created + 1]
           /\ cpc' = "utc" => log_file' = created + 1
    BY <1>1 DEF StartBin, CreatesNew
  <2>3. CASE UNCHANGED <<binDir, created>> /\ cpc' = "ready"
    BY <1>0, <2>3
  <2>4. CASE /\ binDir[cname] = 0 /\ created' = created + 1
             /\ binDir' = [binDir EXCEPT ![cname] = created + 1]
             /\ cpc' = "utc" => log_file' = created + 1
    <3>1. \A n \in Names : binDir'[n] = binDir[n] \/ binDir[n] = 0
      BY <1>0, <2>1, <2>4 DEF CardTypes
    <3>2. created =< created'
      BY <1>0, <2>4
    <3> QED
      BY <2>4, <3>1, <3>2
  <2> QED
    BY <2>2, <2>3, <2>4
<1>2. CASE StartUndo
  <2>1. /\ binDir' \in {binDir, [binDir EXCEPT ![cname] = 0]} /\ cpc = "utc" /\ cpc' = "ready"
        /\ created' = created /\ binDir[cname] = log_file
    BY <1>0, <1>2 DEF StartUndo, Files
  <2> QED
    BY <1>0, <2>1 DEF CardTypes
<1>3. CASE StartRun \/ (\E n \in Names : StartCheck(n)) \/ data_logger_stop
  BY <1>0, <1>3 DEF StartRun, StartCheck, data_logger_stop
<1>4. CASE \E p \in Producers : data_logger_enqueue(p)
  BY <1>0, <1>4 DEF data_logger_enqueue, EnqueueCheck, EnqueueSend, EnqueueRefused, EnqueueCount
<1>5. CASE writer_task
  <2>1. UNCHANGED <<binDir, created, cpc>>
    <3>1. CASE CheckpointBin \/ CheckpointUtc \/ WriterClose
      BY <3>1, CheckpointBinEffect, CheckpointUtcEffect, WriterCloseEffect
    <3>2. CASE ~(CheckpointBin \/ CheckpointUtc \/ WriterClose)
      BY <1>5, <3>2 DEF writer_task, WriterReceive, WriterBlock, WriterTimer,
                WriterCheckpointWrite, WriterStop, WriterDrain, WriterSetIdle, write_records
    <3> QED
      BY <3>1, <3>2
  <2>2. cpc = "utc" => log_file' = log_file
    <3>1. cpc = "utc" => state = Idle /\ file_mutex = "start"
      BY <1>0 DEF Control
    <3>2. state = Idle => wpc \notin {"ckpt_write", "ckpt_bin", "ckpt_utc", "drain", "close"}
      BY <1>0 DEF Control
    <3>3. CASE WriterReceive \/ WriterTimer \/ WriterStop \/ WriterSetIdle
      BY <3>3 DEF WriterReceive, WriterTimer, WriterStop, WriterSetIdle
    <3>4. CASE WriterBlock \/ WriterCheckpointWrite \/ WriterDrain
      BY <3>4 DEF WriterBlock, WriterCheckpointWrite, WriterDrain, write_records
    <3>5. CASE CheckpointBin \/ CheckpointUtc \/ WriterClose
      BY <3>1, <3>5, CheckpointBinEffect, CheckpointUtcEffect, WriterCloseEffect
    <3> QED
      BY <1>5, <3>3, <3>4, <3>5 DEF writer_task
  <2> QED
    BY <1>0, <2>1, <2>2
<1> QED
  BY <1>1, <1>2, <1>3, <1>4, <1>5 DEF RecorderStep, data_logger_start

\* A finished recording that a request may rely on stays finished and as it is.
LEMMA FinishedStays ==
    ASSUME IInv, Reading, RecorderStep, NEW s \in before, s # session \/ state = Idle
    PROVE  /\ s # session' \/ state' = Idle
           /\ bin'[s] = bin[s] /\ utc'[s] = utc[s]
<1>1. s \in 1 .. created /\ (cpc = "utc" => s # log_file)
  BY DEF Reading
<1>2. created \in Handles /\ MaxFiles \in Nat
  BY SizesAssumption DEF IInv, TypeOK, CardTypes
<1>3. s \in Serials
  BY <1>1, <1>2
<1>4. s # session' \/ state' = Idle
  BY <1>1, ActiveChanges
<1> QED
  BY <1>3, <1>4, ContentsStay

-------------------------------------------------------------------------------
(* The readers' invariant is inductive *)

LEMMA ReadersInitially == Init /\ ReaderInit => ReaderInv
<1> SUFFICES ASSUME Init, ReaderInit PROVE ReaderInv
  OBVIOUS
<1>1. NoFile \in FileRecord
  BY SizesAssumption DEF NoFile, FileRecord
<1>2. ReaderTypes /\ Reading /\ before = {} /\ listed = {}
  BY <1>1 DEF ReaderInit, ReaderTypes, Reading, Init
<1> QED
  BY <1>2 DEF ReaderInv, DownloadsAreWhole, ListedAreWhole

\* Enqueue, start, stop and the writer, between two steps of a request.
LEMMA RecorderKeeps ==
    ASSUME IInv, ReaderInv, RecorderStep, UNCHANGED reader
    PROVE  ReaderInv'
<1>0. /\ ReaderTypes /\ Reading /\ DownloadsAreWhole /\ ListedAreWhole
      /\ UNCHANGED <<xpc, xname, skips, xbin, xutc, todo, listed, before>>
  BY DEF ReaderInv, reader
<1>1. ReaderTypes'
  BY <1>0 DEF ReaderTypes, FileRecord, NoFile
<1>2. Reading'
  <2>1. \A s \in before : s \in 1 .. created /\ (cpc = "utc" => s # log_file)
    BY <1>0 DEF Reading
  <2>2. created \in Nat /\ created' \in Nat /\ created =< created'
    <3>1. created \in Handles /\ MaxFiles \in Nat /\ created' \in Handles
      <4>1. created' = created \/ (created < MaxFiles /\ created' = created + 1)
        <5>1. CASE CheckpointBin \/ CheckpointUtc \/ WriterClose
          BY <5>1, CheckpointBinEffect, CheckpointUtcEffect, WriterCloseEffect
        <5>2. CASE ~(CheckpointBin \/ CheckpointUtc \/ WriterClose)
          BY <5>2 DEF RecorderStep, data_logger_enqueue, EnqueueCheck, EnqueueSend,
               EnqueueRefused, EnqueueCount, data_logger_start, StartCheck, StartBin, StartRun,
               StartUndo, data_logger_stop, writer_task, WriterReceive, WriterBlock, WriterTimer,
               WriterCheckpointWrite, WriterStop, WriterDrain, WriterSetIdle, write_records
        <5> QED
          BY <5>1, <5>2
      <4>2. created \in Handles
        BY DEF IInv, TypeOK, CardTypes
      <4> QED
        BY <4>1, <4>2, SizesAssumption
    <3> QED
      BY <3>1, NamesStay
  <2>3. \A s \in before : s \in 1 .. created' /\ (cpc' = "utc" => s # log_file')
    <3> SUFFICES ASSUME NEW s \in before
                 PROVE  s \in 1 .. created' /\ (cpc' = "utc" => s # log_file')
      OBVIOUS
    <3>1. s \in 1 .. created /\ (cpc = "utc" => s # log_file)
      BY <2>1
    <3>2. s \in 1 .. created' /\ s # created + 1
      <4>1. created' \in Int
        BY <2>2
      <4> QED
        BY <2>2, <3>1, <4>1
    <3> QED
      BY <3>1, <3>2, NamesStay
  <2>4. state' # Idle /\ session' \in before =>
          IF xpc = "list" THEN skips ELSE xname # log_path'
    BY <1>0, <2>1, ActiveChanges DEF Reading
  <2>5. xpc = "utc" /\ xbin.serial \in before => binDir'[xname] = xbin.serial
    <3> SUFFICES ASSUME xpc = "utc", xbin.serial \in before PROVE binDir'[xname] = xbin.serial
      OBVIOUS
    <3>1. xname \in Names /\ binDir[xname] = xbin.serial
      BY <1>0 DEF ReaderTypes, Reading
    <3>2. xbin.serial # 0 /\ (cpc = "utc" => xbin.serial # log_file)
      BY <2>1
    <3> QED
      BY <3>1, <3>2, NamesStay
  <2> QED
    BY <1>0, <2>3, <2>4, <2>5, ActiveChanges DEF Reading
<1>3. DownloadsAreWhole'
  <2> SUFFICES ASSUME xbin.serial \in before
               PROVE  /\ Whole(xbin, bin)'
                      /\ xutc.serial # 0 /\ xbin.length > 0 =>
                           xutc.serial = xbin.serial /\ Whole(xutc, utc)'
    BY <1>0 DEF DownloadsAreWhole
  <2>1. /\ Whole(xbin, bin)
        /\ xutc.serial # 0 /\ xbin.length > 0 => xutc.serial = xbin.serial /\ Whole(xutc, utc)
    BY <1>0 DEF DownloadsAreWhole
  <2>2. /\ xbin.serial # session' \/ state' = Idle
        /\ bin'[xbin.serial] = bin[xbin.serial] /\ utc'[xbin.serial] = utc[xbin.serial]
    BY <1>0, <2>1, FinishedStays DEF Whole
  <2> QED
    BY <1>0, <2>1, <2>2 DEF Whole
<1>4. ListedAreWhole'
  <2> SUFFICES ASSUME NEW x \in listed, x.serial \in before
               PROVE  Whole(x, bin)' /\ \A y \in listed : y.serial = x.serial => y = x
    BY <1>0 DEF ListedAreWhole
  <2>1. Whole(x, bin) /\ \A y \in listed : y.serial = x.serial => y = x
    BY <1>0 DEF ListedAreWhole
  <2>2. /\ x.serial # session' \/ state' = Idle
        /\ bin'[x.serial] = bin[x.serial]
    BY <1>0, <2>1, FinishedStays DEF Whole
  <2> QED
    BY <2>1, <2>2 DEF Whole
<1> QED
  BY <1>1, <1>2, <1>3, <1>4 DEF ReaderInv

\* A request that is over, or has been refused, has no obligations left.
LEMMA EndKeeps ==
    ASSUME DownloadEnds, listed' = {}
    PROVE  ReaderInv'
<1>1. NoFile \in FileRecord /\ NoFile.serial = 0
  BY SizesAssumption DEF NoFile, FileRecord
<1>2. ReaderTypes' /\ Reading'
  BY <1>1 DEF DownloadEnds, ReaderTypes, Reading, FileRecord, NoFile
<1>3. DownloadsAreWhole' /\ ListedAreWhole'
  BY DEF DownloadEnds, DownloadsAreWhole, ListedAreWhole
<1> QED
  BY <1>2, <1>3 DEF ReaderInv

\* The recordings that a request finds on the card exist, and none is being started.
LEMMA CardIsKnown ==
    ASSUME IInv, Pairs, NEW s \in OnCard
    PROVE  s \in 1 .. created /\ (cpc = "utc" => s # log_file)
<1>1. PICK n \in Names : s = binDir[n]
  BY DEF OnCard
<1>2. s # 0 /\ (cpc = "utc" => s # log_file)
  BY DEF OnCard
<1>3. s \in Nat /\ s =< created /\ created \in Nat
  BY <1>1, SizesAssumption DEF IInv, TypeOK, CardTypes, Pairs
<1> QED
  BY <1>2, <1>3

\* A name that a request may read, with a recording it found on the card, is not the
\* active one's.
LEMMA ReadIsFinished ==
    ASSUME IInv, Pairs, Reading, NEW n \in Names, binDir[n] \in before,
           IF xpc = "list" THEN ~(skips /\ n = log_path) ELSE n = xname
    PROVE  binDir[n] # session \/ state = Idle
<1> SUFFICES ASSUME binDir[n] = session, state # Idle PROVE FALSE
  OBVIOUS
<1>1. log_path \in Names /\ binDir[log_path] = session /\ session # 0
  BY DEF IInv, Control, Files, ActiveFilesStayPut
<1>2. n = log_path
  BY <1>1 DEF Pairs
<1>3. IF xpc = "list" THEN skips ELSE xname # log_path
  BY DEF Reading
<1> QED
  BY <1>2, <1>3

\* The steps of the HTTP task.
LEMMA RequestKeeps ==
    ASSUME IInv, Pairs, ReaderInv, download_handler \/ logs_handler
    PROVE  ReaderInv'
<1>0. /\ ReaderTypes /\ Reading /\ DownloadsAreWhole /\ ListedAreWhole
      /\ TaskTypes /\ CardTypes /\ ContentTypes /\ MaxFiles \in Nat
  BY SizesAssumption DEF ReaderInv, IInv, TypeOK
<1>n. NoFile \in FileRecord /\ NoFile.serial = 0
  BY SizesAssumption DEF NoFile, FileRecord
<1>v. UNCHANGED vars
  BY DEF download_handler, logs_handler, DownloadCheck, DownloadOpen, DownloadOpenUtc,
         DownloadClose, ListBegin, ListName, ListSend
<1>u. UNCHANGED <<state, log_path, log_file, cpc, rpc, binDir, utcDir, bin, utc, created, session>>
  BY <1>v DEF vars
<1>c. \A s \in OnCard : s \in 1 .. created /\ (cpc = "utc" => s # log_file)
  BY CardIsKnown
<1>b. \A s \in before : s \in 1 .. created
  BY <1>0 DEF Reading
<1>1. ASSUME NEW n \in Names, DownloadCheck(n) PROVE ReaderInv'
  <2>1. /\ xpc = "ready" /\ rpc = "ready" /\ n # ActiveLog /\ xname' = n /\ before' = OnCard
        /\ xpc' = "open" /\ UNCHANGED <<skips, xbin, xutc, listed>>
    <3>1. Spellings = {TRUE}
      BY DEF IInv, SpelledAlike, Spellings
    <3> QED
      BY <1>1, <3>1 DEF DownloadCheck
  <2>2. xbin = NoFile /\ xutc = NoFile /\ listed = {}
    BY <1>0, <2>1 DEF ReaderTypes
  <2>3. ReaderTypes'
    BY <1>0, <1>n, <2>1, <2>2 DEF ReaderTypes, FileRecord, NoFile
  <2>4. Reading'
    BY <1>u, <1>c, <2>1 DEF Reading, ActiveLog
  <2>5. DownloadsAreWhole' /\ ListedAreWhole'
    BY <1>n, <1>c, <2>1, <2>2 DEF DownloadsAreWhole, ListedAreWhole
  <2> QED
    BY <2>3, <2>4, <2>5 DEF ReaderInv
<1>2. CASE ListBegin
  <2>1. /\ xpc = "ready" /\ rpc = "ready" /\ skips' = (ActiveLog # NoName) /\ before' = OnCard
        /\ xpc' = "list" /\ UNCHANGED <<xname, xbin, xutc>> /\ listed' = {}
    BY <1>2 DEF ListBegin
  <2>a. state # Idle => ActiveLog # NoName
    BY NamesAssumption DEF IInv, Control, ActiveLog
  <2>2. xbin = NoFile /\ xutc = NoFile
    BY <1>0, <2>1 DEF ReaderTypes
  <2>3. ReaderTypes'
    BY <1>0, <1>n, <2>1, <2>2 DEF ReaderTypes, FileRecord, NoFile
  <2>4. Reading'
    BY <1>u, <1>c, <2>1, <2>a DEF Reading
  <2>5. DownloadsAreWhole' /\ ListedAreWhole'
    BY <1>n, <1>c, <2>1, <2>2 DEF DownloadsAreWhole, ListedAreWhole
  <2> QED
    BY <2>3, <2>4, <2>5 DEF ReaderInv
<1>3. CASE DownloadOpen
  <2>1. xpc = "open" /\ xname \in Names /\ xutc = NoFile /\ listed = {} /\ listed' = {}
    BY <1>0, <1>3 DEF DownloadOpen, ReaderTypes
  <2>2. CASE binDir[xname] = 0
    BY <1>3, <2>1, <2>2, EndKeeps DEF DownloadOpen
  <2>3. CASE binDir[xname] # 0
    <3> DEFINE s == binDir[xname]
               l == bin_size[s]
    <3>1. /\ xbin' = [serial |-> s, length |-> l] /\ xpc' \in {"utc", "send"}
          /\ UNCHANGED <<xname, skips, xutc, before>>
      BY <1>3, <2>3 DEF DownloadOpen
    <3>2. s \in Serials
      BY <1>0, <2>1, <2>3 DEF CardTypes
    <3>3. l \in Nat /\ (s # session \/ state = Idle => l = Len(bin[s]))
      BY <1>0, <3>2, SettledSizes DEF ContentTypes
    <3> HIDE DEF l
    <3>4. s \in before => s # session \/ state = Idle
      BY <1>0, <2>1, ReadIsFinished
    <3>5. xbin' \in FileRecord /\ xbin'.serial = s /\ xbin'.length = l
      BY <3>1, <3>2, <3>3 DEF FileRecord
    <3>6. ReaderTypes'
      BY <1>0, <1>n, <2>1, <3>1, <3>5 DEF ReaderTypes, FileRecord, NoFile
    <3>7. Reading'
      BY <1>0, <1>u, <2>1, <3>1, <3>5 DEF Reading
    <3>8. DownloadsAreWhole'
      BY <1>n, <1>u, <2>1, <3>1, <3>3, <3>4, <3>5 DEF DownloadsAreWhole, Whole
    <3>9. ListedAreWhole'
      BY <2>1 DEF ListedAreWhole
    <3> QED
      BY <3>6, <3>7, <3>8, <3>9 DEF ReaderInv
  <2> QED
    BY <2>2, <2>3
<1>4. CASE DownloadOpenUtc
  <2>1. /\ xpc = "utc" /\ xpc' = "send" /\ xname \in Names /\ listed = {} /\ listed' = {}
        /\ UNCHANGED <<xname, skips, xbin, before>>
        /\ xutc' = IF utcDir[xname] = 0 THEN NoFile
                   ELSE [serial |-> utcDir[xname], length |-> utc_size[utcDir[xname]]]
    BY <1>0, <1>4 DEF DownloadOpenUtc, ReaderTypes
  <2>2. utcDir[xname] # 0 => utcDir[xname] \in Serials
    BY <1>0, <2>1 DEF CardTypes
  <2>3. /\ utcDir[xname] # 0 => /\ utc_size[utcDir[xname]] \in Nat
        /\ utcDir[xname] # 0 /\ (utcDir[xname] # session \/ state = Idle) =>
             utc_size[utcDir[xname]] = Len(utc[utcDir[xname]])
    BY <1>0, <2>2, SettledSizes DEF ContentTypes
  <2>4. xutc' \in FileRecord
    BY <1>n, <2>1, <2>2, <2>3 DEF FileRecord
  <2>5. xutc'.serial # 0 =>
          /\ xutc'.serial = utcDir[xname] /\ utcDir[xname] # 0
          /\ xutc'.length = utc_size[utcDir[xname]]
    BY <1>n, <2>1
  <2>6. ReaderTypes'
    BY <1>0, <1>n, <2>1, <2>4 DEF ReaderTypes, FileRecord, NoFile
  <2>7. Reading'
    BY <1>0, <1>u, <2>1 DEF Reading
  <2>8. DownloadsAreWhole'
    <3> SUFFICES ASSUME xbin.serial \in before
                 PROVE  /\ Whole(xbin, bin)'
                        /\ xutc'.serial # 0 /\ xbin.length > 0 =>
                             xutc'.serial = xbin.serial /\ Whole(xutc, utc)'
      BY <2>1 DEF DownloadsAreWhole
    <3>1. Whole(xbin, bin) /\ binDir[xname] = xbin.serial /\ xbin.serial # 0
      BY <1>0, <1>b, <2>1 DEF DownloadsAreWhole, Reading
    <3>2. Whole(xbin, bin)'
      BY <1>u, <2>1, <3>1 DEF Whole
    <3>3. ASSUME xutc'.serial # 0, xbin.length > 0
          PROVE  xutc'.serial = xbin.serial /\ Whole(xutc, utc)'
      <4>1. bin[xbin.serial] # <<>>
        <5>1. xbin.length = Len(bin[xbin.serial])
          BY <3>1 DEF Whole
        <5> QED
          BY <3>3, <5>1
      <4>2. Matches(binDir[xname], utcDir[xname])
        BY <2>1 DEF Pairs
      <4>3. utcDir[xname] = xbin.serial
        BY <2>5, <3>1, <3>3, <4>1, <4>2 DEF Matches
      <4>4. xbin.serial # session \/ state = Idle
        BY <3>1 DEF Whole
      <4> QED
        BY <1>u, <2>3, <2>5, <3>3, <4>3, <4>4 DEF Whole
    <3> QED
      BY <3>2, <3>3
  <2>9. ListedAreWhole'
    BY <2>1 DEF ListedAreWhole
  <2> QED
    BY <2>6, <2>7, <2>8, <2>9 DEF ReaderInv
<1>5. CASE DownloadClose
  <2>1. listed' = {}
    BY <1>0, <1>5 DEF DownloadClose, ReaderTypes
  <2> QED
    BY <1>5, <2>1, EndKeeps DEF DownloadClose
<1>6. ASSUME NEW n \in Names, ListName(n) PROVE ReaderInv'
  <2> DEFINE r == [serial |-> binDir[n], length |-> bin_size[binDir[n]]]
  <2>1. /\ xpc = "list" /\ UNCHANGED <<xpc, xname, skips, xbin, xutc, before>>
        /\ listed' = IF (skips /\ n = log_path) \/ binDir[n] = 0 THEN listed ELSE listed \cup {r}
    BY <1>6 DEF ListName
  <2>2. xbin = NoFile /\ xutc = NoFile
    BY <1>0, <2>1 DEF ReaderTypes
  <2>3. ASSUME ~(skips /\ n = log_path), binDir[n] # 0
        PROVE  /\ r \in FileRecord
               /\ r.serial \in before => r.serial # session \/ state = Idle
               /\ r.serial \in before => r.length = Len(bin[r.serial])
    <3>1. binDir[n] \in Serials
      BY <1>0, <2>3 DEF CardTypes
    <3>2. bin_size[binDir[n]] \in Nat
      BY <1>0, <3>1 DEF ContentTypes
    <3>3. binDir[n] \in before => binDir[n] # session \/ state = Idle
      BY <1>0, <2>1, <2>3, ReadIsFinished
    <3> QED
      BY <3>1, <3>2, <3>3, SettledSizes DEF FileRecord
  <2> HIDE DEF r
  <2>4. ReaderTypes'
    BY <1>0, <2>1, <2>3 DEF ReaderTypes
  <2>5. Reading'
    BY <1>0, <1>u, <2>1 DEF Reading
  <2>6. DownloadsAreWhole'
    BY <1>n, <1>b, <2>1, <2>2 DEF DownloadsAreWhole
  <2>7. \A x \in listed' : x.serial \in before => Whole(x, bin)'
    <3> SUFFICES ASSUME NEW x \in listed', x.serial \in before PROVE Whole(x, bin)'
      OBVIOUS
    <3>1. CASE x \in listed
      <4>1. Whole(x, bin)
        BY <1>0, <3>1 DEF ListedAreWhole
      <4> QED
        BY <1>u, <4>1 DEF Whole
    <3>2. CASE x \notin listed
      <4>1. x = r /\ ~(skips /\ n = log_path) /\ binDir[n] # 0
        BY <2>1, <3>2
      <4> QED
        BY <1>u, <2>3, <4>1 DEF Whole
    <3> QED
      BY <3>1, <3>2
  <2>8. ListedAreWhole'
    <3> SUFFICES ASSUME NEW x \in listed', x.serial \in before
                 PROVE  Whole(x, bin)' /\ \A y \in listed' : y.serial = x.serial => y = x
      BY <2>1 DEF ListedAreWhole
    <3>1. ASSUME NEW y \in listed', y.serial = x.serial PROVE y = x
      <4>1. x \in FileRecord /\ y \in FileRecord
        BY <2>4 DEF ReaderTypes
      <4>2. x.length = y.length
        BY <2>7, <3>1 DEF Whole
      <4> QED
        BY <3>1, <4>1, <4>2 DEF FileRecord
    <3> QED
      BY <2>7, <3>1
  <2> QED
    BY <2>4, <2>5, <2>6, <2>8 DEF ReaderInv
<1>7. CASE ListSend
  BY <1>7, EndKeeps DEF ListSend
<1> QED
  BY <1>1, <1>2, <1>3, <1>4, <1>5, <1>6, <1>7 DEF download_handler, logs_handler

\* With readers on the card the recorder makes the steps it makes without them.
LEMMA RecorderGoesOn == ExportNext => [Next]_vars
BY DEF ExportNext, Next, RecorderStep, download_handler, logs_handler, DownloadCheck,
       DownloadOpen, DownloadOpenUtc, DownloadClose, ListBegin, ListName, ListSend

LEMMA ExportRefines == ExportSpec => Spec
<1>1. [ExportNext]_<<vars, reader>> => [Next]_vars
  BY RecorderGoesOn
<1> QED
  BY <1>1, PTL DEF ExportSpec, Spec

\* No download and no list of logs shows part of a recording for all of it, or a
\* companion of another recording, for the recordings that were on the card when the
\* request was accepted: however sessions start, are written, end and fail meanwhile.  The
\* names asked for are spelled as the logger spells them.
THEOREM ReadersSeeWhole ==
  ASSUME SpelledAlike
  PROVE  ExportSpec => []LogsAreWhole
<1>1. ExportSpec => Init /\ ReaderInit
  BY DEF ExportSpec
<1>2. IInv /\ Pairs /\ ReaderInv /\ [ExportNext]_<<vars, reader>> => ReaderInv'
  <2> SUFFICES ASSUME IInv, Pairs, ReaderInv, [ExportNext]_<<vars, reader>> PROVE ReaderInv'
    OBVIOUS
  <2>1. CASE RecorderStep /\ UNCHANGED reader
    BY <2>1, RecorderKeeps
  <2>2. CASE xpc = "ready" /\ data_logger_rename /\ UNCHANGED reader
    <3>1. UNCHANGED <<xpc, xname, skips, xbin, xutc, todo, listed, before>>
      BY <2>2 DEF reader
    <3>2. ReaderTypes /\ before = {} /\ listed = {}
      BY <2>2 DEF ReaderInv, ReaderTypes
    <3>3. ReaderTypes'
      BY <3>1, <3>2 DEF ReaderTypes, FileRecord, NoFile
    <3>4. Reading' /\ DownloadsAreWhole' /\ ListedAreWhole'
      BY <2>2, <3>1, <3>2 DEF Reading, DownloadsAreWhole, ListedAreWhole
    <3> QED
      BY <3>3, <3>4 DEF ReaderInv
  <2>3. CASE download_handler \/ logs_handler
    BY <2>3, RequestKeeps
  <2>4. CASE PowerLoss /\ DownloadEnds /\ listed' = {}
    BY <2>4, EndKeeps
  <2>5. CASE UNCHANGED <<vars, reader>>
    <3>1. /\ UNCHANGED <<xpc, xname, skips, xbin, xutc, todo, listed, before>>
          /\ UNCHANGED <<state, log_path, log_file, cpc, rpc, binDir, bin, utc, created, session>>
      BY <2>5 DEF vars, reader
    <3>2. ReaderTypes /\ Reading /\ DownloadsAreWhole /\ ListedAreWhole
      BY DEF ReaderInv
    <3>3. ReaderTypes' /\ Reading'
      BY <3>1, <3>2 DEF ReaderTypes, FileRecord, NoFile, Reading
    <3>4. DownloadsAreWhole' /\ ListedAreWhole'
      BY <3>1, <3>2 DEF DownloadsAreWhole, ListedAreWhole, Whole
    <3> QED
      BY <3>3, <3>4 DEF ReaderInv
  <2> QED
    BY <2>1, <2>2, <2>3, <2>4, <2>5 DEF ExportNext, RecorderStep
<1>3. ReaderInv => LogsAreWhole
  BY DEF ReaderInv, LogsAreWhole
<1>4. ExportSpec => [](IInv /\ Pairs)
  BY ExportRefines, Invariance, PairsHold, PTL
<1> QED
  BY <1>2, <1>3, <1>4, ReadersInitially, PTL DEF ExportSpec

-------------------------------------------------------------------------------
(* The CSV exports.  The entries consumed are as many as the records read,     *)
(* until the companion ends; a row is given the one of its record at the       *)
(* moment it is made.  What last holds is the last record of each column.      *)

\* The inductive invariant for the times of the rows.
CsvInv ==
    /\ utc_length \in Nat /\ utc_read \in Nat
    /\ \E S : file \in Seq(S)
    /\ \E S : rows \in Seq(S)
    /\ utc_read = IF Len(file) =< utc_length THEN Len(file) ELSE utc_length
    /\ RowsAreTimed

LEMMA CsvInitially == CsvInit => CsvInv
<1> SUFFICES ASSUME CsvInit PROVE CsvInv
  OBVIOUS
<1>1. utc_length \in Nat /\ utc_read = 0 /\ file = <<>> /\ rows = <<>>
  BY CsvBounds DEF CsvInit, Places
<1>2. file \in Seq({}) /\ rows \in Seq({})
  BY <1>1
<1> QED
  BY <1>1, <1>2 DEF CsvInv, RowsAreTimed

LEMMA ReadKeeps ==
  ASSUME CsvInv, NEW id, NEW moment, ReadRecord(id, moment)
  PROVE  CsvInv'
<1>1. PICK S : file \in Seq(S)
  BY DEF CsvInv
<1>2. PICK R : rows \in Seq(R)
  BY DEF CsvInv
<1>3. /\ utc_length' = utc_length
      /\ file' = Append(file, [id |-> id, at |-> moment])
      /\ utc_read' = IF utc_read < utc_length THEN utc_read + 1 ELSE utc_read
  BY DEF ReadRecord, read_utc_ms
<1>4. /\ file' \in Seq(S \cup {[id |-> id, at |-> moment]})
      /\ Len(file') = Len(file) + 1
  BY <1>1, <1>3
<1>5. utc_read' = IF Len(file') =< utc_length THEN Len(file') ELSE utc_length
  BY <1>3, <1>4, <1>1 DEF CsvInv
<1>6. Utc = IF Len(file) + 1 =< utc_length THEN Len(file) + 1 ELSE 0
  BY <1>1 DEF Utc, CsvInv
<1>7. \/ rows' = rows
      \/ \E row : rows' = Append(rows, row) /\ row.engine = Len(file) + 1 /\ row.utc = Utc
  <2>1. CASE stream_csv(id)
    BY <2>1 DEF stream_csv
  <2>2. CASE stream_paired_csv(id, Stamp(moment))
    BY <2>2 DEF stream_paired_csv
  <2> QED
    BY <2>1, <2>2 DEF ReadRecord
<1>8. (\E T : rows' \in Seq(T)) /\ RowsAreTimed'
  <2>1. CASE rows' = rows
    BY <2>1, <1>2, <1>3 DEF CsvInv, RowsAreTimed
  <2>2. CASE rows' # rows
    <3>1. PICK row : rows' = Append(rows, row) /\ row.engine = Len(file) + 1 /\ row.utc = Utc
      BY <1>7, <2>2
    <3>2. rows' \in Seq(R \cup {row}) /\ Len(rows') = Len(rows) + 1
      BY <1>2, <3>1
    <3>3. rows'[Len(rows')] = row
      BY <1>2, <3>1
    <3>4. \A k \in 1 .. Len(rows) : rows'[k] = rows[k]
      BY <1>2, <3>1
    <3>5. row.utc = IF row.engine =< utc_length THEN row.engine ELSE 0
      BY <3>1, <1>6
    <3>6. RowsAreTimed'
      <4> SUFFICES ASSUME NEW k \in 1 .. Len(rows')
                   PROVE  rows'[k].utc =
                            IF rows'[k].engine =< utc_length THEN rows'[k].engine ELSE 0
        BY <1>3 DEF RowsAreTimed
      <4>1. CASE k = Len(rows')
        BY <4>1, <3>3, <3>5
      <4>2. CASE k # Len(rows')
        <5>1. k \in 1 .. Len(rows)
          BY <4>2, <3>2, <1>2
        <5> QED
          BY <5>1, <3>4 DEF CsvInv, RowsAreTimed
      <4> QED
        BY <4>1, <4>2
    <3> QED
      BY <3>2, <3>6
  <2> QED
    BY <2>1, <2>2
<1>9. utc_length' \in Nat /\ utc_read' \in Nat
  BY <1>3 DEF CsvInv
<1> QED
  BY <1>3, <1>4, <1>5, <1>8, <1>9 DEF CsvInv

LEMMA CsvStays == CsvInv /\ [CsvNext]_csvVars => CsvInv'
<1> SUFFICES ASSUME CsvInv, [CsvNext]_csvVars PROVE CsvInv'
  OBVIOUS
<1>1. CASE \E id \in Ids, moment \in Times : ReadRecord(id, moment)
  BY <1>1, ReadKeeps
<1>2. CASE UNCHANGED csvVars
  BY <1>2 DEF csvVars, CsvInv, RowsAreTimed
<1> QED
  BY <1>1, <1>2 DEF CsvNext, EndOfFile

\* stream_csv and stream_paired_csv: the time of every row is the companion's entry of its
\* own record, or none past the companion's end, for any log.
THEOREM RowsTimed == CsvSpec => []RowsAreTimed
<1>1. CsvInv => RowsAreTimed
  BY DEF CsvInv
<1> QED
  BY CsvInitially, CsvStays, <1>1, PTL DEF CsvSpec

(***************************************************************************)
(* Types                                                                    *)
(***************************************************************************)
LEMMA StampsAreTyped ==
  ASSUME base \in Stamps, NEW moment \in Times
  PROVE  Stamp(moment) \in Stamps
<1> DEFINE N == 2 ^ Width
<1>1. N \in Nat /\ N > 0 /\ base \in 0 .. N - 1 /\ Stamp(moment) = (base + moment) % N
  BY CsvBounds DEF Stamps, Stamp
<1>2. moment \in Nat
  BY CsvBounds
<1> HIDE DEF N
<1>3. Stamp(moment) \in 0 .. N - 1
  BY <1>1, <1>2
<1> QED
  BY <1>3 DEF N, Stamps

LEMMA TypesInitially == CsvInit => CsvTypeOK
<1> SUFFICES ASSUME CsvInit PROVE CsvTypeOK
  OBVIOUS
<1>1. 0 \in Stamps /\ 0 \in Places
  BY CsvBounds DEF Stamps, Places
<1>2. last \in [Columns -> [place : Places, stamp : Stamps]]
  BY <1>1 DEF CsvInit
<1>3. utc_length \in Places /\ utc_read \in 0 .. utc_length
  BY CsvBounds DEF CsvInit, Places
<1>4. file = <<>> /\ rows = <<>> /\ Len(file) =< MaxRecords
  BY CsvBounds DEF CsvInit
<1> QED
  BY <1>2, <1>3, <1>4 DEF CsvInit, CsvTypeOK

LEMMA ReadIsTyped ==
  ASSUME CsvTypeOK, NEW id \in Ids, NEW moment \in Times, ReadRecord(id, moment)
  PROVE  CsvTypeOK'
<1>1. /\ file' \in Seq([id : Ids, at : Times]) /\ Len(file') =< MaxRecords
      /\ Len(file) + 1 \in Places
  BY CsvBounds DEF ReadRecord, CsvTypeOK, Places
<1>2. utc_read' \in 0 .. utc_length /\ Utc \in Places
  BY CsvBounds DEF ReadRecord, read_utc_ms, CsvTypeOK, Utc, Places
<1>3. Stamp(moment) \in Stamps
  BY StampsAreTyped DEF CsvTypeOK
<1>4. 0 \in Places
  BY CsvBounds DEF Places
<1>5. last' \in [Columns -> [place : Places, stamp : Stamps]] /\ rows' \in Seq(Row)
  <2>1. CASE stream_csv(id)
    <3>1. NoCells \in [Columns -> Places]
      BY <1>4 DEF NoCells
    <3> QED
      BY <2>1, <3>1, <1>1, <1>2 DEF stream_csv, Row, CsvTypeOK
  <2>2. CASE stream_paired_csv(id, Stamp(moment))
    <3>1. Cells(Stamp(moment)) \in [Columns -> Places]
      BY <1>4 DEF Cells, CsvTypeOK
    <3>2. CASE id \in Columns
      <4>1. last' = [last EXCEPT ![id] = [place |-> Len(file) + 1, stamp |-> Stamp(moment)]]
        BY <2>2, <3>2 DEF stream_paired_csv
      <4>2. rows' = rows
        BY <2>2, <3>2 DEF stream_paired_csv
      <4>3. [place |-> Len(file) + 1, stamp |-> Stamp(moment)] \in [place : Places, stamp : Stamps]
        BY <1>1, <1>3
      <4> QED
        BY <4>1, <4>2, <4>3 DEF CsvTypeOK
    <3>3. CASE id \notin Columns
      <4>1. [engine |-> Len(file) + 1, utc |-> Utc, cells |-> Cells(Stamp(moment))] \in Row
        BY <3>1, <1>1, <1>2 DEF Row
      <4>2. last' = last
        BY <2>2, <3>3 DEF stream_paired_csv
      <4>3. \/ rows' = rows
            \/ rows' = Append(rows, [engine |-> Len(file) + 1, utc |-> Utc,
                                    cells |-> Cells(Stamp(moment))])
        BY <2>2, <3>3 DEF stream_paired_csv
      <4>4. rows' \in Seq(Row)
        BY <4>1, <4>3 DEF CsvTypeOK
      <4> QED
        BY <4>2, <4>4 DEF CsvTypeOK
    <3> QED
      BY <3>2, <3>3
  <2> QED
    BY <2>1, <2>2 DEF ReadRecord
<1>6. UNCHANGED <<format, base, utc_length>>
  BY DEF ReadRecord
<1> QED
  BY <1>1, <1>2, <1>5, <1>6 DEF CsvTypeOK

LEMMA TypesStay == CsvTypeOK /\ [CsvNext]_csvVars => CsvTypeOK'
<1> SUFFICES ASSUME CsvTypeOK, [CsvNext]_csvVars PROVE CsvTypeOK'
  OBVIOUS
<1>1. CASE UNCHANGED csvVars
  BY <1>1 DEF csvVars, CsvTypeOK, Stamps
<1> QED
  BY <1>1, ReadIsTyped DEF CsvNext, EndOfFile

\* The exports never consume more entries than the companion has, and a row refers to
\* records of its file only.
THEOREM CsvTypes == CsvSpec => []CsvTypeOK
  BY TypesInitially, TypesStay, PTL DEF CsvSpec

(***************************************************************************)
(* The cells of a row                                                       *)
(***************************************************************************)

\* j is the place of the last record with id c among the first i - 1 of f, 0 if none.
IsLast(f, c, i, j) ==
    /\ j \in 0 .. i - 1
    /\ j # 0 => f[j].id = c
    /\ \A k \in 1 .. i - 1 : j < k => f[k].id # c

\* LastOf, of any file.
Earlier(f, c, i) == {j \in 1 .. i - 1 : f[j].id = c}
Latest(S) == IF S = {} THEN 0 ELSE CHOOSE j \in S : \A k \in S : k =< j
LastIn(f, c, i) == Latest(Earlier(f, c, i))

LEMMA LastOfFile == \A c, i : LastOf(c, i) = LastIn(file, c, i)
BY DEF LastOf, LastIn, Latest, Earlier

\* LastIn finds that place, wherever there is one.
LEMMA LastInIs ==
  ASSUME NEW f, NEW c, NEW i \in Nat, NEW j, IsLast(f, c, i, j)
  PROVE  LastIn(f, c, i) = j
<1> DEFINE S == Earlier(f, c, i)
<1>0. j \in 0 .. i - 1 /\ S = {k \in 1 .. i - 1 : f[k].id = c}
  BY DEF IsLast, Earlier
<1>1. CASE j = 0
  <2>1. S = {}
    BY <1>0, <1>1 DEF IsLast
  <2> QED
    BY <1>1, <2>1 DEF LastIn, Latest
<1>2. CASE j # 0
  <2>1. j \in S /\ \A k \in S : k =< j
    BY <1>0, <1>2 DEF IsLast
  <2>2. \A l \in S : (\A k \in S : k =< l) => l = j
    BY <1>0, <2>1
  <2> HIDE DEF S
  <2>3. Latest(S) = CHOOSE l \in S : \A k \in S : k =< l
    BY <2>1 DEF Latest
  <2>4. Latest(S) = j
    BY <2>1, <2>2, <2>3
  <2> QED
    BY <2>4 DEF LastIn, S
<1> QED
  BY <1>1, <1>2

\* Every place of the file has its last record of each column; in a paired export, last
\* holds the one in front of the next record.
LastInv ==
    /\ \A c \in Columns : \A i \in 1 .. Len(file) + 1 : IsLast(file, c, i, LastIn(file, c, i))
    /\ format = "paired" =>
        \A c \in Columns :
            /\ last[c].place = LastIn(file, c, Len(file) + 1)
            /\ last[c].place # 0 => last[c].stamp = Stamp(file[last[c].place].at)

\* Unsigned subtraction orders the moments of one log, wherever the counter wraps.
LEMMA Reduced ==
  ASSUME NEW N \in Nat, N > 0, NEW x \in 0 .. 2 * N - 1
  PROVE  x % N = IF x < N THEN x ELSE x - N
<1>1. x < N => x % N = x
  OBVIOUS
<1>2. x >= N => x % N = x - N
  OBVIOUS
<1> QED
  BY <1>1, <1>2

LEMMA MinusOrders ==
  ASSUME base \in Stamps, NEW m \in Times, NEW a \in Times
  PROVE  /\ Minus(Stamp(m), Stamp(a)) < 2 ^ (Width - 1) <=> a =< m
         /\ a =< m => Minus(Stamp(m), Stamp(a)) = m - a
<1> DEFINE N == 2 ^ Width
           H == 2 ^ (Width - 1)
           s == (base + m) % N
           t == (base + a) % N
<1>1. N \in Nat /\ N > 0 /\ H \in Nat /\ N = 2 * H /\ base \in 0 .. N - 1 /\ m \in 0 .. H - 1 /\ a \in 0 .. H - 1
  BY CsvBounds DEF Stamps
<1>2. Stamp(m) = s /\ Stamp(a) = t /\ Minus(s, t) = (s + N - t) % N
  BY DEF Stamp, Minus
<1> HIDE DEF N, H
<1>4. s = IF base + m < N THEN base + m ELSE base + m - N
  <2>1. base + m \in 0 .. 2 * N - 1
    BY <1>1
  <2> QED
    BY <1>1, <2>1, Reduced
<1>5. t = IF base + a < N THEN base + a ELSE base + a - N
  <2>1. base + a \in 0 .. 2 * N - 1
    BY <1>1
  <2> QED
    BY <1>1, <2>1, Reduced
<1> HIDE DEF s, t
<1>6. s + N - t \in 0 .. 2 * N - 1
  BY <1>1, <1>4, <1>5
<1> DEFINE x == s + N - t
<1>8. m \in Int /\ a \in Int /\ N \in Int /\ x \in Int
  BY <1>1, <1>6
<1>9. x = m - a \/ x = m - a + N \/ x = m - a + 2 * N
  BY <1>1, <1>4, <1>5
<1>11. x \in 0 .. 2 * N - 1
  BY <1>6
<1>12. m - a < N /\ a - m < N /\ N > 0 /\ N \in Nat
  BY <1>1
<1> HIDE DEF x
<1>10. x % N = IF x < N THEN x ELSE x - N
  BY <1>11, <1>12, Reduced
<1>13. x % N = IF a =< m THEN m - a ELSE N - (a - m)
  BY <1>8, <1>9, <1>10, <1>11, <1>12
<1>14. a =< m => m - a < H
  BY <1>1
<1>15. ~(a =< m) => N - (a - m) >= H
  BY <1>1
<1>16. x % N < H <=> a =< m
  BY <1>1, <1>8, <1>13, <1>14, <1>15
<1>17. a =< m => x % N = m - a
  BY <1>13
<1> QED
  BY <1>2, <1>16, <1>17 DEF H, x

\* Adding a record changes nothing in front of it.
LEMMA LastInStays ==
  ASSUME NEW S, NEW f \in Seq(S), NEW r, NEW c, NEW i \in 1 .. Len(f) + 1
  PROVE  LastIn(Append(f, r), c, i) = LastIn(f, c, i)
<1>1. \A j \in 1 .. Len(f) : Append(f, r)[j] = f[j]
  OBVIOUS
<1>2. i - 1 =< Len(f)
  OBVIOUS
<1>3. Earlier(Append(f, r), c, i) = Earlier(f, c, i)
  BY <1>1, <1>2 DEF Earlier
<1> QED
  BY <1>3 DEF LastIn

\* The last record of each column, once one more record has been read.
LEMMA LastInNext ==
  ASSUME NEW S, NEW f \in Seq(S), NEW r, NEW c,
         IsLast(f, c, Len(f) + 1, LastIn(f, c, Len(f) + 1))
  PROVE  /\ LastIn(Append(f, r), c, Len(f) + 2) =
              IF r.id = c THEN Len(f) + 1 ELSE LastIn(f, c, Len(f) + 1)
         /\ IsLast(Append(f, r), c, Len(f) + 2, LastIn(Append(f, r), c, Len(f) + 2))
<1> DEFINE n == Len(f)
           g == Append(f, r)
           j == IF r.id = c THEN n + 1 ELSE LastIn(f, c, n + 1)
<1>1. n \in Nat /\ g[n + 1] = r /\ \A k \in 1 .. n : g[k] = f[k]
  OBVIOUS
<1> HIDE DEF g
<1>2. IsLast(g, c, n + 2, j)
  <2>1. CASE r.id = c
    BY <1>1, <2>1 DEF IsLast
  <2>2. CASE r.id # c
    <3>1. j = LastIn(f, c, n + 1)
      BY <2>2
    <3>2. j \in 0 .. n /\ (j # 0 => f[j].id = c) /\ \A k \in 1 .. n : j < k => f[k].id # c
      BY <1>1, <3>1 DEF IsLast
    <3> HIDE DEF j
    <3>3. j # 0 => g[j].id = c
      BY <1>1, <3>2
    <3>4. \A k \in 1 .. n + 1 : j < k => g[k].id # c
      BY <1>1, <2>2, <3>2
    <3> QED
      BY <1>1, <3>2, <3>3, <3>4 DEF IsLast
  <2> QED
    BY <2>1, <2>2
<1>3. n + 2 \in Nat
  BY <1>1
<1> HIDE DEF j, n
<1>4. LastIn(g, c, n + 2) = j
  BY <1>2, <1>3, LastInIs
<1>5. LastIn(g, c, n + 2) = j /\ IsLast(g, c, n + 2, LastIn(g, c, n + 2))
  BY <1>2, <1>4
<1> QED
  BY <1>5 DEF g, j, n

LEMMA LastStays ==
  ASSUME CsvTypeOK, LastInv, NEW id \in Ids, NEW moment \in Times, ReadRecord(id, moment)
  PROVE  LastInv'
<1> DEFINE R == [id : Ids, at : Times]
           r == [id |-> id, at |-> moment]
           n == Len(file)
<1>1. file \in Seq(R) /\ r \in R /\ file' = Append(file, r) /\ n \in Nat
  BY DEF CsvTypeOK, ReadRecord
<1>2. Len(file') = n + 1 /\ file'[n + 1] = r /\ \A k \in 1 .. n : file'[k] = file[k]
  BY <1>1
<1>3. r.id = id /\ r.at = moment /\ format' = format /\ base' = base
  BY DEF ReadRecord
<1> HIDE DEF r
<1>4. ASSUME NEW c \in Columns
      PROVE  /\ LastIn(file', c, n + 2) = IF id = c THEN n + 1 ELSE LastIn(file, c, n + 1)
             /\ IsLast(file', c, n + 2, LastIn(file', c, n + 2))
  <2>1. IsLast(file, c, Len(file) + 1, LastIn(file, c, Len(file) + 1))
    BY <1>1 DEF LastInv
  <2> QED
    BY <1>1, <1>3, <2>1, LastInNext
<1>5. ASSUME NEW c \in Columns, NEW i \in 1 .. n + 1
      PROVE  IsLast(file', c, i, LastIn(file', c, i))
  <2>1. LastIn(file', c, i) = LastIn(file, c, i) /\ IsLast(file, c, i, LastIn(file, c, i))
    BY <1>1, LastInStays DEF LastInv
  <2> QED
    BY <1>1, <1>2, <2>1 DEF IsLast
<1>6. \A c \in Columns : \A i \in 1 .. Len(file') + 1 : IsLast(file', c, i, LastIn(file', c, i))
  <2> SUFFICES ASSUME NEW c \in Columns, NEW i \in 1 .. n + 2
               PROVE  IsLast(file', c, i, LastIn(file', c, i))
    BY <1>1, <1>2
  <2>1. i = n + 2 \/ i \in 1 .. n + 1
    BY <1>1
  <2> QED
    BY <1>4, <1>5, <2>1
<1>7. ASSUME format = "paired", NEW c \in Columns
      PROVE  /\ last'[c].place = LastIn(file', c, n + 2)
             /\ last'[c].place # 0 => last'[c].stamp = Stamp(file'[last'[c].place].at)
  <2>1. /\ last[c].place = LastIn(file, c, n + 1)
        /\ last[c].place # 0 => last[c].stamp = Stamp(file[last[c].place].at)
        /\ last[c].place \in 0 .. n
    <3>1. IsLast(file, c, n + 1, LastIn(file, c, n + 1))
      BY <1>1 DEF LastInv
    <3>2. LastIn(file, c, n + 1) \in 0 .. n
      BY <1>1, <3>1 DEF IsLast
    <3> QED
      BY <1>7, <3>2 DEF LastInv
  <2>2. stream_paired_csv(id, Stamp(moment))
    BY <1>7 DEF ReadRecord, stream_csv
  <2>3. CASE id = c
    <3>1. last'[c] = [place |-> n + 1, stamp |-> Stamp(moment)]
      BY <2>2, <2>3 DEF stream_paired_csv, CsvTypeOK
    <3>2. LastIn(file', c, n + 2) = n + 1
      BY <1>4, <2>3
    <3>3. file'[n + 1].at = moment
      BY <1>2, <1>3
    <3> QED
      BY <3>1, <3>2, <3>3
  <2>4. CASE id # c
    <3>1. last'[c] = last[c]
      BY <2>2, <2>4 DEF stream_paired_csv, CsvTypeOK
    <3>2. LastIn(file', c, n + 2) = LastIn(file, c, n + 1)
      BY <1>4, <2>4
    <3>3. last[c].place # 0 => file'[last[c].place] = file[last[c].place]
      BY <1>1, <1>2, <2>1
    <3> QED
      BY <2>1, <3>1, <3>2, <3>3
  <2> QED
    BY <2>3, <2>4
<1>8. \A x : Stamp(x)' = Stamp(x)
  BY <1>3 DEF Stamp
<1>9. Len(file') + 1 = n + 2
  BY <1>1, <1>2
<1> HIDE DEF n
<1>10. ASSUME format = "paired", NEW c \in Columns
       PROVE  /\ last'[c].place = LastIn(file', c, Len(file') + 1)
              /\ last'[c].place # 0 => last'[c].stamp = Stamp(file[last[c].place].at)'
  BY <1>7, <1>8, <1>9, <1>10
<1> QED
  BY <1>3, <1>6, <1>10 DEF LastInv

\* Value and HasRow, of any file.
ValueIn(f, c, i) ==
    LET j == LastIn(f, c, i) IN
    IF /\ j # 0
       /\ f[j].at =< f[i].at
       /\ c \in Held \/ f[i].at =< f[j].at + PairAge
    THEN j ELSE 0

HasRowIn(f, i) == format = "csv" \/ (f[i].id = "engine" /\ ValueIn(f, "bearing", i) # 0)

LEMMA ValueFile ==
    /\ \A c, i : Value(c, i) = ValueIn(file, c, i)
    /\ \A i : HasRow(i) <=> HasRowIn(file, i)
<1>1. \A c, i : Value(c, i) = ValueIn(file, c, i)
  BY LastOfFile DEF Value, ValueIn
<1> QED
  BY <1>1 DEF HasRow, HasRowIn

\* Adding a record changes no value of an earlier one.
LEMMA ValueStays ==
  ASSUME NEW S, file \in Seq(S), NEW r, LastInv, NEW c \in Columns, NEW i \in 1 .. Len(file)
  PROVE  ValueIn(Append(file, r), c, i) = ValueIn(file, c, i)
<1> DEFINE g == Append(file, r)
           j == LastIn(file, c, i)
<1>1. \A k \in 1 .. Len(file) : g[k] = file[k]
  OBVIOUS
<1>2. LastIn(g, c, i) = j
  BY LastInStays
<1>3. j \in 0 .. i - 1
  BY DEF LastInv, IsLast
<1> HIDE DEF g, j
<1>4. g[i] = file[i] /\ (j # 0 => g[j] = file[j])
  BY <1>1, <1>3
<1> QED
  BY <1>2, <1>4 DEF ValueIn, g, j

\* The value that stream_paired_csv holds for a column is the one it should give the
\* record it reads.
LEMMA ValueRead ==
  ASSUME CsvTypeOK, LastInv, format = "paired", NEW c \in Columns, NEW id \in Ids,
         NEW moment \in Times
  PROVE  ValueIn(Append(file, [id |-> id, at |-> moment]), c, Len(file) + 1)
             = IF Usable(c, Stamp(moment)) THEN last[c].place ELSE 0
<1> DEFINE r == [id |-> id, at |-> moment]
           n == Len(file)
           g == Append(file, r)
           j == last[c].place
<1>1. file \in Seq([id : Ids, at : Times]) /\ n \in Nat
  BY DEF CsvTypeOK
<1>2. g[n + 1] = r /\ \A k \in 1 .. n : g[k] = file[k]
  BY <1>1
<1>3. LastIn(g, c, n + 1) = LastIn(file, c, n + 1)
  BY <1>1, LastInStays
<1>4. j = LastIn(file, c, n + 1) /\ (j # 0 => last[c].stamp = Stamp(file[j].at))
  BY DEF LastInv
<1>5. j \in 0 .. n
  <2>1. IsLast(file, c, n + 1, LastIn(file, c, n + 1))
    BY <1>1 DEF LastInv
  <2> QED
    BY <1>1, <1>4, <2>1 DEF IsLast
<1>6. r.at = moment
  OBVIOUS
<1>6a. \A k \in 1 .. n : file[k] \in [id : Ids, at : Times]
  BY <1>1, ElementOfSeq
<1>6b. j # 0 => j \in 1 .. n
  BY <1>1, <1>5
<1> HIDE DEF n, g, j, r
<1>7. CASE j = 0
  <2>1. ~Usable(c, Stamp(moment))
    BY <1>7 DEF Usable, j
  <2> QED
    BY <1>3, <1>4, <1>7, <2>1 DEF ValueIn, n, g, r
<1>8. CASE j # 0
  <2> DEFINE a == file[j].at
  <2>1. j \in 1 .. n /\ file[j] \in [id : Ids, at : Times]
    BY <1>6a, <1>6b, <1>8
  <2>2. a \in Times /\ g[j].at = a /\ g[n + 1].at = moment
    BY <1>2, <1>6, <2>1
  <2>3. a \in Nat /\ moment \in Nat /\ PairAge \in Nat
    <3>1. Times \subseteq Nat /\ PairAge \in Nat
      BY CsvBounds
    <3> QED
      BY <2>2, <3>1
  <2>4. /\ Minus(Stamp(moment), Stamp(a)) < 2 ^ (Width - 1) <=> a =< moment
        /\ a =< moment => Minus(Stamp(moment), Stamp(a)) = moment - a
    BY <2>2, MinusOrders DEF CsvTypeOK
  <2>5. last[c].stamp = Stamp(a)
    BY <1>4, <1>8
  <2> HIDE DEF a
  <2>6. Usable(c, Stamp(moment)) <=> a =< moment /\ (c \in Held \/ moment - a =< PairAge)
    BY <1>8, <2>4, <2>5 DEF Usable, sample_at_or_before, j
  <2>7. moment - a =< PairAge <=> moment =< a + PairAge
    BY <2>3
  <2>8. ValueIn(g, c, n + 1) = IF /\ j # 0 /\ a =< moment
                                  /\ c \in Held \/ moment =< a + PairAge
                               THEN j ELSE 0
    BY <1>3, <1>4, <2>2 DEF ValueIn
  <2> QED
    BY <1>8, <2>6, <2>7, <2>8 DEF g, n, j, r
<1> QED
  BY <1>7, <1>8

LEMMA RowsStay ==
  ASSUME CsvTypeOK, LastInv, RowsAreRight,
         NEW id \in Ids, NEW moment \in Times, ReadRecord(id, moment)
  PROVE  RowsAreRight'
<1> DEFINE n == Len(file)
           m == Len(rows)
           r == [id |-> id, at |-> moment]
           g == Append(file, r)
<1>1. /\ file \in Seq([id : Ids, at : Times]) /\ rows \in Seq(Row) /\ n \in Nat /\ m \in Nat
      /\ file' = g /\ Len(file') = n + 1 /\ format' = format
  BY DEF CsvTypeOK, ReadRecord
<1>2. g[n + 1] = r /\ \A k \in 1 .. n : g[k] = file[k]
  BY <1>1
<1>3. /\ {rows[k].engine : k \in 1 .. m} = {i \in 1 .. n : HasRowIn(file, i)}
      /\ \A k \in 2 .. m : rows[k - 1].engine < rows[k].engine
      /\ format = "paired" =>
           \A k \in 1 .. m : rows[k].cells = [c \in Columns |-> ValueIn(file, c, rows[k].engine)]
  BY ValueFile DEF RowsAreRight
<1>4. \A k \in 1 .. m : rows[k].engine \in 1 .. n
  BY <1>3
<1>5. \A c \in Columns, i \in 1 .. n : ValueIn(g, c, i) = ValueIn(file, c, i)
  BY <1>1, ValueStays
<1>6. \A i \in 1 .. n : HasRowIn(g, i) <=> HasRowIn(file, i)
  BY <1>2, <1>5 DEF HasRowIn, Columns, Ids
\* What the record adds.
<1>7. \/ rows' = rows /\ ~HasRowIn(g, n + 1)
      \/ \E row : /\ rows' = Append(rows, row) /\ row.engine = n + 1 /\ HasRowIn(g, n + 1)
                  /\ format = "paired" => row.cells = [c \in Columns |-> ValueIn(g, c, n + 1)]
  <2>1. CASE stream_csv(id)
    BY <2>1 DEF stream_csv, HasRowIn
  <2>2. CASE stream_paired_csv(id, Stamp(moment))
    <3>1. format = "paired"
      BY <2>2 DEF stream_paired_csv
    <3>2. \A c \in Columns :
            ValueIn(g, c, n + 1) = IF Usable(c, Stamp(moment)) THEN last[c].place ELSE 0
      BY <3>1, ValueRead
    <3>3. HasRowIn(g, n + 1) <=> id = "engine" /\ Usable("bearing", Stamp(moment))
      <4>1. "bearing" \in Columns
        BY DEF Columns, Ids
      <4>2. Usable("bearing", Stamp(moment)) => last["bearing"].place # 0
        BY DEF Usable
      <4>3. g[n + 1].id = id
        BY <1>2
      <4> HIDE DEF g, n
      <4> QED
        BY <3>1, <3>2, <4>1, <4>2, <4>3 DEF HasRowIn
    <3>4. id = "engine" <=> id \notin Columns
      BY DEF Columns, Ids
    <3>5. CASE id \in Columns
      BY <2>2, <3>3, <3>4, <3>5 DEF stream_paired_csv
    <3>6. CASE id \notin Columns
      <4>1. rows' = IF Usable("bearing", Stamp(moment))
                    THEN Append(rows, [engine |-> n + 1, utc |-> Utc, cells |-> Cells(Stamp(moment))])
                    ELSE rows
        BY <2>2, <3>6 DEF stream_paired_csv
      <4>2. Cells(Stamp(moment)) = [c \in Columns |-> ValueIn(g, c, n + 1)]
        BY <3>2 DEF Cells
      <4> QED
        BY <3>3, <3>4, <3>6, <4>1, <4>2
    <3> QED
      BY <3>5, <3>6
  <2> QED
    BY <2>1, <2>2 DEF ReadRecord
<1> HIDE DEF g, r
<1>8. ASSUME format = "paired", NEW k \in 1 .. m
      PROVE  rows[k].cells = [c \in Columns |-> ValueIn(g, c, rows[k].engine)]
  BY <1>3, <1>4, <1>5, <1>8
<1> DEFINE Engines == {rows'[k].engine : k \in 1 .. Len(rows')} = {i \in 1 .. n + 1 : HasRowIn(g, i)}
           Ordered == \A k \in 2 .. Len(rows') : rows'[k - 1].engine < rows'[k].engine
           CellsOf == format = "paired" =>
                        \A k \in 1 .. Len(rows') :
                          rows'[k].cells = [c \in Columns |-> ValueIn(g, c, rows'[k].engine)]
<1>9. ASSUME rows' = rows, ~HasRowIn(g, n + 1)
      PROVE  Engines /\ Ordered /\ CellsOf
  <2>1. {i \in 1 .. n + 1 : HasRowIn(g, i)} = {i \in 1 .. n : HasRowIn(file, i)}
    BY <1>1, <1>6, <1>9
  <2>2. Engines /\ Ordered
    BY <1>3, <1>9, <2>1
  <2>3. CellsOf
    BY <1>8, <1>9
  <2> QED
    BY <2>2, <2>3
<1>10. ASSUME NEW row, rows' = Append(rows, row), row.engine = n + 1, HasRowIn(g, n + 1),
              format = "paired" => row.cells = [c \in Columns |-> ValueIn(g, c, n + 1)]
       PROVE  Engines /\ Ordered /\ CellsOf
  <2>1. /\ Len(rows') = m + 1 /\ rows'[m + 1] = row
        /\ \A k \in 1 .. m : rows'[k] = rows[k]
    BY <1>1, <1>10
  <2> HIDE DEF m, n
  <2>2. Engines
    <3>1. \A i : i \in {rows'[k].engine : k \in 1 .. m + 1} <=>
                 i \in {rows[k].engine : k \in 1 .. m} \/ i = n + 1
      <4>1. \A k \in 1 .. m + 1 : k \in 1 .. m \/ k = m + 1
        BY <1>1
      <4>2. m + 1 \in 1 .. m + 1 /\ 1 .. m \subseteq 1 .. m + 1
        BY <1>1
      <4> QED
        BY <1>10, <2>1, <4>1, <4>2
    <3>2. \A i : i \in {k \in 1 .. n + 1 : HasRowIn(g, k)} <=>
                 i \in {k \in 1 .. n : HasRowIn(file, k)} \/ i = n + 1
      BY <1>1, <1>6, <1>10
    <3> QED
      BY <1>3, <2>1, <3>1, <3>2
  <2>3. Ordered
    <3> SUFFICES ASSUME NEW k \in 2 .. m + 1 PROVE rows'[k - 1].engine < rows'[k].engine
      BY <2>1
    <3>1. CASE k = m + 1
      <4>1. k - 1 \in 1 .. m
        BY <1>1, <3>1
      <4>2. rows'[k - 1] = rows[k - 1] /\ rows[k - 1].engine \in 1 .. n
        BY <1>4, <2>1, <4>1
      <4>3. rows'[k].engine = n + 1
        BY <1>10, <2>1, <3>1
      <4> QED
        BY <1>1, <4>2, <4>3
    <3>2. CASE k # m + 1
      <4>1. k \in 2 .. m /\ k \in 1 .. m /\ k - 1 \in 1 .. m
        BY <1>1, <3>2
      <4> QED
        BY <1>3, <2>1, <4>1
    <3> QED
      BY <3>1, <3>2
  <2>4. CellsOf
    <3> SUFFICES ASSUME format = "paired", NEW k \in 1 .. m + 1
                 PROVE  rows'[k].cells = [c \in Columns |-> ValueIn(g, c, rows'[k].engine)]
      BY <2>1
    <3>1. CASE k = m + 1
      BY <1>10, <2>1, <3>1
    <3>2. CASE k # m + 1
      <4>1. k \in 1 .. m
        BY <1>1, <3>2
      <4> QED
        BY <1>8, <2>1, <4>1
    <3> QED
      BY <3>1, <3>2
  <2> QED
    BY <2>2, <2>3, <2>4
<1>11. Engines /\ Ordered /\ CellsOf
  <2> HIDE DEF Engines, Ordered, CellsOf
  <2> QED
    BY <1>7, <1>9, <1>10
<1>12. /\ \A c, i : Value(c, i)' = ValueIn(file', c, i)
       /\ \A i : HasRow(i)' <=> HasRowIn(file', i)
  <2>1. \A c, i : LastOf(c, i)' = LastIn(file', c, i)
    BY DEF LastOf, LastIn, Latest, Earlier
  <2>2. \A c, i : Value(c, i)' = ValueIn(file', c, i)
    BY <2>1 DEF Value, ValueIn
  <2> QED
    BY <1>1, <2>2 DEF HasRow, HasRowIn
<1>13. {i \in 1 .. Len(file') : HasRow(i)'} = {i \in 1 .. n + 1 : HasRowIn(g, i)}
  BY <1>1, <1>12
<1>14. ASSUME format' = "paired", NEW k \in 1 .. Len(rows')
       PROVE  rows'[k].cells = [c \in Columns |-> Value(c, rows[k].engine)']
  BY <1>1, <1>11, <1>12, <1>14
<1> QED
  BY <1>11, <1>13, <1>14 DEF RowsAreRight

\* The cells of every row are those its record should have, wherever the 32-bit
\* timestamps wrap: stream_paired_csv gives a column the last earlier sample that is not
\* from the future and, but for the held ones, not older than 100 ms.
THEOREM RowsRight == CsvSpec => []RowsAreRight
<1>1. CsvInit => LastInv /\ RowsAreRight
  <2> SUFFICES ASSUME CsvInit PROVE LastInv /\ RowsAreRight
    OBVIOUS
  <2>1. /\ file = <<>> /\ rows = <<>> /\ Len(file) = 0 /\ Len(rows) = 0
        /\ \A c \in Columns : last[c].place = 0
    BY DEF CsvInit
  <2>2. \A c \in Columns : IsLast(file, c, 1, 0)
    BY <2>1 DEF IsLast
  <2>3. \A c \in Columns : LastIn(file, c, 1) = 0
    BY <2>2, LastInIs
  <2>4. LastInv
    BY <2>1, <2>2, <2>3 DEF LastInv
  <2>5. RowsAreRight
    BY <2>1 DEF RowsAreRight
  <2> QED
    BY <2>4, <2>5
<1>2. CsvTypeOK /\ LastInv /\ RowsAreRight /\ [CsvNext]_csvVars => (LastInv /\ RowsAreRight)'
  <2> SUFFICES ASSUME CsvTypeOK, LastInv, RowsAreRight, [CsvNext]_csvVars
               PROVE  (LastInv /\ RowsAreRight)'
    OBVIOUS
  <2>1. CASE \E id \in Ids, moment \in Times : ReadRecord(id, moment)
    BY <2>1, LastStays, RowsStay
  <2>2. CASE UNCHANGED csvVars
    <3>1. UNCHANGED <<format, base, file, last, rows>>
      BY <2>2 DEF csvVars
    <3>2. \A c, i : LastOf(c, i)' = LastOf(c, i)
      BY <3>1 DEF LastOf
    <3>3. \A c, i : Value(c, i)' = Value(c, i)
      BY <3>1, <3>2 DEF Value
    <3>4. \A i : HasRow(i)' <=> HasRow(i)
      BY <3>1, <3>3 DEF HasRow
    <3>5. RowsAreRight'
      BY <3>1, <3>3, <3>4 DEF RowsAreRight
    <3>6. LastInv'
      BY <3>1 DEF LastInv, Stamp
    <3> QED
      BY <3>5, <3>6
  <2> QED
    BY <2>1, <2>2 DEF CsvNext, EndOfFile
<1> QED
  BY <1>1, <1>2, CsvTypes, PTL DEF CsvSpec

================================================================================
