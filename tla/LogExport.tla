------------------------------- MODULE LogExport -------------------------------
(***************************************************************************)
(* DataLogger together with the readers of the card: the list of logs and   *)
(* the downloads of master-node/src/web/web_server.c.  All requests, renames *)
(* included, run in the one task of the HTTP server, so they follow one     *)
(* another, and download_mutex, which this task alone takes, is never busy. *)
(* Recordings start, are written and end meanwhile.                         *)
(*                                                                          *)
(* FAT gives a reader the size that the directory entry holds when the file *)
(* is opened or looked at, the one of the last close that worked; PairedCsv *)
(* says what is made of the contents.  A request may spell a name otherwise *)
(* than log_path does; readdir returns it as its start or rename spelled it.*)
(***************************************************************************)
EXTENDS DataLogger

VARIABLES
    xpc,          \* where the HTTP task is: "ready", "open", "utc", "send", "list"
    xname,        \* the name asked for
    skips,        \* the listing has a pointer to the active name, and leaves that name out
    xbin, xutc,   \* what the download reads: serial and length, serial 0 for no file
    todo,         \* names that readdir has not returned yet
    listed,       \* entries of the list: serial and size
    before        \* history: recordings that the card held when the request was accepted

reader == <<xpc, xname, skips, xbin, xutc, todo, listed, before>>

NoFile == [serial |-> 0, length |-> 0]
ReaderInit ==
    /\ xpc = "ready" /\ xname = NoName /\ skips = FALSE
    /\ xbin = NoFile /\ xutc = NoFile
    /\ todo = {} /\ listed = {} /\ before = {}

\* Recordings on the card, but for one whose start has created it and goes on.
OnCard == {binDir[n] : n \in Names} \ {0, IF cpc = "utc" THEN log_file ELSE 0}

\* A session is active until its files are closed; the faulty variant takes one that
\* is stopping for finished.
RunningLog == IF state = Running THEN log_path ELSE NoName
ActiveLog == IF state # Idle THEN log_path ELSE NoName

(***************************************************************************)
(* download_handler: the check, the two opens, and the transfer.  A request *)
(* that is refused has no effect.                                           *)
(***************************************************************************)
DownloadCheck(n) ==
    /\ xpc = "ready" /\ rpc = "ready"
    /\ \E same \in Spellings : ~(same /\ n = ActiveLog)
    /\ xname' = n /\ before' = OnCard
    /\ xpc' = "open"
    /\ UNCHANGED <<vars, skips, xbin, xutc, todo, listed>>

DownloadEnds ==
    /\ xpc' = "ready" /\ xname' = NoName /\ skips' = FALSE
    /\ xbin' = NoFile /\ xutc' = NoFile /\ before' = {}

DownloadOpen ==
    /\ xpc = "open"
    /\ IF binDir[xname] = 0
       THEN DownloadEnds
       ELSE /\ xbin' = [serial |-> binDir[xname],
                        length |-> bin_size[binDir[xname]]]
            /\ xpc' \in {"utc", "send"}
            /\ UNCHANGED <<xname, skips, xutc, before>>
    /\ UNCHANGED <<vars, todo, listed>>

\* The companion, for the two CSV formats.
DownloadOpenUtc ==
    /\ xpc = "utc"
    /\ xutc' = IF utcDir[xname] = 0 THEN NoFile
               ELSE [serial |-> utcDir[xname], length |-> utc_size[utcDir[xname]]]
    /\ xpc' = "send"
    /\ UNCHANGED <<vars, xname, skips, xbin, todo, listed, before>>

\* All of it has been read, or the client has gone.
DownloadClose ==
    /\ xpc = "send"
    /\ DownloadEnds
    /\ UNCHANGED <<vars, todo, listed>>

download_handler ==
    (\E n \in Names : DownloadCheck(n)) \/ DownloadOpen \/ DownloadOpenUtc \/ DownloadClose

(***************************************************************************)
(* load_completed_logs: whether the logger is active is looked up once, then*)
(* each name that readdir returns is compared with what log_path holds by   *)
(* then, which a start changes.                                             *)
(***************************************************************************)
ListBegin ==
    /\ xpc = "ready" /\ rpc = "ready"
    /\ skips' = (ActiveLog # NoName) /\ before' = OnCard
    /\ todo' = Names /\ listed' = {}
    /\ xpc' = "list"
    /\ UNCHANGED <<vars, xname, xbin, xutc>>

ListName(n) ==
    /\ xpc = "list" /\ n \in todo
    /\ todo' = todo \ {n}
    /\ listed' = IF (skips /\ n = log_path) \/ binDir[n] = 0 THEN listed
                 ELSE listed \cup {[serial |-> binDir[n], length |-> bin_size[binDir[n]]]}
    /\ UNCHANGED <<vars, xpc, xname, skips, xbin, xutc, before>>

ListSend ==
    /\ xpc = "list" /\ todo = {}
    /\ listed' = {}
    /\ DownloadEnds
    /\ UNCHANGED <<vars, todo>>

logs_handler == ListBegin \/ (\E n \in Names : ListName(n)) \/ ListSend

\* A rename is a request as well; a power loss ends the request.
ExportNext ==
    \/ /\ \/ \E p \in Producers : data_logger_enqueue(p)
          \/ data_logger_start \/ data_logger_stop \/ writer_task
       /\ UNCHANGED reader
    \/ xpc = "ready" /\ data_logger_rename /\ UNCHANGED reader
    \/ download_handler \/ logs_handler
    \/ PowerLoss /\ DownloadEnds /\ todo' = {} /\ listed' = {}

ExportSpec == Init /\ ReaderInit /\ [][ExportNext]_<<vars, reader>>

-------------------------------------------------------------------------------
(* Correctness *)

\* A finished recording, of which x shows everything.
Whole(x, contents) ==
    /\ x.serial # session \/ state = Idle
    /\ x.length = Len(contents[x.serial])

\* What is downloaded of a recording that was there when the request was accepted is
\* the finished file to its end, with the companion of the same recording or none, unless
\* it has no records: recordings that start, checkpoints, the end of a session and renames
\* that fail halfway do not touch it.
DownloadsAreWhole ==
    xbin.serial \in before =>
        /\ Whole(xbin, bin)
        /\ xutc.serial # 0 /\ xbin.length > 0 =>
            xutc.serial = xbin.serial /\ Whole(xutc, utc)

\* The same for the list: each recording that was there when the list was begun is
\* shown once at most, finished and with its final size.
ListedAreWhole ==
    \A x \in listed :
        x.serial \in before =>
            Whole(x, bin) /\ \A y \in listed : y.serial = x.serial => y = x

\* Both: no reader of the card is shown part of a recording for all of it.
LogsAreWhole == DownloadsAreWhole /\ ListedAreWhole
================================================================================
