------------------------------- MODULE PairedCsv -------------------------------
(***************************************************************************)
(* The CSV exports of web_server.c, stream_csv and stream_paired_csv: one    *)
(* pass over the records of a log and the entries of its UTC companion.     *)
(*                                                                          *)
(* A record is an id and the moment it was taken, and its value is its      *)
(* place in the file.  The file holds 32-bit timestamps, here of Width bits, *)
(* which wrap; Times are the moments of one log relative to its first, and  *)
(* span less than half the range.  Records of different nodes need not be   *)
(* in the order in which they were taken.                                   *)
(***************************************************************************)
EXTENDS Naturals, Sequences

CONSTANTS
    Held,         \* ids whose last value is held: speed, latitude, longitude
    Width,        \* bits of a timestamp
    PairAge,      \* 100 ms
    Times,        \* moments, counted from the first of a log
    MaxRecords    \* bound: records of a log

ASSUME CsvBounds ==
    /\ Width \in Nat \ {0} /\ PairAge \in Nat /\ MaxRecords \in Nat
    /\ Times \subseteq 0 .. 2 ^ (Width - 1) - 1
    /\ 2 ^ Width \in Nat \ {0}
    /\ 2 ^ (Width - 1) \in Nat /\ 2 ^ Width = 2 * 2 ^ (Width - 1)

Ids == {"engine", "bearing", "brake"} \cup Held
Columns == Ids \ {"engine"}

VARIABLES
    format,       \* "csv" or "paired"
    base,         \* timestamp of moment 0
    utc_length,   \* entries in the companion, 0 if there is none
    file,         \* the records read so far
    utc_read,     \* entries consumed
    last,         \* per column, the last record's place and timestamp, at 0 if none
    rows          \* rows sent

csvVars == <<format, base, utc_length, file, utc_read, last, rows>>

Stamps == 0 .. 2 ^ Width - 1
Stamp(moment) == (base + moment) % 2 ^ Width

Places == 0 .. MaxRecords
Row == [engine : Places, utc : Places, cells : [Columns -> Places]]

CsvTypeOK ==
    /\ format \in {"csv", "paired"} /\ base \in Stamps
    /\ utc_length \in Places /\ utc_read \in 0 .. utc_length
    /\ file \in Seq([id : Ids, at : Times]) /\ Len(file) =< MaxRecords
    /\ last \in [Columns -> [place : Places, stamp : Stamps]]
    /\ rows \in Seq(Row)

CsvInit ==
    /\ format \in {"csv", "paired"} /\ base \in Stamps /\ utc_length \in Places
    /\ file = <<>> /\ utc_read = 0 /\ rows = <<>>
    /\ last = [c \in Columns |-> [place |-> 0, stamp |-> 0]]

\* Unsigned subtraction of two timestamps.
Minus(a, b) == (a + 2 ^ Width - b) % 2 ^ Width

\* Faulty variant: the numbers as they stand.
NotAfter(stamp, earlier) == earlier =< stamp
sample_at_or_before(stamp, earlier) == Minus(stamp, earlier) < 2 ^ (Width - 1)

Usable(c, stamp) ==
    /\ last[c].place # 0
    /\ sample_at_or_before(stamp, last[c].stamp)
    /\ c \in Held \/ Minus(stamp, last[c].stamp) =< PairAge

\* Faulty variant: only a record that makes a row consumes an entry.
ReadUtcOfRows(id) ==
    utc_read' = IF utc_read < utc_length /\ id = "engine" THEN utc_read + 1 ELSE utc_read
read_utc_ms(id) ==
    utc_read' = IF utc_read < utc_length THEN utc_read + 1 ELSE utc_read

Utc == IF utc_read < utc_length THEN utc_read + 1 ELSE 0

Cells(stamp) == [c \in Columns |-> IF Usable(c, stamp) THEN last[c].place ELSE 0]

NoCells == [c \in Columns |-> 0]

(***************************************************************************)
(* One round of either loop, for the record that the file holds next.       *)
(***************************************************************************)
stream_csv(id) ==
    /\ format = "csv"
    /\ rows' = Append(rows, [engine |-> Len(file) + 1, utc |-> Utc, cells |-> NoCells])
    /\ UNCHANGED last

stream_paired_csv(id, stamp) ==
    /\ format = "paired"
    /\ IF id \in Columns
       THEN /\ last' = [last EXCEPT ![id] = [place |-> Len(file) + 1, stamp |-> stamp]]
            /\ UNCHANGED rows
       ELSE /\ rows' = IF Usable("bearing", stamp)
                       THEN Append(rows, [engine |-> Len(file) + 1, utc |-> Utc,
                                          cells |-> Cells(stamp)])
                       ELSE rows
            /\ UNCHANGED last

ReadRecord(id, moment) ==
    /\ Len(file) < MaxRecords
    /\ read_utc_ms(id)
    /\ stream_csv(id) \/ stream_paired_csv(id, Stamp(moment))
    /\ file' = Append(file, [id |-> id, at |-> moment])
    /\ UNCHANGED <<format, base, utc_length>>

EndOfFile == Len(file) = MaxRecords /\ UNCHANGED csvVars

CsvNext == (\E id \in Ids, moment \in Times : ReadRecord(id, moment)) \/ EndOfFile

CsvSpec == CsvInit /\ [][CsvNext]_csvVars

-------------------------------------------------------------------------------
(* Correctness *)

\* What the comment above stream_paired_csv promises, said without the loop and in
\* true time: the value of a column at record i is that of the last such record in
\* front of i, unless it is from the future or, but for GPS, too old.
LastOf(c, i) ==
    LET earlier == {j \in 1 .. i - 1 : file[j].id = c}
    IN  IF earlier = {} THEN 0 ELSE CHOOSE j \in earlier : \A k \in earlier : k =< j

Value(c, i) ==
    LET j == LastOf(c, i) IN
    IF /\ j # 0
       /\ file[j].at =< file[i].at
       /\ c \in Held \/ file[i].at =< file[j].at + PairAge
    THEN j ELSE 0

HasRow(i) ==
    format = "csv" \/ (file[i].id = "engine" /\ Value("bearing", i) # 0)

\* Every row is the right one of its record, for every place where the timestamp may
\* wrap; there is a row for each record that has one, in the order of the file.
RowsAreRight ==
    /\ {rows[k].engine : k \in 1 .. Len(rows)} = {i \in 1 .. Len(file) : HasRow(i)}
    /\ \A k \in 2 .. Len(rows) : rows[k - 1].engine < rows[k].engine
    /\ format = "paired" =>
        \A k \in 1 .. Len(rows) :
            rows[k].cells = [c \in Columns |-> Value(c, rows[k].engine)]

\* The time of a row is that of its own record, however many records without a row
\* came before it; past the end of the companion it is blank.
RowsAreTimed ==
    \A k \in 1 .. Len(rows) :
        rows[k].utc = IF rows[k].engine =< utc_length THEN rows[k].engine ELSE 0
================================================================================
