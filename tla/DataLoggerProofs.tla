--------------------------- MODULE DataLoggerProofs ---------------------------
(***************************************************************************)
(* Proofs about DataLogger for every value of its constants.                *)
(*                                                                          *)
(* The properties are consequences of one inductive invariant, IInv:        *)
(*   Control  who is inside file_mutex, and which writer and controller     *)
(*            positions go with which logger state                          *)
(*   Buffer   how full the writer's block buffer may be                     *)
(*   Files    which serials the handles and the directory may hold          *)
(*   Durable  what the card holds of each file beyond its directory entry   *)
(*   Stream   where the samples owed to the session are                     *)
(*   Moving   the old name of a half-renamed pair is free                   *)
(* On it rest Companion and Pairs, for the UTC entries beside the records,  *)
(* and DropCount, for the drop counter; they are stated where they are used.*)
(* All of it assumes that requests spell log_path as the logger does: on a  *)
(* card that ignores case a rename of the active file under another         *)
(* spelling breaks Files, as the run logger_spelling shows.                 *)
(***************************************************************************)
EXTENDS DataLogger, SequenceTheorems, TLAPS

SpelledAlike == ~OtherSpellings

Control ==
    /\ file_mutex = "rename" <=> rpc = "utc"
    /\ file_mutex = "start" <=> cpc = "utc"
    /\ file_mutex = "writer" <=> wpc = "ckpt_utc"
    /\ cpc # "ready" => state = Idle /\ cname \in Names
    /\ rsame = TRUE
    /\ rpc = "utc" => /\ rold \in Names /\ rnew \in Names
                      /\ state = Idle \/ log_path \notin {rold, rnew}
    /\ wpc \in {"ckpt_write", "ckpt_bin", "ckpt_utc"} => state # Idle
    /\ wpc \in {"drain", "close", "set_idle"} => state = Stopping
    /\ state # Idle => log_path \in Names /\ session \in Serials
    /\ \A p \in Producers : ppc[p] = "send" => held[p] \in Samples

Buffer ==
    /\ wpc \in {"close", "set_idle"} => records = <<>>
    /\ wpc # "block" => Len(records) < BlockSize

Files ==
    /\ session =< created
    /\ cpc = "utc" => log_file = created /\ session < created /\ binDir[cname] = created
    /\ state = Idle /\ cpc # "utc" => log_file = 0
    /\ state = Idle => utc_file = 0
    /\ wpc = "set_idle" => log_file = 0 /\ utc_file = 0
    /\ ActiveFilesStayPut
    /\ \A s \in Serials : s > session => bin[s] = <<>> /\ utc[s] = <<>>

Durable ==
    \A s \in Serials :
        /\ bin_size[s] =< Len(bin[s]) /\ utc_size[s] =< Len(utc[s])
        /\ s # log_file => bin_size[s] = Len(bin[s])
        /\ s # utc_file => utc_size[s] = Len(utc[s])

\* What is in the file, then in the writer's buffer, then in the queue.
Pending == records \o log_queue
Flow == bin[session] \o Pending

Prefix(s, t) == Len(s) =< Len(t) /\ \A i \in 1 .. Len(s) : s[i] = t[i]

Stream ==
    card = "good" =>
        /\ state = Running => Flow = owed
        /\ state = Stopping => Prefix(owed, Flow)
        /\ state # Idle /\ wpc # "set_idle" => log_file = session
        /\ wpc = "drain" => Len(owed) =< Len(bin[session]) + Len(records)
        /\ wpc \in {"close", "set_idle"} => Len(owed) =< Len(bin[session])
        /\ state = Idle /\ session # 0 => Prefix(owed, bin[session])

\* Between the two renames of a pair the old name of the .bin is free.
Moving == rpc = "utc" => rold # rnew /\ binDir[rold] = 0

IInv == SpelledAlike /\ TypeOK /\ Control /\ Buffer /\ Files /\ Durable /\ Stream /\ Moving

-------------------------------------------------------------------------------
(* Facts about the record operations *)

\* A prefix of a sequence, as a power loss or a short write leaves it.
LEMMA PrefixProperties ==
    ASSUME NEW S, NEW s \in Seq(S), NEW n \in 0 .. Len(s)
    PROVE  /\ SubSeq(s, 1, n) \in Seq(S)
           /\ Len(SubSeq(s, 1, n)) = n
           /\ \A i \in 1 .. n : SubSeq(s, 1, n)[i] = s[i]
<1>1. n \in Int /\ \A i \in 1 .. n : s[i] \in S
  BY LenProperties, ElementOfSeq
<1> QED
  BY <1>1, SubSeqProperties, LenProperties

\* Every sample may stand in a log file.
LEMMA SamplesAreEntries == \A s \in Seq(Samples) : s \in Seq(Entries)
BY SeqMonotonic DEF Entries

\* A prefix of an empty file is empty.
LEMMA EmptyPrefix ==
    ASSUME NEW S, NEW s \in Seq(S), NEW t \in Seq(S), Prefix(s, t), t = <<>>
    PROVE  s = <<>>
<1>1. Len(s) \in Nat /\ Len(t) = 0
  BY LenProperties, EmptySeq
<1>2. Len(s) = 0
  BY <1>1 DEF Prefix
<1> QED
  BY <1>2, EmptySeq

\* fclose of the .bin leaves the file as the directory has it, and no other file
\* changes; a close that fails cuts the file back to its last size there.
LEMMA CloseBinEffect ==
    ASSUME TypeOK, Durable, NEW ok \in BOOLEAN, CloseBin(ok)
    PROVE  /\ bin' \in [Serials -> Seq(Entries)] /\ bin_size' \in [Serials -> Nat]
           /\ \A s \in Serials : s # log_file => bin'[s] = bin[s] /\ bin_size'[s] = bin_size[s]
           /\ \A s \in Serials : bin_size'[s] = Len(bin'[s])
           /\ \A s \in Serials : Prefix(bin'[s], bin[s])
           /\ ok => bin' = bin
           /\ ~ok => log_file \in Serials
<1>1. /\ log_file \in Handles /\ bin \in [Serials -> Seq(Entries)]
      /\ bin_size \in [Serials -> Nat]
  BY DEF TypeOK, TaskTypes, ContentTypes
<1>2. \A s \in Serials : /\ bin[s] \in Seq(Entries) /\ Len(bin[s]) \in Nat
                         /\ bin_size[s] \in 0 .. Len(bin[s])
                         /\ s # log_file => bin_size[s] = Len(bin[s])
  <2> SUFFICES ASSUME NEW s \in Serials
               PROVE  /\ bin[s] \in Seq(Entries) /\ Len(bin[s]) \in Nat
                      /\ bin_size[s] \in 0 .. Len(bin[s])
                      /\ s # log_file => bin_size[s] = Len(bin[s])
    OBVIOUS
  <2>1. bin[s] \in Seq(Entries) /\ Len(bin[s]) \in Nat /\ bin_size[s] \in Nat
    BY <1>1, LenProperties
  <2> QED
    BY <2>1 DEF Durable
<1>3. \A s \in Serials : Prefix(bin[s], bin[s])
  BY <1>2 DEF Prefix
<1>4. CASE log_file = 0
  <2>1. ok /\ bin' = bin /\ bin_size' = bin_size
    BY <1>4 DEF CloseBin
  <2>2. \A s \in Serials : bin_size[s] = Len(bin[s])
    BY <1>2, <1>4 DEF Serials
  <2> QED
    BY <1>1, <1>3, <2>1, <2>2
<1>5. CASE log_file # 0 /\ ok
  <2>1. log_file \in Serials
    BY <1>1, <1>5 DEF Handles, Serials
  <2>2. bin' = bin /\ bin_size' = [bin_size EXCEPT ![log_file] = Len(bin[log_file])]
    BY <1>5 DEF CloseBin
  <2> QED
    BY <1>1, <1>2, <1>3, <1>5, <2>1, <2>2
<1>6. CASE log_file # 0 /\ ~ok
  <2>1. log_file \in Serials
    BY <1>1, <1>6 DEF Handles, Serials
  <2> DEFINE cut == SubSeq(bin[log_file], 1, bin_size[log_file])
  <2>2. bin' = [bin EXCEPT ![log_file] = cut] /\ bin_size' = bin_size
    BY <1>6 DEF CloseBin
  <2>3. /\ cut \in Seq(Entries) /\ Len(cut) = bin_size[log_file]
        /\ \A i \in 1 .. bin_size[log_file] : cut[i] = bin[log_file][i]
    BY <1>2, <2>1, PrefixProperties
  <2> HIDE DEF cut
  <2>4. Prefix(cut, bin[log_file])
    BY <1>2, <2>1, <2>3 DEF Prefix
  <2>5. \A s \in Serials : /\ s # log_file => bin'[s] = bin[s]
                           /\ s = log_file => bin'[s] = cut
    BY <1>1, <2>2
  <2> QED
    BY <1>1, <1>2, <1>3, <1>6, <2>1, <2>2, <2>3, <2>4, <2>5
<1> QED
  BY <1>4, <1>5, <1>6

\* The same of the companion, which first gains the entries appended to it.
LEMMA CloseUtcEffect ==
    ASSUME TypeOK, Durable, NEW ok \in BOOLEAN, NEW u \in 0 .. Len(records), CloseUtc(ok, u)
    PROVE  /\ utc' \in [Serials -> Seq(Samples)] /\ utc_size' \in [Serials -> Nat]
           /\ \A s \in Serials : s # utc_file => utc'[s] = utc[s] /\ utc_size'[s] = utc_size[s]
           /\ \A s \in Serials : utc_size'[s] = Len(utc'[s])
           /\ \A s \in Serials : ~ok \/ u = 0 => Prefix(utc'[s], utc[s])
           /\ \A s \in Serials : s = utc_file /\ ok => utc'[s] = utc[s] \o SubSeq(records, 1, u)
           /\ ok /\ u = 0 => \A s \in Serials : utc'[s] = utc[s]
           /\ ~ok => utc_file \in Serials
<1>1. /\ utc_file \in Handles /\ utc \in [Serials -> Seq(Samples)]
      /\ utc_size \in [Serials -> Nat] /\ records \in Seq(Samples)
  BY DEF TypeOK, TaskTypes, ContentTypes, QueueTypes
<1>2. \A s \in Serials : /\ utc[s] \in Seq(Samples) /\ Len(utc[s]) \in Nat
                         /\ utc_size[s] \in 0 .. Len(utc[s])
                         /\ s # utc_file => utc_size[s] = Len(utc[s])
  <2> SUFFICES ASSUME NEW s \in Serials
               PROVE  /\ utc[s] \in Seq(Samples) /\ Len(utc[s]) \in Nat
                      /\ utc_size[s] \in 0 .. Len(utc[s])
                      /\ s # utc_file => utc_size[s] = Len(utc[s])
    OBVIOUS
  <2>1. utc[s] \in Seq(Samples) /\ Len(utc[s]) \in Nat /\ utc_size[s] \in Nat
    BY <1>1, LenProperties
  <2> QED
    BY <2>1 DEF Durable
<1>3. \A s \in Serials : Prefix(utc[s], utc[s])
  BY <1>2 DEF Prefix
<1>4. CASE utc_file = 0
  <2>1. ok /\ utc' = utc /\ utc_size' = utc_size
    BY <1>4 DEF CloseUtc
  <2>2. \A s \in Serials : utc_size[s] = Len(utc[s]) /\ s # utc_file
    BY <1>2, <1>4 DEF Serials
  <2> QED
    BY <1>1, <1>3, <2>1, <2>2
<1>5. CASE utc_file # 0 /\ ok
  <2>1. utc_file \in Serials
    BY <1>1, <1>5 DEF Handles, Serials
  <2> DEFINE part == SubSeq(records, 1, u)
             more == utc[utc_file] \o part
  <2>2. utc' = [utc EXCEPT ![utc_file] = more]
        /\ utc_size' = [utc_size EXCEPT ![utc_file] = Len(more)]
    BY <1>5 DEF CloseUtc
  <2>3. part \in Seq(Samples) /\ Len(part) = u
    BY <1>1, PrefixProperties
  <2>4. more \in Seq(Samples) /\ Len(more) \in Nat
    BY <1>2, <2>1, <2>3, ConcatProperties, LenProperties
  <2>5. u = 0 => more = utc[utc_file]
    <3>1. u = 0 => part = <<>>
      BY <2>3, EmptySeq
    <3> QED
      BY <1>2, <2>1, <3>1, ConcatEmptySeq
  <2>6. \A s \in Serials : /\ s # utc_file => utc'[s] = utc[s] /\ utc_size'[s] = utc_size[s]
                           /\ s = utc_file => utc'[s] = more /\ utc_size'[s] = Len(more)
    BY <1>1, <2>2
  <2>7. utc' \in [Serials -> Seq(Samples)] /\ utc_size' \in [Serials -> Nat]
    BY <1>1, <2>2, <2>4
  <2>8. \A s \in Serials : s = utc_file => utc'[s] = utc[s] \o SubSeq(records, 1, u)
    BY <2>6
  <2> HIDE DEF more, part
  <2> QED
    BY <1>2, <1>3, <1>5, <2>1, <2>5, <2>6, <2>7, <2>8
<1>6. CASE utc_file # 0 /\ ~ok
  <2>1. utc_file \in Serials
    BY <1>1, <1>6 DEF Handles, Serials
  <2> DEFINE cut == SubSeq(utc[utc_file], 1, utc_size[utc_file])
  <2>2. utc' = [utc EXCEPT ![utc_file] = cut] /\ utc_size' = utc_size
    BY <1>6 DEF CloseUtc
  <2>3. /\ cut \in Seq(Samples) /\ Len(cut) = utc_size[utc_file]
        /\ \A i \in 1 .. utc_size[utc_file] : cut[i] = utc[utc_file][i]
    BY <1>2, <2>1, PrefixProperties
  <2> HIDE DEF cut
  <2>4. Prefix(cut, utc[utc_file])
    BY <1>2, <2>1, <2>3 DEF Prefix
  <2>5. \A s \in Serials : /\ s # utc_file => utc'[s] = utc[s]
                           /\ s = utc_file => utc'[s] = cut
    BY <1>1, <2>2
  <2> QED
    BY <1>1, <1>2, <1>3, <1>6, <2>1, <2>2, <2>3, <2>4, <2>5
<1> QED
  BY <1>4, <1>5, <1>6

\* Entries appended to the open companion leave its size in the directory alone.
LEMMA AppendUtcEffect ==
    ASSUME TypeOK, Durable, NEW u \in 0 .. Len(records), AppendUtc(u)
    PROVE  /\ utc' \in [Serials -> Seq(Samples)] /\ utc_size' = utc_size
           /\ \A s \in Serials : s # utc_file => utc'[s] = utc[s]
           /\ \A s \in Serials : s = utc_file => utc'[s] = utc[s] \o SubSeq(records, 1, u)
           /\ \A s \in Serials : utc_size'[s] =< Len(utc'[s])
<1>1. /\ utc_file \in Handles /\ utc \in [Serials -> Seq(Samples)]
      /\ utc_size \in [Serials -> Nat] /\ records \in Seq(Samples)
  BY DEF TypeOK, TaskTypes, ContentTypes, QueueTypes
<1> DEFINE part == SubSeq(records, 1, u)
<1>2. part \in Seq(Samples) /\ Len(part) = u
  BY <1>1, PrefixProperties
<1> HIDE DEF part
<1>3. utc_size' = utc_size
  BY DEF AppendUtc
<1>4. \A s \in Serials : /\ s # utc_file => utc'[s] = utc[s]
                         /\ s = utc_file => utc'[s] = utc[s] \o part
  <2>1. CASE utc_file = 0
    <3>1. utc' = utc /\ \A s \in Serials : s # utc_file
      BY <2>1 DEF AppendUtc, Serials
    <3> QED
      BY <3>1
  <2>2. CASE utc_file # 0
    <3>1. utc' = [utc EXCEPT ![utc_file] = utc[utc_file] \o part]
      BY <2>2 DEF AppendUtc, part
    <3> QED
      BY <1>1, <3>1
  <2> QED
    BY <2>1, <2>2
<1>5. ASSUME NEW s \in Serials
      PROVE  utc'[s] \in Seq(Samples) /\ utc_size[s] =< Len(utc'[s])
  <2>1. /\ utc[s] \in Seq(Samples) /\ Len(utc[s]) \in Nat
        /\ utc_size[s] \in Nat /\ utc_size[s] =< Len(utc[s])
    BY <1>1, LenProperties DEF Durable
  <2>2. utc[s] \o part \in Seq(Samples) /\ Len(utc[s] \o part) = Len(utc[s]) + u
    BY <1>2, <2>1, ConcatProperties
  <2>3. CASE s # utc_file
    <3>1. utc'[s] = utc[s]
      BY <1>4, <2>3
    <3> QED
      BY <2>1, <3>1
  <2>4. CASE s = utc_file
    <3>1. utc'[s] = utc[s] \o part
      BY <1>4, <2>4
    <3>2. utc_size[s] =< Len(utc[s]) + u
      BY <2>1
    <3> QED
      BY <2>2, <3>1, <3>2
  <2> QED
    BY <2>3, <2>4
<1>6. utc' \in [Serials -> Seq(Samples)]
  <2>1. utc' = utc \/ utc' = [utc EXCEPT ![utc_file] = utc[utc_file] \o part]
    BY DEF AppendUtc, part
  <2>2. DOMAIN utc' = Serials /\ utc' = [s \in Serials |-> utc'[s]]
    BY <1>1, <2>1
  <2> QED
    BY <1>5, <2>2
<1> QED
  BY <1>3, <1>4, <1>5, <1>6 DEF part

\* write_records appends to the open .bin and to the open companion, which it may close,
\* and touches no other contents; unless it meets a failure the .bin gains exactly the
\* buffer.  In what it does not notice it loses records: the file has slipped then.
LEMMA WriteEffect ==
    ASSUME TypeOK, Durable, NEW full \in BOOLEAN, write_records(full)
    PROVE  /\ bin' \in [Serials -> Seq(Entries)] /\ bin_size' = bin_size
           /\ utc' \in [Serials -> Seq(Samples)] /\ utc_size' \in [Serials -> Nat]
           /\ card' \in {"good", "failed"} /\ faults' \in 0 .. MaxFaults
           /\ slipped' \subseteq Serials /\ slipped \subseteq slipped'
           /\ utc_file' \in {0, utc_file}
           /\ \A s \in Serials : s # log_file => bin'[s] = bin[s]
           /\ \A s \in Serials : s # utc_file => utc'[s] = utc[s] /\ utc_size'[s] = utc_size[s]
           /\ \A s \in Serials : Len(bin[s]) =< Len(bin'[s])
           /\ \A s \in Serials : utc_size'[s] =< Len(utc'[s])
           /\ \A s \in Serials : utc_file' = 0 => utc_size'[s] = Len(utc'[s])
           /\ card' = "good" => card = "good"
           /\ card' = "good" /\ log_file # 0 => full
           /\ card' = "good" /\ log_file # 0 => bin'[log_file] = bin[log_file] \o records
<1>1. PICK w \in 0 .. Len(records), torn \in BOOLEAN, utcOk \in BOOLEAN, closed \in BOOLEAN :
      \E u \in 0 .. w, k \in 0 .. w :
        /\ full <=> w = Len(records)
        /\ log_file = 0 => w = 0 /\ ~torn
        /\ torn => ~full
        /\ utcOk => u = w
        /\ utc_file = 0 => utcOk
        /\ k < w => ~torn
        /\ IF utcOk /\ closed /\ k = w /\ (full \/ log_file = 0) THEN SdWorks ELSE SdFails
        /\ bin' = IF log_file = 0 THEN bin
                  ELSE [bin EXCEPT ![log_file] =
                          @ \o SubSeq(records, 1, k) \o IF torn THEN <<Torn>> ELSE <<>>]
        /\ IF CompanionStays(utcOk, full) THEN closed /\ AppendUtc(u) /\ UNCHANGED utc_file
                                          ELSE CloseUtc(closed, u) /\ utc_file' = 0
        /\ card' = IF log_file # 0 /\ k < Len(records) THEN "failed" ELSE card
        /\ slipped' = IF k < w THEN slipped \cup {log_file} ELSE slipped
  BY DEF write_records
<1>2. PICK u \in 0 .. w, k \in 0 .. w :
        /\ full <=> w = Len(records)
        /\ log_file = 0 => w = 0 /\ ~torn
        /\ torn => ~full
        /\ IF utcOk /\ closed /\ k = w /\ (full \/ log_file = 0) THEN SdWorks ELSE SdFails
        /\ bin' = IF log_file = 0 THEN bin
                  ELSE [bin EXCEPT ![log_file] =
                          @ \o SubSeq(records, 1, k) \o IF torn THEN <<Torn>> ELSE <<>>]
        /\ IF CompanionStays(utcOk, full) THEN closed /\ AppendUtc(u) /\ UNCHANGED utc_file
                                          ELSE CloseUtc(closed, u) /\ utc_file' = 0
        /\ card' = IF log_file # 0 /\ k < Len(records) THEN "failed" ELSE card
        /\ slipped' = IF k < w THEN slipped \cup {log_file} ELSE slipped
  BY <1>1
<1> DEFINE part == SubSeq(records, 1, k)
           tail == IF torn THEN <<Torn>> ELSE <<>>
<1>3. /\ records \in Seq(Samples) /\ Len(records) \in Nat
      /\ log_file \in Handles /\ utc_file \in Handles
      /\ bin \in [Serials -> Seq(Entries)] /\ utc \in [Serials -> Seq(Samples)]
      /\ utc_size \in [Serials -> Nat] /\ card \in {"good", "failed"}
      /\ slipped \subseteq Serials
  BY DEF TypeOK, TaskTypes, QueueTypes, CardTypes, ContentTypes
<1>4. part \in Seq(Samples) /\ Len(part) = k /\ u \in 0 .. Len(records)
  BY <1>3, PrefixProperties
<1>5. part \in Seq(Entries) /\ tail \in Seq(Entries)
  <2>1. <<Torn>> \in Seq(Entries) /\ <<>> \in Seq(Entries)
    BY DEF Entries
  <2> QED
    BY <1>4, <2>1, SamplesAreEntries
<1>6. \A s \in Serials : bin'[s] \in Seq(Entries) /\ Len(bin[s]) =< Len(bin'[s])
  <2> SUFFICES ASSUME NEW s \in Serials
               PROVE  bin'[s] \in Seq(Entries) /\ Len(bin[s]) =< Len(bin'[s])
    OBVIOUS
  <2>1. bin'[s] = bin[s] \/ bin'[s] = (bin[s] \o part) \o tail
    BY <1>2, <1>3
  <2>2. bin[s] \in Seq(Entries) /\ Len(bin[s]) \in Nat
    BY <1>3
  <2>3. /\ bin[s] \o part \in Seq(Entries)
        /\ Len(bin[s] \o part) = Len(bin[s]) + Len(part)
    BY <2>2, <1>5, ConcatProperties
  <2>4. /\ (bin[s] \o part) \o tail \in Seq(Entries)
        /\ Len((bin[s] \o part) \o tail) = Len(bin[s] \o part) + Len(tail)
    BY <2>3, <1>5, ConcatProperties
  <2>5. Len(part) \in Nat /\ Len(tail) \in Nat
    BY <1>5, LenProperties
  <2>6. CASE bin'[s] = bin[s]
    BY <2>2, <2>6
  <2>7. CASE bin'[s] = (bin[s] \o part) \o tail
    <3>1. Len(bin'[s]) = Len(bin[s]) + Len(part) + Len(tail)
      BY <2>3, <2>4, <2>7
    <3> HIDE DEF part, tail
    <3> QED
      BY <3>1, <2>2, <2>4, <2>5, <2>7
  <2> QED
    BY <2>1, <2>6, <2>7
<1>7. /\ utc' \in [Serials -> Seq(Samples)] /\ utc_size' \in [Serials -> Nat]
      /\ \A s \in Serials : s # utc_file => utc'[s] = utc[s] /\ utc_size'[s] = utc_size[s]
      /\ \A s \in Serials : utc_size'[s] =< Len(utc'[s])
      /\ \A s \in Serials : utc_file' = 0 => utc_size'[s] = Len(utc'[s])
      /\ utc_file' \in {0, utc_file}
  <2>1. CASE CompanionStays(utcOk, full)
    <3>1. AppendUtc(u) /\ utc_file' = utc_file
      BY <1>2, <2>1
    <3>2. /\ utc' \in [Serials -> Seq(Samples)] /\ utc_size' = utc_size
          /\ \A s \in Serials : s # utc_file => utc'[s] = utc[s]
          /\ \A s \in Serials : utc_size'[s] =< Len(utc'[s])
      BY <1>4, <3>1, AppendUtcEffect
    <3>3. ASSUME NEW s \in Serials, utc_file' = 0 PROVE utc_size'[s] = Len(utc'[s])
      <4>1. s # utc_file
        BY <3>1, <3>3 DEF Serials
      <4> QED
        BY <3>2, <4>1 DEF Durable
    <3> QED
      BY <1>3, <3>1, <3>2, <3>3
  <2>2. CASE ~CompanionStays(utcOk, full)
    <3>1. CloseUtc(closed, u) /\ utc_file' = 0
      BY <1>2, <2>2
    <3>2. /\ utc' \in [Serials -> Seq(Samples)] /\ utc_size' \in [Serials -> Nat]
          /\ \A s \in Serials : s # utc_file => utc'[s] = utc[s] /\ utc_size'[s] = utc_size[s]
          /\ \A s \in Serials : utc_size'[s] = Len(utc'[s])
      BY <1>4, <3>1, CloseUtcEffect
    <3>3. \A s \in Serials : Len(utc'[s]) \in Nat
      BY <3>2, LenProperties
    <3> QED
      BY <3>1, <3>2, <3>3
  <2> QED
    BY <2>1, <2>2
<1>8. bin' \in [Serials -> Seq(Entries)] /\ bin_size' = bin_size
  <2>1. bin_size' = bin_size
    BY DEF write_records
  <2> QED
    BY <1>2, <1>3, <1>4, <1>5, <1>6, <2>1 DEF Serials, Handles
<1>9. \A s \in Serials : s # log_file => bin'[s] = bin[s]
  BY <1>2, <1>3
<1>10. /\ card' \in {"good", "failed"}
       /\ slipped' \subseteq Serials /\ slipped \subseteq slipped'
  <2>1. k < w => log_file \in Serials
    <3>1. k < w => log_file # 0
      BY <1>2
    <3> QED
      BY <1>3, <3>1 DEF Serials, Handles
  <2> QED
    BY <2>1, <1>2, <1>3
<1>11. faults' \in 0 .. MaxFaults
  <2>1. faults' = faults \/ (faults < MaxFaults /\ faults' = faults + 1)
    BY <1>2 DEF SdWorks, SdFails
  <2> QED
    BY <2>1, SizesAssumption DEF TypeOK, TaskTypes, QueueTypes, CardTypes, ContentTypes
<1>12. card' = "good" => card = "good"
  BY <1>2, <1>3
<1>13. ASSUME card' = "good", log_file # 0
       PROVE  full /\ bin'[log_file] = bin[log_file] \o records
  <2>1. ~(k < Len(records))
    BY <1>2, <1>13
  <2>1a. k = Len(records) /\ w = Len(records)
    BY <2>1, <1>3
  <2>1b. ~torn
    BY <2>1a, <1>2
  <2>2. bin'[log_file] = bin[log_file] \o SubSeq(records, 1, Len(records)) \o <<>>
    <3>1. bin' = [bin EXCEPT ![log_file] =
                    bin[log_file] \o SubSeq(records, 1, k) \o IF torn THEN <<Torn>> ELSE <<>>]
      BY <1>2, <1>13
    <3>2. log_file \in Serials
      BY <1>3, <1>13 DEF Serials, Handles
    <3> QED
      BY <3>1, <3>2, <2>1a, <2>1b, <1>3
  <2>3. SubSeq(records, 1, Len(records)) = records
    BY <1>3, SubSeqFull
  <2>3a. full
    BY <2>1a, <1>2
  <2>4. bin[log_file] \in Seq(Entries) /\ records \in Seq(Entries)
    BY <1>3, <1>13 DEF Serials, Handles, Entries
  <2>5. bin[log_file] \o records \in Seq(Entries)
    BY <2>4
  <2> QED
    BY <2>2, <2>3, <2>3a, <2>5, ConcatEmptySeq
<1> QED
  BY <1>6, <1>7, <1>8, <1>9, <1>10, <1>11, <1>12, <1>13

\* A sample added to the queue is added at the end of the flow.
LEMMA FlowAppend ==
    ASSUME NEW S, NEW b \in Seq(S), NEW r \in Seq(S), NEW q \in Seq(S), NEW x \in S
    PROVE  b \o (r \o Append(q, x)) = Append(b \o (r \o q), x)
<1>1. <<x>> \in Seq(S) /\ r \o q \in Seq(S) /\ b \o (r \o q) \in Seq(S)
  BY ConcatProperties
<1>2. Append(q, x) = q \o <<x>> /\ Append(b \o (r \o q), x) = (b \o (r \o q)) \o <<x>>
  BY <1>1, AppendIsConcat
<1>3. r \o (q \o <<x>>) = (r \o q) \o <<x>>
  BY <1>1, ConcatAssociative
<1>4. b \o ((r \o q) \o <<x>>) = (b \o (r \o q)) \o <<x>>
  BY <1>1, ConcatAssociative
<1> QED
  BY <1>2, <1>3, <1>4

\* A sample moved from the queue to the buffer leaves the flow as it is.
LEMMA FlowMove ==
    ASSUME NEW S, NEW r \in Seq(S), NEW q \in Seq(S), q # <<>>
    PROVE  Append(r, Head(q)) \o Tail(q) = r \o q
<1>1. /\ Head(q) \in S /\ Tail(q) \in Seq(S) /\ Len(Tail(q)) = Len(q) - 1
      /\ \A i \in 1 .. Len(Tail(q)) : Tail(q)[i] = q[i + 1]
      /\ Len(q) \in Nat \ {0}
  BY HeadTailProperties, EmptySeq
<1>2. <<Head(q)>> \in Seq(S) /\ Len(<<Head(q)>>) = 1 /\ <<Head(q)>>[1] = Head(q)
  BY <1>1
<1>3. q[1] = Head(q)
  BY <1>1
<1>4. <<Head(q)>> \o Tail(q) = q
  <2>1. /\ <<Head(q)>> \o Tail(q) \in Seq(S)
        /\ Len(<<Head(q)>> \o Tail(q)) = Len(q)
        /\ \A i \in 1 .. Len(q) : (<<Head(q)>> \o Tail(q))[i] =
             IF i =< 1 THEN <<Head(q)>>[i] ELSE Tail(q)[i - 1]
    BY <1>1, <1>2, ConcatProperties
  <2>2. \A i \in 1 .. Len(q) : (<<Head(q)>> \o Tail(q))[i] = q[i]
    BY <1>1, <1>2, <1>3, <2>1
  <2> QED
    BY <2>1, <2>2, SeqEqual
<1>5. Append(r, Head(q)) = r \o <<Head(q)>>
  BY <1>1, AppendIsConcat
<1>6. (r \o <<Head(q)>>) \o Tail(q) = r \o (<<Head(q)>> \o Tail(q))
  BY <1>1, <1>2, ConcatAssociative
<1> QED
  BY <1>4, <1>5, <1>6

\* The buffer written to the file leaves the flow as it is.
LEMMA FlowWrite ==
    ASSUME NEW S, NEW b \in Seq(S), NEW r \in Seq(S), NEW q \in Seq(S)
    PROVE  (b \o r) \o (<<>> \o q) = b \o (r \o q)
BY ConcatEmptySeq, ConcatAssociative

-------------------------------------------------------------------------------
(* The invariant is inductive *)

USE DEF Idle, Running, Stopping, handles, writer, producer, control, renamer, dir,
        content, history, Serials, Handles, ProducerFrame, ControlFrame,
        RenamerFrame, ReopenFrame, WriterFrame, UnchangedFiles, StartReturns

\* The logger as data_logger_init leaves it satisfies the invariant.
LEMMA InitInv == SpelledAlike /\ Init => IInv
<1> SUFFICES ASSUME SpelledAlike, Init PROVE IInv
  OBVIOUS
<1> USE SizesAssumption
<1>1. ProducerTypes
  BY DEF Init, ProducerTypes
<1>2. TaskTypes
  BY DEF Init, TaskTypes, WriterSteps
<1>3. QueueTypes
  BY EmptySeq DEF Init, QueueTypes
<1>4. CardTypes
  BY DEF Init, CardTypes
<1>5. ContentTypes
  BY EmptySeq DEF Init, ContentTypes
<1>6. Control /\ Buffer
  BY EmptySeq DEF Init, Control, Buffer
<1>7. Files
  BY DEF Init, Files, ActiveFilesStayPut
<1>8. Durable /\ Stream /\ Moving
  BY DEF Init, Durable, Stream, Moving
<1> QED
  BY <1>1, <1>2, <1>3, <1>4, <1>5, <1>6, <1>7, <1>8 DEF IInv, TypeOK

\* A file open for writing outside file_mutex is the active session's.
LEMMA OpenIsActive ==
    ASSUME IInv, file_mutex = "none"
    PROVE  /\ log_file \in {0, session} /\ utc_file \in {0, session}
           /\ log_file # 0 \/ utc_file # 0 =>
                /\ state # Idle /\ session \in Serials
                /\ log_path \in Names /\ binDir[log_path] = session /\ utcDir[log_path] = session
<1>1. cpc # "utc"
  BY DEF IInv, Control
<1>2. state = Idle => log_file = 0 /\ utc_file = 0
  BY <1>1 DEF IInv, Files
<1>3. state # Idle => /\ log_file \in {0, session} /\ utc_file \in {0, session}
                      /\ binDir[log_path] = session /\ utcDir[log_path] = session
  BY DEF IInv, Files, ActiveFilesStayPut
<1>4. state # Idle => log_path \in Names /\ session \in Serials
  BY DEF IInv, Control
<1> QED
  BY <1>2, <1>3, <1>4

\* Of a recording that is not active, and of every recording once the logger is idle, the
\* directory has the whole: both files were closed, or cut back to their sizes there.
LEMMA SettledSizes ==
    ASSUME IInv, NEW s \in Serials, s # session \/ state = Idle
    PROVE  bin_size[s] = Len(bin[s]) /\ utc_size[s] = Len(utc[s])
<1>0. Durable /\ Files /\ Control /\ TaskTypes /\ CardTypes /\ ContentTypes
  BY DEF IInv, TypeOK
<1>1. CASE state # Idle
  <2>1. log_file \in {0, session} /\ utc_file \in {0, session}
    BY <1>0, <1>1 DEF Files, ActiveFilesStayPut
  <2> QED
    BY <1>0, <1>1, <2>1 DEF Durable
<1>2. CASE state = Idle
  <2>1. utc_file = 0
    BY <1>0, <1>2 DEF Files
  <2>2. utc_size[s] = Len(utc[s])
    BY <1>0, <2>1 DEF Durable
  <2>3. CASE s # log_file
    BY <1>0, <2>2, <2>3 DEF Durable
  <2>4. CASE s = log_file
    <3>1. cpc = "utc" /\ s = created /\ session < created
      BY <1>0, <1>2, <2>4 DEF Files
    <3>2. bin[s] = <<>>
      BY <1>0, <3>1 DEF Files
    <3>3. bin_size[s] \in Nat /\ bin_size[s] =< Len(bin[s])
      BY <1>0 DEF Durable, ContentTypes
    <3>4. Len(bin[s]) = 0
      BY <3>2
    <3> QED
      BY <2>2, <3>3, <3>4
  <2> QED
    BY <2>3, <2>4
<1> QED
  BY <1>1, <1>2

\* Requests that spell log_path as the logger does.
LEMMA RenamesAlike ==
    ASSUME SpelledAlike, data_logger_rename
    PROVE  (\E old, new \in Names : RenameBin(old, new, TRUE)) \/ RenameUtc
<1>1. Spellings = {TRUE}
  BY DEF SpelledAlike, Spellings
<1> QED
  BY <1>1 DEF data_logger_rename

\* A checkpoint of the .bin closes and reopens the session's own file, which the
\* directory then has as it is; a failed close cuts it back and it has slipped.
LEMMA CheckpointBinEffect ==
    ASSUME IInv, CheckpointBin
    PROVE  /\ UNCHANGED <<state, log_path, utc_file, log_queue, records, utc, utc_size, dir,
                          producer, control, renamer, crashes, session, owed>>
           /\ wpc = "ckpt_bin" /\ wpc' = "ckpt_utc"
           /\ file_mutex = "none" /\ file_mutex' = "writer"
           /\ state # Idle /\ log_file \in {0, session} /\ log_file' \in {0, session}
           /\ bin' \in [Serials -> Seq(Entries)] /\ bin_size' \in [Serials -> Nat]
           /\ \A s \in Serials : s # log_file => bin'[s] = bin[s]
           /\ \A s \in Serials : bin_size'[s] = Len(bin'[s])
           /\ \A s \in Serials : Prefix(bin'[s], bin[s])
           /\ card' \in {"good", "failed"} /\ faults' \in 0 .. MaxFaults
           /\ slipped' \subseteq Serials /\ slipped \subseteq slipped'
           /\ card' = "good" => card = "good" /\ bin' = bin /\ log_file' = session
           /\ \A s \in Serials : s \notin slipped' => bin'[s] = bin[s]
<1>0. TypeOK /\ Control /\ Files /\ Durable /\ CardTypes
  BY DEF IInv, TypeOK
<1>1. PICK closed \in BOOLEAN, opened \in BOOLEAN :
        /\ CloseBin(closed)
        /\ IF opened THEN ReopenBin ELSE log_file' = 0 /\ UNCHANGED <<binDir, created>>
        /\ IF closed /\ opened THEN SdWorks /\ UNCHANGED card ELSE SdFails /\ card' = "failed"
        /\ slipped' = IF closed THEN slipped ELSE slipped \cup {log_file}
  BY DEF CheckpointBin
<1>2. /\ UNCHANGED <<state, log_path, utc_file, log_queue, records, utc, utc_size, utcDir,
                     producer, control, renamer, crashes, session, owed>>
      /\ wpc = "ckpt_bin" /\ wpc' = "ckpt_utc"
      /\ file_mutex = "none" /\ file_mutex' = "writer"
  BY DEF CheckpointBin
<1>3. /\ state # Idle /\ session # 0 /\ binDir[log_path] = session
      /\ log_file \in {0, session}
  BY <1>0, <1>2 DEF Control, Files, ActiveFilesStayPut
<1>4. /\ log_file' \in {0, session} /\ UNCHANGED <<binDir, created>>
      /\ opened => log_file' = session
  BY <1>1, <1>3 DEF ReopenBin
<1>5. /\ bin' \in [Serials -> Seq(Entries)] /\ bin_size' \in [Serials -> Nat]
      /\ \A s \in Serials : s # log_file => bin'[s] = bin[s]
      /\ \A s \in Serials : bin_size'[s] = Len(bin'[s])
      /\ \A s \in Serials : Prefix(bin'[s], bin[s])
      /\ closed => bin' = bin
      /\ ~closed => log_file \in Serials
  BY <1>0, <1>1, CloseBinEffect
<1>6. card' \in {"good", "failed"} /\ (card' = "good" => card = "good" /\ closed /\ opened)
  BY <1>0, <1>1 DEF CardTypes
<1>7. faults' \in 0 .. MaxFaults
  <2>1. faults' = faults \/ (faults < MaxFaults /\ faults' = faults + 1)
    BY <1>1 DEF SdWorks, SdFails
  <2> QED
    BY <1>0, <2>1, SizesAssumption DEF CardTypes
<1>8. /\ slipped' \subseteq Serials /\ slipped \subseteq slipped'
      /\ \A s \in Serials : s \notin slipped' => bin'[s] = bin[s]
  BY <1>0, <1>1, <1>5 DEF CardTypes
<1> QED
  BY <1>2, <1>3, <1>4, <1>5, <1>6, <1>7, <1>8

\* The same of the companion, which is reopened only if it was open.
LEMMA CheckpointUtcEffect ==
    ASSUME IInv, CheckpointUtc
    PROVE  /\ UNCHANGED <<state, log_path, log_file, log_queue, records, bin, bin_size, dir,
                          producer, control, renamer, crashes, session, owed, card>>
           /\ wpc = "ckpt_utc" /\ wpc' = "stop" /\ file_mutex' = "none"
           /\ state # Idle /\ utc_file \in {0, session} /\ utc_file' \in {0, utc_file}
           /\ utc' \in [Serials -> Seq(Samples)] /\ utc_size' \in [Serials -> Nat]
           /\ \A s \in Serials : s # utc_file => utc'[s] = utc[s]
           /\ \A s \in Serials : utc_size'[s] = Len(utc'[s])
           /\ \A s \in Serials : Prefix(utc'[s], utc[s])
           /\ faults' \in 0 .. MaxFaults
           /\ slipped' \subseteq Serials /\ slipped \subseteq slipped'
           /\ \A s \in Serials : s \notin slipped' => utc'[s] = utc[s]
<1>0. TypeOK /\ Control /\ Files /\ Durable /\ CardTypes /\ QueueTypes
  BY DEF IInv, TypeOK
<1>1. PICK closed \in BOOLEAN, opened \in BOOLEAN :
        /\ CloseUtc(closed, 0)
        /\ IF opened /\ utc_file # 0 THEN ReopenUtc
                                     ELSE utc_file' = 0 /\ UNCHANGED <<utcDir, created>>
        /\ IF closed /\ (opened \/ utc_file = 0) THEN SdWorks ELSE SdFails
        /\ slipped' = IF closed THEN slipped ELSE slipped \cup {utc_file}
  BY DEF CheckpointUtc
<1>2. /\ UNCHANGED <<state, log_path, log_file, log_queue, records, bin, bin_size, binDir,
                     producer, control, renamer, crashes, session, owed, card>>
      /\ wpc = "ckpt_utc" /\ wpc' = "stop" /\ file_mutex' = "none"
  BY DEF CheckpointUtc
<1>3. /\ state # Idle /\ session # 0 /\ utcDir[log_path] = session
      /\ utc_file \in {0, session}
  BY <1>0, <1>2 DEF Control, Files, ActiveFilesStayPut
<1>4. utc_file' \in {0, utc_file} /\ UNCHANGED <<utcDir, created>>
  BY <1>1, <1>3 DEF ReopenUtc
<1>5. 0 \in 0 .. Len(records)
  BY <1>0, LenProperties DEF QueueTypes
<1>6. /\ utc' \in [Serials -> Seq(Samples)] /\ utc_size' \in [Serials -> Nat]
      /\ \A s \in Serials : s # utc_file => utc'[s] = utc[s]
      /\ \A s \in Serials : utc_size'[s] = Len(utc'[s])
      /\ \A s \in Serials : Prefix(utc'[s], utc[s])
      /\ closed => \A s \in Serials : utc'[s] = utc[s]
      /\ ~closed => utc_file \in Serials
  BY <1>0, <1>1, <1>5, CloseUtcEffect
<1>7. faults' \in 0 .. MaxFaults
  <2>1. faults' = faults \/ (faults < MaxFaults /\ faults' = faults + 1)
    BY <1>1 DEF SdWorks, SdFails
  <2> QED
    BY <1>0, <2>1, SizesAssumption DEF CardTypes
<1>8. /\ slipped' \subseteq Serials /\ slipped \subseteq slipped'
      /\ \A s \in Serials : s \notin slipped' => utc'[s] = utc[s]
  BY <1>0, <1>1, <1>6 DEF CardTypes
<1> QED
  BY <1>2, <1>3, <1>4, <1>6, <1>7, <1>8

\* The last close of a session, well or not, leaves the directory the whole of both files.
LEMMA WriterCloseEffect ==
    ASSUME IInv, WriterClose
    PROVE  /\ UNCHANGED <<state, log_path, file_mutex, log_queue, records, dir, slipped,
                          producer, control, renamer, crashes, session, owed>>
           /\ wpc = "close" /\ wpc' = "set_idle" /\ state = Stopping
           /\ log_file' = 0 /\ utc_file' = 0 /\ file_mutex = "none"
           /\ bin' \in [Serials -> Seq(Entries)] /\ bin_size' \in [Serials -> Nat]
           /\ utc' \in [Serials -> Seq(Samples)] /\ utc_size' \in [Serials -> Nat]
           /\ \A s \in Serials : s # log_file => bin'[s] = bin[s]
           /\ \A s \in Serials : s # utc_file => utc'[s] = utc[s]
           /\ \A s \in Serials : bin_size'[s] = Len(bin'[s]) /\ utc_size'[s] = Len(utc'[s])
           /\ \A s \in Serials : Prefix(bin'[s], bin[s]) /\ Prefix(utc'[s], utc[s])
           /\ card' \in {"good", "failed"} /\ faults' \in 0 .. MaxFaults
           /\ card' = "good" => card = "good" /\ bin' = bin
<1>0. TypeOK /\ Control /\ Files /\ Durable /\ CardTypes /\ QueueTypes
  BY DEF IInv, TypeOK
<1>1. PICK binOk \in BOOLEAN, utcOk \in BOOLEAN :
        /\ CloseBin(binOk) /\ CloseUtc(utcOk, 0)
        /\ IF binOk /\ utcOk THEN SdWorks ELSE SdFails
        /\ card' = IF binOk THEN card ELSE "failed"
  BY DEF WriterClose
<1>2. /\ UNCHANGED <<state, log_path, file_mutex, log_queue, records, dir, slipped,
                     producer, control, renamer, crashes, session, owed>>
      /\ wpc = "close" /\ wpc' = "set_idle" /\ file_mutex = "none"
      /\ log_file' = 0 /\ utc_file' = 0
  BY DEF WriterClose
<1>3. state = Stopping
  BY <1>0, <1>2 DEF Control
<1>4. 0 \in 0 .. Len(records)
  BY <1>0, LenProperties DEF QueueTypes
<1>5. /\ bin' \in [Serials -> Seq(Entries)] /\ bin_size' \in [Serials -> Nat]
      /\ \A s \in Serials : s # log_file => bin'[s] = bin[s]
      /\ \A s \in Serials : bin_size'[s] = Len(bin'[s])
      /\ \A s \in Serials : Prefix(bin'[s], bin[s])
      /\ binOk => bin' = bin
  BY <1>0, <1>1, CloseBinEffect
<1>6. /\ utc' \in [Serials -> Seq(Samples)] /\ utc_size' \in [Serials -> Nat]
      /\ \A s \in Serials : s # utc_file => utc'[s] = utc[s]
      /\ \A s \in Serials : utc_size'[s] = Len(utc'[s])
      /\ \A s \in Serials : Prefix(utc'[s], utc[s])
  BY <1>0, <1>1, <1>4, CloseUtcEffect
<1>7. card' \in {"good", "failed"} /\ (card' = "good" => card = "good" /\ binOk)
  BY <1>0, <1>1 DEF CardTypes
<1>8. faults' \in 0 .. MaxFaults
  <2>1. faults' = faults \/ (faults < MaxFaults /\ faults' = faults + 1)
    BY <1>1 DEF SdWorks, SdFails
  <2> QED
    BY <1>0, <2>1, SizesAssumption DEF CardTypes
<1> QED
  BY <1>2, <1>3, <1>5, <1>6, <1>7, <1>8

\* A power loss cuts each file back to its size in the directory, which for a recording
\* that is not active is the whole of it.
LEMMA PowerLossEffect ==
    ASSUME IInv, PowerLoss
    PROVE  /\ bin' \in [Serials -> Seq(Entries)] /\ bin_size' = bin_size
           /\ utc' \in [Serials -> Seq(Samples)] /\ utc_size' = utc_size
           /\ \A s \in Serials : bin_size'[s] = Len(bin'[s]) /\ utc_size'[s] = Len(utc'[s])
           /\ \A s \in Serials : Prefix(bin'[s], bin[s]) /\ Prefix(utc'[s], utc[s])
           /\ \A s \in Serials : s # session \/ state = Idle => bin'[s] = bin[s] /\ utc'[s] = utc[s]
<1>0. Durable /\ ContentTypes
  BY DEF IInv, TypeOK
<1>1. /\ bin' = [s \in Serials |-> SubSeq(bin[s], 1, bin_size[s])]
      /\ utc' = [s \in Serials |-> SubSeq(utc[s], 1, utc_size[s])]
      /\ bin_size' = bin_size /\ utc_size' = utc_size
  BY DEF PowerLoss
<1>2. ASSUME NEW s \in Serials
      PROVE  /\ bin'[s] \in Seq(Entries) /\ utc'[s] \in Seq(Samples)
             /\ bin_size[s] = Len(bin'[s]) /\ utc_size[s] = Len(utc'[s])
             /\ Prefix(bin'[s], bin[s]) /\ Prefix(utc'[s], utc[s])
             /\ s # session \/ state = Idle => bin'[s] = bin[s] /\ utc'[s] = utc[s]
  <2>1. /\ bin[s] \in Seq(Entries) /\ utc[s] \in Seq(Samples)
        /\ bin_size[s] \in Nat /\ utc_size[s] \in Nat
        /\ Len(bin[s]) \in Nat /\ Len(utc[s]) \in Nat
    BY <1>0, LenProperties DEF ContentTypes
  <2>2. bin_size[s] \in 0 .. Len(bin[s]) /\ utc_size[s] \in 0 .. Len(utc[s])
    BY <1>0, <2>1 DEF Durable
  <2>3. bin'[s] = SubSeq(bin[s], 1, bin_size[s]) /\ utc'[s] = SubSeq(utc[s], 1, utc_size[s])
    BY <1>1
  <2>4. /\ bin'[s] \in Seq(Entries) /\ Len(bin'[s]) = bin_size[s]
        /\ \A i \in 1 .. bin_size[s] : bin'[s][i] = bin[s][i]
    BY <2>1, <2>2, <2>3, PrefixProperties
  <2>5. /\ utc'[s] \in Seq(Samples) /\ Len(utc'[s]) = utc_size[s]
        /\ \A i \in 1 .. utc_size[s] : utc'[s][i] = utc[s][i]
    BY <2>1, <2>2, <2>3, PrefixProperties
  <2>6. Prefix(bin'[s], bin[s]) /\ Prefix(utc'[s], utc[s])
    BY <2>2, <2>4, <2>5 DEF Prefix
  <2>7. SubSeq(bin[s], 1, Len(bin[s])) = bin[s] /\ SubSeq(utc[s], 1, Len(utc[s])) = utc[s]
    BY <2>1, SubSeqFull
  <2>8. s # session \/ state = Idle => bin_size[s] = Len(bin[s]) /\ utc_size[s] = Len(utc[s])
    BY SettledSizes
  <2> QED
    BY <2>3, <2>4, <2>5, <2>6, <2>7, <2>8
<1>3. bin' \in [Serials -> Seq(Entries)] /\ utc' \in [Serials -> Seq(Samples)]
  <2>1. DOMAIN bin' = Serials /\ DOMAIN utc' = Serials
    BY <1>1
  <2> QED
    BY <1>1, <1>2, <2>1
<1> QED
  BY <1>1, <1>2, <1>3

\* No step takes a producer, the drop counter or a held sample out of its type.
LEMMA ProducerTypesStep ==
    ASSUME IInv, Next
    PROVE  ProducerTypes'
<1>0. ProducerTypes /\ Control /\ CardTypes
  BY DEF IInv, TypeOK
<1> USE SizesAssumption
<1>1. ASSUME NEW p \in Producers, EnqueueCheck(p) PROVE ProducerTypes'
  <2>1. samples + 1 \in Samples
    BY <1>0, <1>1 DEF ProducerTypes, EnqueueCheck, Samples
  <2> QED
    BY <1>0, <1>1, <2>1 DEF ProducerTypes, EnqueueCheck
<1>2. ASSUME NEW p \in Producers, EnqueueSend(p) \/ EnqueueRefused(p) \/ EnqueueCount(p)
      PROVE  ProducerTypes'
  <2>1. CASE EnqueueSend(p)
    BY <1>0, <2>1 DEF ProducerTypes, EnqueueSend
  <2>2. CASE EnqueueRefused(p)
    BY <1>0, <2>2 DEF ProducerTypes, EnqueueRefused
  <2>3. CASE EnqueueCount(p)
    BY <1>0, <2>3 DEF ProducerTypes, EnqueueCount
  <2> QED
    BY <1>2, <2>1, <2>2, <2>3
<1>3. CASE PowerLoss
  BY <1>0, <1>3 DEF ProducerTypes, PowerLoss
<1>4. CASE data_logger_start \/ data_logger_stop \/ data_logger_rename
  <2>1. UNCHANGED producer
    BY <1>4 DEF data_logger_start, StartCheck, StartBin, StartRun, StartUndo,
                data_logger_stop, data_logger_rename, RenameBin, RenameUtc
  <2> QED
    BY <1>0, <2>1 DEF ProducerTypes
<1>5. CASE writer_task
  <2>1. UNCHANGED producer
    BY <1>5 DEF writer_task, WriterReceive, WriterBlock, WriterTimer,
       WriterCheckpointWrite, CheckpointBin, CheckpointUtc, WriterStop, WriterDrain,
       WriterClose, WriterSetIdle, write_records
  <2> QED
    BY <1>0, <2>1 DEF ProducerTypes
<1> QED
  BY <1>1, <1>2, <1>3, <1>4, <1>5 DEF Next, data_logger_enqueue

\* No step takes the session state, a handle or a task's position out of its type.
LEMMA TaskTypesStep ==
    ASSUME IInv, Next
    PROVE  TaskTypes'
<1>0. TaskTypes /\ Control /\ CardTypes /\ TypeOK /\ Durable /\ SpelledAlike
  BY DEF IInv, TypeOK
<1> USE SizesAssumption
<1>1. ASSUME NEW p \in Producers, data_logger_enqueue(p) PROVE TaskTypes'
  BY <1>0, <1>1 DEF TaskTypes, data_logger_enqueue, EnqueueCheck, EnqueueSend,
                    EnqueueRefused, EnqueueCount
<1>2. ASSUME NEW n \in Names, StartCheck(n) PROVE TaskTypes'
  BY <1>0, <1>2 DEF TaskTypes, StartCheck
<1>3. CASE StartBin
  BY <1>0, <1>3 DEF TaskTypes, CardTypes, StartBin
<1>4. CASE StartRun \/ StartUndo
  BY <1>0, <1>4 DEF TaskTypes, StartRun, StartUndo
<1>5. CASE data_logger_stop
  BY <1>0, <1>5 DEF TaskTypes, data_logger_stop
<1>6. ASSUME NEW old \in Names, NEW new \in Names, RenameBin(old, new, TRUE)
      PROVE  TaskTypes'
  BY <1>0, <1>6 DEF TaskTypes, RenameBin, FollowRename
<1>7. CASE RenameUtc
  BY <1>0, <1>7 DEF TaskTypes, RenameUtc, FollowRename
<1>8. CASE WriterReceive \/ WriterTimer \/ WriterStop \/ WriterSetIdle
  BY <1>0, <1>8 DEF TaskTypes, WriterSteps, WriterReceive, WriterTimer, WriterStop,
                    WriterSetIdle
<1>9. CASE WriterBlock \/ WriterCheckpointWrite \/ WriterDrain
  <2>1. PICK full \in BOOLEAN : write_records(full)
    BY <1>9 DEF WriterBlock, WriterCheckpointWrite, WriterDrain
  <2>2. utc_file' \in {0, utc_file}
    BY <1>0, <2>1, WriteEffect
  <2>3. UNCHANGED <<state, log_path, log_file, file_mutex, control, renamer>>
    BY <2>1 DEF write_records
  <2>4. wpc' \in WriterSteps
    BY <1>9 DEF WriterSteps, WriterBlock, WriterCheckpointWrite, WriterDrain
  <2> QED
    BY <1>0, <2>2, <2>3, <2>4 DEF TaskTypes
<1>10. CASE CheckpointBin \/ CheckpointUtc \/ WriterClose
  <2>1. session \in Handles /\ 0 \in Handles
    BY <1>0 DEF CardTypes
  <2>2. CASE CheckpointBin
    BY <1>0, <2>1, <2>2, CheckpointBinEffect DEF TaskTypes, WriterSteps
  <2>3. CASE CheckpointUtc
    BY <1>0, <2>1, <2>3, CheckpointUtcEffect DEF TaskTypes, WriterSteps
  <2>4. CASE WriterClose
    BY <1>0, <2>1, <2>4, WriterCloseEffect DEF TaskTypes, WriterSteps
  <2> QED
    BY <1>10, <2>2, <2>3, <2>4
<1>11. CASE PowerLoss
  BY <1>0, <1>11 DEF TaskTypes, WriterSteps, PowerLoss
<1>r. CASE data_logger_rename
  BY <1>0, <1>6, <1>7, <1>r, RenamesAlike
<1> QED
  BY <1>1, <1>2, <1>3, <1>4, <1>5, <1>6, <1>7, <1>8, <1>9, <1>10, <1>11,
     <1>r DEF Next, data_logger_start, writer_task

\* No step overfills the queue or the writer's block buffer.
LEMMA QueueTypesStep ==
    ASSUME IInv, Next
    PROVE  QueueTypes'
<1>0. QueueTypes /\ Control /\ Buffer
  BY DEF IInv, TypeOK
<1> USE SizesAssumption
<1>1. ASSUME NEW p \in Producers, EnqueueSend(p) PROVE QueueTypes'
  BY <1>0, <1>1, AppendProperties DEF QueueTypes, Control, EnqueueSend
<1>2. ASSUME NEW p \in Producers, EnqueueCheck(p) \/ EnqueueRefused(p) \/ EnqueueCount(p)
      PROVE  QueueTypes'
  BY <1>0, <1>2 DEF QueueTypes, EnqueueCheck, EnqueueRefused, EnqueueCount
<1>3. CASE StartRun
  BY <1>0, <1>3, EmptySeq DEF QueueTypes, StartRun
<1>4. CASE (\E n \in Names : StartCheck(n)) \/ StartBin \/ StartUndo
           \/ data_logger_stop \/ data_logger_rename
  BY <1>0, <1>4 DEF QueueTypes, StartCheck, StartBin, StartUndo, data_logger_stop,
                    data_logger_rename, RenameBin, RenameUtc
<1>5. CASE WriterReceive
  <2>1. CASE log_queue = <<>>
    BY <1>0, <1>5, <2>1 DEF QueueTypes, WriterReceive
  <2>2. CASE log_queue # <<>>
    <3>1. /\ Head(log_queue) \in Samples /\ Tail(log_queue) \in Seq(Samples)
          /\ Len(Tail(log_queue)) = Len(log_queue) - 1
      BY <1>0, <2>2, HeadTailProperties DEF QueueTypes
    <3>2. /\ Append(records, Head(log_queue)) \in Seq(Samples)
          /\ Len(Append(records, Head(log_queue))) = Len(records) + 1
      BY <1>0, <3>1, AppendProperties DEF QueueTypes
    <3>3. Len(records) \in Nat /\ Len(log_queue) \in Nat /\ Len(records) < BlockSize
      BY <1>0, <1>5, LenProperties DEF QueueTypes, Buffer, WriterReceive
    <3>4. /\ records' = Append(records, Head(log_queue))
          /\ log_queue' = Tail(log_queue) /\ owed' = owed
      BY <1>5, <2>2 DEF WriterReceive
    <3>5. records' \in Seq(Samples) /\ Len(records') =< BlockSize
      BY <3>2, <3>3, <3>4
    <3>6. log_queue' \in Seq(Samples) /\ Len(log_queue') =< QueueLength
      BY <1>0, <3>1, <3>3, <3>4 DEF QueueTypes
    <3> QED
      BY <1>0, <3>4, <3>5, <3>6 DEF QueueTypes
  <2> QED
    BY <2>1, <2>2
<1>6. CASE WriterBlock \/ WriterCheckpointWrite \/ WriterDrain
  <2>1. /\ UNCHANGED <<log_queue, owed>>
        /\ records' = <<>> \/ records' = records
    BY <1>6 DEF WriterBlock, WriterCheckpointWrite, WriterDrain, write_records
  <2>2. <<>> \in Seq(Samples) /\ Len(<<>>) =< BlockSize
    BY EmptySeq
  <2> QED
    BY <1>0, <2>1, <2>2 DEF QueueTypes
<1>7. CASE WriterTimer \/ CheckpointBin \/ CheckpointUtc \/ WriterStop \/ WriterClose
           \/ WriterSetIdle
  BY <1>0, <1>7 DEF QueueTypes, WriterTimer, CheckpointBin, CheckpointUtc, WriterStop,
                    WriterClose, WriterSetIdle
<1>8. CASE PowerLoss
  BY <1>0, <1>8, EmptySeq DEF QueueTypes, PowerLoss
<1> QED
  BY <1>1, <1>2, <1>3, <1>4, <1>5, <1>6, <1>7, <1>8
     DEF Next, data_logger_enqueue, data_logger_start, writer_task

\* No step takes the directory, the bounds or the histories out of their types.
LEMMA CardTypesStep ==
    ASSUME IInv, Next
    PROVE  CardTypes'
<1>0. CardTypes /\ Control /\ TaskTypes /\ TypeOK /\ Durable /\ SpelledAlike
  BY DEF IInv, TypeOK
<1> USE SizesAssumption DEF SdWorks, SdFails
<1>1. ASSUME NEW p \in Producers, data_logger_enqueue(p) PROVE CardTypes'
  BY <1>0, <1>1 DEF CardTypes, data_logger_enqueue, EnqueueCheck, EnqueueSend,
                    EnqueueRefused, EnqueueCount
<1>2. CASE (\E n \in Names : StartCheck(n)) \/ data_logger_stop
  BY <1>0, <1>2 DEF CardTypes, StartCheck, data_logger_stop
<1>3. CASE StartBin
  BY <1>0, <1>3 DEF CardTypes, StartBin
<1>4. CASE StartRun
  BY <1>0, <1>4 DEF CardTypes, TaskTypes, StartRun
<1>5. CASE StartUndo
  BY <1>0, <1>5 DEF CardTypes, TaskTypes, StartUndo
<1>6. ASSUME NEW old \in Names, NEW new \in Names, RenameBin(old, new, TRUE)
      PROVE  CardTypes'
  BY <1>0, <1>6 DEF CardTypes, RenameBin
<1>7. CASE RenameUtc
  <2>1. rold \in Names /\ rnew \in Names
    BY <1>0, <1>7 DEF Control, RenameUtc
  <2>2. /\ binDir' = binDir \/ binDir' = [binDir EXCEPT ![rold] = binDir[rnew], ![rnew] = 0]
        /\ utcDir' = utcDir \/ utcDir' = [utcDir EXCEPT ![rnew] = utcDir[rold], ![rold] = 0]
        /\ faults' = faults \/ (faults < MaxFaults /\ faults' = faults + 1)
        /\ UNCHANGED <<created, crashes, session, card, slipped>>
    BY <1>7 DEF RenameUtc
  <2>3. binDir' \in [Names -> Handles] /\ utcDir' \in [Names -> Handles]
    BY <1>0, <2>1, <2>2 DEF CardTypes
  <2> QED
    BY <1>0, <2>2, <2>3 DEF CardTypes
<1>8. CASE WriterReceive \/ WriterTimer \/ WriterStop \/ WriterSetIdle
  BY <1>0, <1>8 DEF CardTypes, WriterReceive, WriterTimer, WriterStop, WriterSetIdle
<1>9. CASE WriterBlock \/ WriterCheckpointWrite \/ WriterDrain
  <2>1. PICK full \in BOOLEAN : write_records(full)
    BY <1>9 DEF WriterBlock, WriterCheckpointWrite, WriterDrain
  <2>2. /\ card' \in {"good", "failed"} /\ faults' \in 0 .. MaxFaults
        /\ slipped' \subseteq Serials
    BY <1>0, <2>1, WriteEffect
  <2>3. UNCHANGED <<dir, session, crashes>>
    BY <2>1 DEF write_records
  <2> QED
    BY <1>0, <2>2, <2>3 DEF CardTypes
<1>10. CASE CheckpointBin \/ CheckpointUtc \/ WriterClose
  <2>1. CASE CheckpointBin
    BY <1>0, <2>1, CheckpointBinEffect DEF CardTypes
  <2>2. CASE CheckpointUtc
    BY <1>0, <2>2, CheckpointUtcEffect DEF CardTypes
  <2>3. CASE WriterClose
    BY <1>0, <2>3, WriterCloseEffect DEF CardTypes
  <2> QED
    BY <1>10, <2>1, <2>2, <2>3
<1>11. CASE PowerLoss
  BY <1>0, <1>11 DEF CardTypes, PowerLoss
<1>r. CASE data_logger_rename
  BY <1>0, <1>6, <1>7, <1>r, RenamesAlike
<1> QED
  BY <1>1, <1>2, <1>3, <1>4, <1>5, <1>6, <1>7, <1>8, <1>9, <1>10, <1>11,
     <1>r DEF Next, data_logger_start, writer_task

\* No step takes the contents of the files out of their type.
LEMMA ContentTypesStep ==
    ASSUME IInv, Next
    PROVE  ContentTypes'
<1>0. ContentTypes /\ Control /\ TaskTypes /\ Files /\ Durable /\ TypeOK /\ CardTypes
  BY DEF IInv, TypeOK
<1>1. ASSUME NEW p \in Producers, data_logger_enqueue(p) PROVE ContentTypes'
  BY <1>0, <1>1 DEF ContentTypes, data_logger_enqueue, EnqueueCheck, EnqueueSend,
                    EnqueueRefused, EnqueueCount
<1>2. CASE data_logger_start \/ data_logger_stop \/ data_logger_rename
  BY <1>0, <1>2 DEF ContentTypes, data_logger_start, StartCheck, StartBin, StartRun,
     StartUndo, data_logger_stop, data_logger_rename, RenameBin, RenameUtc
<1>3. CASE WriterReceive \/ WriterTimer \/ WriterStop \/ WriterSetIdle
  BY <1>0, <1>3 DEF ContentTypes, WriterReceive, WriterTimer, WriterStop, WriterSetIdle
<1>4. CASE WriterBlock \/ WriterCheckpointWrite \/ WriterDrain
  <2>1. PICK full \in BOOLEAN : write_records(full)
    BY <1>4 DEF WriterBlock, WriterCheckpointWrite, WriterDrain
  <2> QED
    BY <1>0, <2>1, WriteEffect DEF ContentTypes
<1>5. CASE CheckpointBin \/ CheckpointUtc \/ WriterClose
  <2>1. CASE CheckpointBin
    BY <1>0, <2>1, CheckpointBinEffect DEF ContentTypes
  <2>2. CASE CheckpointUtc
    BY <1>0, <2>2, CheckpointUtcEffect DEF ContentTypes
  <2>3. CASE WriterClose
    BY <1>0, <2>3, WriterCloseEffect DEF ContentTypes
  <2> QED
    BY <1>5, <2>1, <2>2, <2>3
<1>6. CASE PowerLoss
  BY <1>0, <1>6, PowerLossEffect DEF ContentTypes
<1> QED
  BY <1>1, <1>2, <1>3, <1>4, <1>5, <1>6 DEF Next, writer_task

\* Every step keeps file_mutex, the tasks' positions and the session state consistent.
LEMMA ControlStep ==
    ASSUME IInv, Next
    PROVE  Control'
<1>0. Control /\ TaskTypes /\ CardTypes /\ Files /\ ProducerTypes /\ SpelledAlike
  BY DEF IInv, TypeOK
<1> USE SizesAssumption, NamesAssumption
<1>1. ASSUME NEW p \in Producers, EnqueueCheck(p) PROVE Control'
  <2>1. samples + 1 \in Samples
    BY <1>0, <1>1 DEF ProducerTypes, EnqueueCheck, Samples
  <2> QED
    BY <1>0, <1>1, <2>1 DEF Control, ProducerTypes, EnqueueCheck
<1>2. ASSUME NEW p \in Producers, EnqueueSend(p) PROVE Control'
  BY <1>0, <1>2 DEF Control, ProducerTypes, EnqueueSend
<1>3. ASSUME NEW p \in Producers, EnqueueRefused(p) PROVE Control'
  BY <1>0, <1>3 DEF Control, ProducerTypes, EnqueueRefused
<1>4. ASSUME NEW p \in Producers, EnqueueCount(p) PROVE Control'
  BY <1>0, <1>4 DEF Control, ProducerTypes, EnqueueCount
<1>5. ASSUME NEW n \in Names, StartCheck(n) PROVE Control'
  BY <1>0, <1>5 DEF Control, StartCheck
<1>6. CASE StartBin
  BY <1>0, <1>6 DEF Control, StartBin
<1>7. CASE StartRun
  BY <1>0, <1>7 DEF Control, TaskTypes, CardTypes, Files, StartRun
<1>8. CASE StartUndo
  BY <1>0, <1>8 DEF Control, StartUndo
<1>9. CASE data_logger_stop
  BY <1>0, <1>9 DEF Control, data_logger_stop
<1>10. ASSUME NEW old \in Names, NEW new \in Names, RenameBin(old, new, TRUE)
       PROVE  Control'
  BY <1>0, <1>10 DEF Control, TaskTypes, RenameBin, FollowRename, MayRename
<1>11. CASE RenameUtc
  BY <1>0, <1>11 DEF Control, TaskTypes, RenameUtc, FollowRename
<1>12. CASE WriterReceive \/ WriterTimer
  BY <1>0, <1>12 DEF Control, WriterReceive, WriterTimer
<1>13. CASE WriterStop
  BY <1>0, <1>13 DEF Control, WriterStop, StopDrained
<1>14. CASE WriterBlock \/ WriterCheckpointWrite \/ WriterDrain
  <2>1. /\ UNCHANGED <<state, log_path, log_file, file_mutex, control, renamer, session,
                       producer>>
        /\ file_mutex = "none"
    BY <1>14 DEF WriterBlock, WriterCheckpointWrite, WriterDrain, write_records
  <2>2. \/ wpc = "block" /\ wpc' = "timer"
        \/ wpc = "ckpt_write" /\ wpc' \in {"ckpt_bin", "stop"}
        \/ wpc = "drain" /\ wpc' = "close"
    BY <1>14 DEF WriterBlock, WriterCheckpointWrite, WriterDrain
  <2> QED
    BY <1>0, <2>1, <2>2 DEF Control
<1>15. CASE CheckpointBin \/ CheckpointUtc
  <2>1. CASE CheckpointBin
    BY <1>0, <2>1, CheckpointBinEffect DEF Control
  <2>2. CASE CheckpointUtc
    BY <1>0, <2>2, CheckpointUtcEffect DEF Control
  <2> QED
    BY <1>15, <2>1, <2>2
<1>16. CASE WriterClose \/ WriterSetIdle
  BY <1>0, <1>16 DEF Control, WriterClose, WriterSetIdle
<1>17. CASE PowerLoss
  BY <1>0, <1>17 DEF Control, PowerLoss
<1>r. CASE data_logger_rename
  BY <1>0, <1>10, <1>11, <1>r, RenamesAlike
<1> QED
  BY <1>1, <1>2, <1>3, <1>4, <1>5, <1>6, <1>7, <1>8, <1>9, <1>10, <1>11, <1>12, <1>13,
     <1>14, <1>15, <1>16, <1>17, <1>r
     DEF Next, data_logger_enqueue, data_logger_start, writer_task

\* Every step keeps the block buffer below a full block, except just before it is written.
LEMMA BufferStep ==
    ASSUME IInv, Next
    PROVE  Buffer'
<1>0. Buffer /\ QueueTypes /\ TaskTypes
  BY DEF IInv, TypeOK
<1> USE SizesAssumption
<1>1. ASSUME NEW p \in Producers, data_logger_enqueue(p) PROVE Buffer'
  BY <1>0, <1>1 DEF Buffer, data_logger_enqueue, EnqueueCheck, EnqueueSend,
                    EnqueueRefused, EnqueueCount
<1>2. CASE data_logger_start \/ data_logger_stop \/ data_logger_rename
  BY <1>0, <1>2 DEF Buffer, data_logger_start, StartCheck, StartBin, StartRun,
     StartUndo, data_logger_stop, data_logger_rename, RenameBin, RenameUtc
<1>3. CASE WriterReceive
  <2>1. CASE log_queue = <<>>
    BY <1>0, <1>3, <2>1 DEF Buffer, WriterReceive
  <2>2. CASE log_queue # <<>>
    <3>1. Head(log_queue) \in Samples
      BY <1>0, <2>2, HeadTailProperties DEF QueueTypes
    <3>2. Len(Append(records, Head(log_queue))) = Len(records) + 1 /\ Len(records) \in Nat
      BY <1>0, <3>1, AppendProperties, LenProperties DEF QueueTypes
    <3> QED
      BY <1>0, <1>3, <2>2, <3>2 DEF Buffer, WriterReceive, BlockFull
  <2> QED
    BY <2>1, <2>2
<1>4. CASE WriterBlock \/ WriterCheckpointWrite \/ WriterDrain
  <2>1. \/ records' = <<>>
        \/ wpc = "ckpt_write" /\ wpc' = "stop" /\ records' = records
    BY <1>4 DEF WriterBlock, WriterCheckpointWrite, WriterDrain
  <2>2. Len(<<>>) < BlockSize
    BY EmptySeq
  <2> QED
    BY <1>0, <2>1, <2>2 DEF Buffer
<1>5. CASE WriterTimer \/ CheckpointBin \/ CheckpointUtc \/ WriterClose \/ WriterSetIdle
  BY <1>0, <1>5 DEF Buffer, WriterTimer, CheckpointBin, CheckpointUtc, WriterClose, WriterSetIdle
<1>6. CASE WriterStop
  BY <1>0, <1>6 DEF Buffer, WriterStop
<1>7. CASE PowerLoss
  BY <1>0, <1>7, EmptySeq DEF Buffer, PowerLoss
<1> QED
  BY <1>1, <1>2, <1>3, <1>4, <1>5, <1>6, <1>7 DEF Next, writer_task

\* Every step keeps the handles and the names of the active session on its own files.
LEMMA FilesStep ==
    ASSUME IInv, Next
    PROVE  Files'
<1>0. /\ Files /\ Control /\ TaskTypes /\ CardTypes /\ ContentTypes /\ TypeOK
      /\ Durable /\ SpelledAlike
  BY DEF IInv, TypeOK
<1> USE SizesAssumption, NamesAssumption DEF ActiveFilesStayPut
<1>1. ASSUME NEW p \in Producers, data_logger_enqueue(p) PROVE Files'
  <2>1. UNCHANGED <<state, log_path, handles, wpc, control, dir, content, session>>
    BY <1>1 DEF data_logger_enqueue, EnqueueCheck, EnqueueSend, EnqueueRefused, EnqueueCount
  <2> QED
    BY <1>0, <2>1 DEF Files
<1>2. ASSUME NEW n \in Names, StartCheck(n) PROVE Files'
  BY <1>0, <1>2 DEF Files, StartCheck
<1>3. CASE StartBin
  <2>1. /\ state = Idle /\ cname \in Names /\ log_file = 0 /\ wpc # "set_idle"
        /\ created \in Nat /\ session \in Nat
    BY <1>0, <1>3 DEF Files, Control, CardTypes, StartBin
  <2>2. UNCHANGED <<state, utc_file, wpc, bin, utc, session>>
    BY <1>3 DEF StartBin
  <2>3. \/ /\ created' = created + 1 /\ log_file' = created + 1 /\ UNCHANGED cname
           /\ binDir' = [binDir EXCEPT ![cname] = created + 1]
        \/ created' \in {created, created + 1} /\ log_file' = log_file /\ cpc' = "ready"
    BY <1>3 DEF StartBin
  <2>4. created' >= session
    BY <1>0, <2>1, <2>3 DEF Files
  <2>5. cpc' = "utc" => log_file' = created' /\ session < created' /\ binDir'[cname'] = created'
    BY <1>0, <2>1, <2>3 DEF Files, CardTypes
  <2>6. cpc' # "utc" => log_file' = 0
    BY <1>3, <2>1 DEF StartBin
  <2> QED
    BY <1>0, <2>1, <2>2, <2>4, <2>5, <2>6 DEF Files, CardTypes
<1>4. CASE StartRun
  BY <1>0, <1>4 DEF Files, Control, CardTypes, TaskTypes, StartRun
<1>5. CASE StartUndo
  BY <1>0, <1>5 DEF Files, Control, CardTypes, StartUndo
<1>6. CASE data_logger_stop
  BY <1>0, <1>6 DEF Files, Control, data_logger_stop
<1>7. ASSUME NEW old \in Names, NEW new \in Names, RenameBin(old, new, TRUE)
      PROVE  Files'
  BY <1>0, <1>7 DEF Files, Control, CardTypes, RenameBin, FollowRename, MayRename
<1>8. CASE RenameUtc
  BY <1>0, <1>8 DEF Files, Control, CardTypes, RenameUtc, FollowRename
<1>9. CASE WriterReceive \/ WriterTimer \/ WriterStop
  BY <1>0, <1>9 DEF Files, Control, WriterReceive, WriterTimer, WriterStop
<1>10. CASE WriterBlock \/ WriterCheckpointWrite \/ WriterDrain
  <2>1. PICK full \in BOOLEAN : write_records(full)
    BY <1>10 DEF WriterBlock, WriterCheckpointWrite, WriterDrain
  <2>2. /\ UNCHANGED <<state, log_path, log_file, control, dir, session>>
        /\ file_mutex = "none"
    BY <2>1 DEF write_records
  <2>3. wpc' # "set_idle"
    BY <1>10 DEF WriterBlock, WriterCheckpointWrite, WriterDrain
  <2>4. log_file \in {0, session} /\ utc_file \in {0, session}
    BY <1>0, <2>2 DEF Files, Control
  <2>5. /\ utc_file' \in {0, utc_file}
        /\ \A s \in Serials : s # log_file => bin'[s] = bin[s]
        /\ \A s \in Serials : s # utc_file => utc'[s] = utc[s]
    BY <1>0, <2>1, WriteEffect
  <2>6. \A s \in Serials : s > session' => bin'[s] = <<>> /\ utc'[s] = <<>>
    BY <1>0, <2>2, <2>4, <2>5 DEF Files, CardTypes
  <2> QED
    BY <1>0, <2>2, <2>3, <2>4, <2>5, <2>6 DEF Files
<1>11. CASE CheckpointBin \/ CheckpointUtc
  <2>1. /\ UNCHANGED <<state, log_path, control, dir, session>> /\ state # Idle /\ cpc # "utc"
        /\ wpc' # "set_idle"
        /\ log_file' \in {0, session} /\ utc_file' \in {0, session}
    <3>1. CASE CheckpointBin
      BY <1>0, <3>1, CheckpointBinEffect DEF Files, Control
    <3>2. CASE CheckpointUtc
      BY <1>0, <3>2, CheckpointUtcEffect DEF Files, Control
    <3> QED
      BY <1>11, <3>1, <3>2
  <2>2. \A s \in Serials : s > session => bin'[s] = bin[s] /\ utc'[s] = utc[s]
    <3>1. \A s \in Serials : s > session => s # log_file /\ s # utc_file
      BY <1>0, <2>1 DEF Files, CardTypes
    <3>2. CASE CheckpointBin
      BY <3>1, <3>2, CheckpointBinEffect
    <3>3. CASE CheckpointUtc
      BY <3>1, <3>3, CheckpointUtcEffect
    <3> QED
      BY <1>11, <3>2, <3>3
  <2> QED
    BY <1>0, <2>1, <2>2 DEF Files
<1>12. CASE WriterClose
  <2>1. /\ UNCHANGED <<state, log_path, control, dir, session>> /\ state = Stopping
        /\ log_file' = 0 /\ utc_file' = 0
        /\ \A s \in Serials : s # log_file => bin'[s] = bin[s]
        /\ \A s \in Serials : s # utc_file => utc'[s] = utc[s]
    BY <1>12, WriterCloseEffect
  <2>2. \A s \in Serials : s > session => s # log_file /\ s # utc_file
    BY <1>0, <2>1 DEF Files, CardTypes
  <2>3. cpc # "utc"
    BY <1>0, <2>1 DEF Control
  <2> QED
    BY <1>0, <2>1, <2>2, <2>3 DEF Files
<1>14. CASE WriterSetIdle
  BY <1>0, <1>14 DEF Files, Control, WriterSetIdle
<1>13. CASE PowerLoss
  <2>1. \A s \in Serials : s > session => bin'[s] = bin[s] /\ utc'[s] = utc[s]
    <3>1. \A s \in Serials : s > session => s # session
      BY <1>0 DEF CardTypes
    <3> QED
      BY <1>13, <3>1, PowerLossEffect
  <2> QED
    BY <1>0, <1>13, <2>1 DEF Files, CardTypes, PowerLoss
<1>r. CASE data_logger_rename
  BY <1>0, <1>7, <1>8, <1>r, RenamesAlike
<1> QED
  BY <1>1, <1>2, <1>3, <1>4, <1>5, <1>6, <1>9, <1>10, <1>11, <1>12, <1>13, <1>14, <1>r
     DEF Next, data_logger_start, writer_task

\* Every step keeps what the card would retain in step with the open handles.
LEMMA DurableStep ==
    ASSUME IInv, Next
    PROVE  Durable'
<1>0. Durable /\ Files /\ Control /\ TaskTypes /\ CardTypes /\ ContentTypes /\ TypeOK
  BY DEF IInv, TypeOK
<1>a. \A s \in Serials : /\ bin[s] \in Seq(Entries) /\ Len(bin[s]) \in Nat
                         /\ utc[s] \in Seq(Samples) /\ Len(utc[s]) \in Nat
                         /\ bin_size[s] \in Nat /\ utc_size[s] \in Nat
  BY <1>0, LenProperties DEF ContentTypes
<1> USE SizesAssumption
<1>1. CASE \/ \E p \in Producers : data_logger_enqueue(p)
           \/ (\E n \in Names : StartCheck(n))
           \/ data_logger_stop \/ data_logger_rename
           \/ WriterReceive \/ WriterTimer \/ WriterStop \/ WriterSetIdle
  <2>1. UNCHANGED <<log_file, utc_file, content>>
    BY <1>1 DEF data_logger_enqueue, EnqueueCheck, EnqueueSend, EnqueueRefused, EnqueueCount,
                StartCheck, data_logger_stop, data_logger_rename, RenameBin, RenameUtc,
                WriterReceive, WriterTimer, WriterStop, WriterSetIdle
  <2> QED
    BY <1>0, <2>1 DEF Durable
<1>2. CASE StartBin
  <2>1. UNCHANGED <<utc_file, content>> /\ log_file = 0 /\ state = Idle
    BY <1>0, <1>2 DEF Control, Files, StartBin
  <2>2. \A s \in Serials : bin_size[s] = Len(bin[s]) /\ utc_size[s] = Len(utc[s])
    BY <2>1, SettledSizes
  <2> QED
    BY <1>a, <2>1, <2>2 DEF Durable
<1>3. CASE StartRun \/ StartUndo
  <2>1. UNCHANGED content /\ state = Idle
    BY <1>0, <1>3 DEF Control, StartRun, StartUndo
  <2>2. \A s \in Serials : bin_size[s] = Len(bin[s]) /\ utc_size[s] = Len(utc[s])
    BY <2>1, SettledSizes
  <2> QED
    BY <1>a, <2>1, <2>2 DEF Durable
<1>4. CASE WriterBlock \/ WriterCheckpointWrite \/ WriterDrain
  <2>1. PICK full \in BOOLEAN : write_records(full)
    BY <1>4 DEF WriterBlock, WriterCheckpointWrite, WriterDrain
  <2>2. log_file' = log_file
    BY <2>1 DEF write_records
  <2>3. /\ utc_file' \in {0, utc_file} /\ bin_size' = bin_size
        /\ bin' \in [Serials -> Seq(Entries)]
        /\ \A s \in Serials : s # log_file => bin'[s] = bin[s]
        /\ \A s \in Serials : s # utc_file => utc'[s] = utc[s] /\ utc_size'[s] = utc_size[s]
        /\ \A s \in Serials : Len(bin[s]) =< Len(bin'[s])
        /\ \A s \in Serials : utc_size'[s] =< Len(utc'[s])
        /\ \A s \in Serials : utc_file' = 0 => utc_size'[s] = Len(utc'[s])
    BY <1>0, <2>1, WriteEffect
  <2>4. ASSUME NEW s \in Serials
        PROVE  /\ bin_size'[s] =< Len(bin'[s]) /\ utc_size'[s] =< Len(utc'[s])
               /\ s # log_file' => bin_size'[s] = Len(bin'[s])
               /\ s # utc_file' => utc_size'[s] = Len(utc'[s])
    <3>1. bin_size'[s] =< Len(bin'[s])
      <4>1. /\ bin_size[s] =< Len(bin[s]) /\ Len(bin[s]) =< Len(bin'[s])
            /\ bin_size[s] \in Nat /\ Len(bin[s]) \in Nat /\ Len(bin'[s]) \in Nat
        BY <1>0, <1>a, <2>3, LenProperties DEF Durable
      <4> QED
        BY <2>3, <4>1
    <3>2. s # log_file' => bin_size'[s] = Len(bin'[s])
      BY <1>0, <2>2, <2>3 DEF Durable
    <3>3. s # utc_file' => utc_size'[s] = Len(utc'[s])
      BY <1>0, <2>3 DEF Durable
    <3> QED
      BY <2>3, <3>1, <3>2, <3>3
  <2> QED
    BY <2>4 DEF Durable
<1>5. CASE CheckpointBin
  <2>1. /\ UNCHANGED <<utc_file, utc, utc_size>> /\ bin' \in [Serials -> Seq(Entries)]
        /\ \A s \in Serials : bin_size'[s] = Len(bin'[s])
    BY <1>5, CheckpointBinEffect
  <2>2. \A s \in Serials : Len(bin'[s]) \in Nat
    BY <2>1, LenProperties
  <2> QED
    BY <1>0, <2>1, <2>2 DEF Durable
<1>6. CASE CheckpointUtc
  <2>1. /\ UNCHANGED <<log_file, bin, bin_size>> /\ utc' \in [Serials -> Seq(Samples)]
        /\ \A s \in Serials : utc_size'[s] = Len(utc'[s])
    BY <1>6, CheckpointUtcEffect
  <2>2. \A s \in Serials : Len(utc'[s]) \in Nat
    BY <2>1, LenProperties
  <2> QED
    BY <1>0, <2>1, <2>2 DEF Durable
<1>7. CASE WriterClose \/ PowerLoss
  <2>1. /\ bin' \in [Serials -> Seq(Entries)] /\ utc' \in [Serials -> Seq(Samples)]
        /\ \A s \in Serials : bin_size'[s] = Len(bin'[s]) /\ utc_size'[s] = Len(utc'[s])
    BY <1>7, WriterCloseEffect, PowerLossEffect
  <2>2. \A s \in Serials : Len(bin'[s]) \in Nat /\ Len(utc'[s]) \in Nat
    BY <2>1, LenProperties
  <2> QED
    BY <2>1, <2>2 DEF Durable
<1> QED
  BY <1>1, <1>2, <1>3, <1>4, <1>5, <1>6, <1>7 DEF Next, data_logger_start, writer_task

\* Every step keeps the samples owed to the session in the file, the buffer or the queue, in order.
LEMMA StreamStep ==
    ASSUME IInv, Next
    PROVE  Stream'
<1>0. /\ Stream /\ Files /\ Control /\ Buffer
      /\ TaskTypes /\ CardTypes /\ ContentTypes /\ QueueTypes /\ TypeOK /\ Durable
  BY DEF IInv, TypeOK
<1> USE SizesAssumption
<1>a. /\ records \in Seq(Entries) /\ log_queue \in Seq(Entries) /\ owed \in Seq(Entries)
      /\ Len(records) \in Nat /\ Len(log_queue) \in Nat /\ Len(owed) \in Nat
      /\ Pending \in Seq(Entries) /\ Len(Pending) = Len(records) + Len(log_queue)
  <2>1. records \in Seq(Entries) /\ log_queue \in Seq(Entries) /\ owed \in Seq(Entries)
    BY <1>0, SamplesAreEntries DEF QueueTypes
  <2> QED
    BY <2>1, LenProperties, ConcatProperties DEF Pending
<1>b. session # 0 => /\ session \in Serials /\ bin[session] \in Seq(Entries)
                     /\ Len(bin[session]) \in Nat
                     /\ Flow \in Seq(Entries)
                     /\ Len(Flow) = Len(bin[session]) + Len(Pending)
                     /\ \A i \in 1 .. Len(bin[session]) : Flow[i] = bin[session][i]
  <2> SUFFICES ASSUME session # 0
               PROVE  /\ session \in Serials /\ bin[session] \in Seq(Entries)
                      /\ Len(bin[session]) \in Nat
                      /\ Flow \in Seq(Entries)
                      /\ Len(Flow) = Len(bin[session]) + Len(Pending)
                      /\ \A i \in 1 .. Len(bin[session]) : Flow[i] = bin[session][i]
    OBVIOUS
  <2>1. session \in Serials /\ bin[session] \in Seq(Entries)
    BY <1>0 DEF CardTypes, ContentTypes
  <2>2. Len(bin[session]) \in Nat /\ Pending \in Seq(Entries) /\ Len(Pending) \in Nat
    BY <1>a, <2>1, LenProperties
  <2>3. /\ bin[session] \o Pending \in Seq(Entries)
        /\ Len(bin[session] \o Pending) = Len(bin[session]) + Len(Pending)
        /\ \A i \in 1 .. Len(bin[session]) + Len(Pending) :
             (bin[session] \o Pending)[i] = IF i =< Len(bin[session]) THEN bin[session][i]
                                            ELSE Pending[i - Len(bin[session])]
    BY <2>1, <2>2, ConcatProperties
  <2> HIDE DEF Pending
  <2> QED
    BY <2>1, <2>2, <2>3 DEF Flow
<1>c. state # Idle => session # 0
  BY <1>0 DEF Control
<1>1. ASSUME NEW p \in Producers, EnqueueSend(p) PROVE Stream'
  <2>1. held[p] \in Entries
    BY <1>0, <1>1 DEF Control, EnqueueSend, Entries
  <2>2. /\ UNCHANGED <<state, log_file, wpc, records, bin, session, card>>
        /\ log_queue' = Append(log_queue, held[p])
        /\ owed' = IF state = Running THEN Append(owed, held[p]) ELSE owed
    BY <1>1 DEF EnqueueSend
  <2>3. state # Idle => Flow' = Append(Flow, held[p])
    <3> SUFFICES ASSUME state # Idle PROVE Flow' = Append(Flow, held[p])
      OBVIOUS
    <3>1. /\ bin[session] \in Seq(Entries)
          /\ records \in Seq(Entries) /\ log_queue \in Seq(Entries)
      BY <1>a, <1>b, <1>c
    <3>2. Flow' = bin[session] \o (records \o Append(log_queue, held[p]))
      BY <2>2 DEF Flow, Pending
    <3>3. bin[session] \o (records \o Append(log_queue, held[p])) =
            Append(bin[session] \o (records \o log_queue), held[p])
      <4>1. \A b, r, q \in Seq(Entries) : \A x \in Entries :
              b \o (r \o Append(q, x)) = Append(b \o (r \o q), x)
        BY FlowAppend
      <4> QED
        BY <2>1, <3>1, <4>1
    <3> QED
      BY <3>2, <3>3 DEF Flow, Pending
  <2>4. state = Stopping /\ Prefix(owed, Flow) => Prefix(owed, Append(Flow, held[p]))
    <3> SUFFICES ASSUME state = Stopping, Prefix(owed, Flow)
                 PROVE  Prefix(owed, Append(Flow, held[p]))
      OBVIOUS
    <3>1. Flow \in Seq(Entries) /\ Len(Flow) \in Nat /\ Len(owed) \in Nat
      BY <1>a, <1>b, <1>c, LenProperties
    <3>2. /\ Len(Append(Flow, held[p])) = Len(Flow) + 1
          /\ \A i \in 1 .. Len(Flow) : Append(Flow, held[p])[i] = Flow[i]
      BY <2>1, <3>1, AppendProperties
    <3> HIDE DEF Flow
    <3> QED
      BY <3>1, <3>2 DEF Prefix
  <2>5. wpc \in {"drain", "close", "set_idle"} => state = Stopping
    BY <1>0 DEF Control
  <2> QED
    BY <1>0, <2>2, <2>3, <2>4, <2>5 DEF Stream
<1>2. ASSUME NEW p \in Producers, EnqueueCheck(p) \/ EnqueueRefused(p) \/ EnqueueCount(p)
      PROVE  Stream'
  <2>1. UNCHANGED <<state, log_file, wpc, records, log_queue, bin, session, card, owed>>
    BY <1>2 DEF EnqueueCheck, EnqueueRefused, EnqueueCount
  <2> QED
    BY <1>0, <2>1 DEF Stream, Flow, Pending
<1>3. CASE (\E n \in Names : StartCheck(n)) \/ StartBin \/ StartUndo
  <2>1. /\ UNCHANGED <<state, wpc, records, log_queue, bin, session, card, owed>>
        /\ state = Idle
    BY <1>0, <1>3 DEF Control, StartCheck, StartBin, StartUndo
  <2> QED
    BY <1>0, <2>1 DEF Stream, Flow, Pending
<1>4. CASE StartRun
  <2>1. /\ session' = created /\ state' = Running /\ log_file' = created
        /\ owed' = records /\ records' = records /\ log_queue' = <<>>
        /\ bin' = bin /\ bin[created] = <<>>
        /\ wpc' \notin {"drain", "close", "set_idle"}
    BY <1>0, <1>4 DEF Files, CardTypes, Control, StartRun
  <2>2. Flow' = <<>> \o (records \o <<>>)
    BY <2>1 DEF Flow, Pending
  <2>3. Flow' = records
    BY <1>a, <2>2, ConcatEmptySeq
  <2> QED
    BY <2>1, <2>3 DEF Stream
<1>5. CASE data_logger_stop
  <2>1. /\ UNCHANGED <<log_file, wpc, records, log_queue, bin, session, card, owed>>
        /\ state = Running /\ state' = Stopping
        /\ wpc \notin {"drain", "close", "set_idle"}
    BY <1>0, <1>5 DEF Control, data_logger_stop
  <2>2. Prefix(owed, owed)
    BY <1>a DEF Prefix
  <2> QED
    BY <1>0, <2>1, <2>2 DEF Stream, Flow, Pending
<1>6. CASE data_logger_rename
  <2>1. UNCHANGED <<state, log_file, wpc, records, log_queue, bin, session, card, owed>>
    BY <1>6 DEF data_logger_rename, RenameBin, RenameUtc
  <2> QED
    BY <1>0, <2>1 DEF Stream, Flow, Pending
<1>7. CASE WriterReceive
  <2>1. /\ UNCHANGED <<state, log_file, bin, session, card, owed>>
        /\ wpc' \in {"block", "timer"} /\ wpc = "receive"
    BY <1>7 DEF WriterReceive
  <2>2. Pending' = Pending
    <3>1. CASE log_queue = <<>>
      BY <1>7, <3>1 DEF WriterReceive, Pending
    <3>2. CASE log_queue # <<>>
      BY <1>7, <1>a, <3>2, FlowMove DEF WriterReceive, Pending
    <3> QED
      BY <3>1, <3>2
  <2> QED
    BY <1>0, <2>1, <2>2 DEF Stream, Flow
<1>8. CASE WriterBlock \/ WriterCheckpointWrite \/ WriterDrain
  <2>1. PICK full \in BOOLEAN :
          /\ write_records(full)
          /\ \/ records' = <<>>
             \/ ~full /\ wpc = "ckpt_write"
    BY <1>8 DEF WriterBlock, WriterCheckpointWrite, WriterDrain
  <2>2. /\ UNCHANGED <<state, log_file, log_queue, session, owed>>
        /\ file_mutex = "none"
    BY <2>1 DEF write_records
  <2>3. /\ wpc' \notin {"drain", "set_idle"} /\ wpc # "set_idle"
        /\ wpc' = "close" => wpc = "drain"
        /\ wpc = "ckpt_write" => state # Idle
    BY <1>0, <1>8 DEF Control, WriterBlock, WriterCheckpointWrite, WriterDrain
  <2>4. /\ card' = "good" => card = "good"
        /\ card' = "good" /\ log_file # 0 =>
              full /\ bin'[log_file] = bin[log_file] \o records
        /\ \A s \in Serials : s # log_file => bin'[s] = bin[s]
    BY <1>0, <2>1, WriteEffect
  <2> SUFFICES ASSUME card' = "good" PROVE Stream'
    BY DEF Stream
  <2>5. CASE state = Idle
    <3>1. log_file = 0
      BY <1>0, <2>2, <2>5 DEF Files, Control
    <3>2. session # 0 => bin'[session] = bin[session]
      BY <1>b, <2>4, <3>1
    <3> QED
      BY <1>0, <2>2, <2>3, <2>4, <2>5, <3>2 DEF Stream, Control
  <2>6. CASE state # Idle
    <3>1. log_file = session /\ session # 0
      BY <1>0, <1>c, <2>3, <2>4, <2>6 DEF Stream
    <3>2. bin'[session] = bin[session] \o records /\ records' = <<>>
      BY <2>1, <2>4, <3>1
    <3>3. Flow' = Flow
      <4>1. /\ bin[session] \in Seq(Entries)
            /\ records \in Seq(Entries) /\ log_queue \in Seq(Entries)
        BY <1>a, <1>b, <3>1
      <4>2. Flow' = (bin[session] \o records) \o (<<>> \o log_queue)
        BY <2>2, <3>2 DEF Flow, Pending
      <4>3. (bin[session] \o records) \o (<<>> \o log_queue) =
              bin[session] \o (records \o log_queue)
        <5>1. \A b, r, q \in Seq(Entries) : (b \o r) \o (<<>> \o q) = b \o (r \o q)
          BY FlowWrite
        <5> QED
          BY <4>1, <5>1
      <4> QED
        BY <4>2, <4>3 DEF Flow, Pending
    <3>4. Len(bin'[session]) = Len(bin[session]) + Len(records)
      BY <1>a, <1>b, <3>1, <3>2, ConcatProperties
    <3> QED
      BY <1>0, <2>2, <2>3, <2>4, <2>6, <3>1, <3>3, <3>4 DEF Stream
  <2> QED
    BY <2>5, <2>6
<1>9. CASE WriterTimer \/ CheckpointUtc
  <2>1. /\ UNCHANGED <<state, log_file, records, log_queue, bin, session, card, owed>>
        /\ wpc' \notin {"drain", "close", "set_idle"} /\ wpc # "set_idle"
    BY <1>9, CheckpointUtcEffect DEF WriterTimer
  <2> QED
    BY <1>0, <2>1 DEF Stream, Flow, Pending
<1>10. CASE CheckpointBin
  <2>1. /\ UNCHANGED <<state, records, log_queue, session, owed>>
        /\ wpc' = "ckpt_utc" /\ wpc # "set_idle"
        /\ card' = "good" => card = "good" /\ bin' = bin /\ log_file' = session
    BY <1>10, CheckpointBinEffect
  <2> QED
    BY <1>0, <2>1 DEF Stream, Flow, Pending
<1>11. CASE WriterStop
  <2>1. /\ UNCHANGED <<state, log_file, records, log_queue, bin, session, card, owed>>
        /\ wpc' # "set_idle" /\ wpc # "set_idle"
        /\ wpc' \in {"drain", "close"} => state = Stopping /\ log_queue = <<>>
        /\ wpc' = "close" => records = <<>>
    BY <1>11 DEF WriterStop, StopDrained
  <2>2. Flow' = Flow
    BY <2>1 DEF Flow, Pending
  <2>3. /\ Len(log_queue) = 0 \/ log_queue # <<>>
        /\ Len(records) = 0 \/ records # <<>>
    BY EmptySeq
  <2>4. ASSUME card = "good", wpc' \in {"drain", "close"}
        PROVE  Len(owed) =< Len(bin[session]) + Len(records)
    <3>1. state = Stopping /\ Len(log_queue) = 0 /\ session # 0
      BY <1>c, <2>1, <2>3, <2>4
    <3>2. Len(owed) =< Len(Flow)
      BY <1>0, <2>4, <3>1 DEF Stream, Prefix
    <3>3. Len(Flow) = Len(bin[session]) + Len(Pending) /\ Len(bin[session]) \in Nat
      BY <1>b, <3>1
    <3> HIDE DEF Flow, Pending
    <3> QED
      BY <1>a, <3>1, <3>2, <3>3
  <2>5. ASSUME card = "good", wpc' = "close" PROVE Len(owed) =< Len(bin[session])
    <3>1. Len(owed) =< Len(bin[session]) + Len(records) /\ Len(records) = 0
      BY <2>1, <2>3, <2>4, <2>5
    <3>2. Len(bin[session]) \in Nat /\ Len(owed) \in Nat
      BY <1>a, <1>b, <1>c, <2>1, <2>5
    <3> QED
      BY <3>1, <3>2
  <2> QED
    BY <1>0, <2>1, <2>2, <2>4, <2>5 DEF Stream
<1>12. CASE WriterClose
  <2>1. /\ UNCHANGED <<state, records, log_queue, session, owed>>
        /\ wpc = "close" /\ wpc' = "set_idle" /\ state = Stopping
        /\ card' = "good" => card = "good" /\ bin' = bin
    BY <1>12, WriterCloseEffect
  <2> QED
    BY <1>0, <2>1 DEF Stream, Flow, Pending
<1>13. CASE WriterSetIdle
  <2>1. /\ UNCHANGED <<log_file, records, log_queue, bin, session, card, owed>>
        /\ wpc = "set_idle" /\ wpc' = "receive" /\ state' = Idle /\ state = Stopping
    BY <1>0, <1>13 DEF Control, WriterSetIdle
  <2>2. card = "good" => Prefix(owed, bin[session])
    <3> SUFFICES ASSUME card = "good" PROVE Prefix(owed, bin[session])
      OBVIOUS
    <3>1. Prefix(owed, Flow) /\ Len(owed) =< Len(bin[session])
      BY <1>0, <2>1 DEF Stream
    <3>2. /\ Len(bin[session]) \in Nat /\ Len(owed) \in Nat
          /\ \A i \in 1 .. Len(bin[session]) : Flow[i] = bin[session][i]
      BY <1>a, <1>b, <1>c, <2>1
    <3> HIDE DEF Flow
    <3> QED
      BY <3>1, <3>2 DEF Prefix
  <2> QED
    BY <1>0, <2>1, <2>2 DEF Stream
<1>14. CASE PowerLoss
  BY <1>14 DEF Stream, PowerLoss
<1> QED
  BY <1>1, <1>2, <1>3, <1>4, <1>5, <1>6, <1>7, <1>8, <1>9, <1>10, <1>11, <1>12, <1>13,
     <1>14 DEF Next, data_logger_enqueue, data_logger_start, writer_task

\* Every step keeps the old name of a half-renamed pair free: file_mutex is held.
LEMMA MovingStep ==
    ASSUME IInv, Next
    PROVE  Moving'
<1>0. Moving /\ Control /\ CardTypes /\ SpelledAlike
  BY DEF IInv, TypeOK
<1>1. CASE \E old, new \in Names : RenameBin(old, new, TRUE)
  <2>1. PICK old \in Names, new \in Names : RenameBin(old, new, TRUE)
    BY <1>1
  <2>2. rpc' = "utc" => /\ rold' = old /\ rnew' = new /\ old # new
                        /\ binDir' = [binDir EXCEPT ![new] = binDir[old], ![old] = 0]
    BY <2>1 DEF RenameBin
  <2> QED
    BY <1>0, <2>2 DEF Moving, CardTypes
<1>2. CASE RenameUtc \/ PowerLoss
  BY <1>2 DEF Moving, RenameUtc, PowerLoss
<1>3. CASE data_logger_start
  <2>1. rpc' = rpc /\ rold' = rold /\ rnew' = rnew /\ (rpc = "utc" => binDir' = binDir)
    BY <1>0, <1>3 DEF Control, data_logger_start, StartCheck, StartBin, StartRun, StartUndo
  <2> QED
    BY <1>0, <2>1 DEF Moving
<1>4. CASE (\E p \in Producers : data_logger_enqueue(p)) \/ data_logger_stop \/ writer_task
  <2>1. UNCHANGED <<rpc, rold, rnew, binDir>>
    BY <1>4, CheckpointBinEffect, CheckpointUtcEffect, WriterCloseEffect
       DEF data_logger_enqueue, EnqueueCheck, EnqueueSend, EnqueueRefused, EnqueueCount,
                data_logger_stop, writer_task, WriterReceive, WriterBlock, WriterTimer,
                WriterCheckpointWrite, WriterStop, WriterDrain,
                WriterSetIdle, write_records
  <2> QED
    BY <1>0, <2>1 DEF Moving
<1>r. CASE data_logger_rename
  BY <1>0, <1>1, <1>2, <1>r, RenamesAlike
<1> QED
  BY <1>2, <1>3, <1>4, <1>r DEF Next

-------------------------------------------------------------------------------
(* What follows for every behaviour of the logger *)

\* A step that changes no variable keeps the invariant.
LEMMA StutterInv ==
    ASSUME IInv, UNCHANGED vars
    PROVE  IInv'
<1>0. /\ ProducerTypes /\ TaskTypes /\ QueueTypes /\ CardTypes /\ ContentTypes
      /\ Control /\ Buffer /\ Files /\ Durable /\ Stream /\ Moving /\ SpelledAlike
  BY DEF IInv, TypeOK
<1>1. ProducerTypes'
  BY <1>0 DEF ProducerTypes, vars
<1>2. TaskTypes'
  BY <1>0 DEF TaskTypes, vars
<1>3. QueueTypes'
  BY <1>0 DEF QueueTypes, vars
<1>4. CardTypes' /\ ContentTypes'
  BY <1>0 DEF CardTypes, ContentTypes, vars
<1>5. Control' /\ Buffer'
  BY <1>0 DEF Control, Buffer, vars
<1>6. Files' /\ Moving'
  BY <1>0 DEF Files, ActiveFilesStayPut, Moving, vars
<1>7. Durable'
  BY <1>0 DEF Durable, vars
<1>8. Stream'
  BY <1>0 DEF Stream, Flow, Pending, vars
<1> QED
  BY <1>0, <1>1, <1>2, <1>3, <1>4, <1>5, <1>6, <1>7, <1>8 DEF IInv, TypeOK, SpelledAlike

\* Every behaviour of the logger's tasks, with any interleaving of enqueue, start,
\* stop, rename and the writer, any SD failures and any power losses, stays within
\* the invariant, as long as requests spell log_path as the logger does.
THEOREM Invariance == ASSUME SpelledAlike PROVE Spec => []IInv
<1>1. IInv /\ [Next]_vars => IInv'
  <2>1. CASE Next
    <3> SUFFICES ASSUME IInv, Next PROVE IInv'
      BY <2>1, StutterInv
    <3>1. TypeOK'
      BY ProducerTypesStep, TaskTypesStep, QueueTypesStep, CardTypesStep, ContentTypesStep
         DEF TypeOK
    <3>2. SpelledAlike'
      BY DEF SpelledAlike
    <3> QED
      BY <3>1, <3>2, ControlStep, BufferStep, FilesStep, DurableStep, StreamStep, MovingStep
         DEF IInv
  <2>2. CASE UNCHANGED vars
    BY <2>2, StutterInv
  <2> QED
    BY <2>1, <2>2
<1>2. Init => IInv
  BY InitInv
<1> QED
  BY <1>1, <1>2, PTL DEF Spec

\* Type correctness: in particular the queue never holds more than QueueLength
\* samples and writer_task never indexes its block buffer past its end.
THEOREM TypeCorrect == ASSUME SpelledAlike PROVE Spec => []TypeOK
<1>1. IInv => TypeOK
  BY DEF IInv
<1> QED
  BY <1>1, Invariance, PTL

\* A session that met no SD failure ends with every sample that was queued while it
\* ran in its file, in queue order: writer_task drains the queue and its buffer
\* before it closes the files, whatever else happens meanwhile.
THEOREM NothingLost == ASSUME SpelledAlike PROVE Spec => []NoLoss
<1>1. IInv => NoLoss
  BY DEF IInv, Stream, NoLoss, Prefix
<1> QED
  BY <1>1, Invariance, PTL

\* An idle logger has nothing to lose: whatever failed before, a write, a flush, an fclose
\* or the power, the directory has the whole of every file once the state is idle.
THEOREM IdleDurable == ASSUME SpelledAlike PROVE Spec => []IdleIsDurable
<1>1. IInv => IdleIsDurable
  BY SettledSizes DEF IdleIsDurable
<1> QED
  BY <1>1, Invariance, PTL

\* The files of an active session stay under its name through renames, failed
\* starts and checkpoints, so a checkpoint never appends to another recording: if no
\* request spells the name otherwise than log_path (logger_spelling shows the rest).
THEOREM FilesStayPut == ASSUME SpelledAlike PROVE Spec => []ActiveFilesStayPut
<1>1. IInv => ActiveFilesStayPut
  BY DEF IInv, Files
<1> QED
  BY <1>1, Invariance, PTL

\* Every step keeps the completed recordings and their names.
LEMMA KeepsLogsStep ==
    ASSUME IInv, Next
    PROVE  KeepsLogs
<1>0. /\ Control /\ Files /\ Durable /\ Moving /\ TypeOK
      /\ TaskTypes /\ CardTypes /\ ContentTypes /\ SpelledAlike
  BY DEF IInv, TypeOK
<1> SUFFICES ASSUME NEW s \in 1 .. created
             PROVE  /\ s # session \/ state = Idle =>
                          bin'[s] = bin[s] /\ utc'[s] = utc[s]
                    /\ Listed(binDir, s) /\ (s # log_file \/ cpc # "utc") => Listed(binDir', s)
  BY DEF KeepsLogs
<1>s. s \in Serials /\ s # 0
  BY <1>0, SizesAssumption DEF CardTypes
<1>1. CASE WriterBlock \/ WriterCheckpointWrite \/ WriterDrain
  <2>1. PICK full \in BOOLEAN : write_records(full)
    BY <1>1 DEF WriterBlock, WriterCheckpointWrite, WriterDrain
  <2>2. binDir' = binDir /\ file_mutex = "none"
    BY <2>1 DEF write_records
  <2>3. s # session \/ state = Idle => s # log_file /\ s # utc_file
    BY <1>0, <1>s, <2>2 DEF Control, Files, ActiveFilesStayPut
  <2>4. /\ s # log_file => bin'[s] = bin[s]
        /\ s # utc_file => utc'[s] = utc[s]
    BY <1>0, <1>s, <2>1, WriteEffect
  <2> QED
    BY <2>2, <2>3, <2>4 DEF Listed
<1>2. CASE PowerLoss
  <2>1. binDir' = binDir
    BY <1>2 DEF PowerLoss
  <2>2. s # session \/ state = Idle => bin'[s] = bin[s] /\ utc'[s] = utc[s]
    BY <1>s, <1>2, PowerLossEffect
  <2> QED
    BY <2>1, <2>2 DEF Listed
<1>3. CASE data_logger_start
  <2>1. bin' = bin /\ utc' = utc
    BY <1>3 DEF data_logger_start, StartCheck, StartBin, StartRun, StartUndo
  <2>2. ASSUME Listed(binDir, s), s # log_file \/ cpc # "utc" PROVE Listed(binDir', s)
    <3>1. PICK n \in Names : binDir[n] = s
      BY <2>2 DEF Listed
    <3>2. CASE binDir' = binDir
      BY <3>1, <3>2 DEF Listed
    <3>3. CASE StartBin /\ binDir' # binDir
      <4>1. /\ binDir' = [binDir EXCEPT ![cname] = created + 1]
            /\ binDir[cname] = 0
        BY <3>3 DEF StartBin, CreatesNew
      <4> QED
        BY <1>0, <1>s, <3>1, <4>1 DEF CardTypes, Listed
    <3>4. CASE StartUndo /\ binDir' # binDir
      <4>1. binDir' = [binDir EXCEPT ![cname] = 0] /\ binDir[cname] = log_file /\ cpc = "utc"
        BY <1>0, <3>4 DEF StartUndo, Files
      <4> QED
        BY <1>0, <1>s, <2>2, <3>1, <4>1 DEF CardTypes, Listed
    <3> QED
      BY <1>3, <3>2, <3>3, <3>4 DEF data_logger_start, StartCheck, StartRun
  <2> QED
    BY <2>1, <2>2
<1>4. CASE \E old, new \in Names : RenameBin(old, new, TRUE)
  <2>1. PICK old \in Names, new \in Names : RenameBin(old, new, TRUE)
    BY <1>4
  <2>2. /\ bin' = bin /\ utc' = utc /\ old # new /\ binDir[new] = 0
        /\ binDir' = [binDir EXCEPT ![new] = binDir[old], ![old] = 0]
    BY <2>1 DEF RenameBin
  <2>3. ASSUME NEW n \in Names, binDir[n] = s PROVE Listed(binDir', s)
    <3>1. CASE n = old
      BY <1>0, <2>2, <2>3, <3>1 DEF CardTypes, Listed
    <3>2. CASE n # old
      BY <1>0, <1>s, <2>2, <2>3, <3>2 DEF CardTypes, Listed
    <3> QED
      BY <3>1, <3>2
  <2> QED
    BY <2>2, <2>3 DEF Listed
<1>5. CASE RenameUtc
  <2>1. /\ bin' = bin /\ utc' = utc /\ rpc = "utc"
        /\ \/ binDir' = binDir
           \/ binDir' = [binDir EXCEPT ![rold] = binDir[rnew], ![rnew] = 0]
    BY <1>5 DEF RenameUtc
  <2>2. rold \in Names /\ rnew \in Names /\ rold # rnew /\ binDir[rold] = 0
    BY <1>0, <2>1 DEF Control, Moving
  <2>3. ASSUME NEW n \in Names, binDir[n] = s PROVE Listed(binDir', s)
    <3>1. CASE binDir' = binDir
      BY <2>3, <3>1 DEF Listed
    <3>2. CASE binDir' = [binDir EXCEPT ![rold] = binDir[rnew], ![rnew] = 0] /\ n = rnew
      BY <1>0, <2>2, <2>3, <3>2 DEF CardTypes, Listed
    <3>3. CASE binDir' = [binDir EXCEPT ![rold] = binDir[rnew], ![rnew] = 0] /\ n # rnew
      BY <1>0, <1>s, <2>2, <2>3, <3>3 DEF CardTypes, Listed
    <3> QED
      BY <2>1, <3>1, <3>2, <3>3
  <2> QED
    BY <2>1, <2>3 DEF Listed
<1>6. CASE \/ \E p \in Producers : data_logger_enqueue(p)
           \/ data_logger_stop \/ WriterReceive \/ WriterTimer \/ WriterStop \/ WriterSetIdle
  <2>1. UNCHANGED <<bin, utc, binDir>>
    BY <1>6 DEF data_logger_enqueue, EnqueueCheck, EnqueueSend, EnqueueRefused, EnqueueCount,
                data_logger_stop, WriterReceive, WriterTimer, WriterStop, WriterSetIdle
  <2> QED
    BY <2>1 DEF Listed
<1>7. CASE CheckpointBin \/ CheckpointUtc \/ WriterClose
  <2>1. binDir' = binDir /\ state # Idle
    BY <1>7, CheckpointBinEffect, CheckpointUtcEffect, WriterCloseEffect
  <2>2. s # session => s # log_file /\ s # utc_file
    BY <1>0, <1>s, <2>1 DEF Files, ActiveFilesStayPut
  <2>3. s # session => bin'[s] = bin[s] /\ utc'[s] = utc[s]
    <3>1. CASE CheckpointBin
      BY <1>s, <2>2, <3>1, CheckpointBinEffect
    <3>2. CASE CheckpointUtc
      BY <1>s, <2>2, <3>2, CheckpointUtcEffect
    <3>3. CASE WriterClose
      BY <1>s, <2>2, <3>3, WriterCloseEffect
    <3> QED
      BY <1>7, <3>1, <3>2, <3>3
  <2> QED
    BY <2>1, <2>3 DEF Listed
<1>r. CASE data_logger_rename
  BY <1>0, <1>4, <1>5, <1>r, RenamesAlike
<1> QED
  BY <1>1, <1>2, <1>3, <1>6, <1>7, <1>r DEF Next, writer_task

\* A recording that is not the active one is never overwritten, changed or lost from the
\* directory, the last one included and the power losses too, for any number of sessions,
\* renames and failures.
THEOREM LogsKept == ASSUME SpelledAlike PROVE Spec => CompletedLogsKept
<1>1. IInv /\ [Next]_vars => [KeepsLogs]_vars
  BY KeepsLogsStep
<1> QED
  BY <1>1, Invariance, PTL DEF Spec, CompletedLogsKept

\* Without a power loss, the logger's state moves only as LoggerSession allows: the
\* step from stopping to idle is the writer's, and comes after its last write.
THEOREM RefinesSession ==
    ASSUME SpelledAlike, MaxCrashes = 0
    PROVE  Spec => Session!Spec
<1>1. Init => Session!Init
  BY DEF Init, Session!Init, Session!Idle
<1>2. IInv /\ [Next]_vars => [Session!Next]_state
  <2> SUFFICES ASSUME IInv, [Next]_vars PROVE Session!Next \/ state' = state
    OBVIOUS
  <2> USE DEF Session!Idle, Session!Running, Session!Stopping
  <2>1. CASE UNCHANGED vars
    BY <2>1 DEF vars
  <2>2. CASE \E p \in Producers : data_logger_enqueue(p)
    BY <2>2 DEF data_logger_enqueue, EnqueueCheck, EnqueueSend, EnqueueRefused, EnqueueCount
  <2>3. CASE data_logger_start
    <3>1. state = Idle \/ cpc = "ready"
      BY DEF IInv, TypeOK, TaskTypes, Control
    <3> QED
      BY <2>3, <3>1 DEF data_logger_start, StartCheck, StartBin, StartRun, StartUndo,
                        Session!Next, Session!Begin
  <2>4. CASE data_logger_stop
    BY <2>4 DEF data_logger_stop, Session!Next, Session!RequestStop
  <2>5. CASE data_logger_rename
    BY <2>5 DEF data_logger_rename, RenameBin, RenameUtc
  <2>6. CASE writer_task
    <3>1. wpc = "set_idle" => state = Stopping
      BY DEF IInv, Control
    <3> QED
      BY <2>6, <3>1 DEF writer_task, WriterReceive, WriterBlock, WriterTimer,
            WriterCheckpointWrite, CheckpointBin, CheckpointUtc, WriterStop, WriterDrain,
            WriterClose, WriterSetIdle, write_records, Session!Next, Session!Finish
  <2>7. CASE PowerLoss
    <3>1. crashes \in Nat /\ crashes =< MaxCrashes
      BY SizesAssumption DEF IInv, TypeOK, CardTypes
    <3> QED
      BY <2>7, <3>1 DEF PowerLoss
  <2> QED
    BY <2>1, <2>2, <2>3, <2>4, <2>5, <2>6, <2>7 DEF Next
<1> QED
  BY <1>1, <1>2, Invariance, PTL DEF Spec, Session!Spec

-------------------------------------------------------------------------------
(* Each record beside its own UTC entry.  Companion says how far the two files *)
(* of a session that has not slipped may be apart, Pairs which companion may   *)
(* stand beside which .bin: one of its own session, or any companion beside a  *)
(* .bin that is empty for good, left by a start that failed half way.          *)

InStep(entries, recs) ==
    \A i \in 1 .. Len(recs) : i =< Len(entries) => entries[i] = recs[i]

Companion ==
    /\ \A s \in Serials : s \notin slipped => InStep(utc[s], bin[s])
    /\ state # Idle /\ wpc # "set_idle" /\ session \notin slipped =>
           /\ Len(utc[session]) =< Len(bin[session])
           /\ utc_file # 0 => Len(utc[session]) = Len(bin[session])

Matches(b, u) == b # 0 /\ u # 0 => b = u \/ bin[b] = <<>>

Pairs ==
    /\ \A n \in Names : binDir[n] =< created /\ Matches(binDir[n], utcDir[n])
    /\ \A m, n \in Names : binDir[m] = binDir[n] /\ binDir[m] # 0 => m = n
    /\ rpc = "utc" => Matches(binDir[rnew], utcDir[rold])

\* The drop counter against the drops that took place.
DropCount ==
    /\ queue_drops =< refused
    /\ \A p \in Producers : ppc[p] = "count" => seen[p] < refused
    /\ refused > 0 => queue_drops > 0 \/ \E p \in Producers : ppc[p] = "count"

\* Entries in step with the records stay so when records are added behind them.
LEMMA LongerRecords ==
    ASSUME NEW S, NEW a \in Seq(S), NEW b \in Seq(S), NEW e \in Seq(S),
           Len(a) =< Len(b), InStep(a, b)
    PROVE  InStep(a, b \o e) /\ Len(a) =< Len(b \o e)
<1>1. /\ Len(a) \in Nat /\ Len(b) \in Nat /\ Len(e) \in Nat
      /\ Len(b \o e) = Len(b) + Len(e)
      /\ \A i \in 1 .. Len(b) + Len(e) : (b \o e)[i] = IF i =< Len(b) THEN b[i] ELSE e[i - Len(b)]
  BY ConcatProperties, LenProperties
<1>2. ASSUME NEW i \in 1 .. Len(b \o e), i =< Len(a) PROVE a[i] = (b \o e)[i]
  <2>1. i \in 1 .. Len(b)
    BY <1>1, <1>2
  <2> QED
    BY <1>1, <1>2, <2>1 DEF InStep
<1> QED
  BY <1>1, <1>2 DEF InStep

\* A block whose entries are a prefix of its records keeps two files of one length in
\* step, whatever the .bin gains behind them.
LEMMA BlockInStep ==
    ASSUME NEW S, NEW a \in Seq(S), NEW b \in Seq(S), NEW p \in Seq(S), NEW e \in Seq(S),
           Len(e) =< Len(p), \A i \in 1 .. Len(e) : e[i] = p[i],
           Len(a) = Len(b), InStep(a, b)
    PROVE  InStep(a \o e, b \o p)
<1>0. Len(a) \in Nat /\ Len(b) \in Nat /\ Len(e) \in Nat /\ Len(p) \in Nat
  BY LenProperties
<1>1. /\ Len(a \o e) = Len(a) + Len(e)
      /\ \A i \in 1 .. Len(a) + Len(e) : (a \o e)[i] = IF i =< Len(a) THEN a[i] ELSE e[i - Len(a)]
  BY ConcatProperties
<1>2. /\ Len(b \o p) = Len(b) + Len(p)
      /\ \A i \in 1 .. Len(b) + Len(p) : (b \o p)[i] = IF i =< Len(b) THEN b[i] ELSE p[i - Len(b)]
  BY ConcatProperties
<1>3. ASSUME NEW i \in 1 .. Len(b \o p), i =< Len(a \o e) PROVE (a \o e)[i] = (b \o p)[i]
  <2>1. i \in 1 .. Len(a) + Len(e) /\ i \in 1 .. Len(b) + Len(p)
    BY <1>0, <1>1, <1>2, <1>3
  <2>2. CASE i =< Len(a)
    <3>1. i \in 1 .. Len(b) /\ a[i] = b[i]
      BY <1>0, <2>1, <2>2 DEF InStep
    <3> QED
      BY <1>0, <1>1, <1>2, <2>1, <2>2, <3>1
  <2>3. CASE ~(i =< Len(a))
    <3>1. i - Len(a) \in 1 .. Len(e) /\ i - Len(b) = i - Len(a)
      BY <1>0, <2>1, <2>3
    <3>2. (a \o e)[i] = e[i - Len(a)] /\ (b \o p)[i] = p[i - Len(b)]
      BY <1>0, <1>1, <1>2, <2>1, <2>3
    <3> QED
      BY <3>1, <3>2
  <2> QED
    BY <2>2, <2>3
<1> QED
  BY <1>3 DEF InStep

\* Prefixes of entries and records in step are in step.
LEMMA PrefixInStep ==
    ASSUME NEW S, NEW a \in Seq(S), NEW b \in Seq(S), NEW c \in Seq(S), NEW d \in Seq(S),
           InStep(a, b), Prefix(c, a), Prefix(d, b)
    PROVE  InStep(c, d)
<1>1. Len(a) \in Nat /\ Len(b) \in Nat /\ Len(c) \in Nat /\ Len(d) \in Nat
  BY LenProperties
<1>2. Len(c) =< Len(a) /\ Len(d) =< Len(b)
  BY DEF Prefix
<1>3. ASSUME NEW i \in 1 .. Len(d), i =< Len(c) PROVE c[i] = d[i]
  <2>1. i \in 1 .. Len(b) /\ i =< Len(a) /\ i \in 1 .. Len(c)
    BY <1>1, <1>2, <1>3
  <2>2. a[i] = b[i]
    BY <2>1 DEF InStep
  <2>3. c[i] = a[i] /\ d[i] = b[i]
    BY <2>1 DEF Prefix
  <2> QED
    BY <2>2, <2>3
<1> QED
  BY <1>3 DEF InStep

\* Records p and a torn rest go behind the records b, and entries e for a part of p
\* behind the entries a: the two stay in step, whether e gets there or not.
StaysInStep(a, b, p, e, rest) ==
    /\ InStep(a, (b \o p) \o rest)
    /\ Len(a) =< Len((b \o p) \o rest)
    /\ Len((b \o p) \o rest) = Len(b) + Len(p) + Len(rest)
    /\ Len(a \o e) = Len(a) + Len(e)
    /\ Len(a) = Len(b) =>
         InStep(a \o e, (b \o p) \o rest) /\ Len(a \o e) =< Len((b \o p) \o rest)

LEMMA BlockWritten ==
    ASSUME NEW S, NEW a \in Seq(S), NEW b \in Seq(S), NEW p \in Seq(S), NEW e \in Seq(S),
           NEW rest \in Seq(S), Prefix(e, p), InStep(a, b), Len(a) =< Len(b)
    PROVE  StaysInStep(a, b, p, e, rest)
<1>1. Len(e) =< Len(p) /\ \A i \in 1 .. Len(e) : e[i] = p[i]
  BY DEF Prefix
<1>2. /\ Len(a) \in Nat /\ Len(b) \in Nat /\ Len(rest) \in Nat
      /\ Len(p) \in Nat /\ Len(e) \in Nat
  BY LenProperties
<1>3. /\ a \o e \in Seq(S) /\ Len(a \o e) = Len(a) + Len(e)
      /\ b \o p \in Seq(S) /\ Len(b \o p) = Len(b) + Len(p)
  BY ConcatProperties
<1>4. Len((b \o p) \o rest) = Len(b) + Len(p) + Len(rest)
  <2>1. Len((b \o p) \o rest) = Len(b \o p) + Len(rest)
    BY <1>3, ConcatProperties
  <2> QED
    BY <1>3, <2>1
<1>5. InStep(a, b \o p) /\ Len(a) =< Len(b \o p)
  BY LongerRecords
<1>6. InStep(a, (b \o p) \o rest) /\ Len(a) =< Len((b \o p) \o rest)
  BY <1>3, <1>5, LongerRecords
<1>7. ASSUME Len(a) = Len(b)
      PROVE  InStep(a \o e, (b \o p) \o rest) /\ Len(a \o e) =< Len((b \o p) \o rest)
  <2>1. InStep(a \o e, b \o p)
    BY <1>1, <1>7, BlockInStep
  <2>2. Len(a \o e) =< Len(b \o p)
    BY <1>1, <1>2, <1>3, <1>7
  <2> QED
    BY <1>3, <2>1, <2>2, LongerRecords
<1> QED
  BY <1>3, <1>4, <1>6, <1>7 DEF StaysInStep

\* write_records keeps the companion in step with the .bin: both gain the block, or the
\* companion is closed for good with at most as many entries as records.  If records are
\* lost in a flush that fails, the file has slipped.
LEMMA WriteCompanion ==
    ASSUME IInv, Companion, NEW full \in BOOLEAN, write_records(full), wpc # "set_idle"
    PROVE  Companion'
<1>0. TypeOK /\ Control /\ Files /\ Durable
  BY DEF IInv
<1>1. PICK w \in 0 .. Len(records), torn \in BOOLEAN, utcOk \in BOOLEAN, closed \in BOOLEAN :
      \E u \in 0 .. w, k \in 0 .. w :
        /\ full <=> w = Len(records)
        /\ log_file = 0 => w = 0 /\ ~torn
        /\ torn => ~full
        /\ utcOk => u = w
        /\ utc_file = 0 => utcOk
        /\ k < w => ~torn
        /\ IF utcOk /\ closed /\ k = w /\ (full \/ log_file = 0) THEN SdWorks ELSE SdFails
        /\ bin' = IF log_file = 0 THEN bin
                  ELSE [bin EXCEPT ![log_file] =
                          @ \o SubSeq(records, 1, k) \o IF torn THEN <<Torn>> ELSE <<>>]
        /\ IF CompanionStays(utcOk, full) THEN closed /\ AppendUtc(u) /\ UNCHANGED utc_file
                                          ELSE CloseUtc(closed, u) /\ utc_file' = 0
        /\ card' = IF log_file # 0 /\ k < Len(records) THEN "failed" ELSE card
        /\ slipped' = IF k < w THEN slipped \cup {log_file} ELSE slipped
  BY DEF write_records
<1>2. PICK u \in 0 .. w, k \in 0 .. w :
        /\ log_file = 0 => w = 0 /\ ~torn
        /\ torn => ~full
        /\ utcOk => u = w
        /\ bin' = IF log_file = 0 THEN bin
                  ELSE [bin EXCEPT ![log_file] =
                          @ \o SubSeq(records, 1, k) \o IF torn THEN <<Torn>> ELSE <<>>]
        /\ IF CompanionStays(utcOk, full) THEN closed /\ AppendUtc(u) /\ UNCHANGED utc_file
                                          ELSE CloseUtc(closed, u) /\ utc_file' = 0
        /\ slipped' = IF k < w THEN slipped \cup {log_file} ELSE slipped
  BY <1>1
<1> DEFINE rest == IF torn THEN <<Torn>> ELSE <<>>
<1>3. /\ records \in Seq(Samples) /\ Len(records) \in Nat
      /\ log_file \in Handles /\ utc_file \in Handles /\ session \in Handles
      /\ bin \in [Serials -> Seq(Entries)] /\ utc \in [Serials -> Seq(Samples)]
  BY <1>0 DEF TypeOK, TaskTypes, QueueTypes, CardTypes, ContentTypes
<1>4. records \in Seq(Entries) /\ rest \in Seq(Entries) /\ (~torn => Len(rest) = 0)
  <2>1. <<Torn>> \in Seq(Entries) /\ <<>> \in Seq(Entries)
    BY DEF Entries
  <2> QED
    BY <1>3, <2>1, SamplesAreEntries
<1>5. /\ log_file \in {0, session} /\ utc_file \in {0, session}
      /\ log_file # 0 \/ utc_file # 0 => state # Idle /\ session \in Serials
  <2>1. file_mutex = "none"
    BY DEF write_records
  <2> QED
    BY <2>1, OpenIsActive
<1>6. state' = state /\ session' = session
  BY DEF write_records
<1>7. \A s \in Serials : s # session => bin'[s] = bin[s] /\ utc'[s] = utc[s]
  <2>1. \A s \in Serials : s # session => s # log_file /\ s # utc_file
    BY <1>5 DEF Serials
  <2> QED
    BY <1>0, <2>1, WriteEffect
<1>8. slipped \subseteq slipped' /\ (session \notin slipped' => k = w)
  <2>1. k < w => log_file # 0
    BY <1>2
  <2> QED
    BY <1>2, <1>5, <2>1
<1>9. state # Idle => session \in Serials
  BY <1>0 DEF Control
<1>10. ASSUME session \in Serials, session \notin slipped'
       PROVE  /\ InStep(utc'[session], bin'[session])
              /\ state # Idle =>
                   /\ Len(utc'[session]) =< Len(bin'[session])
                   /\ utc_file' # 0 => Len(utc'[session]) = Len(bin'[session])
  <2> DEFINE a == utc[session]
             b == bin[session]
             e == a \o SubSeq(records, 1, u)
             n == (b \o SubSeq(records, 1, w)) \o rest
  <2>1. k = w /\ session \notin slipped
    BY <1>8, <1>10
  <2>2. /\ InStep(a, b)
        /\ state # Idle => Len(a) =< Len(b) /\ (utc_file # 0 => Len(a) = Len(b))
    BY <1>10, <2>1 DEF Companion
  <2>3. /\ a \in Seq(Samples) /\ a \in Seq(Entries) /\ b \in Seq(Entries)
        /\ Len(a) \in Nat /\ Len(b) \in Nat
        /\ utc'[session] \in Seq(Entries) /\ bin'[session] \in Seq(Entries)
    <3>1. utc' \in [Serials -> Seq(Samples)] /\ bin' \in [Serials -> Seq(Entries)]
      BY <1>0, WriteEffect
    <3> QED
      BY <1>3, <1>10, <3>1, SamplesAreEntries, LenProperties
  <2>4. utc_file = 0 => utc'[session] = a /\ utc_file' = 0
    <3>1. utc_file = 0 => session # utc_file
      BY <1>10 DEF Serials
    <3> QED
      BY <1>0, <1>10, <3>1, WriteEffect
  <2>5. u \in 0 .. Len(records)
    BY <1>3
  <2>6. utc_file # 0 => \/ utc'[session] = e /\ (utc_file' # 0 => utcOk /\ full)
                        \/ Prefix(utc'[session], a) /\ utc_file' = 0
    <3> SUFFICES ASSUME utc_file # 0
                 PROVE  \/ utc'[session] = e /\ (utc_file' # 0 => utcOk /\ full)
                        \/ Prefix(utc'[session], a) /\ utc_file' = 0
      OBVIOUS
    <3>1. utc_file = session
      BY <1>5
    <3>2. CASE CompanionStays(utcOk, full)
      <4>1. AppendUtc(u) /\ utcOk /\ full
        BY <1>2, <3>2 DEF CompanionStays
      <4>2. utc'[session] = e
        BY <1>0, <1>10, <2>5, <3>1, <4>1, AppendUtcEffect
      <4> QED
        BY <4>1, <4>2
    <3>3. CASE ~CompanionStays(utcOk, full)
      <4>1. CloseUtc(closed, u) /\ utc_file' = 0
        BY <1>2, <3>3
      <4>2. utc'[session] = e \/ Prefix(utc'[session], a)
        BY <1>0, <1>10, <2>5, <3>1, <4>1, CloseUtcEffect
      <4> QED
        BY <4>1, <4>2
    <3> QED
      BY <3>2, <3>3
  <2>7. CASE log_file = 0
    <3>1. w = 0 /\ u = 0 /\ bin'[session] = b
      BY <1>2, <2>7
    <3>2. SubSeq(records, 1, 0) = <<>> /\ a \o <<>> = a
      BY <1>3, <2>3, ConcatEmptySeq
    <3>3. e = a
      BY <3>1, <3>2
    <3>4. Prefix(a, a) /\ Prefix(b, b)
      BY <2>3 DEF Prefix
    <3>5. Prefix(utc'[session], a) /\ (utc_file' # 0 => utc'[session] = a /\ utc_file # 0)
      BY <2>4, <2>6, <3>3, <3>4
    <3>6. InStep(utc'[session], b)
      BY <2>2, <2>3, <3>4, <3>5, PrefixInStep
    <3>7. Len(utc'[session]) =< Len(a) /\ Len(utc'[session]) \in Nat
      BY <2>3, <3>5, LenProperties DEF Prefix
    <3> HIDE DEF a, b
    <3> QED
      BY <2>2, <2>3, <3>1, <3>5, <3>6, <3>7
  <2>8. CASE log_file # 0
    <3>1. log_file = session /\ state # Idle
      BY <1>5, <2>8
    <3>2. bin'[session] = n
      <4>1. bin' = [bin EXCEPT ![session] = bin[session] \o SubSeq(records, 1, k) \o rest]
        BY <1>2, <2>8, <3>1
      <4>2. bin'[session] = bin[session] \o SubSeq(records, 1, k) \o rest
        BY <1>3, <1>10, <4>1
      <4> QED
        BY <2>1, <4>2
    <3>3. /\ InStep(a, n) /\ Len(a) =< Len(n) /\ Len(n) = Len(b) + w + Len(rest)
          /\ Len(e) = Len(a) + u
          /\ Len(a) = Len(b) => InStep(e, n) /\ Len(e) =< Len(n)
      <4> DEFINE new == SubSeq(records, 1, w)
                 ents == SubSeq(records, 1, u)
      <4>1. /\ new \in Seq(Entries) /\ Len(new) = w
            /\ \A i \in 1 .. w : new[i] = records[i]
        BY <1>4, PrefixProperties
      <4>2. /\ ents \in Seq(Entries) /\ Len(ents) = u
            /\ \A i \in 1 .. u : ents[i] = records[i]
        BY <1>4, <2>5, PrefixProperties
      <4> HIDE DEF new, ents
      <4>3. Prefix(ents, new)
        BY <1>3, <4>1, <4>2 DEF Prefix
      <4>4. InStep(a, b) /\ Len(a) =< Len(b)
        BY <2>2, <3>1
      <4> HIDE DEF a, b, rest
      <4>5. StaysInStep(a, b, new, ents, rest)
        BY <1>4, <2>3, <4>1, <4>2, <4>3, <4>4, BlockWritten
      <4>6. /\ InStep(a, (b \o new) \o rest) /\ Len(a) =< Len((b \o new) \o rest)
            /\ Len((b \o new) \o rest) = Len(b) + Len(new) + Len(rest)
            /\ Len(a \o ents) = Len(a) + Len(ents)
            /\ Len(a) = Len(b) => /\ InStep(a \o ents, (b \o new) \o rest)
                                 /\ Len(a \o ents) =< Len((b \o new) \o rest)
        BY <4>5, Zenon DEF StaysInStep
      <4> QED
        BY <4>1, <4>2, <4>6 DEF new, ents
    <3> HIDE DEF a, b, rest
    <3> HIDE DEF e, n
    <3>4. CASE utc_file = 0
      BY <2>4, <3>2, <3>3, <3>4
    <3>5. CASE utc_file # 0 /\ utc'[session] = e /\ (utc_file' # 0 => utcOk /\ full)
      <4>1. Len(a) = Len(b)
        BY <2>2, <3>1, <3>5
      <4>2. utc_file' # 0 => u = w /\ Len(rest) = 0
        BY <1>2, <1>4, <3>5
      <4>3. utc_file' # 0 => Len(e) = Len(n)
        BY <2>3, <3>3, <4>1, <4>2
      <4> QED
        BY <3>2, <3>3, <3>5, <4>1, <4>3
    <3>6. CASE Prefix(utc'[session], a) /\ utc_file' = 0
      <4>1. n \in Seq(Entries) /\ Len(n) \in Nat /\ Len(utc'[session]) \in Nat
        BY <2>3, <3>2, LenProperties
      <4>2. Prefix(n, n) /\ Len(utc'[session]) =< Len(a)
        BY <3>6, <4>1 DEF Prefix
      <4>3. InStep(utc'[session], n)
        BY <2>3, <3>3, <3>6, <4>1, <4>2, PrefixInStep
      <4> QED
        BY <2>3, <3>2, <3>3, <3>6, <4>1, <4>2, <4>3
    <3> QED
      BY <2>6, <3>4, <3>5, <3>6
  <2> QED
    BY <2>7, <2>8
<1>11. \A s \in Serials : s # session /\ s \notin slipped' => InStep(utc'[s], bin'[s])
  BY <1>7, <1>8 DEF Companion
<1> QED
  BY <1>6, <1>9, <1>10, <1>11 DEF Companion

\* Every step keeps each companion in step with its .bin, as far as both go, unless the
\* recording has slipped.
LEMMA CompanionStep ==
    ASSUME IInv, Companion, Next
    PROVE  Companion'
<1>0. /\ TypeOK /\ Control /\ Files /\ Durable
      /\ TaskTypes /\ CardTypes /\ ContentTypes
  BY DEF IInv, TypeOK
<1>a. \A s \in Serials : /\ bin[s] \in Seq(Entries) /\ utc[s] \in Seq(Entries)
                         /\ Prefix(bin[s], bin[s]) /\ Prefix(utc[s], utc[s])
  <2>1. \A s \in Serials : /\ bin[s] \in Seq(Entries) /\ utc[s] \in Seq(Entries)
                           /\ Len(bin[s]) \in Nat /\ Len(utc[s]) \in Nat
    BY <1>0, SamplesAreEntries, LenProperties DEF ContentTypes
  <2> QED
    BY <2>1 DEF Prefix
<1>1. CASE WriterBlock \/ WriterCheckpointWrite \/ WriterDrain
  <2>1. PICK full \in BOOLEAN : write_records(full)
    BY <1>1 DEF WriterBlock, WriterCheckpointWrite, WriterDrain
  <2>2. wpc # "set_idle"
    BY <1>1 DEF WriterBlock, WriterCheckpointWrite, WriterDrain
  <2> QED
    BY <2>1, <2>2, WriteCompanion
<1>2. CASE PowerLoss \/ WriterClose
  <2>1. state' = Idle \/ wpc' = "set_idle"
    BY <1>2, WriterCloseEffect DEF PowerLoss
  <2>2. slipped' = slipped
    BY <1>2, WriterCloseEffect DEF PowerLoss
  <2>3. ASSUME NEW s \in Serials, s \notin slipped PROVE InStep(utc'[s], bin'[s])
    <3>1. InStep(utc[s], bin[s])
      BY <2>3 DEF Companion
    <3>2. /\ bin' \in [Serials -> Seq(Entries)] /\ utc' \in [Serials -> Seq(Samples)]
          /\ Prefix(bin'[s], bin[s]) /\ Prefix(utc'[s], utc[s])
      BY <1>2, WriterCloseEffect, PowerLossEffect
    <3>3. bin'[s] \in Seq(Entries) /\ utc'[s] \in Seq(Entries)
      BY <3>2, SamplesAreEntries
    <3> QED
      BY <1>a, <3>1, <3>2, <3>3, PrefixInStep
  <2> QED
    BY <2>1, <2>2, <2>3 DEF Companion
<1>3. CASE StartRun
  <2>1. /\ bin' = bin /\ utc' = utc /\ session' = created /\ created \in Serials
        /\ bin[created] = <<>> /\ utc[created] = <<>> /\ slipped' = slipped
    BY <1>0, <1>3 DEF StartRun, Files, CardTypes
  <2> QED
    BY <2>1 DEF Companion, InStep
<1>4. CASE CheckpointBin
  <2>1. /\ UNCHANGED <<state, utc, utc_file, session>> /\ state # Idle /\ slipped \subseteq slipped'
        /\ \A s \in Serials : s \notin slipped' => bin'[s] = bin[s]
        /\ wpc # "set_idle"
    BY <1>4, CheckpointBinEffect
  <2>2. session \in Serials
    BY <1>0, <2>1 DEF Control
  <2> QED
    BY <2>1, <2>2 DEF Companion, InStep
<1>5. CASE CheckpointUtc
  <2>1. /\ UNCHANGED <<state, bin, session>> /\ state # Idle /\ slipped \subseteq slipped'
        /\ \A s \in Serials : s \notin slipped' => utc'[s] = utc[s]
        /\ wpc # "set_idle" /\ utc_file' \in {0, utc_file}
    BY <1>5, CheckpointUtcEffect
  <2>2. session \in Serials
    BY <1>0, <2>1 DEF Control
  <2> QED
    BY <2>1, <2>2 DEF Companion, InStep
<1>6. CASE \/ \E p \in Producers : data_logger_enqueue(p)
           \/ (\E n \in Names : StartCheck(n)) \/ StartBin \/ StartUndo
           \/ data_logger_stop \/ data_logger_rename
           \/ WriterReceive \/ WriterTimer \/ WriterStop
  <2>1. /\ UNCHANGED <<bin, utc, session, slipped>> /\ utc_file' = utc_file
        /\ state' # Idle => state # Idle
        /\ wpc' # "set_idle" => wpc # "set_idle"
    BY <1>6 DEF data_logger_enqueue, EnqueueCheck, EnqueueSend, EnqueueRefused, EnqueueCount,
                StartCheck, StartBin, StartUndo, data_logger_stop, data_logger_rename,
                RenameBin, RenameUtc, WriterReceive, WriterTimer, WriterStop
  <2> QED
    BY <2>1 DEF Companion, InStep
<1>7. CASE WriterSetIdle
  <2>1. UNCHANGED <<bin, utc, session, slipped>> /\ state' = Idle
    BY <1>7 DEF WriterSetIdle
  <2> QED
    BY <2>1 DEF Companion, InStep
<1> QED
  BY <1>1, <1>2, <1>3, <1>4, <1>5, <1>6, <1>7 DEF Next, data_logger_start, writer_task

\* Every step keeps each companion beside its own session's .bin.
LEMMA PairsStep ==
    ASSUME IInv, Pairs, Next
    PROVE  Pairs'
<1>0. /\ TypeOK /\ Control /\ Files /\ Durable /\ Moving
      /\ TaskTypes /\ CardTypes /\ ContentTypes /\ SpelledAlike
  BY DEF IInv, TypeOK
<1>1. CASE WriterBlock \/ WriterCheckpointWrite \/ WriterDrain
  <2>1. PICK full \in BOOLEAN : write_records(full)
    BY <1>1 DEF WriterBlock, WriterCheckpointWrite, WriterDrain
  <2>2. UNCHANGED <<binDir, utcDir, created, rpc>> /\ file_mutex = "none"
    BY <2>1 DEF write_records
  <2>3. \A s \in Serials : s # log_file => bin'[s] = bin[s]
    BY <1>0, <2>1, WriteEffect
  <2>4. ASSUME NEW n \in Names PROVE Matches(binDir[n], utcDir[n])'
    <3>1. binDir[n] \in Handles /\ Matches(binDir[n], utcDir[n])
      BY <1>0 DEF CardTypes, Pairs
    <3>2. CASE binDir[n] = log_file /\ log_file # 0
      <4>1. log_file = session /\ log_path \in Names
            /\ binDir[log_path] = session /\ utcDir[log_path] = session
        BY <2>2, <3>2, OpenIsActive
      <4>2. n = log_path
        BY <3>2, <4>1 DEF Pairs
      <4> QED
        BY <2>2, <3>2, <4>1, <4>2 DEF Matches
    <3>3. CASE binDir[n] = 0
      BY <2>2, <3>3 DEF Matches
    <3>4. CASE binDir[n] # 0 /\ binDir[n] # log_file
      BY <2>2, <2>3, <3>1, <3>4 DEF Matches
    <3> QED
      BY <3>2, <3>3, <3>4
  <2>5. rpc' # "utc"
    BY <1>0, <2>2 DEF Control
  <2> QED
    BY <2>2, <2>4, <2>5 DEF Pairs
<1>2. CASE PowerLoss \/ CheckpointBin \/ CheckpointUtc \/ WriterClose
  <2>1. UNCHANGED <<binDir, utcDir, created>>
    BY <1>2, CheckpointBinEffect, CheckpointUtcEffect, WriterCloseEffect DEF PowerLoss
  <2>2. rpc' # "utc"
    <3>1. CASE PowerLoss
      BY <3>1 DEF PowerLoss
    <3>2. CASE CheckpointBin
      BY <1>0, <3>2, CheckpointBinEffect DEF Control
    <3>3. CASE CheckpointUtc
      BY <1>0, <3>3, CheckpointUtcEffect DEF Control
    <3>4. CASE WriterClose
      BY <1>0, <3>4, WriterCloseEffect DEF Control
    <3> QED
      BY <1>2, <3>1, <3>2, <3>3, <3>4
  <2>3. ASSUME NEW s \in Serials, bin[s] = <<>> PROVE bin'[s] = <<>>
    <3>1. CASE CheckpointUtc
      BY <2>3, <3>1, CheckpointUtcEffect
    <3>2. CASE ~CheckpointUtc
      <4>1. bin' \in [Serials -> Seq(Entries)] /\ Prefix(bin'[s], bin[s])
        BY <1>2, <3>2, PowerLossEffect, CheckpointBinEffect, WriterCloseEffect
      <4>2. bin'[s] \in Seq(Entries) /\ bin[s] \in Seq(Entries)
        BY <1>0, <4>1 DEF ContentTypes
      <4> QED
        BY <2>3, <4>1, <4>2, EmptyPrefix
    <3> QED
      BY <3>1, <3>2
  <2>4. \A n \in Names : Matches(binDir[n], utcDir[n])'
    BY <1>0, <2>1, <2>3 DEF CardTypes, Matches, Pairs
  <2> QED
    BY <2>1, <2>2, <2>4 DEF Pairs
<1>3. CASE StartBin
  <2>1. /\ UNCHANGED <<bin, utcDir, rpc>> /\ file_mutex = "none" /\ rpc # "utc"
        /\ cname \in Names
    BY <1>0, <1>3 DEF StartBin, Control
  <2>2. CASE UNCHANGED <<binDir, created>>
    BY <2>1, <2>2 DEF Pairs, Matches
  <2>3. CASE /\ created < MaxFiles /\ created' = created + 1
             /\ binDir' = [binDir EXCEPT ![cname] = created + 1]
    <3>1. created + 1 \in Serials /\ bin[created + 1] = <<>> /\ created \in Nat
      BY <1>0, <2>3, SizesAssumption DEF CardTypes, Files
    <3>2. \A n \in Names : binDir[n] \in Nat /\ binDir[n] =< created
      BY <1>0 DEF CardTypes, Pairs
    <3>3. \A n \in Names : /\ n # cname => binDir'[n] = binDir[n]
                           /\ n = cname => binDir'[n] = created + 1
      BY <1>0, <2>3 DEF CardTypes
    <3>4. \A n \in Names : binDir'[n] =< created'
      BY <2>3, <3>1, <3>2, <3>3
    <3>5. \A m, n \in Names : binDir'[m] = binDir'[n] /\ binDir'[m] # 0 => m = n
      <4> SUFFICES ASSUME NEW m \in Names, NEW n \in Names, binDir'[m] = binDir'[n],
                          binDir'[m] # 0
                   PROVE  m = n
        OBVIOUS
      <4>1. CASE m # cname /\ n # cname
        BY <3>3, <4>1 DEF Pairs
      <4>2. CASE m = cname \/ n = cname
        BY <3>1, <3>2, <3>3, <4>2
      <4> QED
        BY <4>1, <4>2
    <3>6. \A n \in Names : Matches(binDir[n], utcDir[n])'
      <4> SUFFICES ASSUME NEW n \in Names PROVE Matches(binDir[n], utcDir[n])'
        OBVIOUS
      <4>1. CASE n # cname
        BY <2>1, <3>3, <4>1 DEF Pairs, Matches
      <4>2. CASE n = cname
        BY <2>1, <3>1, <3>3, <4>2 DEF Matches
      <4> QED
        BY <4>1, <4>2
    <3> QED
      BY <2>1, <3>4, <3>5, <3>6 DEF Pairs
  <2> QED
    BY <1>3, <2>2, <2>3 DEF StartBin
<1>4. CASE StartRun \/ StartUndo
  <2>1. /\ UNCHANGED <<bin, created, rpc>> /\ rpc # "utc" /\ cname \in Names
        /\ binDir[cname] = log_file
    BY <1>0, <1>4 DEF StartRun, StartUndo, Control, Files
  <2>2. /\ binDir' \in {binDir, [binDir EXCEPT ![cname] = 0]}
        /\ utcDir' \in {utcDir, [utcDir EXCEPT ![cname] = log_file]}
    BY <1>4 DEF StartRun, StartUndo
  <2>3. \A n \in Names : /\ binDir'[n] \in {0, binDir[n]}
                         /\ utcDir'[n] = utcDir[n] \/ (utcDir'[n] = log_file /\ n = cname)
    <3>1. binDir \in [Names -> Handles] /\ utcDir \in [Names -> Handles]
      BY <1>0 DEF CardTypes
    <3> QED
      BY <2>2, <3>1
  <2>4. \A n \in Names : Matches(binDir[n], utcDir[n])'
    BY <2>1, <2>3 DEF Pairs, Matches
  <2>5. \A n \in Names : binDir'[n] =< created'
    <3>1. created \in Nat
      BY <1>0, SizesAssumption DEF CardTypes
    <3> QED
      BY <2>1, <2>3, <3>1 DEF Pairs
  <2>6. \A m, n \in Names : binDir'[m] = binDir'[n] /\ binDir'[m] # 0 => m = n
    BY <2>3 DEF Pairs
  <2> QED
    BY <2>1, <2>4, <2>5, <2>6 DEF Pairs
<1>5. CASE \E old, new \in Names : RenameBin(old, new, TRUE)
  <2>1. PICK old \in Names, new \in Names : RenameBin(old, new, TRUE)
    BY <1>5
  <2>2. /\ UNCHANGED <<bin, utcDir, created>> /\ old # new
        /\ binDir[new] = 0 /\ utcDir[new] = 0
        /\ binDir' = [binDir EXCEPT ![new] = binDir[old], ![old] = 0]
        /\ rpc' = "utc" => rold' = old /\ rnew' = new
    BY <2>1 DEF RenameBin
  <2>3. \A n \in Names : /\ n \notin {old, new} => binDir'[n] = binDir[n]
                         /\ n = old => binDir'[n] = 0
                         /\ n = new => binDir'[n] = binDir[old]
    BY <1>0, <2>2 DEF CardTypes
  <2>4. \A n \in Names : Matches(binDir[n], utcDir[n])'
    BY <2>2, <2>3 DEF Pairs, Matches
  <2>5. \A n \in Names : binDir'[n] =< created'
    <3>1. created \in Nat
      BY <1>0, SizesAssumption DEF CardTypes
    <3> QED
      BY <2>2, <2>3, <3>1 DEF Pairs
  <2>6. \A m, n \in Names : binDir'[m] = binDir'[n] /\ binDir'[m] # 0 => m = n
    BY <2>2, <2>3 DEF Pairs
  <2>7. ASSUME rpc' = "utc" PROVE Matches(binDir[rnew], utcDir[rold])'
    <3>1. binDir'[rnew'] = binDir[old] /\ utcDir'[rold'] = utcDir[old]
      BY <2>2, <2>3, <2>7
    <3>2. Matches(binDir[old], utcDir[old])
      BY DEF Pairs
    <3> QED
      BY <2>2, <3>1, <3>2 DEF Matches
  <2> QED
    BY <2>4, <2>5, <2>6, <2>7 DEF Pairs
<1>6. CASE RenameUtc
  <2>1. /\ UNCHANGED <<bin, created>> /\ rpc = "utc" /\ rpc' = "ready"
        /\ rold \in Names /\ rnew \in Names /\ rold # rnew /\ binDir[rold] = 0
    BY <1>0, <1>6 DEF RenameUtc, Control, Moving
  <2>2. Matches(binDir[rnew], utcDir[rold])
    BY <2>1 DEF Pairs
  <2>3. CASE /\ binDir' = binDir
             /\ utcDir' = [utcDir EXCEPT ![rnew] = utcDir[rold], ![rold] = 0]
    <3>1. \A n \in Names : /\ n \notin {rold, rnew} => utcDir'[n] = utcDir[n]
                           /\ n = rold => utcDir'[n] = 0
                           /\ n = rnew => utcDir'[n] = utcDir[rold]
      BY <1>0, <2>1, <2>3 DEF CardTypes
    <3>2. \A n \in Names : Matches(binDir[n], utcDir[n])'
      BY <2>1, <2>2, <2>3, <3>1 DEF Pairs, Matches
    <3> QED
      BY <2>1, <2>3, <3>2 DEF Pairs
  <2>4. CASE UNCHANGED <<binDir, utcDir>>
    BY <2>1, <2>4 DEF Pairs, Matches
  <2>5. CASE /\ binDir' = [binDir EXCEPT ![rold] = binDir[rnew], ![rnew] = 0]
             /\ utcDir' = utcDir
    <3>1. \A n \in Names : /\ n \notin {rold, rnew} => binDir'[n] = binDir[n]
                           /\ n = rnew => binDir'[n] = 0
                           /\ n = rold => binDir'[n] = binDir[rnew]
      BY <1>0, <2>1, <2>5 DEF CardTypes
    <3>2. \A n \in Names : Matches(binDir[n], utcDir[n])'
      BY <2>1, <2>2, <2>5, <3>1 DEF Pairs, Matches
    <3>3. created \in Nat
      BY <1>0, SizesAssumption DEF CardTypes
    <3>4. \A n \in Names : binDir'[n] =< created'
      BY <2>1, <3>1, <3>3 DEF Pairs
    <3>5. \A m, n \in Names : binDir'[m] = binDir'[n] /\ binDir'[m] # 0 => m = n
      BY <2>1, <3>1 DEF Pairs
    <3> QED
      BY <2>1, <3>2, <3>4, <3>5 DEF Pairs
  <2> QED
    BY <1>6, <2>3, <2>4, <2>5 DEF RenameUtc
<1>7. CASE \/ \E p \in Producers : data_logger_enqueue(p)
           \/ (\E n \in Names : StartCheck(n)) \/ data_logger_stop
           \/ WriterReceive \/ WriterTimer \/ WriterStop \/ WriterSetIdle
  <2>1. UNCHANGED <<bin, binDir, utcDir, created, rpc, rold, rnew>>
    BY <1>7 DEF data_logger_enqueue, EnqueueCheck, EnqueueSend, EnqueueRefused, EnqueueCount,
                StartCheck, data_logger_stop, WriterReceive, WriterTimer, WriterStop,
                WriterSetIdle
  <2> QED
    BY <2>1 DEF Pairs, Matches
<1>r. CASE data_logger_rename
  BY <1>0, <1>5, <1>6, <1>r, RenamesAlike
<1> QED
  BY <1>1, <1>2, <1>3, <1>4, <1>7, <1>r DEF Next, data_logger_start, writer_task

\* Every step keeps the drop counter at or below the drops, and above zero over one.
LEMMA DropCountStep ==
    ASSUME IInv, DropCount, Next
    PROVE  DropCount'
<1>0. ProducerTypes
  BY DEF IInv, TypeOK
<1>1. ASSUME NEW p \in Producers, EnqueueCheck(p) \/ EnqueueSend(p)
      PROVE  DropCount'
  <2>1. /\ UNCHANGED <<queue_drops, refused, seen>> /\ ppc[p] # "count" /\ ppc'[p] # "count"
        /\ \A q \in Producers : q # p => ppc'[q] = ppc[q]
    BY <1>0, <1>1 DEF EnqueueCheck, EnqueueSend, ProducerTypes
  <2> QED
    BY <2>1 DEF DropCount
<1>2. ASSUME NEW p \in Producers, EnqueueRefused(p) PROVE DropCount'
  <2>1. /\ queue_drops' = queue_drops /\ refused' = refused + 1
        /\ queue_drops \in Nat /\ refused \in Nat
        /\ ppc'[p] = "count" /\ seen'[p] = queue_drops
        /\ \A q \in Producers : q # p => ppc'[q] = ppc[q] /\ seen'[q] = seen[q]
        /\ \A q \in Producers : seen[q] \in Nat
    BY <1>0, <1>2 DEF EnqueueRefused, ProducerTypes
  <2>2. queue_drops' =< refused'
    BY <2>1 DEF DropCount
  <2>3. \A q \in Producers : ppc'[q] = "count" => seen'[q] < refused'
    <3> SUFFICES ASSUME NEW q \in Producers, ppc'[q] = "count" PROVE seen'[q] < refused'
      OBVIOUS
    <3>1. CASE q = p
      BY <2>1, <3>1 DEF DropCount
    <3>2. CASE q # p
      <4>1. seen[q] < refused
        BY <2>1, <3>2 DEF DropCount
      <4> QED
        BY <2>1, <3>2, <4>1
    <3> QED
      BY <3>1, <3>2
  <2> QED
    BY <2>1, <2>2, <2>3 DEF DropCount
<1>3. ASSUME NEW p \in Producers, EnqueueCount(p) PROVE DropCount'
  <2>1. /\ queue_drops' = seen[p] + 1 /\ refused' = refused /\ refused \in Nat
        /\ ppc[p] = "count" /\ ppc'[p] = "ready" /\ seen[p] \in Nat
        /\ \A q \in Producers : q # p => ppc'[q] = ppc[q] /\ seen'[q] = seen[q]
    BY <1>0, <1>3 DEF EnqueueCount, ProducerTypes
  <2>2. queue_drops' =< refused' /\ queue_drops' > 0
    <3>1. seen[p] < refused
      BY <2>1 DEF DropCount
    <3> QED
      BY <2>1, <3>1
  <2>3. \A q \in Producers : ppc'[q] = "count" => seen'[q] < refused'
    BY <2>1 DEF DropCount
  <2> QED
    BY <2>2, <2>3 DEF DropCount
<1>4. CASE PowerLoss
  BY <1>4 DEF PowerLoss, DropCount
<1>5. CASE data_logger_start \/ data_logger_stop \/ data_logger_rename \/ writer_task
  <2>1. UNCHANGED <<queue_drops, refused, seen, ppc>>
    BY <1>5 DEF data_logger_start, StartCheck, StartBin, StartRun, StartUndo,
                data_logger_stop, data_logger_rename, RenameBin, RenameUtc,
                writer_task, WriterReceive, WriterBlock, WriterTimer,
                WriterCheckpointWrite, CheckpointBin, CheckpointUtc, WriterStop, WriterDrain,
                WriterClose, WriterSetIdle, write_records
  <2> QED
    BY <2>1 DEF DropCount
<1> QED
  BY <1>1, <1>2, <1>3, <1>4, <1>5 DEF Next, data_logger_enqueue

\* The web page's drop counter never exceeds the drops and, once the producers that
\* counted are done, is not zero over a loss, however many tasks meet a full queue at
\* once (queue_drops++ is not atomic).
THEOREM DropsAreShown == ASSUME SpelledAlike PROVE Spec => []DropsShow
<1>1. Init => DropCount
  BY DEF Init, DropCount
<1>2. IInv /\ DropCount /\ [Next]_vars => DropCount'
  <2>1. CASE Next
    BY <2>1, DropCountStep
  <2>2. CASE UNCHANGED vars
    BY <2>2 DEF DropCount, vars
  <2> QED
    BY <2>1, <2>2
<1>3. DropCount => DropsShow
  BY DEF DropCount, DropsShow
<1> QED
  BY <1>1, <1>2, <1>3, Invariance, PTL DEF Spec

\* No companion ever stands beside another session's records.
LEMMA PairsHold == ASSUME SpelledAlike PROVE Spec => []Pairs
<1>1. Init => Pairs
  BY DEF Init, Pairs, Matches
<1>2. IInv /\ Pairs /\ [Next]_vars => Pairs'
  <2>1. CASE Next
    BY <2>1, PairsStep
  <2>2. CASE UNCHANGED vars
    BY <2>2 DEF Pairs, Matches, vars
  <2> QED
    BY <2>1, <2>2
<1> QED
  BY <1>1, <1>2, Invariance, PTL DEF Spec

\* Whoever reads a .bin with the companion beside it pairs each record with its own
\* UTC entry, whatever short writes, failed closes at the end, checkpoints, renames,
\* half-failed starts and power losses came before, unless that .bin or companion lost
\* something in a flush or a checkpoint close that failed unnoticed.
THEOREM EntriesAligned == ASSUME SpelledAlike PROVE Spec => []UtcAligned
<1>1. Init => Companion
  BY DEF Init, Companion, InStep
<1>2. IInv /\ Companion /\ [Next]_vars => Companion'
  <2>1. CASE Next
    BY <2>1, CompanionStep
  <2>2. CASE UNCHANGED vars
    BY <2>2 DEF Companion, InStep, vars
  <2> QED
    BY <2>1, <2>2
<1>3. IInv /\ Companion /\ Pairs => UtcAligned
  <2> SUFFICES ASSUME IInv, Companion, Pairs, NEW n \in Names, binDir[n] \notin slipped,
                      binDir[n] # 0, utcDir[n] # 0,
                      NEW i \in 1 .. Len(bin[binDir[n]]), i =< Len(utc[utcDir[n]])
               PROVE  utc[utcDir[n]][i] = bin[binDir[n]][i]
    BY DEF UtcAligned, Aligned
  <2>1. binDir[n] \in Serials
    BY DEF IInv, TypeOK, CardTypes
  <2>2. binDir[n] = utcDir[n] \/ bin[binDir[n]] = <<>>
    BY DEF Pairs, Matches
  <2>3. bin[binDir[n]] # <<>>
    OBVIOUS
  <2> QED
    BY <2>1, <2>2, <2>3 DEF Companion, InStep
<1> QED
  BY <1>1, <1>2, <1>3, Invariance, PairsHold, PTL DEF Spec

===============================================================================
