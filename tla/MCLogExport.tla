----------------------------- MODULE MCLogExport -----------------------------
(* Instances for TLC of the recorder, of the recorder with its readers, and of the
   CSV exports: `unit` says which of them a behaviour belongs to.
   Producers and names are interchangeable: no definition of DataLogger or
   LogExport tells one member of either set from another. *)
EXTENDS LogExport, PairedCsv, TLC

VARIABLE unit

\* Bound: samples of a recorder with failures; samples and SD failures of one with readers.
FewSamples == 3

UnitsInit ==
    /\ Init /\ ReaderInit /\ CsvInit
    /\ unit \in {"racing", "failing", "readers", "csv"}
    /\ unit # "csv" => format = "csv" /\ base = 0 /\ utc_length = 0

\* Bound: one call of data_logger_enqueue at a time.
OneProducer == Cardinality({p \in Producers : ppc'[p] # "ready"}) =< 1

\* The recorder with producers that race, but nothing that fails; with failures and power
\* losses; and with readers of the card as well.
RacingNext == Next /\ crashes' = 0 /\ faults' = 0 /\ UNCHANGED reader

FailingNext == Next /\ OneProducer /\ samples' =< FewSamples /\ UNCHANGED reader

ReadersNext == ExportNext /\ OneProducer /\ samples' + faults' =< FewSamples /\ faults' =< 1

UnitsNext ==
    \/ unit = "racing" /\ RacingNext /\ UNCHANGED <<csvVars, unit>>
    \/ unit = "failing" /\ FailingNext /\ UNCHANGED <<csvVars, unit>>
    \/ unit = "readers" /\ ReadersNext /\ UNCHANGED <<csvVars, unit>>
    \/ unit = "csv" /\ CsvNext /\ UNCHANGED <<vars, reader, unit>>

UnitsSpec == UnitsInit /\ [][UnitsNext]_<<vars, reader, csvVars, unit>>

Symmetry == Permutations(Producers) \cup Permutations(Names)
================================================================================
