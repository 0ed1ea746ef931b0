------------------------------- MODULE WalLog -------------------------------
(***************************************************************************)
(* The files of Wal, read the way wal_replay reads them, are a DurableLog. *)
(***************************************************************************)
EXTENDS Wal, SequencesExt

\* The records of one file in the order they were appended to it.
Lines(f) ==
  [n \in 1 .. Cardinality(f) |-> CHOOSE r \in f : Cardinality({s \in f : s <= r}) = n]

\* A plausible slip: wal.log is read before the archives.
ReplayFiles_NewestFirst ==
  [n \in 1 .. WAL_MAX_ARCHIVE + 1 |-> IF n = 1 THEN 0 ELSE WAL_MAX_ARCHIVE + 2 - n]

\* The files in the order wal_replay reads them: wal.log.N down to wal.log.1,
\* then wal.log.
ReplayFiles == [n \in 1 .. WAL_MAX_ARCHIVE + 1 |-> WAL_MAX_ARCHIVE + 1 - n]

ReplayedRecords == FlattenSeq([n \in DOMAIN ReplayFiles |-> Lines(file[ReplayFiles[n]])])

DL == INSTANCE DurableLog WITH log <- ReplayedRecords, serial <- next

\* What wal_replay would read is, at every moment and after every crash, a
\* log that only grows at its end and loses records only at its beginning:
\* no single rename of rotate_wal reorders, duplicates or drops a record in
\* the middle.
ImplementsDurableLog == DL!Spec

=============================================================================
