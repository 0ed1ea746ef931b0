-------------------------------- MODULE Wal ---------------------------------
(***************************************************************************)
(* The write-ahead log of kvstore.c: wal_append, rotate_wal and what a     *)
(* process crash leaves on disk for wal_replay.                            *)
(*                                                                         *)
(* A record is the serial number of the wal_append call that wrote it;     *)
(* file[i] is the set of records in wal.log.i, and file[0] those in        *)
(* wal.log.  An absent file is an empty set: the only file that can exist  *)
(* empty is the wal.log that rotate_wal creates, and wal.log is renamed    *)
(* only right after a record went into it.  rotate_wal takes one step per  *)
(* rename, so the process can crash between any two of them.               *)
(***************************************************************************)
EXTENDS Integers, FiniteSets

CONSTANTS
  WAL_MAX_ARCHIVE,
  WAL_MAX_SIZE,    \* in records
  FopenMayFail,    \* may fopen fail (descriptors, permissions, space)
  RenameMayFail,   \* may a rename of an existing file fail
  MaxAppends,      \* bound on the calls of wal_append
  MaxCrashes       \* bound on the crashes

ASSUME ArchiveAssumption == WAL_MAX_ARCHIVE \in Nat \ {0}
ASSUME SizeAssumption == WAL_MAX_SIZE \in Nat
ASSUME FailAssumption == FopenMayFail \in BOOLEAN /\ RenameMayFail \in BOOLEAN
ASSUME BoundAssumption == MaxAppends \in Nat /\ MaxCrashes \in Nat

VARIABLES
  file,        \* the records in wal.log (0) and in each archive
  wal_fp,      \* is wal.log open
  walpc,       \* "idle", "rotate", "create", or "down" after a crash
  i,           \* the archive rotate_wal renames next (0: wal.log itself)
  next,        \* the serial of the next record
  unlogged,    \* records that no file ever got
  rotations,   \* rotations begun
  crashes

walvars == <<file, wal_fp, walpc, i, next, unlogged, rotations, crashes>>

FileNo == 0 .. WAL_MAX_ARCHIVE

WalInit ==
  /\ file = [n \in FileNo |-> {}]
  /\ wal_fp = FALSE /\ walpc = "idle" /\ i = 0
  /\ next = 0 /\ unlogged = {}
  /\ rotations = 0 /\ crashes = 0

-----------------------------------------------------------------------------
\* A plausible slip: the size is tested before the line is written.
Write_TestsFirst ==
  /\ file' = [file EXCEPT ![0] = @ \cup {next}]
  /\ IF Cardinality(file[0]) > WAL_MAX_SIZE
     THEN /\ wal_fp' = FALSE /\ walpc' = "rotate" /\ i' = WAL_MAX_ARCHIVE - 1
          /\ rotations' = rotations + 1
     ELSE wal_fp' = TRUE /\ UNCHANGED <<walpc, i, rotations>>
  /\ UNCHANGED unlogged

\* The fprintf and fflush, and the test of the size that begins a rotation;
\* the descriptor is closed before the first rename.
Write ==
  /\ file' = [file EXCEPT ![0] = @ \cup {next}]
  /\ IF Cardinality(file'[0]) > WAL_MAX_SIZE
     THEN /\ wal_fp' = FALSE /\ walpc' = "rotate" /\ i' = WAL_MAX_ARCHIVE - 1
          /\ rotations' = rotations + 1
     ELSE wal_fp' = TRUE /\ UNCHANGED <<walpc, i, rotations>>
  /\ UNCHANGED unlogged

\* wal.log cannot be opened: the record is dropped, and nobody is told.
Skip ==
  /\ FopenMayFail /\ ~wal_fp
  /\ unlogged' = unlogged \cup {next}
  /\ UNCHANGED <<file, wal_fp, walpc, i, rotations>>

wal_append ==
  /\ walpc = "idle" /\ next < MaxAppends
  /\ Write \/ Skip
  /\ next' = next + 1
  /\ UNCHANGED crashes

\* A plausible slip: archive n is copied up and stays where it was.
Renamed_Copies(n) == [file EXCEPT ![n + 1] = file[n]]

\* rename replaces the target; without a source it does nothing.
Renamed(n) ==
  IF file[n] = {} THEN file ELSE [file EXCEPT ![n + 1] = file[n], ![n] = {}]

\* Plausible slips: the archives are moved lowest number first; the loop
\* variable is not decremented.
rotate_wal_Upwards ==
  /\ walpc = "rotate"
  /\ LET n == WAL_MAX_ARCHIVE - 1 - i IN file' = Renamed(n)
  /\ IF i > 0 THEN i' = i - 1 /\ UNCHANGED walpc ELSE walpc' = "create" /\ UNCHANGED i
  /\ UNCHANGED <<wal_fp, next, unlogged, rotations, crashes>>

rotate_wal_NoDecrement ==
  /\ walpc = "rotate"
  /\ file' = Renamed(i)
  /\ IF i > 0 THEN UNCHANGED <<i, walpc>> ELSE walpc' = "create" /\ UNCHANGED i
  /\ UNCHANGED <<wal_fp, next, unlogged, rotations, crashes>>

\* One rename of rotate_wal, from wal.log.i to wal.log.(i+1); the last one,
\* i = 0, moves wal.log.  The result of rename is ignored.
rotate_wal ==
  /\ walpc = "rotate"
  /\ file' = Renamed(i) \/ (RenameMayFail /\ file' = file)
  /\ IF i > 0 THEN i' = i - 1 /\ UNCHANGED walpc ELSE walpc' = "create" /\ UNCHANGED i
  /\ UNCHANGED <<wal_fp, next, unlogged, rotations, crashes>>

\* fopen("wal.log", "w") truncates what is there.
rotate_wal_create ==
  /\ walpc = "create"
  /\ file' = [file EXCEPT ![0] = {}] \/ (FopenMayFail /\ file' = file)
  /\ walpc' = "idle"
  /\ UNCHANGED <<wal_fp, i, next, unlogged, rotations, crashes>>

\* The process dies.  What was flushed stays in the files.
WalCrash ==
  /\ walpc # "down" /\ crashes < MaxCrashes
  /\ walpc' = "down" /\ wal_fp' = FALSE
  /\ crashes' = crashes + 1
  /\ UNCHANGED <<file, i, next, unlogged, rotations>>

\* The process starts again; wal_replay only reads.
WalRestart ==
  /\ walpc = "down"
  /\ walpc' = "idle"
  /\ UNCHANGED <<file, wal_fp, i, next, unlogged, rotations, crashes>>

\* The bound on the appends is reached and the model, not the program, stops.
WalAtBound == walpc = "idle" /\ next = MaxAppends /\ UNCHANGED walvars

WalNext ==
  \/ wal_append \/ rotate_wal \/ rotate_wal_create
  \/ WalCrash \/ WalRestart \/ WalAtBound

WalSpec == WalInit /\ [][WalNext]_walvars

\* rotate_wal runs to its end, and a process that died is started again.
WalFairSpec ==
  WalSpec /\ WF_walvars(rotate_wal \/ rotate_wal_create) /\ WF_walvars(WalRestart)

-----------------------------------------------------------------------------
Retained == UNION {file[n] : n \in FileNo}

Lost == (0 .. next - 1) \ (Retained \cup unlogged)

\* The state has the types the declarations of kvstore.c give it, and no file
\* holds a record that was not written.
WalTypeOK ==
  /\ file \in [FileNo -> SUBSET (0 .. next - 1)]
  /\ wal_fp \in BOOLEAN
  /\ walpc \in {"idle", "rotate", "create", "down"}
  /\ i \in 0 .. WAL_MAX_ARCHIVE - 1
  /\ next \in Nat /\ rotations \in Nat /\ crashes \in Nat
  /\ unlogged \subseteq 0 .. next - 1

\* Reading the archives from the highest number down and wal.log last, as
\* wal_replay does, meets the records in the order of their wal_append
\* calls: whatever rotation was cut short by a crash, and even when renames
\* failed, no file holds a record younger than one in a lower-numbered file.
ReplayOrder ==
  \A m, n \in FileNo : m < n => \A a \in file[m], b \in file[n] : b < a

\* rotate_wal gives up only the oldest records: a record that a file once
\* had and no file has now is older than every record still there, also
\* after rotations that a crash cut short.
OldestLost == \A a \in Lost, b \in Retained : a < b

\* A record survives WAL_MAX_ARCHIVE rotations: nothing is lost before
\* rotate_wal was entered more often than there are archives, crashes in the
\* middle of it included.
SurvivesRotations == Lost # {} => rotations > WAL_MAX_ARCHIVE

\* No log file exceeds WAL_MAX_SIZE by more than the record that reached it
\* and one record for each crash that came between a write and its rotation.
FilesBounded ==
  \A n \in FileNo : Cardinality(file[n]) <= WAL_MAX_SIZE + 1 + crashes

\* A rotate_wal that is under way gets to its end, and wal_append then starts
\* an empty wal.log, unless the process dies first.
RotationEnds ==
  walpc = "rotate" ~> walpc = "down" \/ (walpc = "idle" /\ file[0] = {})

=============================================================================
