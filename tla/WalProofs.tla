----------------------------- MODULE WalProofs ------------------------------
(***************************************************************************)
(* Theorems about the write-ahead log, for every number of archives, every *)
(* size limit, and every number of appends and crashes.                    *)
(***************************************************************************)
EXTENDS Wal, TLAPS, FiniteSetTheorems

\* The type invariant of the log holds in every state the program reaches.
THEOREM WalTypeCorrect == WalSpec => []WalTypeOK
<1>1. WalInit => WalTypeOK
  <2> SUFFICES ASSUME WalInit PROVE WalTypeOK
    OBVIOUS
  <2>1. file \in [FileNo -> SUBSET (0 .. next - 1)]
    BY DEF WalInit
  <2>2. next \in Nat /\ rotations \in Nat /\ crashes \in Nat /\ i \in 0 .. WAL_MAX_ARCHIVE - 1
    BY ArchiveAssumption DEF WalInit
  <2> QED
    BY <2>1, <2>2, Zenon DEF WalInit, WalTypeOK
<1>2. WalTypeOK /\ [WalNext]_walvars => WalTypeOK'
  <2> SUFFICES ASSUME WalTypeOK, [WalNext]_walvars PROVE WalTypeOK'
    OBVIOUS
  <2> USE ArchiveAssumption DEF WalTypeOK, FileNo
  <2>1. CASE wal_append
    <3>1. next' = next + 1 /\ next' \in Nat /\ next \in 0 .. next' - 1 /\ crashes' = crashes
      BY <2>1 DEF wal_append
    <3>2. 0 .. next - 1 \subseteq 0 .. next' - 1
      BY <3>1
    <3>3. CASE Write
      <4>1. file' \in [FileNo -> SUBSET (0 .. next' - 1)]
        BY <3>1, <3>2, <3>3 DEF Write
      <4>2. walpc' \in {"idle", "rotate", "create", "down"} /\ wal_fp' \in BOOLEAN
        BY <3>3, Zenon DEF Write
      <4>3. i' \in 0 .. WAL_MAX_ARCHIVE - 1 /\ rotations' \in Nat
        BY <3>3 DEF Write
      <4>4. unlogged' \subseteq 0 .. next' - 1
        BY <3>2, <3>3 DEF Write
      <4> QED
        BY <3>1, <4>1, <4>2, <4>3, <4>4
    <3>4. CASE Skip
      BY <3>1, <3>2, <3>4, <2>1 DEF wal_append, Skip
    <3> QED
      BY <2>1, <3>3, <3>4 DEF wal_append
  <2>2. CASE rotate_wal
    BY <2>2, SMTT(30) DEF rotate_wal, Renamed
  <2>3. CASE rotate_wal_create
    BY <2>3 DEF rotate_wal_create
  <2>4. CASE WalCrash
    <3>1. crashes' \in Nat
      BY <2>4 DEF WalCrash
    <3>2. wal_fp' \in BOOLEAN /\ walpc' \in {"idle", "rotate", "create", "down"}
      BY <2>4, Zenon DEF WalCrash
    <3> QED
      BY <2>4, <3>1, <3>2 DEF WalCrash
  <2>5. CASE WalRestart
    BY <2>5 DEF WalRestart
  <2>6. CASE WalAtBound \/ UNCHANGED walvars
    BY <2>6, Zenon DEF WalAtBound, walvars
  <2> QED
    BY <2>1, <2>2, <2>3, <2>4, <2>5, <2>6 DEF WalNext
<1> QED
  BY <1>1, <1>2, PTL DEF WalSpec

\* wal_replay meets the records in the order they were appended, whichever
\* rename of rotate_wal a crash came after and whichever renames failed.
THEOREM ReplayOrderHolds == WalSpec => []ReplayOrder
<1>1. WalInit => ReplayOrder
  BY DEF WalInit, ReplayOrder, FileNo
<1>2. WalTypeOK /\ ReplayOrder /\ [WalNext]_walvars => ReplayOrder'
  <2> SUFFICES ASSUME WalTypeOK, ReplayOrder, [WalNext]_walvars PROVE ReplayOrder'
    OBVIOUS
  <2> USE ArchiveAssumption DEF WalTypeOK, ReplayOrder, FileNo
  <2>1. CASE wal_append
    BY <2>1 DEF wal_append, Write, Skip
  <2>2. CASE rotate_wal
    <3>1. CASE file' = file
      BY <3>1
    <3>2. CASE file[i] # {} /\ file' = [file EXCEPT ![i + 1] = file[i], ![i] = {}]
      <4>1. file'[i] = {} /\ file'[i + 1] = file[i]
        BY <3>2
      <4>2. \A n \in FileNo : n # i /\ n # i + 1 => file'[n] = file[n]
        BY <3>2
      <4> QED
        BY <4>1, <4>2, SMTT(30)
    <3> QED
      BY <2>2, <3>1, <3>2 DEF rotate_wal, Renamed
  <2>3. CASE rotate_wal_create
    BY <2>3 DEF rotate_wal_create
  <2>4. CASE WalCrash \/ WalRestart \/ WalAtBound \/ UNCHANGED walvars
    BY <2>4 DEF WalCrash, WalRestart, WalAtBound, walvars
  <2> QED
    BY <2>1, <2>2, <2>3, <2>4 DEF WalNext
<1> QED
  BY <1>1, <1>2, WalTypeCorrect, PTL DEF WalSpec

-----------------------------------------------------------------------------
(* What rotate_wal keeps, as long as no rename of an existing file fails.  *)

\* The renames already made in this rotation left room for the next one.
Gap ==
  /\ walpc = "rotate" => \A n \in FileNo : n = i + 1 /\ n < WAL_MAX_ARCHIVE => file[n] = {}
  /\ walpc = "create" => file[0] = {}

\* How far up the records can be after so many rotations; the files that
\* this rotation has not moved yet are one step behind.
InReach ==
  /\ \A n \in FileNo : file[n] # {} => n <= rotations
  /\ walpc = "rotate" => \A n \in FileNo : n <= i + 1 /\ file[n] # {} => n < rotations

\* The strengthening that makes OldestLost and SurvivesRotations inductive.
Kept == Gap /\ InReach /\ OldestLost /\ SurvivesRotations

LEMMA GapStep ==
  ASSUME ~RenameMayFail, WalTypeOK, Gap, [WalNext]_walvars
  PROVE  Gap'
<1> USE ArchiveAssumption DEF WalTypeOK, Gap, FileNo
<1>1. CASE wal_append
  BY <1>1 DEF wal_append, Write, Skip
<1>2. CASE rotate_wal
  BY <1>2 DEF rotate_wal, Renamed
<1>3. CASE rotate_wal_create \/ WalCrash \/ WalRestart
  BY <1>3 DEF rotate_wal_create, WalCrash, WalRestart
<1>4. CASE WalAtBound \/ UNCHANGED walvars
  BY <1>4 DEF WalAtBound, walvars
<1> QED
  BY <1>1, <1>2, <1>3, <1>4 DEF WalNext

LEMMA InReachStep ==
  ASSUME ~RenameMayFail, WalTypeOK, InReach, [WalNext]_walvars
  PROVE  InReach'
<1> USE ArchiveAssumption DEF WalTypeOK, InReach, FileNo
<1>1. CASE wal_append
  <2>1. CASE Write
    <3>1. file'[0] # {} /\ \A n \in FileNo : n # 0 => file'[n] = file[n]
      BY <2>1 DEF Write
    <3> QED
      BY <1>1, <2>1, <3>1 DEF wal_append, Write
  <2>2. CASE Skip
    BY <1>1, <2>2 DEF wal_append, Skip
  <2> QED
    BY <1>1, <2>1, <2>2 DEF wal_append
<1>2. CASE rotate_wal
  <2>1. CASE file[i] = {}
    BY <1>2, <2>1 DEF rotate_wal, Renamed
  <2>2. CASE file[i] # {}
    <3>1. file'[i] = {} /\ i + 1 <= rotations
      BY <1>2, <2>2 DEF rotate_wal, Renamed
    <3>2. \A n \in FileNo : n # i /\ n # i + 1 => file'[n] = file[n]
      BY <1>2, <2>2 DEF rotate_wal, Renamed
    <3> QED
      BY <1>2, <3>1, <3>2 DEF rotate_wal
  <2> QED
    BY <2>1, <2>2
<1>3. CASE rotate_wal_create \/ WalCrash \/ WalRestart
  BY <1>3 DEF rotate_wal_create, WalCrash, WalRestart
<1>4. CASE WalAtBound \/ UNCHANGED walvars
  BY <1>4, SMTT(30) DEF WalAtBound, walvars
<1> QED
  BY <1>1, <1>2, <1>3, <1>4 DEF WalNext

\* A step loses records only by renaming the last archive but one: those of
\* the last archive, in the first step of a rotation.
LEMMA StepLoses ==
  ASSUME ~RenameMayFail, WalTypeOK, Gap, [WalNext]_walvars
  PROVE  \/ Lost' \subseteq Lost /\ Retained' \subseteq Retained \cup {next}
         \/ /\ rotate_wal /\ i + 1 = WAL_MAX_ARCHIVE /\ file[i] # {}
            /\ Lost' \subseteq Lost \cup file[WAL_MAX_ARCHIVE]
            /\ \A b \in Retained' : \E n \in 0 .. WAL_MAX_ARCHIVE - 1 : b \in file[n]
<1> USE ArchiveAssumption DEF WalTypeOK, FileNo
<1>1. \A r : r \in Retained <=> \E n \in FileNo : r \in file[n]
  BY DEF Retained
<1>2. \A r : r \in Retained' <=> \E n \in FileNo : r \in file'[n]
  BY DEF Retained
<1>3. CASE wal_append /\ Write
  <2>1. next \in file'[0] /\ file[0] \subseteq file'[0] /\ file'[0] \subseteq file[0] \cup {next}
    BY <1>3 DEF Write
  <2>2. \A n \in FileNo : n # 0 => file'[n] = file[n]
    BY <1>3 DEF Write
  <2>3. Retained' \subseteq Retained \cup {next} /\ Retained \subseteq Retained' /\ next \in Retained'
    BY <1>1, <1>2, <2>1, <2>2
  <2>4. next' = next + 1 /\ unlogged' = unlogged
    BY <1>3 DEF wal_append, Write
  <2> QED
    BY <2>3, <2>4 DEF Lost
<1>4. CASE wal_append /\ Skip
  <2>1. Retained' = Retained
    BY <1>1, <1>2, <1>4, Zenon DEF Skip
  <2>2. next' = next + 1 /\ unlogged' = unlogged \cup {next}
    BY <1>4 DEF wal_append, Skip
  <2> QED
    BY <2>1, <2>2 DEF Lost
<1>5. CASE rotate_wal /\ file[i] # {}
  <2>1. next' = next /\ unlogged' = unlogged
    BY <1>5 DEF rotate_wal
  <2>2. file'[i] = {} /\ file'[i + 1] = file[i]
    BY <1>5 DEF rotate_wal, Renamed
  <2>3. \A n \in FileNo : n # i /\ n # i + 1 => file'[n] = file[n]
    BY <1>5 DEF rotate_wal, Renamed
  <2>4. CASE i + 1 < WAL_MAX_ARCHIVE
    <3>1. file[i + 1] = {}
      BY <1>5, <2>4 DEF Gap, rotate_wal
    <3>2. i \in FileNo /\ i + 1 \in FileNo
      BY <2>4
    <3>3. ASSUME NEW r \in Retained PROVE r \in Retained'
      BY <1>1, <1>2, <2>2, <2>3, <3>1, <3>2
    <3>4. ASSUME NEW r \in Retained' PROVE r \in Retained
      BY <1>1, <1>2, <2>2, <2>3, <3>2
    <3> QED
      BY <2>1, <3>3, <3>4 DEF Lost
  <2>5. CASE i + 1 = WAL_MAX_ARCHIVE
    <3>1. \A r \in Retained : r \in Retained' \/ r \in file[WAL_MAX_ARCHIVE]
      BY <1>1, <1>2, <2>2, <2>3, <2>5
    <3>2. \A r \in Retained' : \E n \in 0 .. WAL_MAX_ARCHIVE - 1 : r \in file[n]
      BY <1>2, <2>2, <2>3, <2>5
    <3> QED
      BY <1>5, <2>1, <2>5, <3>1, <3>2 DEF Lost
  <2> QED
    BY <2>4, <2>5
<1>6. CASE file' = file /\ next' = next /\ unlogged' = unlogged
  BY <1>6 DEF Lost, Retained
<1>7. CASE rotate_wal_create
  <2>1. file' = file
    BY <1>7, Zenon DEF rotate_wal_create, Gap
  <2> QED
    BY <1>6, <1>7, <2>1 DEF rotate_wal_create
<1> QED
  BY <1>3, <1>4, <1>5, <1>6, <1>7, SMTT(30)
  DEF WalNext, wal_append, rotate_wal, Renamed, WalCrash, WalRestart, WalAtBound, walvars

LEMMA KeptStep ==
  ASSUME ~RenameMayFail, WalTypeOK, ReplayOrder, Kept, [WalNext]_walvars
  PROVE  Kept'
<1>1. Gap' /\ InReach'
  BY GapStep, InReachStep DEF Kept
<1>2. rotations' >= rotations /\ rotations \in Nat /\ rotations' \in Nat
  BY DEF WalNext, wal_append, Write, Skip, rotate_wal, rotate_wal_create, WalCrash,
         WalRestart, WalAtBound, walvars, WalTypeOK
<1>3. CASE Lost' \subseteq Lost /\ Retained' \subseteq Retained \cup {next}
  <2>1. OldestLost'
    BY <1>3 DEF Kept, OldestLost, Lost, WalTypeOK
  <2>2. SurvivesRotations'
    BY <1>2, <1>3, ArchiveAssumption DEF Kept, SurvivesRotations
  <2> QED
    BY <1>1, <2>1, <2>2 DEF Kept
<1>4. CASE /\ rotate_wal /\ i + 1 = WAL_MAX_ARCHIVE /\ file[i] # {}
           /\ Lost' \subseteq Lost \cup file[WAL_MAX_ARCHIVE]
           /\ \A b \in Retained' : \E n \in 0 .. WAL_MAX_ARCHIVE - 1 : b \in file[n]
  <2>1. OldestLost'
    <3> SUFFICES ASSUME NEW a \in Lost', NEW b \in Retained' PROVE a < b
      BY DEF OldestLost
    <3>1. PICK n \in 0 .. WAL_MAX_ARCHIVE - 1 : b \in file[n]
      BY <1>4
    <3>2. n \in FileNo /\ WAL_MAX_ARCHIVE \in FileNo /\ n < WAL_MAX_ARCHIVE
      BY ArchiveAssumption DEF FileNo
    <3>3. b \in Retained
      BY <3>1, <3>2 DEF Retained
    <3>4. CASE a \in Lost
      BY <3>3, <3>4 DEF Kept, OldestLost
    <3>5. CASE a \in file[WAL_MAX_ARCHIVE]
      BY <3>1, <3>2, <3>5 DEF ReplayOrder
    <3> QED
      BY <1>4, <3>4, <3>5
  <2>2. SurvivesRotations'
    <3>1. CASE file[WAL_MAX_ARCHIVE] = {}
      BY <1>2, <1>4, <3>1, ArchiveAssumption DEF Kept, SurvivesRotations
    <3>2. CASE file[WAL_MAX_ARCHIVE] # {}
      BY <1>2, <1>4, <3>2, ArchiveAssumption DEF Kept, InReach, SurvivesRotations, rotate_wal, FileNo
    <3> QED
      BY <3>1, <3>2
  <2> QED
    BY <1>1, <2>1, <2>2 DEF Kept
<1> QED
  BY <1>3, <1>4, StepLoses DEF Kept

\* As long as no rename fails, rotate_wal gives up only the oldest records
\* and none before it was entered more often than there are archives,
\* wherever in a rotation the process crashed.
THEOREM RotationKeepsRecent ==
  ASSUME ~RenameMayFail
  PROVE  WalSpec => [](OldestLost /\ SurvivesRotations)
<1>1. WalInit => Kept
  BY ArchiveAssumption DEF WalInit, Kept, Gap, InReach, OldestLost, SurvivesRotations, Lost, FileNo
<1>2. WalTypeOK /\ ReplayOrder /\ Kept /\ [WalNext]_walvars => Kept'
  BY KeptStep
<1>3. Kept => OldestLost /\ SurvivesRotations
  BY DEF Kept
<1> QED
  BY <1>1, <1>2, <1>3, WalTypeCorrect, ReplayOrderHolds, PTL DEF WalSpec

-----------------------------------------------------------------------------
(* The size of the files.                                                  *)

\* A wal.log that no rotation is working on is within the limit, but for one
\* record left behind by each crash before a rotation.
Sizes ==
  /\ FilesBounded
  /\ walpc \in {"idle", "down"} => Cardinality(file[0]) <= WAL_MAX_SIZE + crashes

LEMMA FilesFinite ==
  ASSUME WalTypeOK, NEW n \in FileNo
  PROVE  IsFiniteSet(file[n]) /\ Cardinality(file[n]) \in Nat
<1>1. IsFiniteSet(0 .. next - 1)
  BY FS_Interval DEF WalTypeOK
<1>2. file[n] \subseteq 0 .. next - 1
  BY DEF WalTypeOK
<1>3. IsFiniteSet(file[n])
  BY <1>1, <1>2, FS_Subset, Zenon
<1> QED
  BY <1>3, FS_CardinalityType

LEMMA SizesStep ==
  ASSUME ~RenameMayFail, WalTypeOK, Gap, Sizes, [WalNext]_walvars
  PROVE  Sizes'
<1> USE ArchiveAssumption, SizeAssumption
<1>0. 0 \in FileNo /\ crashes \in Nat /\ Cardinality({}) = 0
  BY FS_EmptySet DEF WalTypeOK, FileNo
<1>1. CASE wal_append /\ Write
  <2>1. Cardinality(file[0] \cup {next}) \in Nat
        /\ Cardinality(file[0] \cup {next}) <= Cardinality(file[0]) + 1
    <3>1. IsFiniteSet(file[0]) /\ Cardinality(file[0]) \in Nat
      BY <1>0, FilesFinite
    <3>2. Cardinality(file[0] \cup {next})
            = IF next \in file[0] THEN Cardinality(file[0]) ELSE Cardinality(file[0]) + 1
      BY <3>1, FS_AddElement, Zenon
    <3> QED
      BY <3>1, <3>2
  <2>2. file'[0] = file[0] \cup {next} /\ \A n \in FileNo : n # 0 => file'[n] = file[n]
    BY <1>0, <1>1 DEF Write, WalTypeOK
  <2>3. Cardinality(file[0]) <= WAL_MAX_SIZE + crashes /\ Cardinality(file[0]) \in Nat
    BY <1>0, <1>1, FilesFinite DEF wal_append, Sizes
  <2>4. walpc' \in {"idle", "down"} => Cardinality(file'[0]) <= WAL_MAX_SIZE
    <3>1. CASE Cardinality(file'[0]) > WAL_MAX_SIZE
      BY <1>1, <3>1 DEF Write
    <3>2. CASE ~(Cardinality(file'[0]) > WAL_MAX_SIZE)
      BY <2>1, <2>2, <3>2
    <3> QED
      BY <3>1, <3>2
  <2>5. crashes' = crashes
    BY <1>1 DEF wal_append
  <2>6. \A n \in FileNo : Cardinality(file'[n]) <= WAL_MAX_SIZE + 1 + crashes
    <3> TAKE n \in FileNo
    <3>1. CASE n = 0
      BY <1>0, <2>1, <2>2, <2>3, <3>1, SMTT(30)
    <3>2. CASE n # 0
      BY <2>2, <3>2 DEF Sizes, FilesBounded
    <3> QED
      BY <3>1, <3>2
  <2>7. walpc' \in {"idle", "down"} => Cardinality(file'[0]) <= WAL_MAX_SIZE + crashes
    BY <1>0, <2>1, <2>2, <2>4
  <2> QED
    BY <2>5, <2>6, <2>7 DEF Sizes, FilesBounded
<1>2. CASE rotate_wal /\ file[i] # {}
  <2>1. i \in FileNo /\ i + 1 \in FileNo
    BY DEF WalTypeOK, FileNo
  <2>2. file'[i] = {} /\ file'[i + 1] = file[i]
        /\ \A n \in FileNo : n # i /\ n # i + 1 => file'[n] = file[n]
    BY <1>2, <2>1 DEF rotate_wal, Renamed, WalTypeOK
  <2>3. crashes' = crashes /\ walpc' \in {"rotate", "create"}
    BY <1>2 DEF rotate_wal
  <2>4. \A n \in FileNo : Cardinality(file'[n]) <= WAL_MAX_SIZE + 1 + crashes
    BY <1>0, <2>1, <2>2 DEF Sizes, FilesBounded
  <2> QED
    BY <2>3, <2>4 DEF Sizes, FilesBounded
<1>3. CASE rotate_wal_create
  <2>1. file' = file /\ crashes' = crashes /\ file[0] = {}
    BY <1>3, Zenon DEF rotate_wal_create, Gap, WalTypeOK
  <2> QED
    BY <1>0, <2>1 DEF Sizes, FilesBounded
<1>4. CASE WalCrash
  <2>1. file' = file /\ crashes' = crashes + 1
    BY <1>4 DEF WalCrash
  <2>2. \A n \in FileNo : Cardinality(file[n]) \in Nat /\ Cardinality(file[n]) <= WAL_MAX_SIZE + 1 + crashes
    BY FilesFinite DEF Sizes, FilesBounded
  <2> QED
    BY <1>0, <2>1, <2>2 DEF Sizes, FilesBounded
<1>5. CASE file' = file /\ crashes' = crashes
           /\ (walpc' \in {"idle", "down"} => walpc \in {"idle", "down"})
  BY <1>5 DEF Sizes, FilesBounded
<1>6. CASE WalRestart \/ WalAtBound \/ UNCHANGED walvars
  BY <1>5, <1>6 DEF WalRestart, WalAtBound, walvars
<1>7. CASE wal_append /\ Skip
  BY <1>5, <1>7 DEF wal_append, Skip
<1>8. CASE rotate_wal /\ file[i] = {}
  BY <1>5, <1>8 DEF rotate_wal, Renamed
<1> QED
  BY <1>1, <1>2, <1>3, <1>4, <1>6, <1>7, <1>8 DEF WalNext, wal_append

\* As long as no rename fails, the limit WAL_MAX_SIZE is exceeded by at most
\* one record, and one more for each crash between a write and its rotation.
THEOREM FilesStayBounded ==
  ASSUME ~RenameMayFail
  PROVE  WalSpec => []FilesBounded
<1>1. WalInit => Gap /\ Sizes
  <2> SUFFICES ASSUME WalInit PROVE Gap /\ Sizes
    OBVIOUS
  <2>1. \A n \in FileNo : file[n] = {}
    BY DEF WalInit
  <2>2. Gap
    BY DEF WalInit, Gap
  <2> QED
    BY <2>1, <2>2, FS_EmptySet, SizeAssumption, ArchiveAssumption
    DEF WalInit, Sizes, FilesBounded, FileNo
<1>2. WalTypeOK /\ Gap /\ Sizes /\ [WalNext]_walvars => Gap' /\ Sizes'
  BY GapStep, SizesStep
<1>3. Sizes => FilesBounded
  BY DEF Sizes
<1> QED
  BY <1>1, <1>2, <1>3, WalTypeCorrect, PTL DEF WalSpec

=============================================================================
