--------------------------- MODULE ShotStoreProofs ---------------------------
(***************************************************************************)
(* Proofs about ShotStore and the list that ShotHistoryPage shows of it,   *)
(* for every capacity, range of ids, length of a page and number of saves, *)
(* faults, erasures and clicks: types, the bound on the files, that the    *)
(* store keeps the promise of ShotArchive, and that the list is current    *)
(* whenever its validator would be confirmed.                              *)
(***************************************************************************)
EXTENDS ShotHistoryPage, FiniteSetTheorems, SequenceTheorems, WellFoundedInduction, TLAPS

SaveUnderWay == {"reserve", "open", "close", "verify", "retain", "mark"}

\* A save that is under way has been counted.
CountsOK ==
  /\ accepted <= saves
  /\ pc \in SaveUnderWay => saves >= 1

\* Only a formatted volume is mounted, and only a blank one is formatted unasked.
MediaOK ==
  /\ mounted /\ pc # "erased" => media = "formatted"
  /\ pc \in SaveUnderWay => mounted
  /\ pc = "format" /\ erasing = "none" => media = "blank"
  /\ media = "blank" => Ids = {}
  /\ pc = "erased" => Ids = {}

\* The id reserved is above every file, and what is known of the file under it.
SavingOK ==
  /\ pc \in {"open", "close", "verify", "retain"} =>
       id \in 1..MaxId /\ id = lastId /\ \A i \in Ids : i <= id
  /\ pc = "open" => id \notin Ids
  /\ pc \in {"close", "verify", "retain"} => id \in Ids
  /\ pc = "close" => files[id].body = "headless"
  /\ pc = "retain" => files[id].body = "whole"

IInv == TypeOK /\ CountsOK /\ MediaOK /\ SavingOK /\ HistoryBounded

-----------------------------------------------------------------------------
(* Least elements, the greatest id, and the size of the directory. *)

Less == {p \in Nat \X Nat : p[1] < p[2]}

\* A set of naturals has a least element: retention has an oldest file to
\* remove, and the greatest id is the least one above them all.
LEMMA LeastElement ==
  ASSUME NEW S \in SUBSET Nat, S # {}
  PROVE  \E n \in S : \A m \in S : n <= m
<1>1. OpToRel(<, Nat) = Less BY DEF OpToRel, Less
<1>2. IsWellFoundedOn(Less, Nat) BY <1>1, NatLessThanWellFounded
<1>3. PICK n \in S : \A m \in S : <<m, n>> \notin Less BY <1>2, WFMin
<1>4. ASSUME NEW m \in S PROVE n <= m
  <2>1. n \in Nat /\ m \in Nat OBVIOUS
  <2>2. <<m, n>> \in Nat \X Nat /\ <<m, n>> \notin Less BY <1>3, <2>1
  <2>3. ~(m < n) BY <2>2 DEF Less
  <2> QED BY <2>1, <2>3
<1> QED BY <1>4

\* The greatest id on flash, as the least bound of a set of ids.
LEMMA LeastBound ==
  ASSUME NEW S \in SUBSET (1..MaxId),
         NEW g, g = CHOOSE n \in Above(S) : \A m \in Above(S) : n <= m
  PROVE  /\ g \in 0..MaxId
         /\ \A i \in S : i <= g
         /\ \A n \in 0..MaxId : (\A i \in S : i <= n) => g <= n
<1> USE StoreAssumption
<1>1. Above(S) \in SUBSET Nat BY DEF Above
<1>2. MaxId \in Above(S)
  <2>1. MaxId \in 0..MaxId /\ \A i \in S : MaxId >= i OBVIOUS
  <2> QED BY <2>1 DEF Above
<1>3. \E n \in Above(S) : \A m \in Above(S) : n <= m BY <1>1, <1>2, LeastElement
<1>4. g \in Above(S) /\ \A m \in Above(S) : g <= m BY <1>3
<1>5. \A i \in S : i <= g BY <1>4 DEF Above
<1>6. ASSUME NEW n \in 0..MaxId, \A i \in S : i <= n PROVE g <= n
  <2>1. n \in Above(S) BY <1>6 DEF Above
  <2> QED BY <1>4, <2>1
<1> QED BY <1>4, <1>5, <1>6 DEF Above

\* LastUsed is the least number that neither the id in NVS nor a file exceeds.
LEMMA LastUsedBound ==
  ASSUME TypeOK
  PROVE  /\ LastUsed \in 0..MaxId
         /\ lastId <= LastUsed
         /\ \A i \in Ids : i <= LastUsed
         /\ \A n \in 0..MaxId : lastId <= n /\ (\A i \in Ids : i <= n) => LastUsed <= n
<1> USE StoreAssumption
<1>1. Ids \in SUBSET (1..MaxId) /\ lastId \in 0..MaxId BY DEF TypeOK
<1>2. /\ Greatest \in 0..MaxId
      /\ \A i \in Ids : i <= Greatest
      /\ \A n \in 0..MaxId : (\A i \in Ids : i <= n) => Greatest <= n
  BY <1>1, LeastBound DEF Greatest
<1>3. \A i \in Ids : i \in Nat BY <1>1
<1> HIDE DEF Ids
<1> QED BY <1>1, <1>2, <1>3 DEF LastUsed

\* The same in the next state.
LEMMA LastUsedBoundNext ==
  ASSUME TypeOK'
  PROVE  /\ LastUsed' \in 0..MaxId
         /\ lastId' <= LastUsed'
         /\ \A i \in Ids' : i <= LastUsed'
         /\ \A n \in 0..MaxId : lastId' <= n /\ (\A i \in Ids' : i <= n) => LastUsed' <= n
<1> USE StoreAssumption
<1>1. Ids' \in SUBSET (1..MaxId) /\ lastId' \in 0..MaxId BY DEF TypeOK
<1>2. /\ Greatest' \in 0..MaxId
      /\ \A i \in Ids' : i <= Greatest'
      /\ \A n \in 0..MaxId : (\A i \in Ids' : i <= n) => Greatest' <= n
  BY <1>1, LeastBound DEF Greatest
<1>3. \A i \in Ids' : i \in Nat BY <1>1
<1> HIDE DEF Ids
<1> QED BY <1>1, <1>2, <1>3 DEF LastUsed

\* The directory is a finite set, so that its size is a number.
LEMMA FilesAreFinite ==
  ASSUME TypeOK
  PROVE  IsFiniteSet(Ids) /\ Cardinality(Ids) \in Nat
<1>1. Ids \in SUBSET (1..MaxId) /\ MaxId \in Nat BY StoreAssumption DEF TypeOK
<1>2. IsFiniteSet(1..MaxId) BY <1>1, FS_Interval
<1>3. IsFiniteSet(Ids) BY <1>1, <1>2, FS_Subset
<1> QED BY <1>3, FS_CardinalityType

\* The oldest file is a file, and no other is older.
LEMMA OldestFile ==
  ASSUME TypeOK, Ids # {}
  PROVE  Oldest \in Ids /\ \A j \in Ids : Oldest <= j
<1>1. Ids \in SUBSET Nat BY StoreAssumption DEF TypeOK
<1>2. \E i \in Ids : \A j \in Ids : i <= j BY <1>1, LeastElement
<1> QED BY <1>2 DEF Oldest

-----------------------------------------------------------------------------
(* What a step may do to the files. *)

Files == [shot : 1..MaxSaves, body : Body]

FilesOK == Ids \subseteq 1..MaxId /\ files \in [Ids -> Files]

\* A file is written.
LEMMA FileWritten ==
  ASSUME FilesOK, NEW i \in 1..MaxId, NEW f \in Files, files' = With(i, f)
  PROVE  /\ FilesOK' /\ Ids' = Ids \cup {i} /\ files'[i] = f
         /\ \A j \in Ids \ {i} : files'[j] = files[j]
<1> USE DEF Ids
<1>1. Ids' = Ids \cup {i} BY DEF With
<1>2. files'[i] = f /\ \A j \in Ids \ {i} : files'[j] = files[j] BY DEF With
<1>3. \A j \in Ids : files[j] \in Files BY DEF FilesOK
<1>4. \A j \in Ids' : files'[j] \in Files BY <1>1, <1>2, <1>3
<1>5. files' = [j \in Ids' |-> files'[j]] BY <1>1 DEF With
<1>6. files' \in [Ids' -> Files] BY <1>4, <1>5
<1>7. Ids' \subseteq 1..MaxId BY <1>1 DEF FilesOK
<1> QED BY <1>1, <1>2, <1>6, <1>7 DEF FilesOK

\* Files are removed.
LEMMA FilesRemoved ==
  ASSUME FilesOK, NEW gone, files' = Without(gone)
  PROVE  /\ FilesOK' /\ Ids' = Ids \ gone
         /\ \A j \in Ids' : files'[j] = files[j]
<1> USE DEF Ids
<1>1. Ids' = Ids \ gone BY DEF Without
<1>2. \A j \in Ids' : files'[j] = files[j] BY <1>1 DEF Without
<1>3. \A j \in Ids' : files'[j] \in Files BY <1>1, <1>2 DEF FilesOK
<1>4. files' = [j \in Ids' |-> files'[j]] BY <1>1 DEF Without
<1> QED BY <1>1, <1>2, <1>3, <1>4 DEF FilesOK

\* The volume is cleared.
LEMMA FilesCleared ==
  ASSUME files' = NoFiles
  PROVE  FilesOK' /\ Ids' = {}
BY DEF FilesOK, NoFiles, Ids

\* The files are left alone.
LEMMA FilesKept ==
  ASSUME UNCHANGED files
  PROVE  Ids' = Ids /\ (FilesOK => FilesOK')
BY DEF FilesOK, Ids

-----------------------------------------------------------------------------
(* The invariant. *)

ScalarsOK ==
  /\ lastId \in 0..MaxId
  /\ media \in {"formatted", "blank", "damaged"}
  /\ pc \in Pc
  /\ id \in 0..MaxId
  /\ erasing \in {"none", "shots", "all"}
  /\ revision \in Nat
  /\ boot \in Nat
  /\ accepted \in 0..MaxSaves
  /\ savedSeq \in 0..MaxSaves
  /\ saves \in 0..MaxSaves
  /\ faults \in 0..MaxFaults
  /\ erasures \in Nat

MountedOK == mounted \in BOOLEAN

\* TypeOK, split into the files, the numbers and the one Boolean.
LEMMA TypeParts == TypeOK <=> FilesOK /\ ScalarsOK /\ MountedOK
BY DEF TypeOK, FilesOK, Files, ScalarsOK, MountedOK

\* The same in the next state.
LEMMA TypePartsNext == TypeOK' <=> FilesOK' /\ ScalarsOK' /\ MountedOK'
BY DEF TypeOK, FilesOK, Files, ScalarsOK, MountedOK

\* A new device satisfies the invariant.
LEMMA InitOK == Init => IInv
<1> USE StoreAssumption
<1> SUFFICES ASSUME Init PROVE IInv OBVIOUS
<1>1. Ids = {} BY DEF Init, NoFiles, Ids
<1>2. FilesOK BY DEF Init, FilesOK, NoFiles, Ids
<1>3. ScalarsOK BY DEF Init, ScalarsOK, Pc
<1>4. CountsOK BY DEF Init, CountsOK, SaveUnderWay
<1>5. MediaOK BY <1>1 DEF Init, MediaOK, SaveUnderWay
<1>6. SavingOK BY DEF Init, SavingOK
<1>8. MountedOK BY Zenon DEF Init, MountedOK
<1>7. HistoryBounded BY <1>1, FS_EmptySet DEF Init, HistoryBounded
<1> QED BY <1>2, <1>3, <1>4, <1>5, <1>6, <1>7, <1>8, TypeParts DEF IInv

\* Every step leaves well-formed files under ids of the range.
LEMMA FilesStep == IInv /\ [Next]_vars => FilesOK'
<1> USE StoreAssumption
<1> SUFFICES ASSUME IInv, [Next]_vars PROVE FilesOK' OBVIOUS
<1>1. FilesOK /\ ScalarsOK /\ CountsOK /\ SavingOK BY TypeParts DEF IInv
<1>2. CASE UNCHANGED files BY <1>1, <1>2, FilesKept
<1>3. CASE Open
  <2>1. CASE UNCHANGED files BY <2>1, <1>2
  <2>2. CASE files' = With(id, [shot |-> saves, body |-> "headless"])
    <3>1. id \in 1..MaxId /\ saves \in 1..MaxSaves
      BY <1>1, <1>3 DEF Open, SavingOK, CountsOK, SaveUnderWay, ScalarsOK
    <3>2. [shot |-> saves, body |-> "headless"] \in Files BY <3>1 DEF Files, Body
    <3> QED BY <1>1, <2>2, <3>1, <3>2, FileWritten
  <2> QED BY <1>3, <2>1, <2>2 DEF Open
<1>4. CASE Close
  <2>1. PICK body \in Body : files' = With(id, [shot |-> saves, body |-> body])
    BY <1>4 DEF Close
  <2>2. id \in 1..MaxId /\ saves \in 1..MaxSaves
    BY <1>1, <1>4 DEF Close, SavingOK, CountsOK, SaveUnderWay, ScalarsOK
  <2>3. [shot |-> saves, body |-> body] \in Files BY <2>2 DEF Files
  <2> QED BY <1>1, <2>1, <2>2, <2>3, FileWritten
<1>5. CASE VerifyFails
  <2>1. UNCHANGED files \/ files' = Without({id}) BY <1>5 DEF VerifyFails
  <2> QED BY <1>1, <1>2, <2>1, FilesRemoved
<1>6. CASE Evict BY <1>1, <1>6, FilesRemoved DEF Evict
<1>7. CASE FormatErases BY <1>7, FilesCleared DEF FormatErases
<1>8. Next => \/ UNCHANGED files
              \/ Open \/ Close \/ VerifyFails \/ Evict \/ FormatErases
  BY DEF Next, Save, Reserve, VerifyOk, Saved, MarkSaved, Mount, RetryMount, ConfirmFormat,
    EraseData, FormatDone, FormatFails, Reboot, Crash, Restart, flashVars
<1>9. UNCHANGED vars => UNCHANGED files BY DEF vars, flashVars
<1> QED BY <1>2, <1>3, <1>4, <1>5, <1>6, <1>7, <1>8, <1>9

\* Every step leaves the other variables in their ranges.
LEMMA ScalarsStep == IInv /\ [Next]_vars => ScalarsOK'
<1> USE StoreAssumption
<1> SUFFICES ASSUME IInv, [Next]_vars PROVE ScalarsOK' OBVIOUS
<1>1. ScalarsOK /\ CountsOK BY TypeParts DEF IInv
<1>2. LastUsed \in 0..MaxId BY LastUsedBound DEF IInv
<1> USE <1>1 DEF ScalarsOK, Pc, flashVars, ramVars
<1>3. CASE Save BY <1>3 DEF Save, SaveKeeps, Fails, Fault, NoFault, CountsOK
<1>4. CASE Reserve BY <1>2, <1>4 DEF Reserve, SaveKeeps, Fails, Fault, NoFault, Exhausted
<1>5. CASE Open BY <1>5 DEF Open, SaveKeeps, Fails, Fault, NoFault
<1>6. CASE Close BY <1>6 DEF Close, SaveKeeps, Fails, Fault, NoFault
<1>7. CASE VerifyOk BY <1>7 DEF VerifyOk, SaveKeeps, Fails, Fault, NoFault
<1>8. CASE VerifyFails BY <1>8 DEF VerifyFails, SaveKeeps, Fails, Fault, NoFault
<1>9. CASE Evict BY <1>9 DEF Evict, SaveKeeps, Fails, Fault, NoFault
<1>10. CASE Saved BY <1>10 DEF Saved, SaveKeeps, Fails, Fault, NoFault
<1>11. CASE MarkSaved BY <1>11 DEF MarkSaved, SaveKeeps, Fails, Fault, NoFault
<1>12. CASE Mount BY <1>12 DEF Mount, StorageKeeps, Fails, Fault, NoFault
<1>13. CASE RetryMount BY <1>13 DEF RetryMount, StorageKeeps, Fails, Fault, NoFault
<1>14. CASE ConfirmFormat BY <1>14 DEF ConfirmFormat, StorageKeeps, Fails, Fault, NoFault
<1>15. CASE EraseData BY <1>15 DEF EraseData, StorageKeeps, Fails, Fault, NoFault
<1>16. CASE FormatErases BY <1>16 DEF FormatErases, StorageKeeps, Fails, Fault, NoFault
<1>17. CASE FormatDone BY <1>17 DEF FormatDone, StorageKeeps, Fails, Fault, NoFault, AfterFormat
<1>18. CASE FormatFails BY <1>18 DEF FormatFails, StorageKeeps, Fails, Fault, NoFault
<1>19. CASE Reboot BY <1>19 DEF Reboot, Restart, Fails, Fault, NoFault, flashVars
<1>20. CASE Crash BY <1>20 DEF Crash, Restart, Fails, Fault, NoFault, flashVars
<1>21. CASE UNCHANGED vars BY <1>21 DEF vars
<1> QED BY <1>3, <1>4, <1>5, <1>6, <1>7, <1>8, <1>9, <1>10, <1>11, <1>12, <1>13, <1>14, <1>15, <1>16, <1>17, <1>18, <1>19, <1>20, <1>21 DEF Next

\* No step leaves the mount state anything but ready or not.
LEMMA MountedStep == IInv /\ [Next]_vars => MountedOK'
<1> SUFFICES ASSUME IInv, [Next]_vars PROVE MountedOK' OBVIOUS
<1>1. MountedOK BY TypeParts DEF IInv
<1>2. CASE UNCHANGED mounted BY <1>1, <1>2 DEF MountedOK
<1>3. CASE mounted' = TRUE BY <1>3, Zenon DEF MountedOK
<1>4. CASE mounted' = FALSE BY <1>4, Zenon DEF MountedOK
<1>5. Next => UNCHANGED mounted \/ mounted' = TRUE \/ mounted' = FALSE
  BY DEF Next, Save, Reserve, Open, Close, VerifyOk, VerifyFails, Evict, Saved, MarkSaved,
    SaveKeeps, Mount, RetryMount, ConfirmFormat, EraseData, FormatErases, FormatDone,
    FormatFails, Reboot, Crash, Restart
<1>6. UNCHANGED vars => UNCHANGED mounted BY DEF vars, ramVars
<1> QED BY <1>2, <1>3, <1>4, <1>5, <1>6

\* A shot is accepted before its save begins, and numbered by it.
LEMMA CountsStep == IInv /\ [Next]_vars => CountsOK'
<1> SUFFICES ASSUME IInv, [Next]_vars PROVE CountsOK' OBVIOUS
<1>1. ScalarsOK /\ CountsOK BY TypeParts DEF IInv
<1>2. accepted \in Nat /\ saves \in Nat BY <1>1, StoreAssumption DEF ScalarsOK
<1> USE <1>1, <1>2 DEF CountsOK, SaveUnderWay
<1>3. CASE Save BY <1>3 DEF Save, SaveKeeps, Fails, Fault
<1>4. CASE Reserve BY <1>4 DEF Reserve, SaveKeeps, Fails, Fault
<1>5. CASE Open BY <1>5 DEF Open, SaveKeeps, Fails, Fault
<1>6. CASE Close BY <1>6 DEF Close, SaveKeeps, Fails, Fault
<1>7. CASE VerifyOk BY <1>7 DEF VerifyOk, SaveKeeps, Fails, Fault
<1>8. CASE VerifyFails BY <1>8 DEF VerifyFails, SaveKeeps, Fails, Fault
<1>9. CASE Evict BY <1>9 DEF Evict, SaveKeeps, Fails, Fault
<1>10. CASE Saved BY <1>10 DEF Saved, SaveKeeps, Fails, Fault
<1>11. CASE MarkSaved BY <1>11 DEF MarkSaved, SaveKeeps, Fails, Fault
<1>12. CASE Mount BY <1>12 DEF Mount, StorageKeeps, Fails, Fault
<1>13. CASE RetryMount BY <1>13 DEF RetryMount, StorageKeeps, Fails, Fault
<1>14. CASE ConfirmFormat BY <1>14 DEF ConfirmFormat, StorageKeeps, Fails, Fault
<1>15. CASE EraseData BY <1>15 DEF EraseData, StorageKeeps, Fails, Fault
<1>16. CASE FormatErases BY <1>16 DEF FormatErases, StorageKeeps, Fails, Fault
<1>17. CASE FormatDone BY <1>17 DEF FormatDone, StorageKeeps, Fails, Fault, AfterFormat
<1>18. CASE FormatFails BY <1>18 DEF FormatFails, StorageKeeps, Fails, Fault
<1>19. CASE Reboot BY <1>19 DEF Reboot, Restart, flashVars, Fails, Fault
<1>20. CASE Crash BY <1>20 DEF Crash, Restart, flashVars, Fails, Fault
<1>21. CASE UNCHANGED vars BY <1>21 DEF vars, flashVars, ramVars
<1> QED BY <1>3, <1>4, <1>5, <1>6, <1>7, <1>8, <1>9, <1>10, <1>11, <1>12, <1>13, <1>14, <1>15, <1>16, <1>17, <1>18, <1>19, <1>20, <1>21 DEF Next

\* The volume: mounted only when it has a filesystem, blank only without files.
LEMMA MediaStep == IInv /\ [Next]_vars => MediaOK'
<1> SUFFICES ASSUME IInv, [Next]_vars PROVE MediaOK' OBVIOUS
<1>1. FilesOK /\ ScalarsOK /\ MediaOK BY TypeParts DEF IInv
<1>2. UNCHANGED files => Ids' = Ids BY FilesKept
<1>3. files' = NoFiles => Ids' = {} BY FilesCleared
<1> USE <1>1, <1>2, <1>3 DEF MediaOK, SaveUnderWay
<1>4. CASE Save BY <1>4 DEF Save, SaveKeeps, Fails, Fault
<1>5. CASE Reserve BY <1>5 DEF Reserve, SaveKeeps, Fails, Fault
<1>6. CASE Open BY <1>6 DEF Open, SaveKeeps, Fails, Fault
<1>7. CASE Close BY <1>7 DEF Close, SaveKeeps, Fails, Fault
<1>8. CASE VerifyOk BY <1>8 DEF VerifyOk, SaveKeeps, Fails, Fault
<1>9. CASE VerifyFails BY <1>9 DEF VerifyFails, SaveKeeps, Fails, Fault
<1>10. CASE Evict BY <1>10 DEF Evict, SaveKeeps, Fails, Fault
<1>11. CASE Saved BY <1>11 DEF Saved, SaveKeeps, Fails, Fault
<1>12. CASE MarkSaved BY <1>12 DEF MarkSaved, SaveKeeps, Fails, Fault
<1>13. CASE Mount BY <1>13 DEF Mount, StorageKeeps, Fails, Fault, flashVars, MayFormat
<1>14. CASE RetryMount BY <1>14 DEF RetryMount, StorageKeeps, Fails, Fault, flashVars
<1>15. CASE ConfirmFormat BY <1>15 DEF ConfirmFormat, StorageKeeps, Fails, Fault, flashVars
<1>16. CASE EraseData BY <1>16 DEF EraseData, StorageKeeps, Fails, Fault
<1>17. CASE FormatErases BY <1>17 DEF FormatErases, StorageKeeps, Fails, Fault
<1>18. CASE FormatDone BY <1>18 DEF FormatDone, StorageKeeps, Fails, Fault, AfterFormat
<1>19. CASE FormatFails BY <1>19 DEF FormatFails, StorageKeeps, Fails, Fault, flashVars
<1>20. CASE Reboot BY <1>20 DEF Reboot, Restart, flashVars, Fails, Fault
<1>21. CASE Crash BY <1>21 DEF Crash, Restart, flashVars, Fails, Fault
<1>22. CASE UNCHANGED vars BY <1>22 DEF vars, flashVars, ramVars
<1> QED BY <1>4, <1>5, <1>6, <1>7, <1>8, <1>9, <1>10, <1>11, <1>12, <1>13, <1>14, <1>15, <1>16, <1>17, <1>18, <1>19, <1>20, <1>21, <1>22 DEF Next

\* Retention removes another file than the one just saved.
LEMMA VictimIsOlder ==
  ASSUME IInv, Evict
  PROVE  Victim \in Ids /\ Victim < id /\ \A j \in Ids : Victim <= j
<1> USE StoreAssumption
<1>1. /\ TypeOK /\ Ids \subseteq 1..MaxId
      /\ id \in 1..MaxId /\ id \in Ids /\ \A i \in Ids : i <= id
  BY DEF IInv, TypeOK, SavingOK, Evict
<1>2. Victim \in Ids /\ \A j \in Ids : Victim <= j BY <1>1, OldestFile DEF Victim
<1>3. Victim # id
  <2> SUFFICES ASSUME Victim = id PROVE FALSE OBVIOUS
  <2>1. \A j \in Ids : j = id
    <3> TAKE j \in Ids
    <3>1. id <= j /\ j <= id /\ j \in Nat /\ id \in Nat BY <1>1, <1>2
    <3> QED BY <3>1
  <2>2. Ids = {} \cup {id} BY <1>1, <2>1
  <2>3. Cardinality({} \cup {id}) = 1
    <3>1. IsFiniteSet({}) /\ Cardinality({}) = 0 BY FS_EmptySet
    <3>2. id \notin {} OBVIOUS
    <3>3. Cardinality({} \cup {id}) = Cardinality({}) + 1 BY <3>1, <3>2, FS_AddElement
    <3> QED BY <3>1, <3>3
  <2> QED BY <2>2, <2>3 DEF Evict, Overfull
<1>4. Victim \in Nat /\ id \in Nat /\ Victim <= id BY <1>1, <1>2
<1> QED BY <1>2, <1>3, <1>4

\* The id being saved stays above every file, and its file is what it should be.
LEMMA SavingStep == IInv /\ [Next]_vars => SavingOK'
<1> USE StoreAssumption
<1> SUFFICES ASSUME IInv, [Next]_vars PROVE SavingOK' OBVIOUS
<1>1. FilesOK /\ ScalarsOK /\ CountsOK /\ SavingOK /\ TypeOK BY TypeParts DEF IInv
<1>2. UNCHANGED files => Ids' = Ids BY FilesKept
<1>3. CASE Reserve
  <2>1. LastUsed \in 0..MaxId /\ \A i \in Ids : i <= LastUsed BY <1>1, LastUsedBound
  <2>2. UNCHANGED files /\ Ids' = Ids BY <1>2, <1>3 DEF Reserve
  <2>3. CASE pc' = "idle" BY <2>3 DEF SavingOK
  <2>4. CASE pc' # "idle"
    <3>1. /\ pc' = "open" /\ LastUsed < MaxId
          /\ lastId' = LastUsed + 1 /\ id' = LastUsed + 1
      BY <1>3, <2>1, <2>4 DEF Reserve, Exhausted, Fails
    <3>2. \A i \in Ids : i \in Nat /\ i < id' BY <1>1, <2>1, <3>1 DEF FilesOK
    <3>3. id' \notin Ids BY <2>1, <3>1, <3>2
    <3> QED BY <2>1, <2>2, <3>1, <3>2, <3>3 DEF SavingOK
  <2> QED BY <2>3, <2>4
<1>4. CASE Open
  <2>1. CASE UNCHANGED files /\ pc' = "idle" BY <2>1 DEF SavingOK
  <2>2. CASE files' = With(id, [shot |-> saves, body |-> "headless"]) /\ pc' = "close"
    <3>1. id \in 1..MaxId /\ saves \in 1..MaxSaves /\ id = lastId /\ \A i \in Ids : i <= id
      BY <1>1, <1>4 DEF Open, SavingOK, CountsOK, SaveUnderWay, ScalarsOK
    <3>2. [shot |-> saves, body |-> "headless"] \in Files BY <3>1 DEF Files, Body
    <3>3. Ids' = Ids \cup {id} /\ files'[id] = [shot |-> saves, body |-> "headless"]
      BY <1>1, <2>2, <3>1, <3>2, FileWritten
    <3>4. id' = id /\ lastId' = lastId BY <1>4 DEF Open
    <3> QED BY <2>2, <3>1, <3>3, <3>4 DEF SavingOK
  <2> QED BY <1>4, <2>1, <2>2 DEF Open, Fails
<1>5. CASE Close
  <2>1. PICK body \in Body : files' = With(id, [shot |-> saves, body |-> body])
    BY <1>5 DEF Close
  <2>2. /\ id \in 1..MaxId /\ saves \in 1..MaxSaves /\ id = lastId
        /\ id \in Ids /\ \A i \in Ids : i <= id
    BY <1>1, <1>5 DEF Close, SavingOK, CountsOK, SaveUnderWay, ScalarsOK
  <2>3. [shot |-> saves, body |-> body] \in Files BY <2>2 DEF Files
  <2>4. Ids' = Ids \cup {id} BY <1>1, <2>1, <2>2, <2>3, FileWritten
  <2>5. id' = id /\ lastId' = lastId /\ pc' = "verify" BY <1>5 DEF Close
  <2> QED BY <2>2, <2>4, <2>5 DEF SavingOK
<1>6. CASE VerifyOk
  <2>1. Ids' = Ids /\ id' = id /\ lastId' = lastId /\ files' = files /\ pc' = "retain"
    BY <1>2, <1>6 DEF VerifyOk
  <2> QED BY <1>1, <1>6, <2>1 DEF VerifyOk, Verified, SavingOK
<1>7. CASE Evict
  <2>1. files' = Without({Victim}) /\ pc = "retain" /\ pc' = "retain" /\ id' = id /\ lastId' = lastId
    BY <1>7 DEF Evict
  <2>2. Ids' = Ids \ {Victim} /\ \A j \in Ids' : files'[j] = files[j]
    BY <1>1, <2>1, FilesRemoved
  <2>3. /\ id \in 1..MaxId /\ id = lastId /\ id \in Ids /\ files[id].body = "whole"
        /\ \A i \in Ids : i <= id
    BY <1>1, <2>1 DEF SavingOK
  <2>4. Victim # id BY <1>7, <2>3, VictimIsOlder
  <2>5. id \in Ids' BY <2>2, <2>3, <2>4
  <2> QED BY <2>1, <2>2, <2>3, <2>5 DEF SavingOK
<1>8. CASE pc' \notin {"open", "close", "verify", "retain"} BY <1>8 DEF SavingOK
<1>9. Next => \/ pc' \notin {"open", "close", "verify", "retain"}
              \/ Reserve \/ Open \/ Close \/ VerifyOk \/ Evict
  BY DEF Next, Save, VerifyFails, Saved, MarkSaved, Mount, RetryMount, ConfirmFormat,
    EraseData, FormatErases, FormatDone, AfterFormat, FormatFails, Reboot, Crash, Restart, Fails
<1>10. CASE UNCHANGED vars
  <2>1. Ids' = Ids /\ files' = files /\ id' = id /\ lastId' = lastId /\ pc' = pc
    BY <1>2, <1>10 DEF vars, flashVars, ramVars
  <2> QED BY <1>1, <2>1 DEF SavingOK
<1> QED BY <1>3, <1>4, <1>5, <1>6, <1>7, <1>8, <1>9, <1>10

\* The allowance of files grows by one with every fault: a faults left, of m,
\* after a step that began with b left.
LEMMA Allowance ==
  ASSUME NEW c \in Nat, NEW m \in Nat, NEW a \in 0..m, NEW b \in 0..m
  PROVE  /\ c + (m - a) \in Nat
         /\ a <= b => c + (m - b) <= c + (m - a)
         /\ a <= b - 1 => c + (m - b) + 1 <= c + (m - a)
         /\ a = b - 1 => c + (m - a) = c + (m - b) + 1
<1>1. m - a \in Nat /\ m - b \in Nat OBVIOUS
<1>2. a <= b => c + (m - b) <= c + (m - a) OBVIOUS
<1>3. a <= b - 1 => c + (m - b) + 1 <= c + (m - a) OBVIOUS
<1>4. a = b - 1 => c + (m - a) = c + (m - b) + 1 OBVIOUS
<1> QED BY <1>1, <1>2, <1>3, <1>4

\* Every file beyond the capacity is the one being saved or owed to a fault.
LEMMA BoundStep == IInv /\ [Next]_vars => HistoryBounded'
<1> USE StoreAssumption
<1> SUFFICES ASSUME IInv, [Next]_vars PROVE HistoryBounded' OBVIOUS
<1>1. FilesOK /\ ScalarsOK /\ SavingOK /\ HistoryBounded /\ TypeOK BY TypeParts DEF IInv
<1>2. IsFiniteSet(Ids) /\ Cardinality(Ids) \in Nat BY <1>1, FilesAreFinite
<1>3. faults \in 0..MaxFaults /\ Capacity \in Nat /\ MaxFaults \in Nat BY <1>1 DEF ScalarsOK
<1> DEFINE n == Cardinality(Ids)
           extra(q) == IF q \in {"close", "verify", "retain"} THEN 1 ELSE 0
           bound == Capacity + (MaxFaults - faults)
<1>4. n \in Nat /\ bound \in Nat /\ n <= bound + extra(pc)
  BY <1>1, <1>2, <1>3, Allowance DEF HistoryBounded
<1>5. extra(pc) \in {0, 1} /\ extra(pc') \in {0, 1} OBVIOUS
<1>6. faults' \in 0..MaxFaults BY ScalarsStep DEF ScalarsOK
<1>7. bound' \in Nat BY <1>3, <1>6, Allowance
<1>8. Cardinality(Ids') <= bound' + extra(pc') => HistoryBounded' BY DEF HistoryBounded
<1>9. UNCHANGED files => Cardinality(Ids') = n BY FilesKept
<1>10. /\ pc \in {"close", "verify", "retain"} => extra(pc) = 1
       /\ pc \notin {"close", "verify", "retain"} => extra(pc) = 0
       /\ pc' \in {"close", "verify", "retain"} => extra(pc') = 1
  OBVIOUS
<1>11. faults' <= faults => bound <= bound' BY <1>3, <1>6, Allowance
<1>12. /\ faults' <= faults - 1 => bound + 1 <= bound'
       /\ faults' = faults - 1 => bound' = bound + 1
  BY <1>3, <1>6, Allowance
<1>13. CASE Open
  <2>1. CASE UNCHANGED files /\ Fails("idle")
    <3>1. Cardinality(Ids') = n /\ bound' = bound + 1 BY <1>9, <1>12, <2>1 DEF Fails, Fault
    <3> HIDE DEF n, bound, extra
    <3> QED BY <1>4, <1>5, <1>7, <1>8, <3>1
  <2>2. CASE files' = With(id, [shot |-> saves, body |-> "headless"]) /\ pc' = "close" /\ NoFault
    <3>1. Ids' = Ids \cup {id} BY <2>2 DEF With, Ids
    <3>2. Cardinality(Ids') = n + 1
      BY <1>1, <1>2, <1>13, <3>1, FS_AddElement DEF Open, SavingOK
    <3>3. bound' = bound /\ extra(pc') = 1 /\ extra(pc) = 0
      BY <1>10, <1>13, <2>2 DEF Open, NoFault
    <3> HIDE DEF n, bound, extra
    <3> QED BY <1>4, <1>8, <3>2, <3>3
  <2> QED BY <1>13, <2>1, <2>2 DEF Open
<1>14. CASE Close
  <2>1. Ids' = Ids \cup {id} BY <1>14 DEF Close, With, Ids
  <2>2. Ids' = Ids BY <1>1, <1>14, <2>1 DEF Close, SavingOK
  <2>3. faults' <= faults BY <1>3, <1>14 DEF Close, Fault, NoFault
  <2>4. Cardinality(Ids') = n /\ bound <= bound' BY <1>11, <2>2, <2>3
  <2>5. extra(pc') = extra(pc) BY <1>10, <1>14 DEF Close
  <2> HIDE DEF n, bound, extra
  <2> QED BY <1>4, <1>5, <1>7, <1>8, <2>4, <2>5
<1>15. CASE VerifyFails
  <2>1. CASE files' = Without({id}) /\ faults' <= faults
    <3>1. Ids' = Ids \ {id} BY <2>1 DEF Without, Ids
    <3>2. id \in Ids BY <1>1, <1>15 DEF VerifyFails, SavingOK
    <3>3. Cardinality(Ids') = n - 1 BY <1>2, <3>1, <3>2, FS_RemoveElement
    <3>4. bound <= bound' BY <1>11, <2>1
    <3> HIDE DEF n, bound, extra
    <3> QED BY <1>4, <1>5, <1>7, <1>8, <3>3, <3>4
  <2>2. CASE files' = files /\ faults' <= faults - 1
    <3>1. Cardinality(Ids') = n /\ bound + 1 <= bound' BY <1>9, <1>12, <2>2
    <3> HIDE DEF n, bound, extra
    <3> QED BY <1>4, <1>5, <1>7, <1>8, <3>1
  <2> QED BY <1>3, <1>15, <2>1, <2>2 DEF VerifyFails
<1>16. CASE Evict
  <2>1. Ids' = Ids \ {Victim} BY <1>16 DEF Evict, Without, Ids
  <2>2. Cardinality(Ids') <= n /\ Cardinality(Ids') \in Nat
    <3>1. Ids' \in SUBSET Ids BY <2>1
    <3> QED BY <1>2, <3>1, FS_Subset, FS_CardinalityType
  <2>3. bound' = bound /\ extra(pc') = extra(pc) BY <1>16 DEF Evict, NoFault
  <2> HIDE DEF n, bound, extra
  <2> QED BY <1>4, <1>5, <1>8, <2>2, <2>3
<1>17. CASE Saved
  <2>1. Cardinality(Ids') = n BY <1>9, <1>17 DEF Saved
  <2>2. CASE ~Overfull /\ NoFault
    <3>1. n <= bound /\ bound' = bound BY <1>2, <1>3, <2>2 DEF Overfull, NoFault
    <3> HIDE DEF n, bound, extra
    <3> QED BY <1>4, <1>5, <1>8, <2>1, <3>1
  <2>3. CASE Fault
    <3>1. bound' = bound + 1 BY <1>12, <2>3 DEF Fault
    <3> HIDE DEF n, bound, extra
    <3> QED BY <1>4, <1>5, <1>8, <2>1, <3>1
  <2> QED BY <1>17, <2>2, <2>3 DEF Saved
<1>18. CASE FormatErases
  <2>1. Cardinality(Ids') = 0 BY <1>18, FilesCleared, FS_EmptySet DEF FormatErases
  <2> HIDE DEF n, bound, extra
  <2> QED BY <1>5, <1>7, <1>8, <2>1
<1>19. CASE Crash
  <2>1. Cardinality(Ids') = n BY <1>9, <1>19 DEF Crash, Restart, flashVars
  <2>2. bound' = bound + 1 BY <1>12, <1>19 DEF Crash, Fault
  <2> HIDE DEF n, bound, extra
  <2> QED BY <1>4, <1>5, <1>8, <2>1, <2>2
<1>20. CASE UNCHANGED files /\ extra(pc') = extra(pc) /\ faults' <= faults
  <2>1. Cardinality(Ids') = n /\ bound <= bound' BY <1>9, <1>11, <1>20
  <2> HIDE DEF n, bound, extra
  <2> QED BY <1>4, <1>5, <1>7, <1>8, <1>20, <2>1
<1>21. Next => \/ UNCHANGED files /\ extra(pc') = extra(pc) /\ faults' <= faults
               \/ Open \/ Close \/ VerifyFails \/ Evict \/ Saved \/ FormatErases \/ Crash
  BY <1>3 DEF Next, Save, Reserve, VerifyOk, MarkSaved, Mount, RetryMount, ConfirmFormat,
    EraseData, FormatDone, AfterFormat, FormatFails, Reboot, Restart, Fails, Fault, NoFault, flashVars
<1>22. UNCHANGED vars => UNCHANGED files /\ extra(pc') = extra(pc) /\ faults' <= faults
  BY <1>3 DEF vars, flashVars
<1> QED BY <1>13, <1>14, <1>15, <1>16, <1>17, <1>18, <1>19, <1>20, <1>21, <1>22

\* Every step of the store keeps the invariant.
LEMMA StoreStep == IInv /\ [Next]_vars => IInv'
<1> SUFFICES ASSUME IInv, [Next]_vars PROVE IInv' OBVIOUS
<1>1. TypeOK' BY FilesStep, ScalarsStep, MountedStep, TypePartsNext
<1> QED BY <1>1, CountsStep, MediaStep, SavingStep, BoundStep DEF IInv

\* The invariant is inductive.
THEOREM Invariance == Spec => []IInv
BY InitOK, StoreStep, PTL DEF Spec

\* Type correctness of the store.
THEOREM TypeCorrectness == Spec => []TypeOK
<1>1. IInv => TypeOK BY DEF IInv
<1> QED BY <1>1, Invariance, PTL

\* "retains at most 250 records": whatever fails, the files beyond the capacity
\* are no more than the file being saved and one for each fault.
THEOREM Bounded == Spec => []HistoryBounded
<1>1. IInv => HistoryBounded BY DEF IInv
<1> QED BY <1>1, Invariance, PTL

-----------------------------------------------------------------------------
(* The archive. *)

Step == [Archive!Next]_(Archive!archiveVars)

\* What the ids of the archive are, before and after a step.
LEMMA RecordsDomain == Archive!Ids = Recorded /\ Archive!Ids' = Recorded'
BY DEF Archive!Ids, Records

\* The last id handed out, when it is known.
LEMMA LastUsedIs ==
  ASSUME TypeOK', NEW n \in 0..MaxId, lastId' = n, \A i \in Ids' : i <= n
  PROVE  LastUsed' = n
<1>1. LastUsed' \in 0..MaxId /\ n <= LastUsed' /\ LastUsed' <= n
  BY LastUsedBoundNext, StoreAssumption
<1> QED BY <1>1, StoreAssumption

\* While a save has an id, it is the last one handed out.
LEMMA LastUsedIsId ==
  ASSUME IInv, pc \in {"open", "close", "verify", "retain"}
  PROVE  LastUsed = id
<1>1. /\ id \in 1..MaxId /\ id = lastId /\ \A i \in Ids : i <= id
  BY DEF IInv, SavingOK
<1>2. LastUsed \in 0..MaxId /\ id <= LastUsed /\ LastUsed <= id
  BY <1>1, LastUsedBound, StoreAssumption DEF IInv
<1> QED BY <1>1, <1>2, StoreAssumption

\* The same in the next state.
LEMMA LastUsedIdNext ==
  ASSUME IInv', pc' \in {"open", "close", "verify", "retain"}
  PROVE  LastUsed' = id'
<1>1. /\ id' \in 1..MaxId /\ id' = lastId' /\ \A i \in Ids' : i <= id'
  BY DEF IInv, SavingOK
<1>2. id' \in 0..MaxId BY DEF IInv, TypeOK
<1> QED BY <1>1, <1>2, LastUsedIs DEF IInv

\* It depends on the directory and on NVS only.
LEMMA LastUsedKept == Ids' = Ids /\ lastId' = lastId => LastUsed' = LastUsed
BY DEF LastUsed, Greatest, Above

\* A step that keeps the records, the last id and the erasures is a stutter.
LEMMA Stutters ==
  ASSUME Recorded' = Recorded, \A i \in Recorded : files'[i] = files[i],
         LastUsed' = LastUsed, UNCHANGED erasures
  PROVE  Step
<1>1. Records' = Records BY DEF Records
<1> QED BY <1>1 DEF Step, Archive!archiveVars

\* One that adds the record under the last id is the archive's Store.
LEMMA Stores ==
  ASSUME Recorded' = Recorded \cup {LastUsed}, \A i \in Recorded : files'[i] = files[i],
         LastUsed > 0, LastUsed \notin Recorded, LastUsed' = LastUsed, UNCHANGED erasures
  PROVE  Step
<1>1. DOMAIN Records' = Recorded \cup {LastUsed} BY DEF Records
<1>2. \A i \in Recorded : Records'[i] = Records[i] BY DEF Records
<1>3. Archive!Store BY <1>1, <1>2, RecordsDomain DEF Archive!Store
<1> QED BY <1>3 DEF Step, Archive!Next

\* The initial state is an empty archive.
LEMMA ArchiveInit == Init => Archive!Init
<1> SUFFICES ASSUME Init PROVE Archive!Init OBVIOUS
<1>1. Ids = {} /\ lastId = 0 /\ erasures = 0 BY DEF Init, NoFiles, Ids
<1>2. Recorded = {} BY <1>1 DEF Recorded
<1>3. Records = [i \in {} |-> 0] BY <1>2 DEF Records
<1>4. LastUsed = 0
  <2>1. TypeOK BY InitOK DEF IInv
  <2>2. LastUsed \in 0..MaxId /\ LastUsed <= 0
    BY <1>1, <2>1, LastUsedBound, StoreAssumption
  <2> QED BY <2>2, StoreAssumption
<1> QED BY <1>1, <1>3, <1>4 DEF Archive!Init

\* save() up to the record's verification.
LEMMA ReserveStep == ASSUME IInv, IInv', Reserve PROVE Step
<1> USE StoreAssumption
<1>1. TypeOK /\ TypeOK' BY DEF IInv
<1>2. UNCHANGED <<files, erasures>> /\ Ids' = Ids /\ pc = "reserve" /\ pc' \in {"idle", "open"}
  BY FilesKept DEF Reserve, SaveKeeps, Fails
<1>3. Recorded' = Recorded BY <1>2 DEF Recorded, Writing
<1>4. CASE lastId' = lastId
  <2>1. LastUsed' = LastUsed BY <1>2, <1>4, LastUsedKept
  <2> QED BY <1>2, <1>3, <2>1, Stutters
<1>5. CASE lastId' = LastUsed + 1
  <2>1. /\ LastUsed \in 0..MaxId /\ LastUsed' \in 0..MaxId
        /\ LastUsed + 1 <= LastUsed'
    BY <1>1, <1>5, LastUsedBound, LastUsedBoundNext
  <2>2. LastUsed' \in Nat /\ LastUsed' > LastUsed BY <2>1
  <2>3. Records' = Records BY <1>2, <1>3 DEF Records
  <2>4. Archive!Reserve BY <1>2, <2>2, <2>3 DEF Archive!Reserve
  <2> QED BY <2>4 DEF Step, Archive!Next
<1> QED BY <1>4, <1>5 DEF Reserve

\* Until it is verified a file is not in the archive.
LEMMA WriteStep == ASSUME IInv, IInv', Open \/ Close PROVE Step
<1>1. FilesOK /\ SavingOK /\ ScalarsOK /\ UNCHANGED erasures
  BY TypeParts DEF IInv, Open, Close, SaveKeeps
<1>2. CASE UNCHANGED files /\ pc = "open" /\ pc' = "idle" /\ lastId' = lastId
  <2>1. Recorded' = Recorded BY <1>2, FilesKept DEF Recorded, Writing
  <2> QED BY <1>1, <1>2, <2>1, FilesKept, LastUsedKept, Stutters
<1>3. ASSUME NEW f, files' = With(id, f), pc' \in {"close", "verify"}, id' = id,
             pc = "open" \/ pc = "close"
      PROVE  Step
  <2>1. Ids' = Ids \cup {id} /\ \A j \in Ids \ {id} : files'[j] = files[j]
    BY <1>3 DEF With, Ids
  <2>2. id \notin Recorded BY <1>1, <1>3 DEF Recorded, Writing, SavingOK
  <2>3. Recorded \subseteq Ids BY DEF Recorded
  <2>4. \A j \in Recorded : files'[j] = files[j] BY <2>1, <2>2, <2>3
  <2>5. Recorded' = {j \in Ids \ {id} : files[j].body = "whole"}
    BY <1>3, <2>1 DEF Recorded, Writing
  <2>6. Recorded = {j \in Ids \ {id} : files[j].body = "whole"}
    BY <1>1, <1>3 DEF Recorded, Writing, SavingOK
  <2>7. LastUsed = id BY <1>3, LastUsedIsId
  <2>8. LastUsed' = id
    <3>1. /\ id \in 1..MaxId /\ lastId' = id /\ \A i \in Ids' : i <= id
      BY <1>3 DEF IInv, SavingOK
    <3>2. id \in 0..MaxId BY <1>1 DEF ScalarsOK
    <3> QED BY <3>1, <3>2, LastUsedIs DEF IInv
  <2> QED BY <1>1, <2>4, <2>5, <2>6, <2>7, <2>8, Stutters
<1> QED BY <1>2, <1>3 DEF Open, Close, Fails

\* The record is verified, and in the archive; or it is not whole, or removed.
LEMMA VerifyStep == ASSUME IInv, IInv', VerifyOk \/ VerifyFails \/ (Crash /\ Writing) PROVE Step
<1> USE StoreAssumption
<1>1. /\ FilesOK /\ SavingOK /\ ScalarsOK /\ UNCHANGED <<erasures, lastId>>
      /\ pc \in {"close", "verify"} /\ pc' \in {"retain", "idle", "off"}
  BY TypeParts DEF IInv, VerifyOk, VerifyFails, Crash, Writing, Restart, flashVars, SaveKeeps
<1>2. /\ id \in 1..MaxId /\ id = lastId /\ id \in Ids /\ \A i \in Ids : i <= id
      /\ LastUsed = id
  BY <1>1, LastUsedIsId DEF SavingOK
<1>3. Recorded = {j \in Ids \ {id} : files[j].body = "whole"}
  BY <1>1 DEF Recorded, Writing
<1>4. Recorded' = {j \in Ids' : files'[j].body = "whole"}
  BY <1>1 DEF Recorded, Writing
<1>5. ASSUME Ids' \subseteq Ids PROVE LastUsed' = LastUsed
  <2>1. id \in 0..MaxId /\ lastId' = id /\ \A i \in Ids' : i <= id BY <1>1, <1>2, <1>5
  <2> QED BY <1>2, <2>1, LastUsedIs DEF IInv
<1>6. CASE UNCHANGED files /\ files[id].body = "whole"
  <2>1. Ids' = Ids BY <1>6, FilesKept
  <2>2. Recorded' = Recorded \cup {LastUsed} BY <1>2, <1>3, <1>4, <1>6, <2>1
  <2>3. LastUsed > 0 /\ LastUsed \notin Recorded BY <1>2, <1>3
  <2> QED BY <1>1, <1>5, <1>6, <2>1, <2>2, <2>3, Stores
<1>7. CASE UNCHANGED files /\ files[id].body # "whole"
  <2>1. Ids' = Ids BY <1>7, FilesKept
  <2>2. Recorded' = Recorded BY <1>2, <1>3, <1>4, <1>7, <2>1
  <2> QED BY <1>1, <1>5, <1>7, <2>1, <2>2, Stutters
<1>8. CASE files' = Without({id})
  <2>1. Ids' = Ids \ {id} /\ \A j \in Ids' : files'[j] = files[j] BY <1>1, <1>8, FilesRemoved
  <2>2. Recorded' = Recorded /\ \A j \in Recorded : files'[j] = files[j]
    BY <1>3, <1>4, <2>1
  <2> QED BY <1>1, <1>5, <2>1, <2>2, Stutters
<1> QED BY <1>6, <1>7, <1>8 DEF VerifyOk, VerifyFails, Crash, Restart, flashVars

\* Retention: Evict, or nothing when the oldest file is no record.
LEMMA EvictStep == ASSUME IInv, IInv', Evict PROVE Step
<1> USE StoreAssumption
<1>1. /\ FilesOK /\ SavingOK /\ ScalarsOK /\ UNCHANGED <<erasures, lastId, id>>
      /\ pc = "retain" /\ pc' = "retain" /\ files' = Without({Victim})
  BY TypeParts DEF IInv, Evict, SaveKeeps
<1>2. Victim \in Ids /\ Victim < id /\ \A j \in Ids : Victim <= j BY VictimIsOlder
<1>3. Ids' = Ids \ {Victim} /\ \A j \in Ids' : files'[j] = files[j] BY <1>1, FilesRemoved
<1>4. Recorded = {j \in Ids : files[j].body = "whole"} BY <1>1 DEF Recorded, Writing
<1>5. Recorded' = {j \in Ids' : files'[j].body = "whole"} BY <1>1 DEF Recorded, Writing
<1>6. Recorded' = Recorded \ {Victim} /\ \A j \in Recorded' : files'[j] = files[j]
  BY <1>3, <1>4, <1>5
<1>7. LastUsed = id /\ LastUsed' = id' BY <1>1, LastUsedIsId, LastUsedIdNext
<1>8. LastUsed' = LastUsed BY <1>1, <1>7
<1>9. CASE Victim \in Recorded
  <2>1. id \in Recorded BY <1>1, <1>4 DEF SavingOK
  <2>2. Victim \in Recorded \ {id} /\ \A j \in Recorded : Victim <= j
    <3>1. Victim # id BY <1>1, <1>2 DEF ScalarsOK, FilesOK
    <3> QED BY <1>2, <1>4, <1>9, <3>1
  <2>3. Records' = Archive!Only(Recorded \ {Victim})
    BY <1>6 DEF Records, Archive!Only
  <2>4. Archive!Evict BY <1>1, <1>7, <1>8, <2>1, <2>2, <2>3, RecordsDomain DEF Archive!Evict
  <2> QED BY <2>4 DEF Step, Archive!Next
<1>10. CASE Victim \notin Recorded BY <1>1, <1>6, <1>8, <1>10, Stutters
<1> QED BY <1>9, <1>10

\* Erasure by the user, and the formatting of a blank volume.
LEMMA EraseStep == ASSUME IInv, IInv', EraseData \/ FormatErases PROVE Step
<1> USE StoreAssumption
<1>1. /\ FilesOK /\ ScalarsOK /\ MediaOK /\ TypeOK /\ TypeOK'
      /\ pc \in {"idle", "format"} /\ pc' \in {"format", "restarting", "erased"}
  BY TypeParts DEF IInv, EraseData, FormatErases, Fails
<1>2. LastUsed \in 0..MaxId /\ lastId <= LastUsed /\ \A i \in Ids : i <= LastUsed
  BY <1>1, LastUsedBound
<1>3. Recorded = {j \in Ids : files[j].body = "whole"} BY <1>1 DEF Recorded, Writing
<1>4. Recorded' = {j \in Ids' : files'[j].body = "whole"} BY <1>1 DEF Recorded, Writing
<1>5. CASE EraseData
  <2>1. /\ UNCHANGED files /\ Ids' = Ids /\ lastId' \in {0, lastId} /\ erasures' = erasures + 1
    BY <1>5, FilesKept DEF EraseData
  <2>2. LastUsed' \in 0..LastUsed /\ \A i \in Ids' : i <= LastUsed'
    <3>1. lastId' <= LastUsed /\ \A i \in Ids' : i <= LastUsed BY <1>2, <2>1
    <3>2. LastUsed' \in 0..MaxId /\ LastUsed' <= LastUsed /\ \A i \in Ids' : i <= LastUsed'
      BY <1>1, <1>2, <3>1, LastUsedBoundNext
    <3> QED BY <1>2, <3>2
  <2>3. Recorded' = Recorded BY <1>3, <1>4, <2>1
  <2>4. Records' = Archive!Only(Recorded) BY <2>1, <2>3 DEF Records, Archive!Only
  <2>5. \A i \in Recorded' : i <= LastUsed' BY <1>4, <2>2
  <2>6. Archive!Erase BY <2>1, <2>2, <2>4, <2>5, RecordsDomain DEF Archive!Erase, Archive!Ids
  <2> QED BY <2>6 DEF Step, Archive!Next
<1>6. CASE FormatErases
  <2>1. Ids' = {} /\ lastId' = lastId /\ pc = "format" BY <1>6, FilesCleared DEF FormatErases
  <2>2. Recorded' = {} BY <1>4, <2>1
  <2>3. CASE erasing = "none"
    <3>1. Ids = {} BY <1>1, <2>1, <2>3 DEF MediaOK
    <3>2. Recorded = {} BY <1>3, <3>1
    <3>3. LastUsed' = LastUsed BY <2>1, <3>1, LastUsedKept
    <3>4. UNCHANGED erasures BY <1>6, <2>3 DEF FormatErases
    <3> QED BY <2>2, <3>2, <3>3, <3>4, Stutters
  <2>4. CASE erasing # "none"
    <3>1. erasures' = erasures + 1 BY <1>6, <2>4 DEF FormatErases
    <3>2. LastUsed' \in 0..LastUsed
      <4>1. LastUsed' \in 0..MaxId /\ LastUsed' <= LastUsed
        BY <1>1, <1>2, <2>1, LastUsedBoundNext
      <4> QED BY <1>2, <4>1
    <3>3. Records' = Archive!Only({}) BY <2>2 DEF Records, Archive!Only
    <3>4. Archive!Erase BY <2>2, <3>1, <3>2, <3>3, RecordsDomain DEF Archive!Erase, Archive!Ids
    <3> QED BY <3>4 DEF Step, Archive!Next
  <2> QED BY <2>3, <2>4
<1> QED BY <1>5, <1>6

\* The rest keeps the directory, the id in NVS and the erasures.
LEMMA OtherStep ==
  ASSUME UNCHANGED <<files, lastId, erasures>>, ~Writing, ~Writing'
  PROVE  Step
<1>1. Ids' = Ids BY FilesKept
<1>2. Recorded' = Recorded BY <1>1 DEF Recorded
<1> QED BY <1>1, <1>2, LastUsedKept, Stutters

\* Every step of the store is one of the archive, or none.
LEMMA ArchiveStep == IInv /\ IInv' /\ [Next]_vars => Step
<1> SUFFICES ASSUME IInv, IInv', [Next]_vars PROVE Step OBVIOUS
<1>1. CASE Reserve BY <1>1, ReserveStep
<1>2. CASE Open \/ Close BY <1>2, WriteStep
<1>3. CASE VerifyOk \/ VerifyFails \/ (Crash /\ Writing) BY <1>3, VerifyStep
<1>4. CASE Evict BY <1>4, EvictStep
<1>5. CASE EraseData \/ FormatErases BY <1>5, EraseStep
<1>6. CASE \/ Save \/ Saved \/ MarkSaved \/ Mount \/ RetryMount \/ ConfirmFormat
           \/ FormatDone \/ FormatFails \/ Reboot \/ (Crash /\ ~Writing)
  <2>1. UNCHANGED <<files, lastId, erasures>> /\ ~Writing /\ ~Writing'
    BY <1>6 DEF Save, Saved, MarkSaved, Mount, RetryMount, ConfirmFormat, FormatDone, FormatFails,
      Reboot, Crash, Restart, Fails, AfterFormat, flashVars, SaveKeeps, Writing
  <2> QED BY <2>1, OtherStep
<1>7. CASE UNCHANGED vars
  <2>1. files' = files /\ lastId' = lastId /\ erasures' = erasures /\ pc' = pc /\ id' = id
    BY <1>7 DEF vars, flashVars, ramVars
  <2>2. Ids' = Ids BY <2>1, FilesKept
  <2>3. Recorded' = Recorded BY <2>1, <2>2 DEF Recorded, Writing
  <2> QED BY <2>1, <2>2, <2>3, LastUsedKept, Stutters
<1> QED BY <1>1, <1>2, <1>3, <1>4, <1>5, <1>6, <1>7 DEF Next

\* "Each save writes and verifies the new record before removing older records":
\* every behaviour of the store, with its failures and its losses of power, is
\* one of the archive.
THEOREM Refinement == Spec => KeepsArchive
<1>1. Init => Archive!Init BY ArchiveInit
<1>2. IInv /\ IInv' /\ [Next]_vars => [Archive!Next]_(Archive!archiveVars)
  BY ArchiveStep DEF Step
<1> QED BY <1>1, <1>2, Invariance, PTL DEF Spec, KeepsArchive, Archive!Spec

-----------------------------------------------------------------------------
(* The list in the browser, ShotHistoryPage: its invariant.                  *)

Tags   == {NoTag} \cup (Nat \X Nat)
RowIds == Seq(1..MaxId)

\* A request: on its way or in the handler, its page being read, and its answer.
Asked   == [stage : {"sent", "page"}, cursor : Cursors, tag : Tags, seq : Int,
            superseded : BOOLEAN]
Reading == [stage : {"rows"}, cursor : Cursors, seq : Int, superseded : BOOLEAN,
            etag : Nat \X Nat, ids : RowIds, rows : RowIds, more : BOOLEAN, whole : BOOLEAN]
Full    == [stage : {"answered"}, status : {200}, cursor : Cursors, seq : Int,
            superseded : BOOLEAN, etag : Nat \X Nat, rows : RowIds, more : BOOLEAN,
            whole : BOOLEAN]
Same    == [stage : {"answered"}, status : {304}, superseded : BOOLEAN, seq : Int]
Refused == [stage : {"answered"}, status : {503}, superseded : BOOLEAN]
Broken  == [stage : {"failed"}, superseded : BOOLEAN]
Fetches == Asked \cup Reading \cup Full \cup Same \cup Refused \cup Broken
Slots   == {NoFetch} \cup Fetches

PageTypes ==
  /\ fetch \in [Kinds -> Slots]
  /\ shots \in {Null} \cup RowIds
  /\ hasMore \in BOOLEAN
  /\ etags \in [Cursors -> Tags]
  /\ seen \in [seq : Int, ready : BOOLEAN]
  /\ misread \in BOOLEAN

\* A volume is unmounted while it is formatted, unless everything is erased.
DeviceOK ==
  /\ pc \in {"off", "format", "erased"} /\ erasing # "all" => ~mounted
  /\ erasing = "all" => pc \in {"format", "erased", "restarting"}

\* In this boot a page may have been served.
Established == mounted \/ erasing = "all"

\* The tag was the device's once.
PastTag(t) ==
  t # NoTag =>
    /\ t[1] <= boot
    /\ t[1] = boot => t[2] <= revision /\ Established

\* The tag would be confirmed, and nothing has been left behind under it.
Confirmed(t) == t = Tag /\ ~left /\ erasing # "all"

\* The files that a page shows, or will show when the save under way lets go.
Kept == {i \in Listed : ~(Writing /\ i = id)}

\* Rows that go with a tag: when no read has failed they are, as long as it is
\* confirmed, the first page, which more rows follow if it was said so.
TaggedRows(t, q, more, whole) ==
  /\ PastTag(t)
  /\ Confirmed(t) /\ whole => q = Newest(Kept) /\ (more => Limit < Cardinality(Kept))

\* What a refresh brings, from the request to the answer.
RefreshFits(f) ==
  /\ f \in Asked => f.cursor = 0 /\ (f.stage = "page" => Established)
  /\ f \in Reading => f.cursor = 0 /\ TaggedRows(f.etag, f.rows \o f.ids, f.more, f.whole)
  /\ f \in Full => TaggedRows(f.etag, f.rows, f.more, f.whole)

\* "Load more" is not about the first page.
MoreFits(f) == f \in Asked \cup Reading \cup Full => f.cursor # 0

\* The list begins with the first page when its validator is confirmed, and with
\* a full page when older rows may still be appended; not so a list that was cut.
ListFits(asked) ==
  Confirmed(etags[0]) /\ ~misread =>
    /\ shots # Null /\ FirstOf(shots) = Newest(Kept)
    /\ hasMore \/ asked => Limit <= Len(shots)

\* The answer of one fetch at most will be looked at.
Live(f) == f # NoFetch /\ ~f.superseded

PageFits ==
  /\ ~(Live(fetch["refresh"]) /\ Live(fetch["more"]))
  /\ RefreshFits(fetch["refresh"]) /\ MoreFits(fetch["more"])
  /\ fetch["more"] # NoFetch => shots # Null
  /\ ListFits(Live(fetch["more"]))

PageInv == DeviceOK /\ PageTypes /\ PastTag(etags[0]) /\ PageFits

-----------------------------------------------------------------------------
(* The rows of a page. *)

\* The n-th greatest of a finite set of ids is one of them: the ranks of its
\* elements are as many numbers as the set has elements, so none is left out.
LEMMA Ranks ==
  ASSUME NEW S \in SUBSET Nat, IsFiniteSet(S), NEW n \in 1..Cardinality(S)
  PROVE  Nth(S, n) \in S
<1> DEFINE N == Cardinality(S)
           From(i) == {j \in S : j >= i}
           R == [i \in S |-> Cardinality(From(i))]
<1>1. N \in Nat BY FS_CardinalityType
<1>2. ASSUME NEW i \in S
      PROVE  From(i) \in SUBSET S /\ IsFiniteSet(From(i)) /\ R[i] \in 1..N
  <2>1. From(i) \in SUBSET S /\ i \in From(i) OBVIOUS
  <2>2. IsFiniteSet(From(i)) /\ Cardinality(From(i)) <= N BY <2>1, FS_Subset
  <2>3. Cardinality(From(i)) \in Nat /\ Cardinality(From(i)) # 0
    BY <2>1, <2>2, FS_CardinalityType, FS_EmptySet
  <2> QED BY <1>1, <2>1, <2>2, <2>3
<1>3. ASSUME NEW i \in S, NEW j \in S, i < j PROVE R[i] # R[j]
  <2> HIDE DEF R
  <2>0. i \in Nat /\ j \in Nat /\ \A k \in S : k \in Nat OBVIOUS
  <2>1. \A k \in Nat : k >= j => k >= i BY <1>3, <2>0
  <2>2. From(j) \subseteq From(i) BY <2>0, <2>1
  <2>3. i \in From(i) /\ i \notin From(j) BY <1>3, <2>0
  <2>4. From(j) \in SUBSET From(i) BY <2>2
  <2>5. Cardinality(From(i)) # Cardinality(From(j)) BY <1>2, <2>3, <2>4, FS_Subset
  <2> QED BY <2>5 DEF R
<1>4. \E i \in S : R[i] = n
  <2> SUFFICES ASSUME \A i \in S : R[i] # n PROVE FALSE OBVIOUS
  <2> DEFINE T == (1..N) \ {n}
  <2>1. IsFiniteSet(1..N) /\ Cardinality(1..N) = N BY <1>1, FS_Interval
  <2>2. IsFiniteSet(T) /\ Cardinality(T) = N - 1 BY <2>1, FS_RemoveElement
  <2>3. R \in [S -> T] BY <1>2
  <2>4. N - 1 < N BY <1>1
  <2> HIDE DEF R, T
  <2>5. \E x, y \in S : x # y /\ R[x] = R[y] BY <2>2, <2>3, <2>4, FS_PigeonHole
  <2>6. PICK x \in S, y \in S : x # y /\ R[x] = R[y] BY <2>5
  <2>7. x < y \/ y < x BY <2>6
  <2> QED BY <1>3, <2>6, <2>7
<1>5. \E i \in S : Cardinality({j \in S : j >= i}) = n BY <1>4
<1> QED BY <1>5 DEF Nth

\* A page is a sequence of ids of the set it is taken from, no longer than Limit.
LEMMA NewestRows ==
  ASSUME NEW S \in SUBSET (1..MaxId)
  PROVE  /\ IsFiniteSet(S) /\ Cardinality(S) \in Nat
         /\ Newest(S) \in Seq(S) /\ Newest(S) \in RowIds
         /\ Len(Newest(S)) <= Limit
         /\ Limit < Cardinality(S) => Len(Newest(S)) = Limit
<1> USE StoreAssumption, PageAssumption
<1>1. IsFiniteSet(S) /\ Cardinality(S) \in Nat
  <2>1. MaxId \in Int /\ 1 \in Int OBVIOUS
  <2>2. IsFiniteSet(1..MaxId) BY <2>1, FS_Interval
  <2>3. IsFiniteSet(S) BY <2>2, FS_Subset
  <2> QED BY <2>3, FS_CardinalityType
<1>2. S \in SUBSET Nat OBVIOUS
<1> DEFINE m == AtMost(Cardinality(S))
<1>3. m \in Nat /\ m <= Limit /\ m <= Cardinality(S) /\ (Limit < Cardinality(S) => m = Limit)
  BY <1>1 DEF AtMost
<1>4. \A n \in 1..m : Nth(S, n) \in S BY <1>1, <1>2, <1>3, Ranks
<1> HIDE DEF m
<1>5. Newest(S) = [n \in 1..m |-> Nth(S, n)] BY DEF Newest, m
<1>6. [n \in 1..m |-> Nth(S, n)] \in Seq(S) BY <1>3, <1>4
<1>7. Newest(S) \in Seq(1..MaxId) BY <1>5, <1>6, SeqMonotonic
<1>8. Len(Newest(S)) = m
  <2>1. DOMAIN Newest(S) = 1..m BY <1>5
  <2>2. DOMAIN Newest(S) = 1..Len(Newest(S)) /\ Len(Newest(S)) \in Nat
    BY <1>5, <1>6, LenProperties
  <2> QED BY <1>3, <2>1, <2>2
<1> QED BY <1>1, <1>3, <1>5, <1>6, <1>7, <1>8 DEF RowIds

\* One row is read: the rows and the ids still to be read are together the same.
LEMMA RowMoves ==
  ASSUME NEW rows \in RowIds, NEW ids \in RowIds, ids # <<>>
  PROVE  /\ Head(ids) \in 1..MaxId /\ Tail(ids) \in RowIds
         /\ Append(rows, Head(ids)) \in RowIds
         /\ Append(rows, Head(ids)) \o Tail(ids) = rows \o ids
<1> USE DEF RowIds
<1>1. Head(ids) \in 1..MaxId /\ Tail(ids) \in RowIds /\ Append(rows, Head(ids)) \in RowIds
  BY HeadTailProperties, AppendProperties
<1>2. ids = <<Head(ids)>> \o Tail(ids)
  <2>1. <<Head(ids)>> \in RowIds BY <1>1
  <2>2. /\ Len(Tail(ids)) = Len(ids) - 1
        /\ \A i \in 1..Len(Tail(ids)) : Tail(ids)[i] = ids[i + 1]
    BY HeadTailProperties
  <2>3. Len(ids) \in Nat /\ Len(ids) >= 1 /\ ids[1] = Head(ids) OBVIOUS
  <2>4. /\ <<Head(ids)>> \o Tail(ids) \in RowIds
        /\ Len(<<Head(ids)>> \o Tail(ids)) = Len(ids)
    BY <1>1, <2>1, <2>2, <2>3
  <2>5. \A i \in 1..Len(ids) : (<<Head(ids)>> \o Tail(ids))[i] = ids[i]
    BY <1>1, <2>1, <2>2, <2>3, <2>4
  <2> QED BY <2>4, <2>5, SeqEqual
<1>3. Append(rows, Head(ids)) = rows \o <<Head(ids)>> BY <1>1
<1>4. <<Head(ids)>> \in RowIds BY <1>1
<1>5. Append(rows, Head(ids)) \o Tail(ids) = rows \o (<<Head(ids)>> \o Tail(ids))
  BY <1>1, <1>3, <1>4
<1> QED BY <1>1, <1>2, <1>5

\* Its id is one of those of the page.
LEMMA RowOfPage ==
  ASSUME NEW S, NEW rows \in RowIds, NEW ids \in RowIds, ids # <<>>, rows \o ids \in Seq(S)
  PROVE  Head(ids) \in S
<1>1. (rows \o ids)[Len(rows) + 1] = Head(ids) BY DEF RowIds
<1>2. Len(rows) + 1 \in 1..Len(rows \o ids) BY DEF RowIds
<1> QED BY <1>1, <1>2

\* The first page is the beginning of the list, whatever is appended to it.
LEMMA FirstPageStays ==
  ASSUME NEW list \in RowIds, NEW rows \in RowIds, Limit <= Len(list)
  PROVE  /\ list \o rows \in RowIds /\ Limit <= Len(list \o rows)
         /\ FirstOf(list \o rows) = FirstOf(list)
<1> USE PageAssumption DEF RowIds
<1>1. list \o rows \in RowIds /\ Len(list \o rows) = Len(list) + Len(rows) OBVIOUS
<1>2. AtMost(Len(list)) = Limit /\ AtMost(Len(list \o rows)) = Limit BY <1>1 DEF AtMost
<1>3. SubSeq(list \o rows, 1, Limit) = SubSeq(list, 1, Limit) OBVIOUS
<1> QED BY <1>1, <1>2, <1>3 DEF FirstOf

\* A list no longer than a page is its own beginning.
LEMMA FirstPageWhole ==
  ASSUME NEW list \in RowIds, Len(list) <= Limit
  PROVE  FirstOf(list) = list
<1> USE PageAssumption DEF RowIds
<1>1. AtMost(Len(list)) = Len(list) BY DEF AtMost
<1>2. SubSeq(list, 1, Len(list)) = list OBVIOUS
<1> QED BY <1>1, <1>2 DEF FirstOf

-----------------------------------------------------------------------------
(* What a step of the device does to the list's tag and to what it stands for. *)

\* A step that neither writes nor removes a file, and is no part of the write of
\* one, keeps the files that a page would show.
LEMMA KeptAtRest == UNCHANGED files /\ ~Writing /\ ~Writing' => Kept' = Kept
<1> SUFFICES ASSUME UNCHANGED files, ~Writing, ~Writing' PROVE Kept' = Kept OBVIOUS
<1>1. Ids' = Ids BY FilesKept
<1>2. Listed' = Listed BY <1>1 DEF Listed
<1> QED BY <1>2 DEF Kept

\* Nor do the steps of a save before its record is verified.
LEMMA KeptWhileWriting ==
  ASSUME IInv, Open \/ Close
  PROVE  Kept' = Kept
<1>1. FilesOK /\ SavingOK BY TypeParts DEF IInv
<1>2. CASE UNCHANGED files /\ pc = "open" /\ pc' = "idle" BY <1>2, KeptAtRest DEF Writing
<1>3. ASSUME NEW f, files' = With(id, f), pc' \in {"close", "verify"}, id' = id,
             pc = "open" \/ pc = "close"
      PROVE  Kept' = Kept
  <2>1. Ids' = Ids \cup {id} /\ \A j \in Ids \ {id} : files'[j] = files[j]
    BY <1>3 DEF With, Ids
  <2>2. Kept' = {j \in Ids \ {id} : files[j].body # "headless"}
    BY <1>3, <2>1 DEF Kept, Listed, Writing
  <2>3. Kept = {j \in Ids \ {id} : files[j].body # "headless"}
    BY <1>1, <1>3 DEF Kept, Listed, Writing, SavingOK
  <2> QED BY <2>2, <2>3
<1> QED BY <1>2, <1>3 DEF Open, Close, Fails

Leaves == pc = "verify" /\ pc' = "idle" /\ id \in DOMAIN files'

\* In one boot and at one revision the files that a page would show stay the same,
\* unless a save leaves its file behind.
LEMMA KeptStays ==
  ASSUME IInv, DeviceOK, Next, Established, boot' = boot, revision' = revision,
         erasing' # "all", ~Leaves
  PROVE  Kept' = Kept
<1>1. FilesOK /\ SavingOK /\ ScalarsOK BY TypeParts DEF IInv
<1>2. revision \in Nat /\ boot \in Nat BY <1>1 DEF ScalarsOK
<1>3. CASE Open \/ Close BY <1>3, KeptWhileWriting
<1>4. CASE VerifyOk \/ Evict
  <2>1. revision' = revision + 1 BY <1>4 DEF VerifyOk, Evict
  <2> QED BY <1>2, <2>1
<1>5. CASE VerifyFails
  <2>1. pc = "verify" /\ pc' = "idle" /\ id' = id /\ id \in Ids
    BY <1>1, <1>5 DEF VerifyFails, SavingOK
  <2>2. files' = Without({id}) BY <1>5, <2>1 DEF VerifyFails, Leaves, Ids
  <2>3. Ids' = Ids \ {id} /\ \A j \in Ids' : files'[j] = files[j] BY <1>1, <2>2, FilesRemoved
  <2> QED BY <2>1, <2>3 DEF Kept, Listed, Writing
<1>6. CASE FormatErases
  <2>1. pc = "format" /\ erasing # "all" BY <1>6 DEF FormatErases
  <2> QED BY <2>1 DEF DeviceOK, Established
<1>7. CASE Reboot \/ Crash
  <2>1. boot' = boot + 1 BY <1>7 DEF Reboot, Crash, Restart
  <2> QED BY <1>2, <2>1
<1>8. CASE \/ Save \/ Reserve \/ Saved \/ MarkSaved \/ Mount \/ RetryMount \/ ConfirmFormat
           \/ EraseData \/ FormatDone \/ FormatFails
  <2>1. UNCHANGED files /\ ~Writing /\ ~Writing'
    BY <1>8 DEF Save, Reserve, Saved, MarkSaved, Mount, RetryMount, ConfirmFormat, EraseData,
      FormatDone, FormatFails, Fails, AfterFormat, flashVars, Writing
  <2> QED BY <2>1, KeptAtRest
<1> QED BY <1>3, <1>4, <1>5, <1>6, <1>7, <1>8 DEF Next

\* The boot and, in it, the revision only grow; a volume once mounted, or erased
\* with everything else, stays so until the restart.
LEMMA DeviceMoves ==
  ASSUME IInv, DeviceOK, Next
  PROVE  /\ DeviceOK'
         /\ \/ boot' = boot + 1
            \/ /\ boot' = boot
               /\ revision' = revision \/ revision' = revision + 1
               /\ Established => Established'
               /\ erasing = "all" => erasing' = "all"
<1> USE DEF DeviceOK, Established
<1>1. MountedOK BY TypeParts DEF IInv
<1>2. CASE \/ Save \/ Reserve \/ Open \/ Close \/ VerifyOk \/ VerifyFails
           \/ Evict \/ Saved \/ MarkSaved
  <2>1. /\ UNCHANGED <<mounted, erasing, boot>>
        /\ revision' = revision \/ revision' = revision + 1
        /\ pc \notin {"off", "format", "erased", "restarting"}
        /\ pc' \notin {"off", "format", "erased", "restarting"}
    BY <1>2 DEF Save, Reserve, Open, Close, VerifyOk, VerifyFails, Evict, Saved, MarkSaved,
      SaveKeeps, Fails
  <2> QED BY <2>1
<1>3. CASE Mount BY <1>3 DEF Mount, StorageKeeps
<1>4. CASE RetryMount BY <1>4 DEF RetryMount, StorageKeeps
<1>5. CASE ConfirmFormat BY <1>5 DEF ConfirmFormat, StorageKeeps
<1>6. CASE EraseData BY <1>6 DEF EraseData, StorageKeeps, Fails
<1>7. CASE FormatErases BY <1>7 DEF FormatErases, StorageKeeps
<1>8. CASE FormatDone BY <1>8 DEF FormatDone, StorageKeeps, AfterFormat
<1>9. CASE FormatFails BY <1>9 DEF FormatFails, StorageKeeps, Fails
<1>10. CASE Reboot \/ Crash BY <1>10 DEF Reboot, Crash, Restart
<1> QED BY <1>2, <1>3, <1>4, <1>5, <1>6, <1>7, <1>8, <1>9, <1>10 DEF Next

-----------------------------------------------------------------------------
(* A tag that names the device's present state, and rows that go with it.     *)

\* A step of the device, or one of the page during which the device does nothing.
Around == DeviceStep \/ UNCHANGED <<left, vars>>

\* No step makes a tag of the past confirmable, nor changes the files that the
\* present tag stands for.
LEMMA TagStays ==
  ASSUME IInv, DeviceOK, Around, NEW t \in Tags, PastTag(t)
  PROVE  /\ PastTag(t)'
         /\ Confirmed(t)' => Confirmed(t) /\ Kept' = Kept
<1>1. revision \in Nat /\ boot \in Nat BY DEF IInv, TypeOK
<1>2. CASE UNCHANGED <<left, vars>>
  <2>1. Kept' = Kept
    <3>1. files' = files /\ pc' = pc /\ id' = id BY <1>2 DEF vars, flashVars, ramVars
    <3>2. Ids' = Ids BY <3>1, FilesKept
    <3> QED BY <3>1, <3>2 DEF Kept, Listed, Writing
  <2> QED BY <1>2, <2>1
    DEF PastTag, Confirmed, Established, Tag, vars, flashVars, ramVars
<1>3. CASE DeviceStep
  <2>1. /\ Next
        /\ left' <=> (boot' = boot /\ (left \/ Leaves))
    BY <1>3 DEF DeviceStep, Leaves
  <2>2. CASE t = NoTag
    BY <2>2 DEF PastTag, Confirmed, Tag, NoTag
  <2>3. CASE t # NoTag
    <3>1. PICK a \in Nat, b \in Nat : t = <<a, b>> BY <2>3 DEF Tags
    <3>2. /\ a <= boot
          /\ a = boot => b <= revision /\ Established
      BY <2>3, <3>1 DEF PastTag
    <3>3. CASE boot' = boot + 1
      <4>1. PastTag(t)' BY <1>1, <3>1, <3>2, <3>3 DEF PastTag
      <4>2. ~Confirmed(t)' BY <1>1, <3>1, <3>2, <3>3 DEF Confirmed, Tag
      <4> QED BY <4>1, <4>2
    <3>4. CASE /\ boot' = boot
               /\ revision' = revision \/ revision' = revision + 1
               /\ Established => Established'
               /\ erasing = "all" => erasing' = "all"
      <4>1. PastTag(t)' BY <1>1, <3>1, <3>2, <3>4 DEF PastTag
      <4>2. ASSUME Confirmed(t)' PROVE Confirmed(t) /\ Kept' = Kept
        <5>1. a = boot /\ b = revision' /\ ~left' /\ erasing' # "all"
          BY <3>1, <3>4, <4>2 DEF Confirmed, Tag
        <5>2. revision' = revision /\ Established BY <1>1, <3>2, <3>4, <5>1
        <5>3. ~left /\ ~Leaves /\ erasing # "all" BY <2>1, <3>4, <5>1
        <5>4. Kept' = Kept BY <2>1, <3>4, <5>1, <5>2, <5>3, KeptStays
        <5> QED BY <3>1, <5>1, <5>2, <5>3, <5>4 DEF Confirmed, Tag
      <4> QED BY <4>1, <4>2
    <3> QED BY <2>1, <3>3, <3>4, DeviceMoves
  <2> QED BY <2>2, <2>3
<1> QED BY <1>2, <1>3 DEF Around

\* So rows that went with their tag still do.
LEMMA RowsStay ==
  ASSUME IInv, DeviceOK, Around, NEW t \in Tags, NEW q, NEW more, NEW whole,
         TaggedRows(t, q, more, whole)
  PROVE  TaggedRows(t, q, more, whole)'
<1>1. /\ PastTag(t)'
      /\ Confirmed(t)' => Confirmed(t) /\ Kept' = Kept
  BY TagStays DEF TaggedRows
<1> QED BY <1>1 DEF TaggedRows

\* And so does what a refresh has brought so far.
LEMMA RefreshStays ==
  ASSUME IInv, DeviceOK, Around, NEW f \in Slots, RefreshFits(f),
         f \in Asked => boot' = boot
  PROVE  RefreshFits(f)'
<1>1. CASE f \in Asked
  <2>1. Established => Established'
    <3>1. CASE UNCHANGED <<left, vars>>
      BY <3>1 DEF Established, vars, ramVars
    <3>2. CASE DeviceStep
      <4>1. boot \in Nat /\ Next BY <3>2 DEF IInv, TypeOK, DeviceStep
      <4> QED BY <1>1, <4>1, DeviceMoves
    <3> QED BY <3>1, <3>2 DEF Around
  <2>2. f \notin Reading /\ f \notin Full BY <1>1 DEF Asked, Reading, Full
  <2> QED BY <1>1, <2>1, <2>2 DEF RefreshFits
<1>2. CASE f \in Reading
  <2>1. f \notin Asked /\ f \notin Full BY <1>2 DEF Asked, Reading, Full
  <2>2. f.etag \in Tags BY <1>2 DEF Reading, Tags
  <2>3. TaggedRows(f.etag, f.rows \o f.ids, f.more, f.whole) BY <1>2 DEF RefreshFits
  <2>4. TaggedRows(f.etag, f.rows \o f.ids, f.more, f.whole)' BY <2>2, <2>3, RowsStay
  <2>5. f.cursor = 0 BY <1>2 DEF RefreshFits
  <2> QED BY <2>1, <2>4, <2>5 DEF RefreshFits
<1>3. CASE f \in Full
  <2>1. f \notin Asked /\ f \notin Reading BY <1>3 DEF Asked, Reading, Full
  <2>2. f.etag \in Tags BY <1>3 DEF Full, Tags
  <2>3. TaggedRows(f.etag, f.rows, f.more, f.whole) BY <1>3 DEF RefreshFits
  <2>4. TaggedRows(f.etag, f.rows, f.more, f.whole)' BY <2>2, <2>3, RowsStay
  <2> QED BY <2>1, <2>4 DEF RefreshFits
<1>4. CASE f \notin Asked \cup Reading \cup Full BY <1>4 DEF RefreshFits
<1> QED BY <1>1, <1>2, <1>3, <1>4

-----------------------------------------------------------------------------
(* The requests in flight. *)

\* Of one request at most one of these is true.
LEMMA Stages ==
  ASSUME NEW f \in Fetches
  PROVE  /\ f # NoFetch /\ f.stage # "none" /\ f.superseded \in BOOLEAN
         /\ f \in Asked <=> f.stage \in {"sent", "page"}
         /\ f \in Reading <=> f.stage = "rows"
         /\ f \in Broken <=> f.stage = "failed"
         /\ f \in Full \cup Same \cup Refused <=> f.stage = "answered"
         /\ f.stage = "answered" /\ f.status = 200 => f \in Full
BY DEF Fetches, Asked, Reading, Full, Same, Refused, Broken, NoFetch

\* g is f with or without the mark that a later fetch was started.
SameFetch(f, g) ==
  /\ g \in Fetches
  /\ f \in Asked => g \in Asked /\ g.cursor = f.cursor /\ g.stage = f.stage
  /\ f \in Reading => g \in Reading /\ g.cursor = f.cursor /\ g.etag = f.etag
                        /\ g.rows = f.rows /\ g.ids = f.ids /\ g.more = f.more
                        /\ g.whole = f.whole
  /\ f \in Full => g \in Full /\ g.cursor = f.cursor /\ g.etag = f.etag
                     /\ g.rows = f.rows /\ g.more = f.more /\ g.whole = f.whole
  /\ f \in Same \cup Refused \cup Broken => g \in Same \cup Refused \cup Broken

\* A fetch that is superseded is otherwise the same.
LEMMA Supersedes ==
  ASSUME NEW f \in Fetches, NEW g, g = [f EXCEPT !.superseded = TRUE]
  PROVE  SameFetch(f, g) /\ g.superseded = TRUE
<1> USE DEF SameFetch
<1>1. CASE f \in Asked
  <2>1. g \in Asked /\ g.superseded = TRUE BY <1>1 DEF Asked
  <2>2. g.stage = f.stage /\ g.cursor = f.cursor BY <1>1 DEF Asked
  <2>3. f \notin Reading /\ f \notin Full /\ f \notin Same /\ f \notin Refused /\ f \notin Broken
    BY <1>1 DEF Asked, Reading, Full, Same, Refused, Broken
  <2> QED BY <1>1, <2>1, <2>2, <2>3 DEF Fetches
<1>2. CASE f \in Reading
  <2>1. g \in Reading /\ g.superseded = TRUE BY <1>2 DEF Reading
  <2>2. g.cursor = f.cursor /\ g.etag = f.etag /\ g.rows = f.rows /\ g.ids = f.ids /\ g.more = f.more
        /\ g.whole = f.whole
    BY <1>2 DEF Reading
  <2>3. f \notin Asked /\ f \notin Full /\ f \notin Same /\ f \notin Refused /\ f \notin Broken
    BY <1>2 DEF Asked, Reading, Full, Same, Refused, Broken
  <2> QED BY <1>2, <2>1, <2>2, <2>3 DEF Fetches
<1>3. CASE f \in Full
  <2>1. g \in Full /\ g.superseded = TRUE BY <1>3 DEF Full
  <2>2. g.cursor = f.cursor /\ g.etag = f.etag /\ g.rows = f.rows /\ g.more = f.more
        /\ g.whole = f.whole
    BY <1>3 DEF Full
  <2>3. f \notin Asked /\ f \notin Reading /\ f \notin Same /\ f \notin Refused /\ f \notin Broken
    BY <1>3 DEF Asked, Reading, Full, Same, Refused, Broken
  <2> QED BY <1>3, <2>1, <2>2, <2>3 DEF Fetches
<1>4. CASE f \in Same
  <2>1. g \in Same /\ g.superseded = TRUE BY <1>4 DEF Same
  <2>3. f \notin Asked /\ f \notin Reading /\ f \notin Full
    BY <1>4 DEF Asked, Reading, Full, Same, Refused, Broken
  <2> QED BY <1>4, <2>1, <2>3 DEF Fetches
<1>5. CASE f \in Refused
  <2>1. g \in Refused /\ g.superseded = TRUE BY <1>5 DEF Refused
  <2>3. f \notin Asked /\ f \notin Reading /\ f \notin Full
    BY <1>5 DEF Asked, Reading, Full, Same, Refused, Broken
  <2> QED BY <1>5, <2>1, <2>3 DEF Fetches
<1>6. CASE f \in Broken
  <2>1. g \in Broken /\ g.superseded = TRUE BY <1>6 DEF Broken
  <2>3. f \notin Asked /\ f \notin Reading /\ f \notin Full
    BY <1>6 DEF Asked, Reading, Full, Same, Refused, Broken
  <2> QED BY <1>6, <2>1, <2>3 DEF Fetches
<1> QED BY <1>1, <1>2, <1>3, <1>4, <1>5, <1>6 DEF Fetches

\* It fits as it did.
LEMMA SameFits ==
  ASSUME NEW f \in Fetches, NEW g, SameFetch(f, g)
  PROVE  /\ RefreshFits(f) => RefreshFits(g)
         /\ MoreFits(f) => MoreFits(g)
<1> USE DEF SameFetch
<1>1. CASE f \in Asked
  <2>1. g \in Asked /\ g \notin Reading /\ g \notin Full BY <1>1 DEF Asked, Reading, Full
  <2> QED BY <1>1, <2>1 DEF RefreshFits, MoreFits
<1>2. CASE f \in Reading
  <2>1. g \in Reading /\ g \notin Asked /\ g \notin Full BY <1>2 DEF Asked, Reading, Full
  <2> QED BY <1>2, <2>1 DEF RefreshFits, MoreFits
<1>3. CASE f \in Full
  <2>1. g \in Full /\ g \notin Asked /\ g \notin Reading BY <1>3 DEF Asked, Reading, Full
  <2> QED BY <1>3, <2>1 DEF RefreshFits, MoreFits
<1>4. CASE f \in Same \cup Refused \cup Broken
  <2>1. g \notin Asked /\ g \notin Reading /\ g \notin Full
    BY <1>4 DEF Asked, Reading, Full, Same, Refused, Broken
  <2> QED BY <2>1 DEF RefreshFits, MoreFits
<1> QED BY <1>1, <1>2, <1>3, <1>4 DEF Fetches

\* What maybeRefreshShots() may do to the fetches.
RefreshAsked(fs) ==
  /\ fs["refresh"] = NoFetch
  /\ fetch'["refresh"] \in Asked /\ fetch'["refresh"].stage = "sent"
  /\ fetch'["refresh"].cursor = 0
  /\ IF fs["more"] = NoFetch THEN fetch'["more"] = NoFetch
     ELSE SameFetch(fs["more"], fetch'["more"]) /\ fetch'["more"].superseded = TRUE

\* It starts a refresh of the first page, or leaves the fetches alone.
LEMMA MaybeRefreshDoes ==
  ASSUME NEW fs \in [Kinds -> Slots], NEW force, NEW before, MaybeRefresh(force, fs, before),
         etags' \in [Cursors -> Tags], seen' \in [seq : Int, ready : BOOLEAN]
  PROVE  /\ fetch' \in [Kinds -> Slots]
         /\ fetch' = fs \/ RefreshAsked(fs)
<1> USE StoreAssumption DEF Kinds
<1>1. CASE fetch' = fs BY <1>1
<1>2. CASE fetch' = Started(fs, "refresh", 0) /\ fs["refresh"] = NoFetch
  <2>1. PICK t \in Tags : t = etags'[0] BY DEF Cursors
  <2>2. PICK n \in Int : n = seen'.seq OBVIOUS
  <2>3. PICK m : m = fs["more"] OBVIOUS
  <2>4. fetch' = [j \in Kinds |-> IF j = "refresh"
                    THEN [stage |-> "sent", cursor |-> 0, tag |-> t, seq |-> n, superseded |-> FALSE]
                    ELSE IF fs[j] = NoFetch THEN NoFetch ELSE [fs[j] EXCEPT !.superseded = TRUE]]
    BY <1>2, <2>1, <2>2 DEF Started
  <2>5. 0 \in Cursors BY DEF Cursors
  <2>6. /\ fetch'["refresh"] = [stage |-> "sent", cursor |-> 0, tag |-> t, seq |-> n, superseded |-> FALSE]
        /\ fetch'["more"] = IF m = NoFetch THEN NoFetch ELSE [m EXCEPT !.superseded = TRUE]
        /\ fetch' = [j \in Kinds |-> fetch'[j]]
    BY <2>3, <2>4
  <2>7. fetch'["refresh"] \in Asked /\ fetch'["refresh"].stage = "sent" /\ fetch'["refresh"].cursor = 0
    BY <2>5, <2>6 DEF Asked
  <2>8. CASE m = NoFetch
    <3>1. RefreshAsked(fs) BY <1>2, <2>3, <2>6, <2>7, <2>8 DEF RefreshAsked
    <3>2. fetch'["refresh"] \in Slots /\ fetch'["more"] \in Slots
      BY <2>6, <2>7, <2>8 DEF Slots, Fetches
    <3> QED BY <2>6, <3>1, <3>2
  <2>9. CASE m # NoFetch
    <3>1. m \in Fetches BY <2>3, <2>9 DEF Slots
    <3>2. SameFetch(m, fetch'["more"]) /\ fetch'["more"].superseded = TRUE
      BY <2>6, <2>9, <3>1, Supersedes
    <3>3. RefreshAsked(fs) BY <1>2, <2>3, <2>7, <2>9, <3>2 DEF RefreshAsked
    <3>4. fetch'["refresh"] \in Slots /\ fetch'["more"] \in Slots
      BY <2>7, <3>2 DEF Slots, Fetches, SameFetch
    <3> QED BY <2>6, <3>3, <3>4
  <2> QED BY <2>8, <2>9
<1> QED BY <1>1, <1>2 DEF MaybeRefresh

-----------------------------------------------------------------------------
(* The steps. *)

\* While the list is left alone its validator stays what it was.
LEMMA ListStays ==
  ASSUME IInv, PageInv, Around, UNCHANGED <<shots, hasMore, etags, misread>>,
         (Live(fetch["more"]))' => Live(fetch["more"])
  PROVE  PastTag(etags[0])' /\ ListFits(Live(fetch["more"]))'
<1>1. PICK t \in Tags : t = etags[0] BY StoreAssumption DEF PageInv, PageTypes, Cursors
<1>2. t = etags'[0] BY <1>1
<1>3. PastTag(t) /\ DeviceOK BY <1>1 DEF PageInv
<1>4. /\ PastTag(t)'
      /\ Confirmed(t)' => Confirmed(t) /\ Kept' = Kept
  BY <1>3, TagStays
<1>5. PastTag(etags[0])' BY <1>2, <1>4
<1>6. ListFits(Live(fetch["more"])) BY DEF PageInv, PageFits
<1>7. ASSUME Confirmed(t)', ~misread
      PROVE  /\ shots' # Null /\ FirstOf(shots') = Newest(Kept')
             /\ hasMore' \/ (Live(fetch["more"]))' => Limit <= Len(shots')
  BY <1>1, <1>4, <1>6, <1>7 DEF ListFits
<1> QED BY <1>2, <1>5, <1>7 DEF ListFits

\* The handler, or the connection, takes the request of one kind further.
Handled(k) ==
  /\ UNCHANGED <<listVars, left, misread, vars>>
  /\ fetch[k] \in Fetches /\ fetch'[k] \in Fetches
  /\ fetch' = [fetch EXCEPT ![k] = fetch'[k]]
  /\ fetch'[k].superseded = fetch[k].superseded
  /\ k = "more" => MoreFits(fetch'[k])
  /\ k = "refresh" => RefreshFits(fetch'[k])

\* That keeps the invariant.
LEMMA HandledFits ==
  ASSUME IInv, PageInv, NEW k \in Kinds, Handled(k)
  PROVE  PageInv'
<1>1. UNCHANGED <<shots, hasMore, etags, seen, misread>> /\ Around BY DEF Handled, listVars, Around
<1>2. DeviceOK' BY DEF Handled, PageInv, DeviceOK, vars, ramVars
<1>3. PageTypes' BY <1>1 DEF PageInv, PageTypes, Handled, Slots
<1>4. \A j \in Kinds : (Live(fetch[j]))' = Live(fetch[j]) /\ (fetch'[j] = NoFetch <=> fetch[j] = NoFetch)
  BY Stages DEF PageInv, PageTypes, Handled, Live
<1>5. PICK g \in Slots : g = fetch'["refresh"] BY <1>3 DEF PageTypes, Kinds
<1>6. RefreshFits(g)
  <2>1. CASE k = "refresh" BY <1>5, <2>1 DEF Handled
  <2>2. CASE k # "refresh"
    <3>1. g = fetch["refresh"] BY <1>5, <2>2 DEF Handled, PageInv, PageTypes, Kinds
    <3> QED BY <3>1 DEF PageInv, PageFits
  <2> QED BY <2>1, <2>2
<1>7. RefreshFits(g)'
  <2>1. boot' = boot /\ DeviceOK BY DEF Handled, vars, ramVars, PageInv
  <2> QED BY <1>1, <1>6, <2>1, RefreshStays
<1>8. MoreFits(fetch'["more"])
  <2>1. CASE k = "more" BY <2>1 DEF Handled
  <2>2. CASE k # "more"
    <3>1. fetch'["more"] = fetch["more"] BY <2>2 DEF Handled, PageInv, PageTypes, Kinds
    <3> QED BY <3>1 DEF PageInv, PageFits
  <2> QED BY <2>1, <2>2
<1>9. PastTag(etags[0])' /\ ListFits(Live(fetch["more"]))'
  BY <1>1, <1>4, ListStays DEF Kinds
<1>10. /\ ~((Live(fetch["refresh"]))' /\ (Live(fetch["more"]))')
       /\ fetch'["more"] # NoFetch => shots' # Null
  BY <1>1, <1>4 DEF PageInv, PageFits, Kinds
<1>11. PageFits' BY <1>5, <1>7, <1>8, <1>9, <1>10 DEF PageFits, MoreFits
<1> QED BY <1>2, <1>3, <1>9, <1>11 DEF PageInv

\* The validator: only on a mounted volume does the handler go on to the page.
LEMMA ValidateFits ==
  ASSUME IInv, PageInv, NEW k \in Kinds, Validate(k)
  PROVE  Handled(k)
<1>1. PICK f : f = fetch[k] OBVIOUS
<1>2. f \in Asked /\ f.stage = "sent"
  BY <1>1, Stages DEF PageInv, PageTypes, Slots, Validate, NoFetch
<1>3. f \in Fetches BY <1>2 DEF Fetches
<1>4. k = "more" => f.cursor # 0 BY <1>1, <1>2 DEF PageInv, PageFits, MoreFits
<1>5. k = "refresh" => f.cursor = 0 BY <1>1, <1>2 DEF PageInv, PageFits, RefreshFits
<1>6. PICK g : g = fetch'[k] OBVIOUS
<1>7. g = IF ~mounted THEN [stage |-> "answered", status |-> 503, superseded |-> f.superseded]
          ELSE IF f.tag = Tag
          THEN [stage |-> "answered", status |-> 304, superseded |-> f.superseded, seq |-> f.seq]
          ELSE [f EXCEPT !.stage = "page"]
  BY <1>1, <1>6 DEF Validate, PageInv, PageTypes
<1>8. fetch' = [fetch EXCEPT ![k] = g] BY <1>1, <1>7 DEF Validate
<1>9. UNCHANGED <<listVars, left, misread, vars>> BY DEF Validate, HandlerKeeps
<1>10. ASSUME g \in Fetches, g.superseded = f.superseded,
              k = "more" => MoreFits(g), k = "refresh" => RefreshFits(g)
       PROVE  Handled(k)
  BY <1>1, <1>3, <1>6, <1>8, <1>9, <1>10 DEF Handled
<1>11. CASE g = [stage |-> "answered", status |-> 503, superseded |-> f.superseded]
  <2>1. g \in Refused /\ g.superseded = f.superseded BY <1>2, <1>11 DEF Asked, Refused
  <2>2. g \notin Asked /\ g \notin Reading /\ g \notin Full
    BY <2>1 DEF Asked, Reading, Full, Refused
  <2> QED BY <1>10, <2>1, <2>2 DEF Fetches, MoreFits, RefreshFits
<1>12. CASE g = [stage |-> "answered", status |-> 304, superseded |-> f.superseded, seq |-> f.seq]
  <2>1. g \in Same /\ g.superseded = f.superseded BY <1>2, <1>12 DEF Asked, Same
  <2>2. g \notin Asked /\ g \notin Reading /\ g \notin Full
    BY <2>1 DEF Asked, Reading, Full, Same
  <2> QED BY <1>10, <2>1, <2>2 DEF Fetches, MoreFits, RefreshFits
<1>13. CASE mounted /\ g = [f EXCEPT !.stage = "page"]
  <2>1. g \in Asked /\ g.superseded = f.superseded /\ g.cursor = f.cursor
    BY <1>2, <1>13 DEF Asked
  <2>2. g \notin Reading /\ g \notin Full BY <2>1 DEF Asked, Reading, Full
  <2>3. Established BY <1>13 DEF Established
  <2> QED BY <1>4, <1>5, <1>10, <2>1, <2>2, <2>3 DEF Fetches, MoreFits, RefreshFits
<1> QED BY <1>7, <1>11, <1>12, <1>13

\* The page is taken under the tag of the moment, while nothing is being written.
LEMMA SnapshotFits ==
  ASSUME IInv, PageInv, NEW k \in Kinds, Snapshot(k)
  PROVE  Handled(k)
<1>1. PICK f : f = fetch[k] OBVIOUS
<1>2. f \in Asked /\ f.stage = "page"
  BY <1>1, Stages DEF PageInv, PageTypes, Slots, Snapshot, NoFetch
<1>3. f \in Fetches BY <1>2 DEF Fetches
<1>4. k = "more" => f.cursor # 0 BY <1>1, <1>2 DEF PageInv, PageFits, MoreFits
<1>5. k = "refresh" => f.cursor = 0 /\ Established
  BY <1>1, <1>2 DEF PageInv, PageFits, RefreshFits
<1>6. PICK c \in Cursors : c = f.cursor BY <1>2 DEF Asked
<1>7. Below(c) \in SUBSET (1..MaxId) BY DEF Below, Listed, IInv, TypeOK
<1>8. PICK found \in SUBSET Below(c), whole \in BOOLEAN :
        /\ whole => found = Below(c)
        /\ fetch' = [fetch EXCEPT ![k] =
             [stage |-> "rows", cursor |-> c, seq |-> f.seq, superseded |-> f.superseded,
              etag |-> Tag, ids |-> Newest(found), rows |-> <<>>,
              more |-> Cardinality(found) > Limit, whole |-> whole]]
  BY <1>1, <1>6 DEF Snapshot
<1>20. found \in SUBSET (1..MaxId) BY <1>7
<1>21. PICK ids \in RowIds : ids = Newest(found) BY <1>20, NewestRows
<1>9. PICK etag \in Nat \X Nat : etag = Tag BY DEF Tag, IInv, TypeOK
<1>10. PICK more \in BOOLEAN : more = (Cardinality(found) > Limit)
  <2>1. CASE Cardinality(found) > Limit
    <3>1. (Cardinality(found) > Limit) = TRUE BY <2>1, Zenon
    <3> WITNESS TRUE \in BOOLEAN
    <3> QED BY <3>1, Zenon
  <2>2. CASE ~(Cardinality(found) > Limit)
    <3>1. (Cardinality(found) > Limit) = FALSE BY <2>2
    <3> WITNESS FALSE \in BOOLEAN
    <3> QED BY <3>1, Zenon
  <2> QED BY <2>1, <2>2
<1>11. PICK g : g = fetch'[k] OBVIOUS
<1>12. g = [stage |-> "rows", cursor |-> c, seq |-> f.seq, superseded |-> f.superseded,
            etag |-> etag, ids |-> ids, rows |-> <<>>, more |-> more, whole |-> whole]
  BY <1>8, <1>9, <1>10, <1>11, <1>21 DEF PageInv, PageTypes
<1>13. fetch' = [fetch EXCEPT ![k] = g] BY <1>8, <1>9, <1>10, <1>12, <1>21
<1>14. UNCHANGED <<listVars, left, misread, vars>> BY DEF Snapshot, HandlerKeeps
<1>15. <<>> \in RowIds BY DEF RowIds
<1>16. g \in Reading /\ g.superseded = f.superseded /\ g.cursor = c /\ g.etag = etag
       /\ g.ids = ids /\ g.rows = <<>> /\ g.more = more /\ g.whole = whole
  BY <1>2, <1>12, <1>15 DEF Asked, Reading
<1>17. g \notin Asked /\ g \notin Full BY <1>16 DEF Asked, Reading, Full
<1>18. k = "more" => MoreFits(g) BY <1>4, <1>6, <1>16 DEF MoreFits
<1>19. ASSUME k = "refresh" PROVE RefreshFits(g)
  <2>1. c = 0 /\ Established BY <1>5, <1>6, <1>19
  <2>2. PastTag(etag) BY <1>9, <2>1 DEF PastTag, Tag, IInv, TypeOK
  <2>3. ~Writing BY DEF Snapshot, Unlocked, Saving, Writing
  <2>4. Below(c) = Kept BY <2>1, <2>3 DEF Below, Kept, Listed
  <2>5. g.rows \o g.ids = ids BY <1>16, <1>21 DEF RowIds
  <2>6. whole => ids = Newest(Kept) BY <1>8, <1>21, <2>4
  <2>7. Limit \in Nat /\ Cardinality(Kept) \in Nat BY <1>7, <2>4, NewestRows, PageAssumption
  <2>8. whole /\ more => Limit < Cardinality(Kept) BY <1>8, <1>10, <2>4, <2>7
  <2>9. TaggedRows(etag, ids, more, whole) BY <2>2, <2>6, <2>8 DEF TaggedRows
  <2> QED BY <1>16, <1>17, <2>1, <2>5, <2>9 DEF RefreshFits
<1> QED BY <1>1, <1>3, <1>11, <1>13, <1>14, <1>16, <1>18, <1>19 DEF Handled, Fetches

\* A row of a page that is still what the tag stands for is there to be read, and
\* is missing only if the read failed.
LEMMA ReadRowFits ==
  ASSUME IInv, PageInv, NEW k \in Kinds, ReadRow(k)
  PROVE  Handled(k)
<1>1. PICK f : f = fetch[k] OBVIOUS
<1>2. f \in Reading
  BY <1>1, Stages DEF PageInv, PageTypes, Slots, ReadRow, NoFetch
<1>3. f \in Fetches /\ f.ids # <<>> BY <1>1, <1>2 DEF Fetches, ReadRow
<1>4. k = "more" => f.cursor # 0 BY <1>1, <1>2 DEF PageInv, PageFits, MoreFits
<1>5. k = "refresh" => f.cursor = 0 /\ TaggedRows(f.etag, f.rows \o f.ids, f.more, f.whole)
  BY <1>1, <1>2 DEF PageInv, PageFits, RefreshFits
<1>6. f.rows \in RowIds /\ f.ids \in RowIds /\ f.more \in BOOLEAN /\ f.whole \in BOOLEAN
  BY <1>2 DEF Reading
<1>7. PICK g : g = fetch'[k] OBVIOUS
<1>8. UNCHANGED <<listVars, left, misread, vars>> BY DEF ReadRow, HandlerKeeps
<1>9. PICK read \in BOOLEAN :
        fetch' = [fetch EXCEPT ![k] =
          [f EXCEPT !.ids = Tail(@), !.whole = @ /\ read,
                    !.rows = IF Head(f.ids) \in Listed /\ read
                             THEN Append(@, Head(f.ids)) ELSE @]]
  BY <1>1 DEF ReadRow
<1>10. PICK whole \in BOOLEAN : whole = (f.whole /\ read) /\ (whole <=> f.whole /\ read)
  BY <1>6, Zenon
<1>11. PICK rows : rows = IF Head(f.ids) \in Listed /\ read
                          THEN Append(f.rows, Head(f.ids)) ELSE f.rows
  OBVIOUS
<1>12. fetch' = [fetch EXCEPT ![k] = [f EXCEPT !.ids = Tail(@), !.whole = whole, !.rows = rows]]
  BY <1>2, <1>9, <1>10, <1>11 DEF Reading
<1>13. g = [f EXCEPT !.ids = Tail(f.ids), !.whole = whole, !.rows = rows]
  BY <1>2, <1>7, <1>12 DEF PageInv, PageTypes, Reading
<1>14. Tail(f.ids) \in RowIds /\ rows \in RowIds BY <1>3, <1>6, <1>11, RowMoves
<1>15. g \in Reading /\ g.superseded = f.superseded /\ g.cursor = f.cursor /\ g.etag = f.etag
       /\ g.rows = rows /\ g.ids = Tail(f.ids) /\ g.more = f.more /\ g.whole = whole
  BY <1>2, <1>13, <1>14 DEF Reading
<1>16. g \notin Asked /\ g \notin Full BY <1>15 DEF Asked, Reading, Full
<1>17. k = "more" => MoreFits(g) BY <1>4, <1>15 DEF MoreFits
<1>18. ASSUME k = "refresh" PROVE RefreshFits(g)
  <2>1. f.cursor = 0 /\ PastTag(f.etag) BY <1>5, <1>18 DEF TaggedRows
  <2>2. ASSUME Confirmed(f.etag), whole
        PROVE  /\ rows \o Tail(f.ids) = Newest(Kept)
               /\ f.more => Limit < Cardinality(Kept)
    <3>1. f.whole /\ read BY <1>10, <2>2
    <3>2. f.rows \o f.ids = Newest(Kept) /\ (f.more => Limit < Cardinality(Kept))
      BY <1>5, <1>18, <2>2, <3>1 DEF TaggedRows
    <3>3. Kept \in SUBSET (1..MaxId) BY DEF Kept, Listed, IInv, TypeOK
    <3>4. Head(f.ids) \in Kept BY <1>3, <1>6, <3>2, <3>3, NewestRows, RowOfPage
    <3>5. rows = Append(f.rows, Head(f.ids)) BY <1>11, <3>1, <3>4 DEF Kept
    <3> QED BY <1>3, <1>6, <3>2, <3>5, RowMoves
  <2>3. TaggedRows(f.etag, rows \o Tail(f.ids), f.more, whole) BY <2>1, <2>2 DEF TaggedRows
  <2> QED BY <1>15, <1>16, <2>1, <2>3 DEF RefreshFits
<1>19. fetch' = [fetch EXCEPT ![k] = g] BY <1>2, <1>12, <1>13 DEF Reading
<1> QED BY <1>1, <1>3, <1>7, <1>8, <1>15, <1>17, <1>18, <1>19 DEF Handled, Fetches

\* All rows are read: what has been read is the answer.
LEMMA AnswerFits ==
  ASSUME IInv, PageInv, NEW k \in Kinds, Answer(k)
  PROVE  Handled(k)
<1>1. PICK f : f = fetch[k] OBVIOUS
<1>2. f \in Reading
  BY <1>1, Stages DEF PageInv, PageTypes, Slots, Answer, NoFetch
<1>3. f \in Fetches /\ f.ids = <<>> BY <1>1, <1>2 DEF Fetches, Answer
<1>4. k = "more" => f.cursor # 0 BY <1>1, <1>2 DEF PageInv, PageFits, MoreFits
<1>5. k = "refresh" => f.cursor = 0 /\ TaggedRows(f.etag, f.rows \o f.ids, f.more, f.whole)
  BY <1>1, <1>2 DEF PageInv, PageFits, RefreshFits
<1>6. PICK g : g = fetch'[k] OBVIOUS
<1>7. UNCHANGED <<listVars, left, misread, vars>> BY DEF Answer, HandlerKeeps
<1>8. fetch' = [fetch EXCEPT ![k] =
        [stage |-> "answered", status |-> 200, cursor |-> f.cursor, seq |-> f.seq,
         superseded |-> f.superseded, etag |-> f.etag, rows |-> f.rows, more |-> f.more,
         whole |-> f.whole]]
  BY <1>1 DEF Answer
<1>9. g = [stage |-> "answered", status |-> 200, cursor |-> f.cursor, seq |-> f.seq,
           superseded |-> f.superseded, etag |-> f.etag, rows |-> f.rows, more |-> f.more,
           whole |-> f.whole]
  BY <1>6, <1>8 DEF PageInv, PageTypes
<1>10. g \in Full /\ g.superseded = f.superseded /\ g.cursor = f.cursor /\ g.etag = f.etag
       /\ g.rows = f.rows /\ g.more = f.more /\ g.whole = f.whole
  BY <1>2, <1>9 DEF Reading, Full
<1>11. g \notin Asked /\ g \notin Reading BY <1>10 DEF Asked, Reading, Full
<1>12. f.rows \o f.ids = f.rows BY <1>2, <1>3 DEF Reading, RowIds
<1>13. k = "more" => MoreFits(g) BY <1>4, <1>10 DEF MoreFits
<1>14. k = "refresh" => RefreshFits(g) BY <1>5, <1>10, <1>11, <1>12 DEF RefreshFits
<1>15. fetch' = [fetch EXCEPT ![k] = g] BY <1>8, <1>9
<1> QED BY <1>1, <1>3, <1>6, <1>7, <1>10, <1>13, <1>14, <1>15 DEF Handled, Fetches

\* The connection breaks.
LEMMA LostFits ==
  ASSUME IInv, PageInv, NEW k \in Kinds, Lost(k)
  PROVE  Handled(k)
<1>1. PICK f : f = fetch[k] OBVIOUS
<1>2. f \in Fetches /\ f.superseded \in BOOLEAN
  BY <1>1, Stages DEF PageInv, PageTypes, Slots, Lost, NoFetch
<1>3. PICK g : g = fetch'[k] OBVIOUS
<1>4. g = [stage |-> "failed", superseded |-> f.superseded]
  BY <1>1, <1>3 DEF Lost, PageInv, PageTypes
<1>5. g \in Broken /\ g.superseded = f.superseded BY <1>2, <1>4 DEF Broken
<1>6. g \notin Asked /\ g \notin Reading /\ g \notin Full
  BY <1>5 DEF Asked, Reading, Full, Broken
<1>7. fetch' = [fetch EXCEPT ![k] = g] BY <1>1, <1>4 DEF Lost
<1>8. UNCHANGED <<listVars, left, misread, vars>> BY DEF Lost, HandlerKeeps
<1> QED BY <1>1, <1>2, <1>3, <1>5, <1>6, <1>7, <1>8
    DEF Handled, Fetches, MoreFits, RefreshFits

\* No request fits every request.
LEMMA NoFetchFits == NoFetch \notin Asked \cup Reading \cup Full \cup Same \cup Refused \cup Broken
BY DEF NoFetch, Asked, Reading, Full, Same, Refused, Broken

\* After a step that may ask for a refresh: what is in flight and the list fit.
LEMMA RefreshAskedFits ==
  ASSUME IInv, PageInv, UNCHANGED <<left, vars>>,
         shots' \in {Null} \cup RowIds, hasMore' \in BOOLEAN, etags' \in [Cursors -> Tags],
         misread' \in BOOLEAN, seen' \in [seq : Int, ready : BOOLEAN],
         shots # Null => shots' # Null,
         NEW fs \in [Kinds -> Slots], fs["more"] = fetch["more"],
         fs["refresh"] \in {NoFetch, fetch["refresh"]},
         fetch' \in [Kinds -> Slots], fetch' = fs \/ RefreshAsked(fs),
         PastTag(etags[0])', ListFits(Live(fs["more"]))'
  PROVE  PageInv'
<1>1. Around BY DEF Around
<1>2. DeviceOK' BY DEF PageInv, DeviceOK, vars, ramVars
<1>3. PageTypes' BY DEF PageTypes
<1>4. PICK f \in Slots : f = fs["refresh"] BY DEF Kinds
<1>5. PICK m \in Slots : m = fs["more"] BY DEF Kinds
<1>6. RefreshFits(f)
  BY <1>4, NoFetchFits DEF PageInv, PageFits, RefreshFits
<1>7. RefreshFits(f)'
  <2>1. boot' = boot /\ DeviceOK BY DEF vars, ramVars, PageInv
  <2> QED BY <1>1, <1>6, <2>1, RefreshStays
<1>8. MoreFits(m) /\ (m # NoFetch => shots' # Null) /\ ~(Live(f) /\ Live(m))
  BY <1>4, <1>5 DEF PageInv, PageFits, Live
<1>9. CASE fetch' = fs
  <2>1. fetch'["refresh"] = f /\ fetch'["more"] = m BY <1>4, <1>5, <1>9
  <2>2. PageFits' BY <1>5, <1>7, <1>8, <1>9, <2>1 DEF PageFits, MoreFits
  <2> QED BY <1>2, <1>3, <2>2 DEF PageInv
<1>10. CASE RefreshAsked(fs)
  <2>1. PICK g : g = fetch'["refresh"] OBVIOUS
  <2>2. g \in Asked /\ g.stage = "sent" /\ g.cursor = 0 BY <1>10, <2>1 DEF RefreshAsked
  <2>3. RefreshFits(g)'
    <3>1. g \notin Reading /\ g \notin Full BY <2>2 DEF Asked, Reading, Full
    <3> QED BY <2>2, <3>1 DEF RefreshFits
  <2>4. PICK n : n = fetch'["more"] OBVIOUS
  <2>5. MoreFits(n) /\ ~Live(n) /\ (n # NoFetch => m # NoFetch)
    <3>1. CASE m = NoFetch
      BY <1>5, <1>10, <2>4, <3>1, NoFetchFits DEF RefreshAsked, MoreFits, Live
    <3>2. CASE m # NoFetch
      <4>1. m \in Fetches /\ SameFetch(m, n) /\ n.superseded = TRUE
        BY <1>5, <1>10, <2>4, <3>2 DEF RefreshAsked, Slots
      <4> QED BY <1>8, <3>2, <4>1, SameFits DEF Live
    <3> QED BY <3>1, <3>2
  <2>6. ListFits(Live(n))'
    <3>1. Live(n) => Live(fs["more"]) BY <2>5
    <3>2. ListFits(Live(fs["more"]))' OBVIOUS
    <3> QED BY <3>1, <3>2 DEF ListFits
  <2>7. PageFits' BY <1>8, <2>1, <2>3, <2>4, <2>5, <2>6 DEF PageFits, MoreFits
  <2> QED BY <1>2, <1>3, <2>7 DEF PageInv
<1> QED BY <1>9, <1>10

\* A STATE packet, or the user going to the list.
LEMMA AskFits ==
  ASSUME IInv, PageInv, StateArrives \/ SwitchView
  PROVE  PageInv'
<1>1. UNCHANGED <<left, vars, shots, hasMore, etags, misread>> BY DEF StateArrives, SwitchView
<1>2. seen' \in [seq : Int, ready : BOOLEAN]
  <2>1. CASE StateArrives
    <3>1. PICK n \in Int : n = savedSeq BY StoreAssumption DEF IInv, TypeOK
    <3>2. PICK b \in BOOLEAN : b = mounted BY DEF IInv, TypeOK
    <3>3. seen' = [seq |-> n, ready |-> b] BY <2>1, <3>1, <3>2 DEF StateArrives
    <3> QED BY <3>3
  <2>2. CASE SwitchView BY <2>2 DEF SwitchView, PageInv, PageTypes
  <2> QED BY <2>1, <2>2
<1>3. /\ shots' \in {Null} \cup RowIds /\ hasMore' \in BOOLEAN /\ etags' \in [Cursors -> Tags]
      /\ fetch \in [Kinds -> Slots] /\ (shots # Null => shots' # Null) /\ misread' \in BOOLEAN
  BY <1>1 DEF PageInv, PageTypes
<1>4. PICK fs \in [Kinds -> Slots] : fs = fetch BY <1>3
<1>5. PICK force : MaybeRefresh(force, fs, pending)
  BY <1>4 DEF StateArrives, SwitchView
<1>6. fetch' \in [Kinds -> Slots] /\ (fetch' = fs \/ RefreshAsked(fs))
  BY <1>2, <1>3, <1>5, MaybeRefreshDoes
<1>7. PICK t \in Tags : t = etags[0] BY StoreAssumption DEF PageInv, PageTypes, Cursors
<1>8. /\ PastTag(t)'
      /\ Confirmed(t)' => Confirmed(t) /\ Kept' = Kept
  BY <1>1, <1>7, TagStays DEF PageInv, Around
<1>9. PastTag(etags[0])' BY <1>1, <1>7, <1>8
<1>10. ListFits(Live(fs["more"])) BY <1>4 DEF PageInv, PageFits
<1>11. ListFits(Live(fs["more"]))' BY <1>1, <1>7, <1>8, <1>10 DEF ListFits
<1>12. fs["more"] = fetch["more"] /\ fs["refresh"] = fetch["refresh"] BY <1>4
<1> QED BY <1>1, <1>2, <1>3, <1>6, <1>9, <1>11, <1>12, RefreshAskedFits

\* The answer of a refresh: a 200 that nothing has superseded brings the list and
\* its validator together.
LEMMA RefreshEndsFits ==
  ASSUME IInv, PageInv, RefreshEnds
  PROVE  PageInv'
<1>1. UNCHANGED <<left, vars, seen>> /\ Around BY DEF RefreshEnds, Around
<1>2. seen' \in [seq : Int, ready : BOOLEAN] BY <1>1 DEF PageInv, PageTypes
<1>3. PICK f \in Slots : f = fetch["refresh"] BY DEF PageInv, PageTypes, Kinds
<1>4. f.stage \in {"answered", "failed"} BY <1>3 DEF RefreshEnds
<1>5. f \in Fetches /\ f.superseded \in BOOLEAN BY <1>4, Stages DEF Slots, NoFetch
<1>6. PICK fs : fs = [fetch EXCEPT !["refresh"] = NoFetch] OBVIOUS
<1>7. /\ fs \in [Kinds -> Slots] /\ fs["more"] = fetch["more"] /\ fs["refresh"] = NoFetch
      /\ fs = [fetch EXCEPT !["refresh"] = NoFetch]
  BY <1>6 DEF PageInv, PageTypes, Slots, Kinds
<1>8. CASE f.stage = "answered" /\ f.status = 200 /\ f.superseded = FALSE
  <2>1. f \in Full BY <1>5, <1>8, Stages
  <2>2. f.rows \in RowIds /\ f.more \in BOOLEAN /\ f.etag \in Tags /\ f.whole \in BOOLEAN
    BY <2>1 DEF Full, Tags
  <2>3. /\ shots' = f.rows /\ hasMore' = f.more
        /\ etags' = [etags EXCEPT ![0] = f.etag] /\ misread' = ~f.whole
    BY <1>3, <1>8 DEF RefreshEnds, Committed
  <2>4. 0 \in Cursors BY StoreAssumption DEF Cursors
  <2>5. etags' \in [Cursors -> Tags] /\ etags'[0] = f.etag
    BY <2>2, <2>3, <2>4 DEF PageInv, PageTypes
  <2>6. TaggedRows(f.etag, f.rows, f.more, f.whole) BY <1>3, <2>1 DEF PageInv, PageFits, RefreshFits
  <2>7. TaggedRows(f.etag, f.rows, f.more, f.whole)' BY <1>1, <2>2, <2>6, RowsStay DEF PageInv
  <2>8. PastTag(etags[0])' BY <2>5, <2>7 DEF TaggedRows
  <2>9. shots' # Null /\ shots' \in {Null} \cup RowIds
    <3>1. Null \notin RowIds BY StoreAssumption DEF Null, RowIds
    <3> QED BY <2>2, <2>3, <3>1
  <2>10. ~Live(fs["more"])
    BY <1>3, <1>5, <1>7, <1>8, Stages DEF PageInv, PageFits, Live
  <2>11. ListFits(Live(fs["more"]))'
    <3> SUFFICES ASSUME Confirmed(f.etag)', ~misread'
                 PROVE  /\ shots' # Null /\ FirstOf(shots') = Newest(Kept')
                        /\ hasMore' \/ Live(fs["more"]) => Limit <= Len(shots')
      BY <2>5 DEF ListFits
    <3>1. f.rows = Newest(Kept') /\ (f.more => Limit < Cardinality(Kept'))
      BY <2>2, <2>3, <2>7 DEF TaggedRows
    <3>2. Kept' \in SUBSET (1..MaxId)
      <4>1. files' = files BY <1>1 DEF vars, flashVars
      <4>2. Ids' = Ids BY <4>1, FilesKept
      <4> QED BY <4>2 DEF Kept, Listed, IInv, TypeOK
    <3>3. PICK K \in SUBSET (1..MaxId) : K = Kept' BY <3>2
    <3>4. Len(f.rows) <= Limit /\ (Limit < Cardinality(K) => Len(f.rows) = Limit)
      BY <3>1, <3>3, NewestRows
    <3>5. FirstOf(f.rows) = f.rows BY <2>2, <3>4, FirstPageWhole
    <3>6. f.more => Limit <= Len(f.rows) BY <3>1, <3>3, <3>4, PageAssumption
    <3> QED BY <2>3, <2>9, <2>10, <3>1, <3>5, <3>6
  <2>12. fetch' \in [Kinds -> Slots] /\ (fetch' = fs \/ RefreshAsked(fs))
    <3>1. CASE fetch' = fs BY <1>7, <3>1
    <3>2. CASE MaybeRefresh(pending = "force", fs, "no")
      BY <1>2, <1>7, <2>5, <3>2, MaybeRefreshDoes
    <3> QED BY <1>7, <3>1, <3>2 DEF RefreshEnds
  <2>13. hasMore' \in BOOLEAN /\ misread' \in BOOLEAN
    <3>1. (~f.whole) \in BOOLEAN BY Zenon
    <3> QED BY <2>2, <2>3, <3>1
  <2>14. fs["refresh"] \in {NoFetch, fetch["refresh"]} BY <1>7
  <2> QED BY <1>1, <1>2, <1>7, <2>5, <2>8, <2>9, <2>11, <2>12, <2>13, <2>14, RefreshAskedFits
<1>9. CASE ~(f.stage = "answered" /\ f.status = 200 /\ f.superseded = FALSE)
  <2>1. UNCHANGED <<shots, hasMore, etags, misread>>
    BY <1>3, <1>5, <1>9 DEF RefreshEnds, Committed
  <2>2. /\ misread' \in BOOLEAN /\ shots' \in {Null} \cup RowIds /\ hasMore' \in BOOLEAN /\ etags' \in [Cursors -> Tags]
        /\ (shots # Null => shots' # Null)
    BY <2>1 DEF PageInv, PageTypes
  <2>3. fetch' \in [Kinds -> Slots] /\ (fetch' = fs \/ RefreshAsked(fs))
    <3>1. CASE fetch' = fs BY <1>7, <3>1
    <3>2. CASE MaybeRefresh(pending = "force", fs, "no")
      BY <1>2, <1>7, <2>2, <3>2, MaybeRefreshDoes
    <3> QED BY <1>7, <3>1, <3>2 DEF RefreshEnds
  <2>4. PICK t \in Tags : t = etags[0] BY StoreAssumption DEF PageInv, PageTypes, Cursors
  <2>5. /\ PastTag(t)'
        /\ Confirmed(t)' => Confirmed(t) /\ Kept' = Kept
    BY <1>1, <2>4, TagStays DEF PageInv
  <2>6. PastTag(etags[0])' BY <2>1, <2>4, <2>5
  <2>7. ListFits(Live(fs["more"])) BY <1>7 DEF PageInv, PageFits
  <2>8. ListFits(Live(fs["more"]))' BY <2>1, <2>4, <2>5, <2>7 DEF ListFits
  <2>9. fs["refresh"] \in {NoFetch, fetch["refresh"]} BY <1>7
  <2> QED BY <1>1, <1>2, <1>7, <2>2, <2>3, <2>6, <2>8, <2>9, RefreshAskedFits
<1> QED BY <1>8, <1>9

\* "Load more": it supersedes a refresh in flight, and asks below the last row.
LEMMA LoadMoreFits ==
  ASSUME IInv, PageInv, LoadMore
  PROVE  PageInv'
<1>1. UNCHANGED <<left, vars, shots, hasMore, etags, seen, misread>> /\ Around
  BY DEF LoadMore, listVars, Around
<1>2. DeviceOK' BY <1>1 DEF PageInv, DeviceOK, vars, ramVars
<1>3. shots \in RowIds /\ shots # <<>> /\ shots # Null /\ hasMore = TRUE
  BY DEF LoadMore, PageInv, PageTypes
<1>4. PICK c : c = shots[Len(shots)] OBVIOUS
<1>5. c \in 1..MaxId
  <2>1. Len(shots) \in 1..Len(shots) BY <1>3 DEF RowIds
  <2> QED BY <1>3, <1>4, <2>1, ElementOfSeq DEF RowIds
<1>6. c \in Cursors /\ c # 0 BY <1>5, StoreAssumption DEF Cursors
<1>7. PICK t \in Tags : t = etags'[c] BY <1>1, <1>6 DEF PageInv, PageTypes
<1>8. PICK n \in Int : n = seen'.seq BY <1>1 DEF PageInv, PageTypes
<1>9. PICK f \in Slots : f = fetch["refresh"] BY DEF PageInv, PageTypes, Kinds
<1>10. PICK h : h = IF f = NoFetch THEN NoFetch ELSE [f EXCEPT !.superseded = TRUE] OBVIOUS
<1>11. PICK g : g = [stage |-> "sent", cursor |-> c, tag |-> t, seq |-> n, superseded |-> FALSE]
  OBVIOUS
<1>12. fetch' = [j \in Kinds |-> IF j = "more"
                   THEN [stage |-> "sent", cursor |-> c, tag |-> t, seq |-> n, superseded |-> FALSE]
                   ELSE IF fetch[j] = NoFetch THEN NoFetch ELSE [fetch[j] EXCEPT !.superseded = TRUE]]
  BY <1>4, <1>7, <1>8 DEF LoadMore, Started
<1>13. fetch' = [j \in Kinds |-> fetch'[j]] /\ fetch'["more"] = g /\ fetch'["refresh"] = h
  BY <1>9, <1>10, <1>11, <1>12 DEF Kinds
<1>14. g \in Asked /\ g.cursor = c BY <1>6, <1>11 DEF Asked
<1>15. h \in Slots /\ ~Live(h) /\ RefreshFits(h)
  <2>1. RefreshFits(f) BY <1>9 DEF PageInv, PageFits
  <2>2. CASE f = NoFetch BY <1>10, <2>2, NoFetchFits DEF Slots, Live, RefreshFits
  <2>3. CASE f # NoFetch
    <3>1. f \in Fetches BY <2>3 DEF Slots
    <3>2. SameFetch(f, h) /\ h.superseded = TRUE BY <1>10, <2>3, <3>1, Supersedes
    <3>3. RefreshFits(h) BY <2>1, <3>1, <3>2, SameFits
    <3> QED BY <3>2, <3>3 DEF Slots, SameFetch, Live
  <2> QED BY <2>2, <2>3
<1>16. RefreshFits(h)'
  <2>1. boot' = boot /\ DeviceOK BY <1>1 DEF vars, ramVars, PageInv
  <2> QED BY <1>1, <1>15, <2>1, RefreshStays
<1>17. PageTypes'
  <2>1. fetch'["more"] \in Slots /\ fetch'["refresh"] \in Slots
    BY <1>13, <1>14, <1>15 DEF Slots, Fetches
  <2>2. fetch' \in [Kinds -> Slots] BY <1>13, <2>1 DEF Kinds
  <2> QED BY <1>1, <2>2 DEF PageInv, PageTypes
<1>18. PICK v \in Tags : v = etags[0] BY StoreAssumption DEF PageInv, PageTypes, Cursors
<1>19. /\ PastTag(v)'
       /\ Confirmed(v)' => Confirmed(v) /\ Kept' = Kept
  BY <1>1, <1>18, TagStays DEF PageInv
<1>20. PastTag(etags[0])' BY <1>1, <1>18, <1>19
<1>21. ListFits(Live(fetch["more"]))'
  <2>1. ListFits(Live(fetch["more"])) BY DEF PageInv, PageFits
  <2> QED BY <1>1, <1>3, <1>18, <1>19, <2>1 DEF ListFits
<1>22. MoreFits(g) BY <1>6, <1>14 DEF MoreFits
<1>23. PageFits' BY <1>1, <1>3, <1>13, <1>15, <1>16, <1>21, <1>22 DEF PageFits, MoreFits
<1> QED BY <1>2, <1>17, <1>20, <1>23 DEF PageInv

\* Older rows arrive: they go behind a list that fills the first page already,
\* and their validator is another page's.
LEMMA MoreEndsFits ==
  ASSUME IInv, PageInv, MoreEnds
  PROVE  PageInv'
<1>1. UNCHANGED <<left, vars, seen, misread>> /\ Around BY DEF MoreEnds, Around
<1>2. DeviceOK' BY <1>1 DEF PageInv, DeviceOK, vars, ramVars
<1>3. PICK f \in Slots : f = fetch["more"] BY DEF PageInv, PageTypes, Kinds
<1>4. f.stage \in {"answered", "failed"} BY <1>3 DEF MoreEnds
<1>5. f \in Fetches /\ f.superseded \in BOOLEAN BY <1>4, Stages DEF Slots, NoFetch
<1>6. PICK r \in Slots : r = fetch["refresh"] BY DEF PageInv, PageTypes, Kinds
<1>7. /\ fetch' \in [Kinds -> Slots] /\ fetch'["more"] = NoFetch /\ fetch'["refresh"] = r
  BY <1>6 DEF MoreEnds, PageInv, PageTypes, Slots, Kinds
<1>8. RefreshFits(r)'
  <2>1. RefreshFits(r) /\ DeviceOK BY <1>6 DEF PageInv, PageFits
  <2>2. boot' = boot BY <1>1 DEF vars, ramVars
  <2> QED BY <1>1, <2>1, <2>2, RefreshStays
<1>9. PICK v \in Tags : v = etags[0] BY StoreAssumption DEF PageInv, PageTypes, Cursors
<1>10. /\ PastTag(v)'
       /\ Confirmed(v)' => Confirmed(v) /\ Kept' = Kept
  BY <1>1, <1>9, TagStays DEF PageInv
<1>11. ListFits(Live(f)) BY <1>3 DEF PageInv, PageFits
<1>12. ASSUME etags'[0] = etags[0], etags' \in [Cursors -> Tags],
              shots' \in {Null} \cup RowIds, hasMore' \in BOOLEAN, ListFits(FALSE)'
       PROVE  PageInv'
  <2>1. PageTypes' BY <1>1, <1>7, <1>12 DEF PageInv, PageTypes
  <2>2. PastTag(etags[0])' BY <1>9, <1>10, <1>12
  <2>3. ~Live(NoFetch) /\ NoFetch \notin Asked \cup Reading \cup Full
    BY NoFetchFits DEF Live
  <2>4. ListFits(Live(NoFetch))' BY <1>12, <2>3 DEF ListFits
  <2>5. PageFits' BY <1>7, <1>8, <2>3, <2>4 DEF PageFits, MoreFits
  <2> QED BY <1>2, <2>1, <2>2, <2>5 DEF PageInv
<1>13. CASE f.stage = "answered" /\ f.status = 200 /\ f.superseded = FALSE
  <2>1. f \in Full BY <1>5, <1>13, Stages
  <2>2. f.rows \in RowIds /\ f.more \in BOOLEAN /\ f.etag \in Tags /\ f.cursor \in Cursors
    BY <2>1 DEF Full, Tags
  <2>3. f.cursor # 0 BY <1>3, <2>1 DEF PageInv, PageFits, MoreFits
  <2>4. /\ shots' = shots \o f.rows /\ hasMore' = f.more
        /\ etags' = [etags EXCEPT ![f.cursor] = f.etag]
    BY <1>3, <1>13 DEF MoreEnds, Appends
  <2>5. etags' \in [Cursors -> Tags] /\ etags'[0] = etags[0]
    BY <2>2, <2>3, <2>4, StoreAssumption DEF PageInv, PageTypes, Cursors
  <2>6. shots \in RowIds /\ f # NoFetch /\ Live(f)
    BY <1>3, <1>5, <1>13, Stages DEF PageInv, PageTypes, PageFits, Live
  <2>7. shots' \in RowIds BY <2>2, <2>4, <2>6, ConcatProperties DEF RowIds
  <2>8. Null \notin RowIds BY StoreAssumption DEF Null, RowIds
  <2>9. ListFits(FALSE)'
    <3> SUFFICES ASSUME Confirmed(v)', ~misread
                 PROVE  /\ shots' # Null /\ FirstOf(shots') = Newest(Kept')
                        /\ Limit <= Len(shots')
      BY <1>1, <1>9, <2>5 DEF ListFits
    <3>1. /\ FirstOf(shots) = Newest(Kept') /\ Limit <= Len(shots)
      BY <1>9, <1>10, <1>11, <2>6 DEF ListFits
    <3>2. Limit <= Len(shots') /\ FirstOf(shots') = FirstOf(shots)
      <4>1. PICK s \in RowIds : s = shots BY <2>6
      <4> QED BY <2>2, <2>4, <3>1, <4>1, FirstPageStays
    <3> QED BY <2>7, <2>8, <3>1, <3>2
  <2>10. hasMore' \in BOOLEAN BY <2>2, <2>4
  <2> QED BY <1>12, <2>5, <2>7, <2>9, <2>10
<1>14. CASE ~(f.stage = "answered" /\ f.status = 200 /\ f.superseded = FALSE)
  <2>1. UNCHANGED <<shots, hasMore, etags>>
    BY <1>3, <1>5, <1>14 DEF MoreEnds, Appends
  <2>2. ListFits(FALSE)' BY <1>1, <1>9, <1>10, <1>11, <2>1 DEF ListFits
  <2> QED BY <1>12, <2>1, <2>2 DEF PageInv, PageTypes
<1> QED BY <1>13, <1>14

\* The device moves on, or restarts and breaks the connections it serves.
LEMMA DeviceStepFits ==
  ASSUME IInv, PageInv, DeviceStep
  PROVE  PageInv'
<1>1. UNCHANGED <<shots, hasMore, etags, seen, misread>> /\ Around /\ Next
  BY DEF DeviceStep, listVars, Around
<1>2. DeviceOK' BY <1>1, DeviceMoves DEF PageInv
<1>3. PICK r \in Slots : r = fetch["refresh"] BY DEF PageInv, PageTypes, Kinds
<1>4. PICK m \in Slots : m = fetch["more"] BY DEF PageInv, PageTypes, Kinds
<1>5. RefreshFits(r) /\ MoreFits(m) /\ ~(Live(r) /\ Live(m)) /\ (m # NoFetch => shots' # Null)
  BY <1>1, <1>3, <1>4 DEF PageInv, PageFits
<1>6. CASE boot' = boot
  <2>1. fetch' = fetch BY <1>6 DEF DeviceStep
  <2>2. RefreshFits(r)' BY <1>1, <1>5, <1>6, RefreshStays DEF PageInv
  <2>3. PageTypes' BY <1>1, <2>1 DEF PageInv, PageTypes
  <2>4. PastTag(etags[0])' /\ ListFits(Live(fetch["more"]))' BY <1>1, <2>1, ListStays
  <2>5. PageFits' BY <1>3, <1>4, <1>5, <2>1, <2>2, <2>4 DEF PageFits, MoreFits
  <2> QED BY <1>2, <2>3, <2>4, <2>5 DEF PageInv
<1>7. CASE boot' # boot
  <2> DEFINE Cut(f) == f.stage \in {"sent", "page", "rows"}
             Failed(f) == [stage |-> "failed", superseded |-> f.superseded]
             After(f) == IF Cut(f) THEN Failed(f) ELSE f
  <2>1. fetch' = [k \in Kinds |-> After(fetch[k])] BY <1>7 DEF DeviceStep
  <2>2. PICK r2 : r2 = After(r) OBVIOUS
  <2>3. PICK m2 : m2 = After(m) OBVIOUS
  <2>4. fetch' = [k \in Kinds |-> fetch'[k]] /\ fetch'["refresh"] = r2 /\ fetch'["more"] = m2
    BY <1>3, <1>4, <2>1, <2>2, <2>3 DEF Kinds
  <2>5. ASSUME NEW f \in Slots, NEW g, g = After(f)
        PROVE  /\ g \in Slots /\ g \notin Asked
               /\ (g = NoFetch <=> f = NoFetch) /\ (Live(g) <=> Live(f))
               /\ g = f \/ g \in Broken
    <3>1. CASE f = NoFetch BY <2>5, <3>1, NoFetchFits DEF NoFetch, Slots
    <3>2. CASE f # NoFetch
      <4>1. f \in Fetches /\ f.superseded \in BOOLEAN BY <3>2, Stages DEF Slots
      <4>2. CASE Cut(f)
        <5>1. g = Failed(f) BY <2>5, <4>2
        <5>2. g \in Broken /\ g.superseded = f.superseded BY <4>1, <5>1 DEF Broken
        <5>3. g \in Fetches BY <5>2 DEF Fetches
        <5>4. g # NoFetch /\ g \notin Asked BY <5>2, <5>3, Stages DEF Asked, Broken
        <5> QED BY <3>2, <5>2, <5>3, <5>4 DEF Slots, Live
      <4>3. CASE ~Cut(f)
        <5>1. g = f BY <2>5, <4>3
        <5>2. f \notin Asked BY <4>3 DEF Asked
        <5> QED BY <5>1, <5>2
      <4> QED BY <4>2, <4>3
    <3> QED BY <3>1, <3>2
  <2> HIDE DEF After
  <2>6. /\ r2 \in Slots /\ r2 \notin Asked /\ (Live(r2) <=> Live(r)) /\ (r2 = r \/ r2 \in Broken)
        /\ m2 \in Slots /\ (m2 = NoFetch <=> m = NoFetch) /\ (Live(m2) <=> Live(m))
        /\ (m2 = m \/ m2 \in Broken)
    BY <2>2, <2>3, <2>5
  <2>7. \A f \in Broken : f \notin Asked /\ f \notin Reading /\ f \notin Full
    BY DEF Asked, Reading, Full, Broken
  <2>8. RefreshFits(r2) /\ MoreFits(m2) BY <1>5, <2>6, <2>7 DEF RefreshFits, MoreFits
  <2>9. RefreshFits(r2)' BY <1>1, <2>6, <2>8, RefreshStays DEF PageInv
  <2>10. fetch' \in [Kinds -> Slots] BY <2>4, <2>6 DEF Kinds
  <2>11. PageTypes' BY <1>1, <2>10 DEF PageInv, PageTypes
  <2>12. PastTag(etags[0])' /\ ListFits(Live(fetch["more"]))'
    BY <1>1, <1>4, <2>4, <2>6, ListStays
  <2>13. PageFits' BY <1>5, <2>4, <2>6, <2>8, <2>9, <2>12 DEF PageFits, MoreFits
  <2> QED BY <1>2, <2>11, <2>12, <2>13 DEF PageInv
<1> QED BY <1>6, <1>7

\* A step that concerns neither the requests nor the list.
LEMMA ElsewhereFits ==
  ASSUME IInv, PageInv, UNCHANGED <<listVars, fetch, left, misread, vars>>
  PROVE  PageInv'
<1>1. UNCHANGED <<shots, hasMore, etags, seen, fetch, misread>> /\ Around BY DEF listVars, Around
<1>2. DeviceOK' BY DEF PageInv, DeviceOK, vars, ramVars
<1>3. PageTypes' BY <1>1 DEF PageInv, PageTypes
<1>4. PICK r \in Slots : r = fetch["refresh"] BY DEF PageInv, PageTypes, Kinds
<1>5. RefreshFits(r)'
  <2>1. RefreshFits(r) /\ DeviceOK BY <1>4 DEF PageInv, PageFits
  <2>2. boot' = boot BY DEF vars, ramVars
  <2> QED BY <1>1, <2>1, <2>2, RefreshStays
<1>6. PastTag(etags[0])' /\ ListFits(Live(fetch["more"]))' BY <1>1, ListStays
<1>7. PageFits' BY <1>1, <1>4, <1>5, <1>6 DEF PageInv, PageFits, MoreFits
<1> QED BY <1>2, <1>3, <1>6, <1>7 DEF PageInv

\* A page that has just been opened.
LEMMA PageInitFits == PageSpecInit => PageInv
<1> SUFFICES ASSUME PageSpecInit PROVE PageInv OBVIOUS
<1>1. DeviceOK BY DEF PageSpecInit, Init, DeviceOK
<1>2. /\ fetch = [k \in Kinds |-> NoFetch] /\ shots = Null /\ hasMore = FALSE
      /\ etags = [c \in Cursors |-> NoTag] /\ seen = [seq |-> Never, ready |-> TRUE]
      /\ misread = FALSE
  BY DEF PageSpecInit, PageInit
<1>3. Never \in Int BY DEF Never
<1>4. NoFetch \in Slots /\ NoTag \in Tags BY DEF Slots, Tags
<1>5. PageTypes
  <2>1. misread \in BOOLEAN BY <1>2, Zenon
  <2> QED BY <1>2, <1>3, <1>4, <2>1 DEF PageTypes
<1>6. etags[0] = NoTag BY <1>2, StoreAssumption DEF Cursors
<1>7. PastTag(etags[0]) BY <1>6 DEF PastTag
<1>8. ~Confirmed(etags[0]) BY <1>6 DEF Confirmed, Tag, NoTag
<1>9. fetch["refresh"] = NoFetch /\ fetch["more"] = NoFetch BY <1>2 DEF Kinds
<1>10. PageFits BY <1>8, <1>9, NoFetchFits DEF PageFits, RefreshFits, MoreFits, ListFits, Live
<1> QED BY <1>1, <1>5, <1>7, <1>10 DEF PageInv

\* The invariant of the store and of the page is inductive.
THEOREM PageInvariance == PageSpec => [](IInv /\ PageInv)
<1>1. PageSpecInit => IInv /\ PageInv BY InitOK, PageInitFits DEF PageSpecInit
<1>2. IInv /\ PageInv /\ [PageNext]_<<vars, pageVars>> => (IInv /\ PageInv)'
  <2> SUFFICES ASSUME IInv, PageInv, [PageNext]_<<vars, pageVars>> PROVE IInv' /\ PageInv'
    OBVIOUS
  <2>1. CASE DeviceStep
    <3>1. IInv' BY <2>1, StoreStep DEF DeviceStep
    <3> QED BY <2>1, <3>1, DeviceStepFits
  <2>2. ASSUME UNCHANGED vars PROVE IInv' BY <2>2, StoreStep
  <2>3. CASE StateArrives \/ SwitchView
    <3>1. UNCHANGED vars BY <2>3 DEF StateArrives, SwitchView
    <3> QED BY <2>2, <2>3, <3>1, AskFits
  <2>4. CASE LoadMore
    <3>1. UNCHANGED vars BY <2>4 DEF LoadMore
    <3> QED BY <2>2, <2>4, <3>1, LoadMoreFits
  <2>5. CASE RefreshEnds
    <3>1. UNCHANGED vars BY <2>5 DEF RefreshEnds
    <3> QED BY <2>2, <2>5, <3>1, RefreshEndsFits
  <2>6. CASE MoreEnds
    <3>1. UNCHANGED vars BY <2>6 DEF MoreEnds
    <3> QED BY <2>2, <2>6, <3>1, MoreEndsFits
  <2>7. ASSUME NEW k \in Kinds, Validate(k) \/ Snapshot(k) \/ ReadRow(k) \/ Answer(k) \/ Lost(k)
        PROVE  IInv' /\ PageInv'
    <3>1. Handled(k) BY <2>7, ValidateFits, SnapshotFits, ReadRowFits, AnswerFits, LostFits
    <3>2. UNCHANGED vars BY <3>1 DEF Handled
    <3> QED BY <2>2, <3>1, <3>2, HandledFits
  <2>8. CASE \/ \E i \in Ids : ServeDetail(i)
             \/ UNCHANGED <<vars, pageVars>>
    <3>1. UNCHANGED <<listVars, fetch, left, misread, vars>> BY <2>8 DEF ServeDetail, pageVars
    <3> QED BY <2>2, <3>1, ElsewhereFits
  <2> QED BY <2>1, <2>3, <2>4, <2>5, <2>6, <2>7, <2>8 DEF PageNext, PageStep
<1> QED BY <1>1, <1>2, PTL DEF PageSpec

\* "a future 304 against it then correctly means 'what you have is current'"
\* (ui-history.js): whenever the device would confirm the validator of the first
\* page, the list begins with what it would send, unless a save has left its file
\* behind or a read failed while that page was answered (ShotStore::page, readMeta).
THEOREM ConfirmedIsCurrent == PageSpec => []ConfirmedPageIsCurrent
<1>1. IInv /\ PageInv => ConfirmedPageIsCurrent
  <2> SUFFICES ASSUME IInv, PageInv, ~left, ~misread, AtRest, etags[0] = Tag
               PROVE  shots # Null /\ FirstOf(shots) = Page(0)
    BY DEF ConfirmedPageIsCurrent, FirstPageValidator
  <2>1. erasing # "all"
    BY DEF AtRest, Up, Unlocked, Saving, PageInv, DeviceOK
  <2>2. ~Writing BY DEF AtRest, Unlocked, Saving, Writing
  <2>3. Below(0) = Kept BY <2>2 DEF Below, Kept, Listed
  <2>4. Confirmed(etags[0]) BY <2>1 DEF Confirmed
  <2> QED BY <2>3, <2>4 DEF PageInv, PageFits, ListFits, Page
<1> QED BY <1>1, PageInvariance, PTL
=============================================================================
