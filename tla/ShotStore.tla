------------------------------ MODULE ShotStore ------------------------------
(***************************************************************************)
(* The shot history on flash: ShotStore::save with the id reservation in   *)
(* NVS, the mount and format of the volume (storage.cpp), and the two      *)
(* screens that erase.  All of it runs on the main task; power may be lost *)
(* between any two steps, and every flash operation may fail.              *)
(*                                                                         *)
(* A file is its shot and what became of its bytes: "headless" without a   *)
(* valid header, "short" with a valid header and a wrong size, or "whole". *)
(* LittleFS makes a new file's content visible when it is closed.          *)
(***************************************************************************)
EXTENDS Naturals, FiniteSets

CONSTANTS
  Capacity,     \* ShotStore::kMaxShots
  MaxId,        \* kMaxShotId
  MaxSaves,     \* bound: calls of save()
  MaxFaults,    \* bound: failed operations and losses of power
  MaxErasures   \* bound: erasures the user confirms

ASSUME StoreAssumption ==
  /\ Capacity \in Nat \ {0}
  /\ {MaxId, MaxSaves, MaxFaults, MaxErasures} \subseteq Nat

VARIABLES
  \* on flash
  files,        \* the files in /shots: a function from ids
  lastId,       \* NVS "shots" / "last_id", 0 when there is none
  media,        \* the volume: "formatted", "blank", or "damaged"
  \* in memory
  mounted,      \* mountState() is Ready
  pc,           \* the main task's next step
  id,           \* save()'s local of that name
  erasing,      \* what the user has confirmed to erase: "none", "shots" or "all"
  revision,     \* _revision
  boot,         \* stands for _bootNonce: no two boots have the same
  accepted,     \* _lastAcceptedSeq; only what is saved counts here
  savedSeq,     \* _lastSavedSeq
  \* counters
  saves, faults, erasures

flashVars == <<files, lastId, media>>
ramVars   == <<mounted, id, erasing, revision, boot, accepted, savedSeq>>
vars      == <<flashVars, ramVars, pc, saves, faults, erasures>>

Body == {"headless", "short", "whole"}
Pc   == {"off", "idle", "reserve", "open", "close", "verify", "retain",
         "mark", "format", "erased", "restarting"}

NoFiles == [i \in {} |-> 0]
Ids     == DOMAIN files

\* Without(ids): files after those are removed; With(i, f): after i is written.
Without(ids) == [i \in Ids \ ids |-> files[i]]
With(i, f)   == [j \in Ids \cup {i} |-> IF j = i THEN f ELSE files[j]]

TypeOK ==
  /\ Ids \subseteq 1..MaxId
  /\ files \in [Ids -> [shot : 1..MaxSaves, body : Body]]
  /\ lastId \in 0..MaxId
  /\ media \in {"formatted", "blank", "damaged"}
  /\ mounted \in BOOLEAN
  /\ pc \in Pc
  /\ id \in 0..MaxId
  /\ erasing \in {"none", "shots", "all"}
  /\ revision \in Nat
  /\ boot \in Nat
  /\ accepted \in 0..MaxSaves
  /\ savedSeq \in 0..MaxSaves
  /\ saves \in 0..MaxSaves
  /\ faults \in 0..MaxFaults
  /\ erasures \in Nat

\* A new device: nothing on flash, about to boot.
Init ==
  /\ files = NoFiles /\ lastId = 0 /\ media = "blank"
  /\ mounted = FALSE /\ pc = "off" /\ id = 0 /\ erasing = "none"
  /\ revision = 0 /\ boot = 0 /\ accepted = 0 /\ savedSeq = 0
  /\ saves = 0 /\ faults = MaxFaults /\ erasures = 0

\* An operation fails, or power is lost.
Fault == faults > 0 /\ faults' = faults - 1
NoFault == UNCHANGED faults

-----------------------------------------------------------------------------
(* save() *)

SaveKeeps == UNCHANGED <<media, mounted, erasing, boot, erasures>>

Fails(next) == pc' = next /\ Fault

\* The mount check, the directory and the scan.
Save ==
  /\ pc = "idle" /\ saves < MaxSaves
  /\ saves' = saves + 1 /\ accepted' = accepted + 1
  /\ \/ mounted /\ pc' = "reserve" /\ NoFault
     \/ ~mounted /\ pc' = "idle" /\ NoFault
     \/ mounted /\ Fails("idle")
  /\ SaveKeeps
  /\ UNCHANGED <<files, lastId, id, revision, savedSeq>>

Above(s) == {n \in 0..MaxId : \A i \in s : n >= i}
Greatest == CHOOSE n \in Above(Ids) : \A m \in Above(Ids) : n <= m
Oldest   == CHOOSE i \in Ids : \A j \in Ids : i <= j

\* Mutant: the id in NVS is not consulted.
LastUsed_FilesOnly == Greatest

LastUsed == IF lastId > Greatest THEN lastId ELSE Greatest

\* Mutant: the last id is checked off by one.
Exhausted_OffByOne == LastUsed > MaxId

Exhausted == LastUsed >= MaxId

\* reserveNextShotId(): a write or a commit that fails may have reached flash.
Reserve ==
  /\ pc = "reserve"
  /\ LET next == LastUsed + 1
     IN \/ Exhausted /\ pc' = "idle" /\ NoFault /\ UNCHANGED <<lastId, id>>
        \/ /\ ~Exhausted
           /\ lastId' = next /\ id' = next
           /\ pc' = "open" /\ NoFault
        \/ /\ Fails("idle")
           /\ lastId' \in {lastId} \cup (IF Exhausted THEN {} ELSE {next})
           /\ UNCHANGED id
  /\ SaveKeeps
  /\ UNCHANGED <<files, revision, accepted, savedSeq, saves>>

\* open(path, "w") puts an empty file into the directory.
Open ==
  /\ pc = "open"
  /\ \/ /\ files' = With(id, [shot |-> saves, body |-> "headless"])
        /\ pc' = "close" /\ NoFault
     \/ Fails("idle") /\ UNCHANGED files
  /\ SaveKeeps
  /\ UNCHANGED <<lastId, id, revision, accepted, savedSeq, saves>>

\* The encoder's writes, any of which may fall short, and close().
Close ==
  /\ pc = "close"
  /\ \E body \in Body :
       /\ files' = With(id, [shot |-> saves, body |-> body])
       /\ IF body = "whole" THEN NoFault ELSE Fault
  /\ pc' = "verify"
  /\ SaveKeeps
  /\ UNCHANGED <<lastId, id, revision, accepted, savedSeq, saves>>

\* Mutant: a valid header is taken for a whole record.
Verified_Header == files[id].body # "headless"

Verified == files[id].body = "whole"

\* save() goes on to retention only with a record that reads back whole.
VerifyOk ==
  /\ pc = "verify" /\ Verified
  /\ pc' = "retain"
  /\ revision' = revision + 1
  /\ NoFault
  /\ SaveKeeps
  /\ UNCHANGED <<files, lastId, id, accepted, savedSeq, saves>>

\* The record is short, or cannot be read back; it is removed, if that works.
VerifyFails ==
  /\ pc = "verify"
  /\ pc' = "idle"
  /\ \E removed \in BOOLEAN :
       /\ files' = IF removed THEN Without({id}) ELSE files
       /\ LET n == (IF Verified THEN 1 ELSE 0) + (IF removed THEN 0 ELSE 1)
          IN n <= faults /\ faults' = faults - n
  /\ SaveKeeps
  /\ UNCHANGED <<lastId, id, revision, accepted, savedSeq, saves>>

\* Mutant: the scan made before the new record was written decides.
Overfull_OldScan == Cardinality(Ids \ {id}) > Capacity

Overfull == Cardinality(Ids) > Capacity

\* Mutant: the newest is taken for the oldest.
Victim_Newest == CHOOSE i \in Ids : \A j \in Ids : j <= i

Victim == Oldest

\* enforceRetention(), one file at a time.
Evict ==
  /\ pc = "retain" /\ Overfull
  /\ files' = Without({Victim})
  /\ revision' = revision + 1
  /\ NoFault
  /\ SaveKeeps
  /\ UNCHANGED <<pc, lastId, id, accepted, savedSeq, saves>>

\* It ends when enough are gone or one cannot be removed; save() returns true.
Saved ==
  /\ pc = "retain"
  /\ \/ ~Overfull /\ NoFault
     \/ Overfull /\ Fault
  /\ pc' = "mark"
  /\ SaveKeeps
  /\ UNCHANGED <<files, lastId, id, revision, accepted, savedSeq, saves>>

\* persistAcceptedShot() publishes the success.
MarkSaved ==
  /\ pc = "mark"
  /\ pc' = "idle"
  /\ savedSeq' = accepted
  /\ NoFault
  /\ SaveKeeps
  /\ UNCHANGED <<files, lastId, id, revision, accepted, saves>>

-----------------------------------------------------------------------------
(* mount(), retryMount(), format() and the screens that call them. *)

StorageKeeps == UNCHANGED <<id, revision, boot, accepted, savedSeq, saves>>

\* Mutant: the volume is formatted whenever it cannot be mounted.
MayFormat_Always == TRUE

\* initialBlocksErased()
MayFormat == media = "blank"

\* mount(): setup() formats a volume that does not mount only if it is blank.
Mount ==
  /\ pc = "off"
  /\ \/ media = "formatted" /\ mounted' = TRUE /\ pc' = "idle" /\ NoFault
     \/ /\ mounted' = FALSE
        /\ IF media = "formatted" THEN Fault ELSE NoFault
        /\ pc' = IF MayFormat THEN "format" ELSE "idle"
     \/ media # "formatted" /\ mounted' = FALSE /\ pc' = "idle" /\ Fault
  /\ erasing' = "none"
  /\ StorageKeeps
  /\ UNCHANGED <<flashVars, erasures>>

\* StorageRecoveryScreen: RETRY, and a restart when it works.
RetryMount ==
  /\ pc = "idle" /\ ~mounted
  /\ media = "formatted"
  /\ mounted' = TRUE /\ pc' = "restarting"
  /\ NoFault
  /\ StorageKeeps
  /\ UNCHANGED <<flashVars, erasing, erasures>>

\* StorageRecoveryScreen: ERASE, confirmed.
ConfirmFormat ==
  /\ pc = "idle" /\ ~mounted /\ erasures < MaxErasures
  /\ pc' = "format" /\ erasing' = "shots"
  /\ NoFault
  /\ StorageKeeps
  /\ UNCHANGED <<flashVars, mounted, erasures>>

\* EraseDataScreen::_performErase(), with the network stopped: NVS first; the
\* shots only if that worked.
EraseData ==
  /\ pc = "idle" /\ erasures < MaxErasures
  /\ erasing' = "all"
  /\ \/ lastId' = 0 /\ pc' = "format" /\ NoFault
     \/ lastId' \in {0, lastId} /\ Fails("restarting")
  /\ erasures' = erasures + 1
  /\ StorageKeeps
  /\ UNCHANGED <<files, media, mounted>>

\* LittleFS.format() unmounts and clears the blocks ...
FormatErases ==
  /\ pc = "format"
  /\ files' = NoFiles
  /\ media' \in {"blank", "damaged"}
  /\ pc' = "erased"
  /\ erasures' = IF erasing = "none" THEN erasures ELSE erasures + 1
  /\ NoFault
  /\ StorageKeeps
  /\ UNCHANGED <<lastId, mounted, erasing>>

\* Mutant: the device runs on after a format the user confirmed.
AfterFormat_NoRestart == "idle"

AfterFormat == IF erasing = "none" THEN "idle" ELSE "restarting"

\* ... writes an empty filesystem, and it is mounted.
FormatDone ==
  /\ pc = "erased"
  /\ media' = "formatted" /\ mounted' = TRUE
  /\ pc' = AfterFormat
  /\ NoFault
  /\ StorageKeeps
  /\ UNCHANGED <<files, lastId, erasing, erasures>>

\* format() fails, before or after it has touched the blocks.
FormatFails ==
  /\ pc \in {"format", "erased"}
  /\ mounted' = FALSE
  /\ Fails(IF erasing = "all" THEN "restarting" ELSE "idle")
  /\ StorageKeeps
  /\ UNCHANGED <<flashVars, erasing, erasures>>

\* What is in memory is gone; what is on flash is what the last step left.
Restart ==
  /\ pc' = "off" /\ mounted' = FALSE /\ id' = 0 /\ erasing' = "none"
  /\ revision' = 0 /\ boot' = boot + 1 /\ accepted' = 0 /\ savedSeq' = 0
  /\ UNCHANGED <<flashVars, saves, erasures>>

\* ESP.restart()
Reboot == pc = "restarting" /\ NoFault /\ Restart

\* Power is lost, or the device goes to sleep, at any point.
Crash == pc # "off" /\ Fault /\ Restart

-----------------------------------------------------------------------------

Next ==
  \/ Save \/ Reserve \/ Open \/ Close \/ VerifyOk \/ VerifyFails
  \/ Evict \/ Saved \/ MarkSaved
  \/ Mount \/ RetryMount \/ ConfirmFormat \/ EraseData
  \/ FormatErases \/ FormatDone \/ FormatFails
  \/ Reboot \/ Crash

Spec == Init /\ [][Next]_vars

-----------------------------------------------------------------------------
(* Properties. *)

\* The records of the archive are the whole files; the one being written is not
\* among them before save() has verified it.
Writing  == pc \in {"close", "verify"}
Recorded == {i \in Ids : files[i].body = "whole" /\ ~(Writing /\ i = id)}

Records  == [i \in Recorded |-> files[i].shot]

Archive == INSTANCE ShotArchive WITH archive <- Records, used <- LastUsed

\* ShotStore.h, "Each save writes and verifies the new record before removing
\* older records.  A failed write therefore preserves the existing history":
\* whatever fails and whenever power is lost, every step keeps the promise of
\* ShotArchive.
KeepsArchive == Archive!Spec

\* "retains at most 250 records": beyond them there is at most the file being
\* saved and one file for each removal that failed or was cut short.
HistoryBounded ==
  Cardinality(Ids) <=
    Capacity + (MaxFaults - faults) + IF pc \in {"close", "verify", "retain"} THEN 1 ELSE 0

\* "History pages validate record headers and omit incomplete or corrupt files":
\* between saves a file with a valid header is whole.
IncompleteOmitted ==
  pc = "idle" /\ mounted => \A i \in Ids : files[i].body # "short"

=============================================================================
