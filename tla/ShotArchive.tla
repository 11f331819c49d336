----------------------------- MODULE ShotArchive -----------------------------
(***************************************************************************)
(* What the shot history promises (ShotStore.h, README "Saving shot        *)
(* history"): finished records under ids that only grow.  A record is      *)
(* stored under the latest id handed out, is never changed, and goes only  *)
(* when the user erases the history or when it is the oldest and a newer   *)
(* one has been stored since the latest id was handed out.                 *)
(***************************************************************************)
EXTENDS Naturals

VARIABLES
  archive,    \* the records: a function from ids to shots
  used,       \* the greatest id ever handed out, since the last erasure
  erasures    \* erasures confirmed by the user

archiveVars == <<archive, used, erasures>>

Ids == DOMAIN archive

Only(ids) == [i \in ids |-> archive[i]]

Init ==
  /\ archive = [i \in {} |-> 0]
  /\ used = 0
  /\ erasures = 0

\* An id is handed out; the save that asked for it may still fail.
Reserve ==
  /\ used' \in Nat /\ used' > used
  /\ UNCHANGED <<archive, erasures>>

Store ==
  /\ used > 0 /\ used \notin Ids
  /\ DOMAIN archive' = Ids \cup {used}
  /\ \A i \in Ids : archive'[i] = archive[i]
  /\ UNCHANGED <<used, erasures>>

Evict ==
  /\ used \in Ids
  /\ \E oldest \in Ids \ {used} :
       /\ \A i \in Ids : oldest <= i
       /\ archive' = Only(Ids \ {oldest})
  /\ UNCHANGED <<used, erasures>>

\* The user erases the device or the history: the ids may start again, but not
\* below a record that is still there.
Erase ==
  /\ erasures' = erasures + 1
  /\ \E ids \in SUBSET Ids : archive' = Only(ids)
  /\ used' \in 0..used
  /\ \A i \in DOMAIN archive' : i <= used'

Next == Reserve \/ Store \/ Evict \/ Erase

Spec == Init /\ [][Next]_archiveVars

==============================================================================
