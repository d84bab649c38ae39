----------------------------- MODULE AtomicFile -----------------------------
(***************************************************************************)
(* What the database file promises to those who use it, without pages      *)
(* being written one by one, journals, scripts or processes: a transaction *)
(* takes effect at one moment or never, a backup is what the file held at  *)
(* one moment, and a restore gives back one that was made.                 *)
(***************************************************************************)
EXTENDS Integers

CONSTANTS Pages, Unknown

VARIABLES
    value,       \* what the file holds, or Unknown when nothing is promised
    begun,       \* transactions begun so far
    pending,     \* the pages the transaction that is open writes, {} without one
    snapshots    \* the backups

vars == <<value, begun, pending, snapshots>>

Init ==
    /\ value = [p \in Pages |-> begun]
    /\ begun = 0 /\ pending = {} /\ snapshots = {}

Begin(pages) ==
    /\ value # Unknown /\ pending = {}
    /\ begun' = begun + 1 /\ pending' = pages
    /\ UNCHANGED <<value, snapshots>>

Commit ==
    /\ value # Unknown /\ pending # {}
    /\ value' = [p \in Pages |-> IF p \in pending THEN begun ELSE value[p]]
    /\ pending' = {}
    /\ UNCHANGED <<begun, snapshots>>

(* Rolled back, or its process was killed.                                 *)
Abort ==
    /\ value # Unknown /\ pending # {}
    /\ pending' = {}
    /\ UNCHANGED <<value, begun, snapshots>>

Save ==
    /\ value # Unknown
    /\ snapshots' = snapshots \cup {value}
    /\ UNCHANGED <<value, begun, pending>>

Forget ==
    /\ value # Unknown
    /\ snapshots' \subseteq snapshots
    /\ UNCHANGED <<value, begun, pending>>

Restore ==
    /\ value # Unknown /\ pending = {}
    /\ value' \in snapshots
    /\ UNCHANGED <<begun, pending, snapshots>>

(* Somebody did not keep to the instructions, or a restore failed.         *)
Spoil ==
    /\ value' = Unknown
    /\ UNCHANGED <<begun, pending, snapshots>>

Next ==
    \/ \E pages \in (SUBSET Pages) \ {{}} : Begin(pages)
    \/ Commit \/ Abort \/ Save \/ Forget \/ Restore \/ Spoil

Spec == Init /\ [][Next]_vars
=============================================================================
