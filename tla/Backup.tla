-------------------------------- MODULE Backup --------------------------------
(***************************************************************************)
(* The database file, the processes that write to it and the scripts that  *)
(* copy it (backend/storage/database.py, deployment/raspberry-pi/backup.sh, *)
(* run-backup.sh, restore.sh).                                             *)
(*                                                                         *)
(* The file is a number of pages.  SQLite writes a transaction page by     *)
(* page, under a journal of what the pages held before, and the scripts    *)
(* copy the file page by page, without its locks and without its journal.  *)
(***************************************************************************)
EXTENDS Integers, Sequences, FiniteSets, Functions

CONSTANTS
    Processes,   \* the service and the voice command line
    NumPages,    \* pages of the file
    Retention,   \* BACKUP_RETENTION_DAYS
    None,
    MaxTxns,     \* bound: transactions begun
    MaxBackups,  \* bound: backups there are at a time
    LastDay      \* bound: days are 1 .. LastDay

ASSUME BackupAssumption ==
    {NumPages, LastDay} \subseteq Nat \ {0} /\ {Retention, MaxTxns, MaxBackups} \subseteq Nat

VARIABLES
    running,     \* the processes that are up
    db,          \* rasapi.db
    journal,     \* rasapi.db-journal: the pages as they were, or None
    writer,      \* the process in a transaction and the pages it has yet to write
    txns,        \* transactions begun: what each writes into its pages
    day,
    script,      \* the script that runs
    backups,     \* the directories under $BACKUP_ROOT
    committed,   \* what the last transaction to commit left, or a restore
    states,      \* every state that was ever committed
    spoilt       \* a restore went against the instructions, or failed

vars == <<running, db, journal, writer, txns, day, script, backups,
          committed, states, spoilt>>

file == <<db, journal, writer, txns, committed, states>>

Pages == 1 .. NumPages

(* What a page holds: the number of a transaction, or nothing yet.         *)
Content == 0 .. MaxTxns \cup {None}

Files == [Pages -> Content]

Journals == UNION {[s -> Content] : s \in SUBSET Pages}

Writers == [by : Processes, todo : SUBSET Pages, new : SUBSET Pages]

ASSUME NoneAssumption == None \notin Journals \cup Writers

Blank == [p \in Pages |-> None]

(* A directory: whether backup.sh got to its end, and whether nothing was  *)
(* written to the file meanwhile, nor left half-written before.            *)
Backup == [day : 1 .. LastDay, copy : Files, complete : BOOLEAN, quiet : BOOLEAN]

Idle == [at |-> "idle"]

Script ==
    [at : {"idle", "prune"}]
        \cup [at : {"backup"}, copied : 0 .. NumPages, copy : Files, quiet : BOOLEAN,
              scheduled : BOOLEAN]
        \cup [at : {"restore"}, copied : 0 .. NumPages, from : Backup]

TypeOK ==
    /\ running \subseteq Processes /\ db \in Files
    /\ journal \in Journals \cup {None} /\ writer \in Writers \cup {None}
    /\ writer # None => writer.by \in running /\ journal \in [writer.new -> Content]
    /\ txns \in 0 .. MaxTxns /\ day \in 1 .. LastDay
    /\ script \in Script /\ backups \subseteq Backup
    /\ committed \in Files /\ states \subseteq Files /\ spoilt \in BOOLEAN

Init ==
    /\ running = {}
    /\ db = [p \in Pages |-> 0]
    /\ journal = None /\ writer = None
    /\ txns = 0
    /\ day = 1 /\ script = Idle /\ backups = {}
    /\ committed = db /\ states = {db}
    /\ spoilt = FALSE

-----------------------------------------------------------------------------
(* systemctl start, or the command line.                                   *)
Start(p) ==
    /\ p \notin running
    /\ running' = running \cup {p}
    /\ spoilt' = (script.at = "restore")
    /\ UNCHANGED <<file, day, script, backups>>

InTransaction(p) == writer # None /\ writer.by = p

(* A stop that closes the connection of a transaction half-done.           *)
StopAtOnce(p) ==
    /\ p \in running
    /\ running' = running \ {p}
    /\ UNCHANGED <<file, day, script, backups, spoilt>>

(* systemctl stop, between transactions.                                   *)
Stop(p) ==
    /\ p \in running /\ ~InTransaction(p)
    /\ running' = running \ {p}
    /\ UNCHANGED <<file, day, script, backups, spoilt>>

(* The process is killed in a transaction: a journal is left.              *)
Kill(p) ==
    /\ InTransaction(p)
    /\ running' = running \ {p}
    /\ writer' = None
    /\ UNCHANGED <<db, journal, txns, committed, states, day, script, backups, spoilt>>

(* The file changes while it may be copied.                                *)
Disturb == script' = IF script.at = "backup" THEN [script EXCEPT !.quiet = FALSE] ELSE script

(* Whoever opens the file next plays a journal back that nobody owns.      *)
Recover(p) ==
    /\ p \in running /\ writer = None /\ journal # None
    /\ db' = [q \in Pages |-> IF q \in DOMAIN journal THEN journal[q] ELSE db[q]]
    /\ journal' = None
    /\ Disturb
    /\ UNCHANGED <<running, writer, txns, committed, states, day, backups, spoilt>>

(* db_session: one writer at a time; its pages go to the journal first.    *)
Begin(p, new) ==
    /\ p \in running /\ writer = None /\ journal = None /\ txns < MaxTxns
    /\ None \notin Range(db)
    /\ txns' = txns + 1
    /\ journal' = [q \in new |-> db[q]]
    /\ writer' = [by |-> p, todo |-> new, new |-> new]
    /\ UNCHANGED <<running, db, committed, states, day, script, backups, spoilt>>

WritePage(q) ==
    /\ writer # None /\ q \in writer.todo
    /\ db' = [db EXCEPT ![q] = txns]
    /\ writer' = [writer EXCEPT !.todo = @ \ {q}]
    /\ Disturb
    /\ UNCHANGED <<running, journal, txns, committed, states, day, backups, spoilt>>

(* conn.commit(): the journal is deleted when all is written.              *)
Commit ==
    /\ writer # None /\ writer.todo = {}
    /\ journal' = None /\ writer' = None
    /\ committed' = [q \in Pages |-> IF q \in writer.new THEN txns ELSE committed[q]]
    /\ states' = states \cup {committed'}
    /\ UNCHANGED <<running, db, txns, day, script, backups, spoilt>>

(* conn.rollback().                                                        *)
Rollback ==
    /\ writer # None
    /\ db' = [q \in Pages |-> IF q \in writer.new THEN journal[q] ELSE db[q]]
    /\ journal' = None /\ writer' = None
    /\ Disturb
    /\ UNCHANGED <<running, txns, committed, states, day, backups, spoilt>>

-----------------------------------------------------------------------------
(* backup.sh, by hand or from run-backup.sh: mkdir, then cp.               *)
BackUp(scheduled) ==
    /\ script = Idle /\ Cardinality(backups) < MaxBackups
    /\ script' = [at |-> "backup", copied |-> 0, copy |-> Blank,
                  quiet |-> journal = None, scheduled |-> scheduled]
    /\ UNCHANGED <<running, file, day, backups, spoilt>>

CopyPage ==
    LET next == script.copied + 1 IN
    /\ script.at = "backup" /\ next \in Pages
    /\ script' = [script EXCEPT !.copied = next, !.copy[next] = db[next]]
    /\ UNCHANGED <<running, file, day, backups, spoilt>>

Directory(complete) ==
    [day |-> day, copy |-> script.copy, complete |-> complete,
     quiet |-> complete /\ script.quiet]

(* All is copied; run-backup.sh goes on to the rotation.                   *)
BackedUp ==
    /\ script.at = "backup" /\ script.copied = NumPages
    /\ backups' = backups \cup {Directory(TRUE)}
    /\ script' = IF script.scheduled THEN [at |-> "prune"] ELSE Idle
    /\ UNCHANGED <<running, file, day, spoilt>>

(* run-backup.sh goes on to the rotation whatever became of the backup.    *)
BackupFailsOn ==
    /\ script.at = "backup"
    /\ backups' = backups \cup {Directory(FALSE)}
    /\ script' = IF script.scheduled THEN [at |-> "prune"] ELSE Idle
    /\ UNCHANGED <<running, file, day, spoilt>>

(* cp fails, and set -e ends both scripts; the directory stays.            *)
BackupFails ==
    /\ script.at = "backup"
    /\ backups' = backups \cup {Directory(FALSE)}
    /\ script' = Idle
    /\ UNCHANGED <<running, file, day, spoilt>>

(* find -mtime +$BACKUP_RETENTION_DAYS, rm -rf.                            *)
Prune ==
    /\ script.at = "prune"
    /\ backups' = {b \in backups : day - b.day <= Retention}
    /\ script' = Idle
    /\ UNCHANGED <<running, file, day, spoilt>>

-----------------------------------------------------------------------------
(* What restore.sh and the documents ask for: everything is stopped, in    *)
(* order, and the backup is one made so.                                   *)
Proper(b) == running = {} /\ journal = None /\ b.quiet

(* restore.sh: a warning at most, then cp, which empties the file first    *)
(* and leaves the journal alone.                                           *)
Restore(b) ==
    /\ script = Idle /\ b \in backups
    /\ script' = [at |-> "restore", copied |-> 0, from |-> b]
    /\ db' = Blank
    /\ spoilt' = ~Proper(b)
    /\ UNCHANGED <<running, journal, writer, txns, committed, states, day, backups>>

RestorePage ==
    LET next == script.copied + 1 IN
    /\ script.at = "restore" /\ next \in Pages
    /\ db' = [db EXCEPT ![next] = script.from.copy[next]]
    /\ script' = [script EXCEPT !.copied = next]
    /\ UNCHANGED <<running, journal, writer, txns, committed, states, day, backups, spoilt>>

(* "Restore complete" is printed whatever cp said.                         *)
RestoredAnyway ==
    /\ script.at = "restore"
    /\ committed' = script.from.copy
    /\ script' = Idle
    /\ UNCHANGED <<running, db, journal, writer, txns, states, day, backups, spoilt>>

(* "Restore complete".                                                     *)
Restored ==
    /\ script.at = "restore" /\ script.copied = NumPages
    /\ committed' = script.from.copy
    /\ script' = Idle
    /\ UNCHANGED <<running, db, journal, writer, txns, states, day, backups, spoilt>>

(* cp fails, and set -e ends the script: the file is what it is by now.    *)
RestoreFails ==
    /\ script.at = "restore"
    /\ script' = Idle
    /\ spoilt' = TRUE
    /\ UNCHANGED <<running, file, day, backups>>

(* No script takes days.                                                   *)
NextDay ==
    /\ day < LastDay /\ script = Idle
    /\ day' = day + 1
    /\ UNCHANGED <<running, file, script, backups, spoilt>>

(* Bound: nothing is followed past a restore that failed or went against   *)
(* the instructions; what the file holds then is anybody's guess.          *)
Next ==
    /\ ~spoilt
    /\ \/ \E p \in Processes :
            \/ Start(p) \/ Stop(p) \/ Kill(p) \/ Recover(p)
            \/ \E new \in (SUBSET Pages) \ {{}} : Begin(p, new)
       \/ \E q \in Pages : WritePage(q)
       \/ Commit \/ Rollback
       \/ \E scheduled \in BOOLEAN : BackUp(scheduled)
       \/ CopyPage \/ BackedUp \/ BackupFails \/ Prune
       \/ \E b \in backups : Restore(b)
       \/ RestorePage \/ Restored \/ RestoreFails
       \/ NextDay

Spec == Init /\ [][Next]_vars

-----------------------------------------------------------------------------
(* The rotation never takes the newest backup that was completed, however  *)
(* many nights of failed ones came after it (run-backup.sh).               *)
RotationKeepsOne ==
    [][\A b \in backups :
        b.complete /\ b \notin backups' =>
            \E c \in backups' : c.complete /\ c.day > b.day]_vars

(* What whoever opens the file will find in it: the pages of a transaction *)
(* that has not committed as they were before.                             *)
Recovered ==
    [q \in Pages |-> IF journal # None /\ q \in DOMAIN journal THEN journal[q] ELSE db[q]]

(* A restore as told has nobody look at the file before its end.           *)
Held ==
    CASE spoilt -> None
      [] ~spoilt /\ script.at = "restore" -> script.from.copy
      [] OTHER -> Recovered

Atomic == INSTANCE AtomicFile WITH
              Unknown <- None,
              value <- Held,
              begun <- txns,
              pending <- IF writer = None THEN {} ELSE writer.new,
              snapshots <- {b.copy : b \in {c \in backups : c.quiet}}

(* Pages written one after the other under a journal, by processes that    *)
(* may be killed at any of them, and copied and replaced one after the     *)
(* other without it, are transactions, backups and restores that each      *)
(* happen at one moment: until somebody does not keep to the instructions, *)
(* or a restore fails (db_session, backup.sh, restore.sh).                 *)
FileIsAtomic == Atomic!Spec
=============================================================================
