----------------------------- MODULE BackupProofs -----------------------------
(***************************************************************************)
(* Proofs about the database file and the scripts that copy it, for any    *)
(* number of processes, pages, transactions, backups and days.             *)
(***************************************************************************)
EXTENDS Backup, TLAPS

(* While pages are being written, the journal holds what was committed of  *)
(* them, and the file what was committed of the others.                    *)
JournalCovers ==
    script.at # "restore" =>
        /\ journal = None => writer = None /\ db = committed
        /\ journal # None => \A q \in Pages :
            (IF q \in DOMAIN journal THEN journal[q] ELSE db[q]) = committed[q]
        /\ writer # None =>
            /\ writer.new # {} /\ writer.todo \subseteq writer.new
            /\ DOMAIN journal = writer.new
            /\ \A q \in writer.new \ writer.todo : db[q] = txns

(* A copy nobody wrote beside is so far a copy of what was committed.      *)
CopyFaithful ==
    script.at = "backup" /\ script.quiet =>
        /\ db = committed
        /\ \A q \in 1 .. script.copied : script.copy[q] = db[q]
        /\ writer # None => writer.todo = writer.new

(* A restore as told has the file to itself.                               *)
RestoreAlone ==
    script.at = "restore" =>
        /\ running = {} /\ journal = None /\ writer = None
        /\ script.from.copy \in states
        /\ \A q \in 1 .. script.copied : db[q] = script.from.copy[q]

(* The rotation begins when a backup of today is complete.                 *)
RotationAfterBackup ==
    script.at = "prune" => \E c \in backups : c.complete /\ c.day = day

FileInv ==
    /\ committed \in states
    /\ \A b \in backups : b.quiet => b.copy \in states
    /\ JournalCovers /\ CopyFaithful /\ RestoreAlone

-----------------------------------------------------------------------------
AtBackup ==
    [at : {"backup"}, copied : 0 .. NumPages, copy : Files, quiet : BOOLEAN,
     scheduled : BOOLEAN]

AtRestore == [at : {"restore"}, copied : 0 .. NumPages, from : Backup]

(* What at says of the rest of a script.                                   *)
LEMMA ScriptKinds ==
    ASSUME NEW s \in Script
    PROVE  /\ s.at = "backup" => s \in AtBackup
           /\ s.at = "restore" => s \in AtRestore
           /\ s.at \in {"idle", "prune"} => s \in [at : {"idle", "prune"}]
           /\ s.at \in {"idle", "prune", "backup", "restore"}
  BY DEF Script, AtBackup, AtRestore

(* What the scripts may be doing, named.                                   *)
LEMMA ScriptsThere ==
    /\ Idle \in Script /\ Idle.at = "idle"
    /\ [at |-> "prune"] \in Script
    /\ AtBackup \subseteq Script /\ AtRestore \subseteq Script
  BY DEF Script, Idle, AtBackup, AtRestore

(* Telling a script that it was disturbed leaves it the script it was.     *)
LEMMA Disturbed ==
    ASSUME TypeOK, Disturb
    PROVE  /\ script' \in Script
           /\ script'.at = script.at
           /\ script.at = "backup" => ~script'.quiet
           /\ script.at # "backup" => script' = script
  <1>1. CASE script.at = "backup"
    <2>1. script \in AtBackup
      BY <1>1, ScriptKinds DEF TypeOK
    <2>2. script' = [script EXCEPT !.quiet = FALSE]
      BY <1>1 DEF Disturb
    <2>3. script' \in AtBackup /\ ~script'.quiet
      BY <2>1, <2>2 DEF AtBackup
    <2> QED
      BY <1>1, <2>3, ScriptsThere DEF AtBackup
  <1>2. CASE script.at # "backup"
    BY <1>2 DEF Disturb, TypeOK
  <1> QED
    BY <1>1, <1>2

(* What a transaction has written of the file is in its journal.           *)
LEMMA WriterTyped ==
    ASSUME TypeOK, writer # None
    PROVE  writer \in Writers /\ writer.by \in running
  BY DEF TypeOK

(* A journal holds contents of pages.                                      *)
LEMMA JournalTyped ==
    ASSUME TypeOK, journal # None
    PROVE  journal \in Journals /\ \A q \in DOMAIN journal : journal[q] \in Content
  <1>1. journal \in Journals
    BY DEF TypeOK
  <1>2. PICK s \in SUBSET Pages : journal \in [s -> Content]
    BY <1>1 DEF Journals
  <1> QED
    BY <1>1, <1>2

-----------------------------------------------------------------------------
(* Every variable stays in its set: pages hold transactions that were      *)
(* begun, a transaction belongs to a process that is up, a script has      *)
(* copied no more pages than there are (database.py, backup.sh,            *)
(* run-backup.sh, restore.sh).                                             *)
THEOREM BackupTypeOK == Spec => []TypeOK
  <1> USE BackupAssumption
  <1>1. Init => TypeOK
    <2> SUFFICES ASSUME Init
                 PROVE  TypeOK
      OBVIOUS
    <2>1. db \in Files
      BY DEF Init, Files, Content
    <2>2. 0 \in 0 .. MaxTxns /\ 1 \in 1 .. LastDay
      OBVIOUS
    <2> QED
      BY <2>1, <2>2, ScriptsThere DEF Init, TypeOK
  <1>2. TypeOK /\ [Next]_vars => TypeOK'
    <2> SUFFICES ASSUME TypeOK, [Next]_vars
                 PROVE  TypeOK'
      OBVIOUS
    <2>1. ASSUME NEW p \in Processes, Start(p)
          PROVE  TypeOK'
      BY <2>1 DEF TypeOK, Start, file
    <2>2. ASSUME NEW p \in Processes, Stop(p)
          PROVE  TypeOK'
      BY <2>2 DEF TypeOK, Stop, InTransaction, file
    <2>3. ASSUME NEW p \in Processes, Kill(p)
          PROVE  TypeOK'
      BY <2>3 DEF TypeOK, Kill
    <2>4. ASSUME NEW p \in Processes, Recover(p)
          PROVE  TypeOK'
      <3>1. db' \in Files
        BY <2>4, JournalTyped DEF TypeOK, Recover, Files
      <3> QED
        BY <2>4, <3>1, Disturbed DEF TypeOK, Recover
    <2>5. ASSUME NEW p \in Processes, NEW new \in (SUBSET Pages) \ {{}}, Begin(p, new)
          PROVE  TypeOK'
      <3>1. journal' \in [new -> Content]
        BY <2>5 DEF TypeOK, Begin, Files
      <3>2. journal' \in Journals
        BY <3>1 DEF Journals
      <3>3. writer' \in Writers /\ writer'.by \in running /\ writer'.new = new
        BY <2>5 DEF Begin, Writers
      <3>4. txns' \in 0 .. MaxTxns
        BY <2>5 DEF TypeOK, Begin
      <3> QED
        BY <2>5, <3>1, <3>2, <3>3, <3>4 DEF TypeOK, Begin
    <2>6. ASSUME NEW q \in Pages, WritePage(q)
          PROVE  TypeOK'
      <3>1. db' \in Files
        BY <2>6 DEF TypeOK, WritePage, Files, Content
      <3>2. writer' \in Writers /\ writer'.by \in running
        BY <2>6, WriterTyped DEF WritePage, Writers
      <3> QED
        BY <2>6, <3>1, <3>2, Disturbed DEF TypeOK, WritePage
    <2>7. ASSUME Commit
          PROVE  TypeOK'
      <3>1. committed' \in Files
        BY <2>7 DEF TypeOK, Commit, Files, Content
      <3> QED
        BY <2>7, <3>1 DEF TypeOK, Commit
    <2>8. ASSUME Rollback
          PROVE  TypeOK'
      <3>1. db' \in Files
        BY <2>8, WriterTyped DEF TypeOK, Rollback, Files, Writers
      <3> QED
        BY <2>8, <3>1, Disturbed DEF TypeOK, Rollback
    <2>9. ASSUME NEW scheduled \in BOOLEAN, BackUp(scheduled)
          PROVE  TypeOK'
      <3>1. script' \in AtBackup
        BY <2>9 DEF BackUp, AtBackup, Blank, Files, Content
      <3> QED
        BY <2>9, <3>1, ScriptsThere DEF TypeOK, BackUp, file
    <2>10. ASSUME CopyPage
           PROVE  TypeOK'
      <3>1. script' \in AtBackup
        <4>1. script \in AtBackup /\ script.copied + 1 \in Pages
          BY <2>10, ScriptKinds DEF TypeOK, CopyPage
        <4> DEFINE new == [script.copy EXCEPT ![script.copied + 1] = db[script.copied + 1]]
        <4>2. new \in Files
          BY <4>1 DEF TypeOK, AtBackup, Files
        <4>3. script' = [script EXCEPT !.copied = script.copied + 1, !.copy = new]
          BY <2>10 DEF CopyPage
        <4>4. script.copied + 1 \in 0 .. NumPages
          BY <4>1 DEF Pages
        <4> HIDE DEF new
        <4> QED
          BY <4>1, <4>2, <4>3, <4>4 DEF AtBackup
      <3> QED
        BY <2>10, <3>1, ScriptsThere DEF TypeOK, CopyPage, file
    <2>11. ASSUME BackedUp
           PROVE  TypeOK'
      <3>1. Directory(TRUE) \in Backup
        BY <2>11, ScriptKinds DEF TypeOK, BackedUp, AtBackup, Directory, Backup
      <3> QED
        BY <2>11, <3>1, ScriptsThere DEF TypeOK, BackedUp, file
    <2>12. ASSUME BackupFails
           PROVE  TypeOK'
      <3>1. Directory(FALSE) \in Backup
        BY <2>12, ScriptKinds DEF TypeOK, BackupFails, AtBackup, Directory, Backup
      <3> QED
        BY <2>12, <3>1, ScriptsThere DEF TypeOK, BackupFails, file
    <2>13. ASSUME Prune
           PROVE  TypeOK'
      BY <2>13, ScriptsThere DEF TypeOK, Prune, file
    <2>14. ASSUME NEW b \in backups, Restore(b)
           PROVE  TypeOK'
      <3>1. script' \in AtRestore
        BY <2>14 DEF TypeOK, Restore, AtRestore
      <3>2. db' \in Files
        BY <2>14 DEF Restore, Blank, Files, Content
      <3> QED
        BY <2>14, <3>1, <3>2, ScriptsThere DEF TypeOK, Restore, Proper
    <2>15. ASSUME RestorePage
           PROVE  TypeOK'
      <3>1. script \in AtRestore
        BY <2>15, ScriptKinds DEF TypeOK, RestorePage
      <3>2. script' \in AtRestore
        BY <2>15, <3>1 DEF RestorePage, AtRestore, Pages
      <3>3. db' \in Files
        BY <2>15, <3>1 DEF TypeOK, RestorePage, AtRestore, Backup, Files
      <3> QED
        BY <2>15, <3>2, <3>3, ScriptsThere DEF TypeOK, RestorePage
    <2>16. ASSUME Restored
           PROVE  TypeOK'
      <3>1. script.from.copy \in Files
        BY <2>16, ScriptKinds DEF TypeOK, Restored, AtRestore, Backup
      <3> QED
        BY <2>16, <3>1, ScriptsThere DEF TypeOK, Restored
    <2>17. ASSUME RestoreFails
           PROVE  TypeOK'
      BY <2>17, ScriptsThere DEF TypeOK, RestoreFails, file
    <2>18. ASSUME NextDay
           PROVE  TypeOK'
      BY <2>18 DEF TypeOK, NextDay, file
    <2>19. CASE UNCHANGED vars
      BY <2>19 DEF TypeOK, vars
    <2> QED
      BY <2>1, <2>2, <2>3, <2>4, <2>5, <2>6, <2>7, <2>8, <2>9, <2>10, <2>11, <2>12,
         <2>13, <2>14, <2>15, <2>16, <2>17, <2>18, <2>19 DEF Next
  <1> QED
    BY <1>1, <1>2, PTL DEF Spec
-----------------------------------------------------------------------------
(* The rotation only runs after a backup of the day was completed: set -e  *)
(* ends run-backup.sh before it otherwise, and no script takes days.       *)
THEOREM RotationAfter == Spec => []RotationAfterBackup
  <1>1. Init => RotationAfterBackup
    BY ScriptsThere DEF Init, RotationAfterBackup
  <1>2. TypeOK /\ RotationAfterBackup /\ [Next]_vars => RotationAfterBackup'
    <2> SUFFICES ASSUME TypeOK, RotationAfterBackup, [Next]_vars, script'.at = "prune"
                 PROVE  \E c \in backups' : c.complete /\ c.day = day'
      BY DEF RotationAfterBackup
    <2>1. CASE BackedUp
      <3>1. Directory(TRUE) \in backups' /\ day' = day
        BY <2>1 DEF BackedUp, file
      <3>2. Directory(TRUE).complete /\ Directory(TRUE).day = day
        BY DEF Directory
      <3> QED
        BY <3>1, <3>2
    <2>2. CASE script.at = "prune" /\ UNCHANGED <<backups, day>>
      BY <2>2 DEF RotationAfterBackup
    <2>3. CASE script' = Idle
      BY <2>3, ScriptsThere
    <2>4. ASSUME Disturb, UNCHANGED <<backups, day>>
          PROVE  script.at = "prune" /\ UNCHANGED <<backups, day>>
      BY <2>4, Disturbed
    <2>5. ASSUME CopyPage \/ RestorePage
          PROVE  script'.at = script.at
      <3>1. script \in AtBackup \cup AtRestore
        BY <2>5, ScriptKinds DEF CopyPage, RestorePage, TypeOK
      <3> QED
        BY <2>5, <3>1 DEF CopyPage, RestorePage, AtBackup, AtRestore
    <2>6. CASE \E p \in Processes :
                  Start(p) \/ Stop(p) \/ Kill(p)
                    \/ \E new \in (SUBSET Pages) \ {{}} : Begin(p, new)
      BY <2>6, <2>2 DEF Start, Stop, Kill, Begin
    <2>7. CASE (\E p \in Processes : Recover(p)) \/ (\E q \in Pages : WritePage(q)) \/ Rollback
      BY <2>7, <2>2, <2>4 DEF Recover, WritePage, Rollback
    <2>8. CASE CopyPage \/ RestorePage
      BY <2>8, <2>5 DEF CopyPage, RestorePage
    <2>9. CASE (\E scheduled \in BOOLEAN : BackUp(scheduled)) \/ (\E b \in backups : Restore(b))
      BY <2>9 DEF BackUp, Restore
    <2>10. CASE Commit \/ NextDay \/ UNCHANGED vars
      BY <2>10, <2>2, ScriptsThere DEF Commit, NextDay, vars
    <2>11. CASE BackupFails \/ Prune \/ Restored \/ RestoreFails
      BY <2>11, <2>3 DEF BackupFails, Prune, Restored, RestoreFails
    <2> QED
      BY <2>1, <2>6, <2>7, <2>8, <2>9, <2>10, <2>11 DEF Next
  <1> QED
    BY <1>1, <1>2, BackupTypeOK, PTL DEF Spec

(* The rotation never takes the newest backup that was completed: what it  *)
(* takes is older than the one of today it ran after.                      *)
THEOREM RotationKeeps == Spec => RotationKeepsOne
  <1> USE BackupAssumption
  <1>1. ASSUME TypeOK, RotationAfterBackup, [Next]_vars
        PROVE  [\A b \in backups :
                    b.complete /\ b \notin backups' =>
                        \E c \in backups' : c.complete /\ c.day > b.day]_vars
    <2> SUFFICES ASSUME NEW b \in backups, b.complete, b \notin backups'
                 PROVE  \E c \in backups' : c.complete /\ c.day > b.day
      OBVIOUS
    <2>1. Prune
      BY <1>1
      DEF Next, Start, Stop, Kill, Recover, Begin, WritePage, Commit, Rollback, BackUp,
          CopyPage, BackedUp, BackupFails, Restore, RestorePage, Restored, RestoreFails,
          NextDay, vars
    <2>2. PICK c \in backups : c.complete /\ c.day = day
      BY <1>1, <2>1 DEF Prune, RotationAfterBackup
    <2>3. b.day \in Int /\ day \in Int /\ Retention \in Nat
      BY <1>1 DEF TypeOK, Backup
    <2>4. c \in backups'
      BY <2>1, <2>2, <2>3 DEF Prune
    <2>5. day - b.day > Retention
      BY <2>1, <2>3 DEF Prune
    <2> QED
      BY <2>2, <2>3, <2>4, <2>5
  <1> QED
    BY <1>1, BackupTypeOK, RotationAfter, PTL DEF Spec, RotationKeepsOne

-----------------------------------------------------------------------------
(* The journal covers what a transaction has half-written, a quiet copy is *)
(* one of what was committed, and a restore as told has the file to itself *)
(* (db_session, backup.sh, restore.sh).                                    *)
THEOREM FileInvHolds == Spec => [](~spoilt => FileInv)
  <1> USE BackupAssumption, NoneAssumption
  <1>1. Init => FileInv
    BY ScriptsThere DEF Init, FileInv, JournalCovers, CopyFaithful, RestoreAlone
  <1>2. TypeOK /\ TypeOK' /\ (~spoilt => FileInv) /\ [Next]_vars => (~spoilt' => FileInv')
    <2>0. CASE UNCHANGED vars
      BY <2>0 DEF vars, FileInv, JournalCovers, CopyFaithful, RestoreAlone
    <2> SUFFICES ASSUME TypeOK, TypeOK', FileInv, Next, ~spoilt, ~spoilt'
                 PROVE  FileInv'
      BY <2>0 DEF Next
    <2> USE DEF FileInv
    <2>1. ASSUME NEW p \in Processes, Start(p)
          PROVE  FileInv'
      BY <2>1 DEF Start, file, JournalCovers, CopyFaithful, RestoreAlone
    <2>2. ASSUME NEW p \in Processes, Stop(p)
          PROVE  FileInv'
      BY <2>2 DEF Stop, file, JournalCovers, CopyFaithful, RestoreAlone
    <2>3. ASSUME NEW p \in Processes, Kill(p)
          PROVE  FileInv'
      BY <2>3 DEF Kill, InTransaction, JournalCovers, CopyFaithful, RestoreAlone
    <2>4. ASSUME NEW p \in Processes, Recover(p)
          PROVE  FileInv'
      <3>1. script.at # "restore"
        BY <2>4 DEF Recover, RestoreAlone
      <3>2. db' = committed
        BY <2>4, <3>1 DEF Recover, JournalCovers, TypeOK, Files
      <3>3. script'.at # "restore" /\ ~(script'.at = "backup" /\ script'.quiet)
        BY <2>4, <3>1, Disturbed DEF Recover
      <3> QED
        BY <2>4, <3>2, <3>3 DEF Recover, JournalCovers, CopyFaithful, RestoreAlone
    <2>5. ASSUME NEW p \in Processes, NEW new \in (SUBSET Pages) \ {{}}, Begin(p, new)
          PROVE  FileInv'
      <3>1. script.at # "restore" /\ db = committed
        BY <2>5 DEF Begin, RestoreAlone, JournalCovers
      <3>2. DOMAIN journal' = new /\ \A q \in new : journal'[q] = db[q]
        BY <2>5 DEF Begin
      <3>3. writer' = [by |-> p, todo |-> new, new |-> new] /\ new # {}
        BY <2>5 DEF Begin
      <3>4. JournalCovers'
        <4>1. journal' # None /\ writer' # None
          BY <2>5, <3>2, NoneAssumption DEF Begin, TypeOK, Journals, Writers
        <4> QED
          BY <2>5, <3>1, <3>2, <3>3, <4>1 DEF Begin, JournalCovers
      <3> QED
        BY <2>5, <3>1, <3>3, <3>4 DEF Begin, CopyFaithful, RestoreAlone
    <2>6. ASSUME NEW q \in Pages, WritePage(q)
          PROVE  FileInv'
      <3>1. script.at # "restore"
        BY <2>6 DEF WritePage, RestoreAlone
      <3>2. script'.at # "restore" /\ ~(script'.at = "backup" /\ script'.quiet)
        BY <2>6, <3>1, Disturbed DEF WritePage
      <3>3. /\ writer \in Writers /\ writer # None /\ journal # None
            /\ writer'.todo = writer.todo \ {q} /\ writer'.new = writer.new
        BY <2>6, <3>1, WriterTyped DEF WritePage, JournalCovers, Writers
      <3>4. /\ DOMAIN journal = writer.new /\ q \in writer.new
            /\ writer.new # {} /\ writer.todo \subseteq writer.new
        BY <2>6, <3>1, <3>3 DEF WritePage, JournalCovers
      <3>5. \A r \in Pages : db'[r] = IF r = q THEN txns ELSE db[r]
        BY <2>6 DEF WritePage, TypeOK, Files
      <3>6. \A r \in writer.new \ (writer.todo \ {q}) : db'[r] = txns
        BY <3>1, <3>3, <3>5 DEF JournalCovers, Writers
      <3>7. \A r \in Pages :
               (IF r \in DOMAIN journal THEN journal[r] ELSE db'[r]) = committed[r]
        BY <3>1, <3>3, <3>4, <3>5 DEF JournalCovers
      <3>8. JournalCovers'
        BY <2>6, <3>3, <3>4, <3>6, <3>7 DEF WritePage, JournalCovers
      <3> QED
        BY <2>6, <3>2, <3>8 DEF WritePage, CopyFaithful, RestoreAlone
    <2>7. ASSUME Commit
          PROVE  FileInv'
      <3>1. script.at # "restore" /\ writer # None /\ journal # None
        BY <2>7 DEF Commit, RestoreAlone, JournalCovers
      <3>2. ~(script.at = "backup" /\ script.quiet)
        BY <2>7, <3>1 DEF Commit, CopyFaithful, JournalCovers
      <3>3. committed' = db
        BY <2>7, <3>1 DEF Commit, JournalCovers, TypeOK, Files
      <3> QED
        BY <2>7, <3>1, <3>2, <3>3 DEF Commit, JournalCovers, CopyFaithful, RestoreAlone
    <2>8. ASSUME Rollback
          PROVE  FileInv'
      <3>1. script.at # "restore" /\ writer # None /\ journal # None
        BY <2>8 DEF Rollback, RestoreAlone, JournalCovers
      <3>2. db' = committed
        BY <2>8, <3>1 DEF Rollback, JournalCovers, TypeOK, Files
      <3>3. script'.at # "restore" /\ ~(script'.at = "backup" /\ script'.quiet)
        BY <2>8, <3>1, Disturbed DEF Rollback
      <3> QED
        BY <2>8, <3>2, <3>3 DEF Rollback, JournalCovers, CopyFaithful, RestoreAlone
    <2>9. ASSUME NEW scheduled \in BOOLEAN, BackUp(scheduled)
          PROVE  FileInv'
      <3>1. script.at = "idle" /\ script'.at = "backup" /\ script'.copied = 0
        BY <2>9, ScriptsThere DEF BackUp
      <3>2. script'.quiet => journal = None
        BY <2>9 DEF BackUp
      <3>3. CopyFaithful'
        BY <2>9, <3>1, <3>2 DEF BackUp, file, JournalCovers, CopyFaithful
      <3> QED
        BY <2>9, <3>1, <3>3 DEF BackUp, file, JournalCovers, RestoreAlone
    <2>10. ASSUME CopyPage
           PROVE  FileInv'
      <3>1. script \in AtBackup /\ script.copied + 1 \in Pages
        BY <2>10, ScriptKinds DEF TypeOK, CopyPage
      <3>2. /\ script.at = "backup" /\ script'.at = "backup"
            /\ script'.copied = script.copied + 1 /\ script'.quiet = script.quiet
            /\ script'.copy = [script.copy EXCEPT ![script.copied + 1] = db[script.copied + 1]]
        BY <2>10, <3>1 DEF CopyPage, AtBackup
      <3>3. \A q \in 1 .. script'.copied :
               script'.copy[q] = IF q = script.copied + 1 THEN db[q] ELSE script.copy[q]
        BY <3>1, <3>2 DEF AtBackup, Files, Pages
      <3>4. CopyFaithful'
        BY <2>10, <3>1, <3>2, <3>3 DEF CopyPage, file, CopyFaithful, AtBackup
      <3> QED
        BY <2>10, <3>2, <3>4 DEF CopyPage, file, JournalCovers, RestoreAlone, AtBackup
    <2>11. ASSUME BackedUp
           PROVE  FileInv'
      <3>1. script \in AtBackup /\ script.copied = NumPages
        BY <2>11, ScriptKinds DEF TypeOK, BackedUp
      <3>2. script.quiet => script.copy \in states
        <4> SUFFICES ASSUME script.quiet
                     PROVE  script.copy = committed
          OBVIOUS
        <4> QED
          BY <2>11, <3>1 DEF CopyFaithful, BackedUp, TypeOK, AtBackup, Files, Pages
      <3>3. \A b \in backups' : b.quiet => b.copy \in states'
        <4>1. /\ Directory(TRUE).quiet <=> script.quiet
              /\ Directory(TRUE).copy = script.copy
          BY <3>1 DEF Directory, AtBackup
        <4> QED
          BY <2>11, <3>2, <4>1 DEF BackedUp, file
      <3>4. script.at = "backup" /\ script'.at \in {"prune", "idle"}
        BY <2>11, ScriptsThere DEF BackedUp
      <3> QED
        BY <2>11, <3>3, <3>4 DEF BackedUp, file, JournalCovers, CopyFaithful, RestoreAlone
    <2>12. ASSUME BackupFails
           PROVE  FileInv'
      <3>1. \A b \in backups' : b.quiet => b.copy \in states'
        <4>1. ~Directory(FALSE).quiet
          BY DEF Directory
        <4> QED
          BY <2>12, <4>1 DEF BackupFails, file
      <3> QED
        BY <2>12, <3>1, ScriptsThere
        DEF BackupFails, file, JournalCovers, CopyFaithful, RestoreAlone
    <2>13. ASSUME Prune
           PROVE  FileInv'
      BY <2>13, ScriptsThere DEF Prune, file, JournalCovers, CopyFaithful, RestoreAlone
    <2>14. ASSUME NEW b \in backups, Restore(b)
           PROVE  FileInv'
      <3>1. running = {} /\ journal = None /\ b.copy \in states
        BY <2>14 DEF Restore, Proper
      <3>2. writer = None
        BY <3>1, WriterTyped
      <3>3. script'.at = "restore" /\ script'.copied = 0 /\ script'.from = b
        BY <2>14 DEF Restore
      <3> QED
        BY <2>14, <3>1, <3>2, <3>3 DEF Restore, JournalCovers, CopyFaithful, RestoreAlone
    <2>15. ASSUME RestorePage
           PROVE  FileInv'
      <3>1. script \in AtRestore /\ script.copied + 1 \in Pages
        BY <2>15, ScriptKinds DEF TypeOK, RestorePage
      <3>2. /\ script'.at = "restore" /\ script'.copied = script.copied + 1
            /\ script'.from = script.from
        BY <2>15, <3>1 DEF RestorePage, AtRestore
      <3>3. \A q \in 1 .. script'.copied : db'[q] = script.from.copy[q]
        BY <2>15, <3>1, <3>2, SMTT(40) DEF RestorePage, RestoreAlone, TypeOK, AtRestore, Files, Pages
      <3> QED
        BY <2>15, <3>2, <3>3 DEF RestorePage, JournalCovers, CopyFaithful, RestoreAlone
    <2>16. ASSUME Restored
           PROVE  FileInv'
      <3>1. script \in AtRestore /\ script.copied = NumPages
        BY <2>16, ScriptKinds DEF TypeOK, Restored
      <3>2. db = script.from.copy
        BY <2>16, <3>1 DEF Restored, RestoreAlone, TypeOK, AtRestore, Backup, Files, Pages
      <3> QED
        BY <2>16, <3>2, ScriptsThere
        DEF Restored, JournalCovers, CopyFaithful, RestoreAlone
    <2>17. ASSUME RestoreFails
           PROVE  FileInv'
      BY <2>17 DEF RestoreFails
    <2>18. ASSUME NextDay
           PROVE  FileInv'
      BY <2>18 DEF NextDay, file, JournalCovers, CopyFaithful, RestoreAlone
    <2> QED
      BY <2>1, <2>2, <2>3, <2>4, <2>5, <2>6, <2>7, <2>8, <2>9, <2>10, <2>11, <2>12,
         <2>13, <2>14, <2>15, <2>16, <2>17, <2>18 DEF Next
  <1> QED
    BY <1>1, <1>2, BackupTypeOK, PTL DEF Spec

(* A backup that was made while nothing was written is a state that was    *)
(* once committed, and restoring one as the instructions say gives that    *)
(* state: from then on, as before, the file holds what was committed last  *)
(* whenever nobody is writing, through any kills, recoveries and further   *)
(* backups and restores (backup.sh, restore.sh, db_session).               *)
RestoreGivesCommitted ==
    /\ \A b \in backups : b.quiet /\ ~spoilt => b.copy \in states
    /\ ~spoilt /\ journal = None /\ writer = None /\ script.at # "restore" => db = committed

(* A backup made while nothing was written is a state that was committed,  *)
(* and after a restore as told the file holds what was committed whenever  *)
(* nobody writes.                                                          *)
THEOREM RestoreGives == Spec => []RestoreGivesCommitted
  <1>1. (~spoilt => FileInv) => RestoreGivesCommitted
    BY DEF FileInv, JournalCovers, RestoreGivesCommitted
  <1> QED
    BY <1>1, FileInvHolds, PTL

-----------------------------------------------------------------------------
Pending == IF writer = None THEN {} ELSE writer.new

Snapshots == {b.copy : b \in {c \in backups : c.quiet}}

(* What the file holds, while the instructions are kept to: what was       *)
(* committed last, or what is being restored.                              *)
HeldTrue ==
    /\ Held = IF script.at = "restore" THEN script.from.copy ELSE committed
    /\ Held # None

LEMMA HeldIs ==
    ASSUME TypeOK, FileInv, ~spoilt
    PROVE  HeldTrue
  <1>1. CASE script.at = "restore"
    <2>1. script.from.copy \in Files
      BY <1>1, ScriptKinds DEF TypeOK, AtRestore, Backup
    <2>2. Files \subseteq Journals
      BY DEF Files, Journals
    <2> QED
      BY <1>1, <2>1, <2>2, NoneAssumption DEF Held, HeldTrue
  <1>2. CASE script.at # "restore"
    <2>1. Recovered = committed
      <3>1. \A q \in Pages : Recovered[q] = committed[q]
        BY <1>2 DEF Recovered, FileInv, JournalCovers
      <3>2. committed \in [Pages -> Content]
        BY DEF TypeOK, Files
      <3> QED
        BY <3>1, <3>2 DEF Recovered
    <2>2. committed \in Files /\ Files \subseteq Journals
      BY DEF TypeOK, Files, Journals
    <2> QED
      BY <1>2, <2>1, <2>2, NoneAssumption DEF Held, HeldTrue
  <1> QED
    BY <1>1, <1>2

(* Nobody writes beside a restore as told, and a transaction has pages.    *)
LEMMA PendingIs ==
    ASSUME TypeOK, FileInv
    PROVE  /\ Pending \in SUBSET Pages /\ (writer = None <=> Pending = {})
           /\ script.at = "restore" => writer = None
  <1>1. writer # None => writer.new \in SUBSET Pages /\ writer.new # {}
    BY WriterTyped DEF FileInv, JournalCovers, RestoreAlone, Writers
  <1> QED
    BY <1>1 DEF Pending, FileInv, RestoreAlone

(* A step that has no meaning for the file as a whole.                     *)
LEMMA Unseen ==
    ASSUME Held' = Held, txns' = txns, Pending' = Pending, Snapshots' = Snapshots
    PROVE  UNCHANGED Atomic!vars
  BY DEF Pending, Snapshots, Atomic!vars

(* A step of the processes, while no restore is under way.                 *)
LEMMA WritersAreAtomic ==
    ASSUME TypeOK, TypeOK', FileInv, HeldTrue, HeldTrue', ~spoilt, ~spoilt',
           \/ \E p \in Processes :
                \/ Start(p) \/ Stop(p) \/ Kill(p) \/ Recover(p)
                \/ \E new \in (SUBSET Pages) \ {{}} : Begin(p, new)
           \/ \E q \in Pages : WritePage(q)
           \/ Commit \/ Rollback
    PROVE  [Atomic!Next]_(Atomic!vars)
  <1>1. /\ Held = IF script.at = "restore" THEN script.from.copy ELSE committed
        /\ Held # None
    BY DEF HeldTrue
  <1>2. Held' = IF script'.at = "restore" THEN script'.from.copy ELSE committed'
    BY DEF HeldTrue
  <1>3. /\ writer = None <=> Pending = {}
        /\ script.at = "restore" => writer = None
    BY PendingIs
  <1>4. ASSUME NEW p \in Processes, Start(p) \/ Stop(p)
        PROVE  UNCHANGED Atomic!vars
    <2>1. UNCHANGED <<script, committed, writer, txns, backups>>
      BY <1>4 DEF Start, Stop, file
    <2> QED
      BY <1>1, <1>2, <2>1, Unseen DEF Pending, Snapshots
  <1>5. ASSUME NEW p \in Processes, Kill(p)
        PROVE  Atomic!Abort
    <2>1. /\ UNCHANGED <<script, committed, txns, backups>>
          /\ writer # None /\ writer' = None
      BY <1>5 DEF Kill, InTransaction
    <2> QED
      BY <1>1, <1>2, <1>3, <2>1 DEF Pending, Atomic!Abort
  <1>6. ASSUME NEW p \in Processes, Recover(p)
        PROVE  UNCHANGED Atomic!vars
    <2>1. script.at # "restore"
      BY <1>6 DEF Recover, FileInv, RestoreAlone
    <2>2. UNCHANGED <<committed, writer, txns, backups>> /\ script'.at = script.at
      BY <1>6, Disturbed DEF Recover
    <2> QED
      BY <1>1, <1>2, <2>1, <2>2, Unseen DEF Pending, Snapshots
  <1>7. ASSUME NEW p \in Processes, NEW new \in (SUBSET Pages) \ {{}}, Begin(p, new)
        PROVE  Atomic!Begin(new)
    <2>1. /\ UNCHANGED <<script, committed, backups>> /\ txns' = txns + 1
          /\ writer = None /\ writer' = [by |-> p, todo |-> new, new |-> new]
      BY <1>7 DEF Begin
    <2>2. writer' # None
      BY <2>1, NoneAssumption DEF Writers
    <2> QED
      BY <1>1, <1>2, <2>1, <2>2 DEF Atomic!Begin
  <1>8. ASSUME NEW q \in Pages, WritePage(q)
        PROVE  UNCHANGED Atomic!vars
    <2>1. writer \in Writers /\ writer # None /\ script.at # "restore"
      BY <1>3, <1>8, WriterTyped DEF WritePage
    <2>2. /\ UNCHANGED <<committed, txns, backups>> /\ script'.at = script.at
          /\ writer' = [writer EXCEPT !.todo = @ \ {q}]
      BY <1>8, Disturbed DEF WritePage
    <2>3. writer'.new = writer.new /\ writer' \in Writers
      BY <2>1, <2>2 DEF Writers
    <2>4. writer' # None
      BY <2>3, NoneAssumption
    <2> QED
      BY <1>1, <1>2, <2>1, <2>2, <2>3, <2>4, Unseen DEF Pending, Snapshots
  <1>9. ASSUME Commit
        PROVE  Atomic!Commit
    <2>1. /\ writer # None /\ writer' = None /\ UNCHANGED <<script, txns, backups>>
          /\ committed' = [q \in Pages |-> IF q \in writer.new THEN txns ELSE committed[q]]
      BY <1>9 DEF Commit
    <2> QED
      BY <1>1, <1>2, <1>3, <2>1 DEF Pending, Atomic!Commit
  <1>10. ASSUME Rollback
         PROVE  Atomic!Abort
    <2>1. /\ writer # None /\ writer' = None /\ UNCHANGED <<committed, txns, backups>>
          /\ script'.at = script.at
      BY <1>10, Disturbed DEF Rollback
    <2> QED
      BY <1>1, <1>2, <1>3, <2>1 DEF Pending, Atomic!Abort
  <1> QED
    BY <1>4, <1>5, <1>6, <1>7, <1>8, <1>9, <1>10 DEF Atomic!Next

(* A step of the scripts, or of time.                                      *)
LEMMA ScriptsAreAtomic ==
    ASSUME TypeOK, TypeOK', FileInv, HeldTrue, HeldTrue', ~spoilt, ~spoilt',
           \/ \E scheduled \in BOOLEAN : BackUp(scheduled)
           \/ CopyPage \/ BackedUp \/ BackupFails \/ Prune
           \/ \E b \in backups : Restore(b)
           \/ RestorePage \/ Restored \/ NextDay
    PROVE  [Atomic!Next]_(Atomic!vars)
  <1> USE BackupAssumption
  <1>1. /\ Held = IF script.at = "restore" THEN script.from.copy ELSE committed
        /\ Held # None
    BY DEF HeldTrue
  <1>2. Held' = IF script'.at = "restore" THEN script'.from.copy ELSE committed'
    BY DEF HeldTrue
  <1>3. /\ writer = None <=> Pending = {}
        /\ script.at = "restore" => writer = None
    BY PendingIs
  <1>4. UNCHANGED <<txns, writer>> /\ Pending' = Pending
    BY DEF BackUp, CopyPage, BackedUp, BackupFails, Prune, Restore, RestorePage, Restored,
           NextDay, file, Pending
  <1>5. ASSUME Held' = Held, Snapshots' = Snapshots
        PROVE  UNCHANGED Atomic!vars
    BY <1>4, <1>5, Unseen
  <1>6. CASE (\E scheduled \in BOOLEAN : BackUp(scheduled)) \/ NextDay
    <2>1. /\ script.at = "idle" /\ script'.at # "restore"
          /\ UNCHANGED <<committed, backups>>
      BY <1>6, ScriptsThere DEF BackUp, NextDay, file
    <2> QED
      BY <1>1, <1>2, <1>5, <2>1 DEF Snapshots
  <1>7. CASE CopyPage
    <2>1. script \in AtBackup /\ script.at = "backup"
      BY <1>7, ScriptKinds DEF CopyPage, TypeOK
    <2>2. script'.at = "backup"
      BY <1>7, <2>1 DEF CopyPage, AtBackup
    <2>3. UNCHANGED <<committed, backups>>
      BY <1>7 DEF CopyPage, file
    <2> QED
      BY <1>1, <1>2, <1>5, <2>1, <2>2, <2>3 DEF Snapshots
  <1>8. CASE BackedUp
    <2>1. /\ script \in AtBackup /\ script.at = "backup" /\ script.copied = NumPages
          /\ script'.at # "restore" /\ committed' = committed
          /\ backups' = backups \cup {Directory(TRUE)}
      BY <1>8, ScriptKinds, ScriptsThere DEF BackedUp, TypeOK, file
    <2>2. Directory(TRUE).copy = script.copy /\ Directory(TRUE).quiet = script.quiet
      BY <2>1 DEF Directory, AtBackup
    <2>3. CASE script.quiet
      <3>1. script.copy = committed
        BY <2>1, <2>3 DEF FileInv, CopyFaithful, TypeOK, AtBackup, Files, Pages
      <3>2. Snapshots' = Snapshots \cup {committed}
        BY <2>1, <2>2, <2>3, <3>1 DEF Snapshots
      <3>3. Atomic!Save
        BY <1>1, <1>2, <1>4, <2>1, <3>2 DEF Atomic!Save, Snapshots, Pending
      <3> QED
        BY <3>3 DEF Atomic!Next
    <2>4. CASE ~script.quiet
      <3>1. Snapshots' = Snapshots
        BY <2>1, <2>2, <2>4 DEF Snapshots
      <3> QED
        BY <1>1, <1>2, <1>5, <2>1, <3>1
    <2> QED
      BY <2>3, <2>4
  <1>9. CASE BackupFails
    <2>1. /\ script.at = "backup" /\ script'.at # "restore" /\ committed' = committed
          /\ backups' = backups \cup {Directory(FALSE)}
      BY <1>9, ScriptsThere DEF BackupFails, file
    <2>2. ~Directory(FALSE).quiet
      BY DEF Directory
    <2>3. Snapshots' = Snapshots
      BY <2>1, <2>2 DEF Snapshots
    <2> QED
      BY <1>1, <1>2, <1>5, <2>1, <2>3
  <1>10. CASE Prune
    <2>1. /\ script.at # "restore" /\ script'.at # "restore" /\ committed' = committed
          /\ backups' \subseteq backups
      BY <1>10, ScriptsThere DEF Prune, file
    <2>2. Snapshots' \subseteq Snapshots
      BY <2>1 DEF Snapshots
    <2>3. Atomic!Forget
      BY <1>1, <1>2, <1>4, <2>1, <2>2 DEF Atomic!Forget, Snapshots, Pending
    <2> QED
      BY <2>3 DEF Atomic!Next
  <1>11. ASSUME NEW b \in backups, Restore(b)
         PROVE  Atomic!Restore
    <2>1. /\ running = {} /\ b.quiet /\ UNCHANGED <<committed, backups>>
          /\ script' = [at |-> "restore", copied |-> 0, from |-> b]
      BY <1>11 DEF Restore, Proper
    <2>2. writer = None
      BY <2>1 DEF TypeOK
    <2>3. Held' = b.copy /\ b.copy \in Snapshots /\ Snapshots' = Snapshots
      BY <1>2, <2>1 DEF Snapshots
    <2> QED
      BY <1>1, <1>3, <1>4, <2>2, <2>3 DEF Atomic!Restore, Snapshots, Pending
  <1>12. CASE RestorePage
    <2>1. script \in AtRestore /\ script.at = "restore"
      BY <1>12, ScriptKinds DEF RestorePage, TypeOK
    <2>2. script'.at = "restore" /\ script'.from = script.from
      BY <1>12, <2>1 DEF RestorePage, AtRestore
    <2>3. UNCHANGED backups
      BY <1>12 DEF RestorePage
    <2> QED
      BY <1>1, <1>2, <1>5, <2>1, <2>2, <2>3 DEF Snapshots
  <1>13. CASE Restored
    <2>1. /\ script.at = "restore" /\ script'.at # "restore"
          /\ committed' = script.from.copy /\ backups' = backups
      BY <1>13, ScriptsThere DEF Restored
    <2> QED
      BY <1>1, <1>2, <1>5, <2>1 DEF Snapshots
  <1> QED
    BY <1>6, <1>7, <1>8, <1>9, <1>10, <1>11, <1>12, <1>13 DEF Atomic!Next

(* The file, its journal and the scripts do what transactions, backups and *)
(* restores that each happen at one moment would do, whatever is killed,   *)
(* rolled back, recovered, copied and rotated in between (db_session,      *)
(* backup.sh, run-backup.sh, restore.sh).                                  *)
THEOREM FileImplementsAtomic == Spec => FileIsAtomic
  <1>1. Init => Atomic!Init
    <2> SUFFICES ASSUME Init
                 PROVE  Atomic!Init
      OBVIOUS
    <2>1. Held = [p \in Pages |-> 0]
      BY ScriptsThere DEF Init, Held, Recovered
    <2> QED
      BY <2>1 DEF Init, Atomic!Init
  <1>2. TypeOK /\ (~spoilt => FileInv) => (~spoilt => HeldTrue)
    BY HeldIs
  <1>3. /\ TypeOK /\ TypeOK' /\ (~spoilt => FileInv)
        /\ (~spoilt => HeldTrue) /\ (~spoilt => HeldTrue)' /\ [Next]_vars
        => [Atomic!Next]_(Atomic!vars)
    <2> SUFFICES ASSUME TypeOK, TypeOK', ~spoilt => FileInv, ~spoilt => HeldTrue,
                        (~spoilt => HeldTrue)', [Next]_vars
                 PROVE  [Atomic!Next]_(Atomic!vars)
      OBVIOUS
    <2>1. CASE UNCHANGED vars
      <3>1. Held' = Held
        BY <2>1 DEF vars, Held, Recovered
      <3> QED
        BY <2>1, <3>1, Unseen DEF vars, Pending, Snapshots
    <2>2. CASE Next /\ spoilt'
      <3>1. Held' = None
        BY <2>2 DEF Held
      <3>2. (\E p \in Processes : Start(p)) \/ (\E b \in backups : Restore(b)) \/ RestoreFails
        BY <2>2 DEF Next, Stop, Kill, Recover, Begin, WritePage, Commit, Rollback, BackUp,
                    CopyPage, BackedUp, BackupFails, Prune, RestorePage, Restored, NextDay
      <3>3. UNCHANGED <<txns, writer, backups>>
        BY <3>2 DEF Start, Restore, RestoreFails, file
      <3>4. Atomic!Spoil
        BY <3>1, <3>3 DEF Atomic!Spoil
      <3> QED
        BY <3>4 DEF Atomic!Next
    <2>3. CASE Next /\ ~spoilt'
      <3>1. ~spoilt /\ FileInv /\ HeldTrue /\ HeldTrue' /\ ~RestoreFails
        BY <2>3 DEF Next, RestoreFails
      <3> QED
        BY <2>3, <3>1, WritersAreAtomic, ScriptsAreAtomic DEF Next
    <2> QED
      BY <2>1, <2>2, <2>3
  <1> QED
    BY <1>1, <1>2, <1>3, BackupTypeOK, FileInvHolds, PTL DEF Spec, FileIsAtomic, Atomic!Spec
=============================================================================
