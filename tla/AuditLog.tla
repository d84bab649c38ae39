------------------------------- MODULE AuditLog -------------------------------
(***************************************************************************)
(* The audit log: one file of lines a day (backend/security/audit_log.py,  *)
(* audit_reader.py).  Threads and processes append without a lock; a line  *)
(* is one write, which may fail, or stop part of the way through it.       *)
(***************************************************************************)
EXTENDS Integers, Sequences, FiniteSets, SequencesExt

CONSTANTS
    LastDay,   \* bound: days are 1 .. LastDay
    Torn,      \* the text of a line that is no JSON object
    Broken     \* the text of one that is not even UTF-8

ASSUME AuditLogAssumption == LastDay \in Nat \ {0} /\ Torn # Broken

Days == 1 .. LastDay

(* What may come of a write: OSError is caught, before or after some bytes. *)
WriteOutcomes == {"whole", "nothing", "part"}

(* A line that quotes the user may be cut in the middle of a character.    *)
QuoteOutcomes == WriteOutcomes \cup {"split"}

Lines(Event) == [text : Event \cup {Torn, Broken}, ended : BOOLEAN]

NoFiles == [d \in Days |-> <<>>]

(* A line that was cut off takes the next one with it.                     *)
Cut(file) == file # <<>> /\ ~Last(file).ended

(* _write                                                                  *)
Write(files, day, event, outcome) ==
    LET file == files[day]
        text == CASE outcome = "split" \/ (Cut(file) /\ Last(file).text = Broken) -> Broken
                  [] outcome = "whole" /\ ~Cut(file) -> event
                  [] OTHER -> Torn
        line == [text |-> text, ended |-> outcome = "whole"]
    IN  IF outcome = "nothing" THEN files
        ELSE [files EXCEPT ![day] = Append(IF Cut(file) THEN Front(file) ELSE file, line)]

Recorded(files, event) == \E d \in Days : \E i \in DOMAIN files[d] : files[d][i].text = event

(* The places of lines: a file, and a line of it.                          *)
Places(files) == UNION {{d} \X DOMAIN files[d] : d \in Days}

TextAt(files, p) == files[p[1]][p[2]].text

(* The lines of a file in the order they are in it.                        *)
NewerFile(p, q) == p[1] > q[1] \/ (p[1] = q[1] /\ p[2] < q[2])

(* The newest file is read first, and in it the last line first.           *)
Newer(p, q) == p[1] > q[1] \/ (p[1] = q[1] /\ p[2] > q[2])

(* Lines that are no JSON object, or not wanted, are passed over.          *)
Found(files, wanted) == {p \in Places(files) : TextAt(files, p) \in wanted}

NewerFound(files, wanted, p) == {q \in Found(files, wanted) : Newer(q, p)}

(* The k-th line that is found.                                            *)
KthFound(files, wanted, k) ==
    CHOOSE p \in Found(files, wanted) : Cardinality(NewerFound(files, wanted, p)) + 1 = k

(* _read_filtered                                                          *)
ReadFiltered(files, wanted, limit) ==
    LET found == Cardinality(Found(files, wanted)) IN
    [k \in 1 .. (IF found < limit THEN found ELSE limit) |->
        TextAt(files, KthFound(files, wanted, k))]

(* readlines() decodes a whole file before a line of it is looked at, and  *)
(* raises for a line that is not UTF-8: nothing is read then, unless the   *)
(* newer files had enough.                                                 *)
ReadingRaises(files, wanted, limit) ==
    \E d \in Days :
        LET newer == [e \in Days |-> IF e > d THEN files[e] ELSE <<>>] IN
        /\ \E i \in DOMAIN files[d] : files[d][i].text = Broken
        /\ Cardinality(Found(newer, wanted)) < limit
=============================================================================
