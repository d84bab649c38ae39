--------------------------- MODULE DashboardProofs ---------------------------
(***************************************************************************)
(* The tables, what is put on record of them, and who is told what, beside *)
(* pages that are put together meanwhile: proofs for any processes,        *)
(* workers, page threads, numbers of calls and of failed writes.           *)
(***************************************************************************)
EXTENDS Dashboard, AuditLogProofs, FiniteSetTheorems

(* What a record of a change says is so: the row is there, made by the     *)
(* call or done by somebody.                                               *)
Truth(e) ==
    e.id # None /\ e.outcome \in {"success", "noop"} =>
        /\ e.table \in Tables /\ e.id \in DOMAIN rows[e.table]
        /\ IF e.type = "created" THEN rows[e.table][e.id].by = e.by
           ELSE rows[e.table][e.id].done # None

(* The record of a click has that of complete_task before it.              *)
Backed(e) ==
    e.type = "clicked" =>
        \/ e.by \in lost
        \/ e.outcome = "error" /\ Recorded(files, Completed(e.by, e.id, "error"))
        \/ /\ e.outcome = "success"
           /\ \E o \in {"success", "noop"} : Recorded(files, Completed(e.by, e.id, o))

Unmarked(w, id) == \A m \in marked : ~(m[1] = w /\ m[3] = id)

(* What a worker is about to do is in order.                               *)
JobTrue(w, j) ==
    /\ j.at = "insert" /\ j.table # "task" => j.text # "secret"
    /\ j.at = "update" => j.id \in DOMAIN rows["task"] /\ Unmarked(w, j.id)
    /\ j.at = "record" =>
        /\ j.event.by = j.by /\ Truth(j.event) /\ Backed(j.event)
        /\ j.button => \E o \in {"success", "noop", "error"} :
                            j.event = Completed(j.event.by, j.event.id, o)
        /\ j.event.type = "completed" /\ j.event.outcome = "success" =>
             j.event.table = "task" /\ j.event.id \in Ids /\ Unmarked(w, j.event.id)

JobsTrue == \A w \in Workers : JobTrue(w, job[w])

FilesTrue == \A e \in Event : Recorded(files, e) => Truth(e) /\ Backed(e)

(* A record is written, or about to be, or is lost.                        *)
Told(e) ==
    \/ Recorded(files, e) \/ e.by \in lost
    \/ \E w \in Workers : job[w].at = "record" /\ job[w].event = e

RowsTold ==
    \A t \in Tables : \A i \in DOMAIN rows[t] :
        /\ Told(Created(t, rows[t][i].by, i))
        /\ rows[t][i].done # None => Told(Completed(rows[t][i].done, i, "success"))

MarkedDone ==
    \A m \in marked : m[3] \in DOMAIN rows["task"] /\ rows["task"][m[3]].done # None

Inserting(t) == {w \in Workers : job[w].at = "insert" /\ job[w].table = t}

Room == \A t \in Tables : Len(rows[t]) + Cardinality(Inserting(t)) <= calls

Typed ==
    /\ calls \in 0 .. MaxCalls /\ bad \in 0 .. MaxBadWrites
    /\ rows \in [Tables -> Seq(Row)]
    /\ \A t \in Tables \ {"task"} : \A i \in DOMAIN rows[t] : rows[t][i].text # "secret"
    /\ job \in [Workers -> Job]
    /\ files \in Logs(Event) /\ CutsUnread(files)
    /\ marked \subseteq Workers \X Calls \X Ids /\ lost \subseteq Calls

StoreInv ==
    /\ Typed /\ Room /\ JobsTrue /\ FilesTrue /\ RowsTold
    /\ MarkedDone /\ MarkedOncePerWorker

-----------------------------------------------------------------------------
(* Rows stay, who made them and what they say too, and what is done.       *)
RowsGrow ==
    \A t \in Tables : \A i \in DOMAIN rows[t] :
        /\ i \in DOMAIN rows'[t]
        /\ rows'[t][i].by = rows[t][i].by
        /\ rows[t][i].done # None => rows'[t][i].done # None

(* What is on record, or lost, stays so.                                   *)
LogGrows ==
    /\ \A e \in Event : Recorded(files, e) => Recorded(files', e)
    /\ lost \subseteq lost'

(* The calls and the events there are.                                     *)
LEMMA Events ==
    /\ \A t \in Tables, c \in Calls, i \in Ids : Created(t, c, i) \in Event
    /\ \A c \in Calls, i \in Ids, o \in {"success", "noop", "error"} : Completed(c, i, o) \in Event
    /\ \A e \in Event : e \notin Unread /\ e.by \in Calls
BY StoreAssumption, NamesAssumption DEF Event, Created, Completed, Unread

(* A record is written, or lost, and nothing else comes to the log.        *)
LEMMA RecordingGrows ==
    ASSUME Typed, NEW event \in Event, NEW outcomes \in SUBSET QuoteOutcomes,
           Recording(event, outcomes)
    PROVE  /\ files' \in Logs(Event) /\ CutsUnread(files') /\ bad' \in 0 .. MaxBadWrites
           /\ lost' \subseteq Calls /\ LogGrows
           /\ \A e \in Event : Recorded(files', e) => Recorded(files, e) \/ e = event
           /\ Recorded(files', event) \/ event.by \in lost'
<1>1. PICK outcome \in outcomes :
        /\ outcome = "whole" \/ bad < MaxBadWrites
        /\ files' = Write(files, 1, event, outcome)
        /\ bad' = bad + IF outcome = "whole" THEN 0 ELSE 1
        /\ lost' = IF Recorded(files', event) THEN lost ELSE lost \cup {event.by}
  BY DEF Recording
<1>2. 1 \in Days
  BY AuditLogAssumption DEF Days
<1>3. /\ files' \in Logs(Event) /\ CutsUnread(files')
      /\ \A e : e \notin Unread =>
           /\ Recorded(files, e) => Recorded(files', e)
           /\ Recorded(files', e) => Recorded(files, e) \/ e = event
  BY <1>1, <1>2, WriteRecords DEF Typed
<1>4. bad' \in 0 .. MaxBadWrites
  BY <1>1, StoreAssumption DEF Typed
<1>5. lost' \subseteq Calls /\ lost \subseteq lost' /\ (Recorded(files', event) \/ event.by \in lost')
  BY <1>1, Events DEF Typed
<1> QED
  BY <1>3, <1>4, <1>5, Events DEF LogGrows

(* What was true stays true.                                               *)
LEMMA TruthStays ==
    ASSUME Typed, RowsGrow, LogGrows, NEW e \in Event
    PROVE  /\ Truth(e) => Truth(e)'
           /\ Backed(e) => Backed(e)'
<1>1. Truth(e) => Truth(e)'
  BY DEF Truth, RowsGrow
<1>2. Backed(e) => Backed(e)'
  <2>1. CASE e.id \in Ids
    <3>1. \A o \in {"success", "noop", "error"} : Completed(e.by, e.id, o) \in Event
      BY <2>1, Events
    <3> QED
      BY <3>1 DEF Backed, LogGrows
  <2>2. CASE e.id = None
    <3>1. \A o \in {"success", "noop", "error"} : Completed(e.by, e.id, o) \in Event
      BY <2>2, Events, StoreAssumption DEF Completed, Event
    <3> QED
      BY <3>1 DEF Backed, LogGrows
  <2> QED
    BY <2>1, <2>2 DEF Event
<1> QED
  BY <1>1, <1>2

(* There are finitely many workers that insert.                            *)
LEMMA InsertingFinite ==
    ASSUME NEW t
    PROVE  IsFiniteSet(Inserting(t)) /\ Cardinality(Inserting(t)) \in Nat
<1>1. IsFiniteSet(Inserting(t))
  BY StoreAssumption, FS_Subset DEF Inserting
<1> QED
  BY <1>1, FS_CardinalityType

(* A table has no more rows than there were calls: one that inserts has    *)
(* not been counted yet.                                                   *)
LEMMA RoomStays ==
    ASSUME StoreInv, NEW w \in Workers, NEW j \in Job, job' = [job EXCEPT ![w] = j],
           \/ UNCHANGED rows /\ calls' = calls + 1
           \/ UNCHANGED <<rows, calls>> /\ j.at # "insert"
           \/ UNCHANGED calls /\ j.at # "insert" /\ job[w].at = "insert"
              /\ Len(rows'[job[w].table]) = Len(rows[job[w].table]) + 1
              /\ \A t \in Tables \ {job[w].table} : rows'[t] = rows[t]
    PROVE  Room'
<1> SUFFICES ASSUME NEW t \in Tables PROVE Len(rows'[t]) + Cardinality(Inserting(t)') <= calls'
  BY DEF Room
<1>1. /\ IsFiniteSet(Inserting(t)) /\ Cardinality(Inserting(t)) \in Nat
      /\ Len(rows[t]) \in Nat /\ calls \in Nat
      /\ Len(rows[t]) + Cardinality(Inserting(t)) <= calls
  BY InsertingFinite DEF StoreInv, Typed, Room
<1>2. job \in [Workers -> Job]
  BY DEF StoreInv, Typed
<1>3. CASE j.at = "insert" /\ j.table = t
  <2>1. Inserting(t)' = Inserting(t) \cup {w}
    BY <1>2, <1>3 DEF Inserting
  <2>2. Cardinality(Inserting(t)') <= Cardinality(Inserting(t)) + 1 /\ Cardinality(Inserting(t)') \in Nat
    <3>1. Cardinality(Inserting(t) \cup {w}) =
            IF w \in Inserting(t) THEN Cardinality(Inserting(t)) ELSE Cardinality(Inserting(t)) + 1
      BY <1>1, FS_AddElement
    <3> QED
      BY <1>1, <2>1, <3>1
  <2> QED
    BY <1>1, <1>3, <2>2
<1>4. CASE ~(j.at = "insert" /\ j.table = t)
  <2>1. Inserting(t)' = Inserting(t) \ {w}
    BY <1>2, <1>4 DEF Inserting
  <2>2. Cardinality(Inserting(t)') =
          IF w \in Inserting(t) THEN Cardinality(Inserting(t)) - 1 ELSE Cardinality(Inserting(t))
    BY <1>1, <2>1, FS_RemoveElement
  <2>3. job[w].at = "insert" /\ job[w].table = t => w \in Inserting(t)
    BY DEF Inserting
  <2> QED
    BY <1>1, <2>2, <2>3, SMTT(40)
<1> QED
  BY <1>3, <1>4

(* A step of one worker.                                                   *)
LEMMA StepInv ==
    ASSUME StoreInv, NEW w \in Workers, NEW j \in Job, job' = [job EXCEPT ![w] = j],
           Typed', Room', RowsGrow, LogGrows, RowsTold', MarkedDone', MarkedOncePerWorker',
           \A e \in Event : Recorded(files', e) => Recorded(files, e) \/ (Truth(e)' /\ Backed(e)'),
           \A m \in marked' : m \in marked \/ m[1] = w,
           JobTrue(w, j)'
    PROVE  StoreInv'
<1>1. JobsTrue'
  <2>1. ASSUME NEW v \in Workers \ {w}
        PROVE  JobTrue(v, job[v])'
    <3>1. job'[v] = job[v] /\ job[v] \in Job /\ JobTrue(v, job[v])
      BY DEF StoreInv, Typed, JobsTrue
    <3>2. job[v].at = "record" => job[v].event \in Event
      BY <3>1 DEF Job
    <3>3. job[v].at = "record" => Truth(job[v].event)' /\ Backed(job[v].event)'
      BY <3>1, <3>2, TruthStays DEF StoreInv, JobTrue
    <3>4. \A id : Unmarked(v, id) => Unmarked(v, id)'
      BY DEF Unmarked
    <3>5. job[v].at = "update" => job[v].id \in DOMAIN rows'["task"]
      BY <3>1, StoreAssumption DEF JobTrue, RowsGrow
    <3> QED
      BY <3>1, <3>3, <3>4, <3>5 DEF JobTrue
  <2>2. job'[w] = j
    BY DEF StoreInv, Typed
  <2> QED
    BY <2>1, <2>2 DEF JobsTrue
<1>2. FilesTrue'
  BY TruthStays DEF StoreInv, FilesTrue
<1> QED
  BY <1>1, <1>2 DEF StoreInv

(* What is told of a row stays told, unless a worker forgets its record.   *)
LEMMA ToldStays ==
    ASSUME Typed, LogGrows, NEW w \in Workers, NEW j, job' = [job EXCEPT ![w] = j],
           job[w].at = "record" => Recorded(files', job[w].event) \/ job[w].event.by \in lost',
           NEW e \in Event, Told(e)
    PROVE  Told(e)'
<1>1. CASE Recorded(files, e) \/ e.by \in lost
  BY <1>1 DEF Told, LogGrows
<1>2. CASE \E v \in Workers : job[v].at = "record" /\ job[v].event = e
  <2>1. PICK v \in Workers : job[v].at = "record" /\ job[v].event = e
    BY <1>2
  <2>2. CASE v = w
    BY <2>1, <2>2 DEF Told
  <2>3. CASE v # w
    BY <2>1, <2>3 DEF Told, Typed
  <2> QED
    BY <2>2, <2>3
<1> QED
  BY <1>1, <1>2 DEF Told

(* The rows of a table are numbered by calls.                              *)
LEMMA RowIds ==
    ASSUME StoreInv, NEW t \in Tables
    PROVE  /\ rows[t] \in Seq(Row) /\ Len(rows[t]) \in Nat /\ Len(rows[t]) <= calls
           /\ DOMAIN rows[t] = 1 .. Len(rows[t])
           /\ \A i \in DOMAIN rows[t] : i \in Ids /\ rows[t][i] \in Row
<1>1. Cardinality(Inserting(t)) \in Nat /\ Len(rows[t]) + Cardinality(Inserting(t)) <= calls
  BY InsertingFinite DEF StoreInv, Room
<1> QED
  BY <1>1, StoreAssumption DEF StoreInv, Typed, Ids

(* So do the rows that are there.                                          *)
LEMMA RowsToldStay ==
    ASSUME StoreInv, LogGrows, NEW w \in Workers, NEW j, job' = [job EXCEPT ![w] = j],
           job[w].at = "record" => Recorded(files', job[w].event) \/ job[w].event.by \in lost',
           NEW t \in Tables, NEW i \in DOMAIN rows[t], NEW c
    PROVE  /\ c = rows[t][i].by => Told(Created(t, c, i))'
           /\ c = rows[t][i].done /\ c # None => Told(Completed(c, i, "success"))'
<1>1. i \in Ids /\ rows[t][i].by \in Calls /\ rows[t][i].done \in Calls \cup {None}
  BY RowIds DEF Row
<1>2. /\ c = rows[t][i].by => Told(Created(t, c, i))
      /\ c = rows[t][i].done /\ c # None => Told(Completed(c, i, "success"))
  BY DEF StoreInv, RowsTold
<1>3. \A e \in Event : Told(e) => Told(e)'
  BY ToldStays DEF StoreInv
<1> QED
  BY <1>1, <1>2, <1>3, Events

(* A step that leaves the tables and the log alone.                        *)
LEMMA QuietInv ==
    ASSUME StoreInv, NEW w \in Workers, NEW j \in Job, job' = [job EXCEPT ![w] = j],
           UNCHANGED <<rows, files, bad, marked, lost>>,
           calls' = calls \/ (calls < MaxCalls /\ calls' = calls + 1),
           j.at = "insert" => calls' = calls + 1, job[w].at # "record",
           JobTrue(w, j)
    PROVE  StoreInv'
<1>1. Typed'
  BY StoreAssumption DEF StoreInv, Typed
<1>2. Room'
  BY <1>1, RoomStays
<1>3. RowsGrow /\ LogGrows
  BY DEF RowsGrow, LogGrows
<1>4. RowsTold'
  BY <1>3, RowsToldStay DEF RowsTold
<1>5. MarkedDone' /\ MarkedOncePerWorker'
  BY DEF StoreInv, MarkedDone, MarkedOncePerWorker
<1>6. JobTrue(w, j)'
  BY DEF JobTrue, Truth, Backed, Unmarked
<1> QED
  BY <1>1, <1>2, <1>3, <1>4, <1>5, <1>6, StepInv

(* A record that is no more than one.                                      *)
LEMMA NoteInv ==
    ASSUME StoreInv, NEW event \in Event, NEW outcomes \in SUBSET QuoteOutcomes,
           event.id = None, event.type # "clicked", Recording(event, outcomes),
           calls < MaxCalls, calls' = calls + 1, UNCHANGED <<rows, job, marked>>
    PROVE  StoreInv'
<1>1. /\ files' \in Logs(Event) /\ CutsUnread(files') /\ bad' \in 0 .. MaxBadWrites
      /\ lost' \subseteq Calls /\ LogGrows
      /\ \A e \in Event : Recorded(files', e) => Recorded(files, e) \/ e = event
  BY RecordingGrows DEF StoreInv
<1>2. RowsGrow
  BY DEF RowsGrow
<1>3. Typed'
  BY <1>1, StoreAssumption DEF StoreInv, Typed
<1>4. Room'
  <2> SUFFICES ASSUME NEW t \in Tables PROVE Len(rows[t]) + Cardinality(Inserting(t)) <= calls'
    BY DEF Room, Inserting
  <2>1. Cardinality(Inserting(t)) \in Nat /\ Len(rows[t]) \in Nat /\ calls \in Nat
    BY InsertingFinite, RowIds DEF StoreInv, Typed
  <2> QED
    BY <2>1 DEF StoreInv, Room
<1>5. JobsTrue'
  <2> SUFFICES ASSUME NEW v \in Workers PROVE JobTrue(v, job[v])'
    BY DEF JobsTrue
  <2>1. JobTrue(v, job[v]) /\ job[v] \in Job /\ job' = job
    BY DEF StoreInv, Typed, JobsTrue
  <2>2. job[v].at = "record" => job[v].event \in Event
    BY <2>1 DEF Job
  <2>3. job[v].at = "record" => Truth(job[v].event)' /\ Backed(job[v].event)'
    BY <1>1, <1>2, <2>1, <2>2, TruthStays DEF StoreInv, JobTrue
  <2> QED
    BY <2>1, <2>3 DEF JobTrue, Unmarked
<1>6. FilesTrue'
  <2> SUFFICES ASSUME NEW e \in Event, Recorded(files', e) PROVE Truth(e)' /\ Backed(e)'
    BY DEF FilesTrue
  <2>1. CASE Recorded(files, e)
    BY <1>1, <1>2, <2>1, TruthStays DEF StoreInv, FilesTrue
  <2>2. CASE e = event
    BY <2>2 DEF Truth, Backed
  <2> QED
    BY <1>1, <2>1, <2>2
<1>7. RowsTold'
  <2> SUFFICES ASSUME NEW t \in Tables, NEW i \in DOMAIN rows[t], NEW c
               PROVE  /\ c = rows[t][i].by => Told(Created(t, c, i))'
                      /\ c = rows[t][i].done /\ c # None => Told(Completed(c, i, "success"))'
    BY DEF RowsTold
  <2>1. i \in Ids /\ rows[t][i].by \in Calls /\ rows[t][i].done \in Calls \cup {None}
    BY RowIds DEF Row
  <2>2. /\ c = rows[t][i].by => Told(Created(t, c, i))
        /\ c = rows[t][i].done /\ c # None => Told(Completed(c, i, "success"))
    BY DEF StoreInv, RowsTold
  <2>3. \A e \in Event : Told(e) => Told(e)'
    BY <1>1 DEF Told, LogGrows
  <2> QED
    BY <2>1, <2>2, <2>3, Events
<1>8. MarkedDone' /\ MarkedOncePerWorker'
  BY DEF StoreInv, MarkedDone, MarkedOncePerWorker
<1> QED
  BY <1>3, <1>4, <1>5, <1>6, <1>7, <1>8 DEF StoreInv

(* A new call, up to its first session.                                    *)
LEMMA CallInv ==
    ASSUME StoreInv, NEW w \in Workers,
           \/ AddTask(w)
           \/ \E text \in Texts, t \in Tables \ {"task"} : Save(w, t, text)
           \/ \E id \in Ids, button \in BOOLEAN : CompleteTask(w, id, button)
           \/ \E t \in Tables : List(w, t)
           \/ Query(w)
    PROVE  StoreInv'
<1>1. /\ job[w] = Idle /\ calls < MaxCalls /\ calls' = calls + 1
      /\ calls + 1 \in Calls
  <2>1. Called(w)
    BY DEF AddTask, Save, CompleteTask, List, Query
  <2> QED
    BY <2>1, StoreAssumption DEF Called, Calls, StoreInv, Typed
<1>2. ASSUME NEW j \in Job, Goto(w, j), UNCHANGED <<rows, files, bad, marked, lost>>, JobTrue(w, j)
      PROVE  StoreInv'
  <2>1. job' = [job EXCEPT ![w] = j] /\ UNCHANGED <<rows, files, bad, marked, lost>>
    BY <1>2 DEF Goto
  <2>2. job[w].at # "record"
    BY <1>1 DEF Idle
  <2> QED
    BY <1>1, <1>2, <2>1, <2>2, QuietInv
<1>3. ASSUME NEW t \in Tables, NEW text \in Texts, t # "task" => text # "secret",
             Goto(w, [at |-> "insert", by |-> calls + 1, table |-> t, text |-> text]),
             UNCHANGED <<rows, files, bad, marked, lost>>
      PROVE  StoreInv'
  <2>1. PICK j : j = [at |-> "insert", by |-> calls + 1, table |-> t, text |-> text]
    OBVIOUS
  <2>2. j \in Job /\ JobTrue(w, j)
    BY <1>1, <1>3, <2>1 DEF Job, JobTrue
  <2> QED
    BY <1>2, <1>3, <2>1, <2>2
<1>4. CASE AddTask(w)
  BY <1>3, <1>4, StoreAssumption DEF AddTask, Texts
<1>5. ASSUME NEW text \in Texts, NEW t \in Tables \ {"task"}, Save(w, t, text)
      PROVE  StoreInv'
  <2>1. CASE text = "secret"
    <3>1. PICK e : e = NoId("blocked", t, calls + 1, "blocked")
      OBVIOUS
    <3>2. e \in Event /\ e.id = None /\ e.type # "clicked"
      BY <1>1, <3>1 DEF NoId, Event
    <3>3. Recording(e, WriteOutcomes) /\ UNCHANGED <<rows, job, marked>>
      BY <1>5, <2>1, <3>1 DEF Save, Audit
    <3>4. WriteOutcomes \in SUBSET QuoteOutcomes
      BY DEF QuoteOutcomes
    <3> QED
      BY <1>1, <3>2, <3>3, <3>4, NoteInv
  <2>2. CASE text # "secret"
    BY <1>3, <1>5, <2>2 DEF Save
  <2> QED
    BY <2>1, <2>2
<1>6. ASSUME NEW id \in Ids, NEW button \in BOOLEAN, CompleteTask(w, id, button)
      PROVE  StoreInv'
  <2>1. PICK j : j = [at |-> "look", by |-> calls + 1, id |-> id, button |-> button]
    OBVIOUS
  <2>2. j \in Job /\ JobTrue(w, j)
    BY <1>1, <2>1 DEF Job, JobTrue
  <2> QED
    BY <1>2, <1>6, <2>1, <2>2 DEF CompleteTask
<1>7. ASSUME NEW t \in Tables, List(w, t)
      PROVE  StoreInv'
  <2>1. PICK e : e = NoId("listed", t, calls + 1, "success")
    OBVIOUS
  <2>2. e \in Event /\ e.id = None /\ e.type = "listed"
    BY <1>1, <2>1 DEF NoId, Event
  <2>3. PICK j : j = ToRecord(e, FALSE)
    OBVIOUS
  <2>4. j \in Job
    BY <2>2, <2>3, Events DEF ToRecord, Job
  <2>5. JobTrue(w, j)
    BY <2>2, <2>3 DEF JobTrue, ToRecord, Truth, Backed
  <2> QED
    BY <1>2, <1>7, <2>1, <2>3, <2>4, <2>5 DEF List
<1>8. CASE Query(w)
  <2>1. PICK e : e = NoId("request", None, calls + 1, "success")
    OBVIOUS
  <2>2. e \in Event /\ e.id = None /\ e.type # "clicked"
    BY <1>1, <2>1 DEF NoId, Event
  <2> QED
    BY <1>1, <1>8, <2>1, <2>2, NoteInv DEF Query
<1> QED
  BY <1>4, <1>5, <1>6, <1>7, <1>8

(* The INSERT: the row is there, and its record is next.                   *)
LEMMA InsertInv ==
    ASSUME StoreInv, NEW w \in Workers, Insert(w)
    PROVE  StoreInv'
<1>1. PICK o : o = job[w]
  OBVIOUS
<1>2. /\ o \in Job /\ o.at = "insert" /\ o.by \in Calls /\ o.table \in Tables /\ o.text \in Texts
      /\ JobTrue(w, o)
  <2>1. o \in Job /\ o.at = "insert" /\ JobTrue(w, o)
    BY <1>1 DEF Insert, StoreInv, Typed, JobsTrue
  <2> QED
    BY <2>1 DEF Job
<1>3. PICK t : t = o.table
  OBVIOUS
<1>4. PICK n : n = Len(rows[t]) + 1
  OBVIOUS
<1>5. PICK row : row = [by |-> o.by, text |-> o.text, done |-> None]
  OBVIOUS
<1>6. PICK e : e = Created(t, o.by, n)
  OBVIOUS
<1>7. PICK j : j = ToRecord(e, FALSE)
  OBVIOUS
<1>8. /\ rows' = [rows EXCEPT ![t] = Append(@, row)]
      /\ job' = [job EXCEPT ![w] = j]
      /\ UNCHANGED <<calls, files, bad, marked, lost>>
  BY <1>1, <1>3, <1>4, <1>5, <1>6, <1>7 DEF Insert, Goto
<1>9. /\ rows[t] \in Seq(Row) /\ Len(rows[t]) \in Nat /\ DOMAIN rows[t] = 1 .. Len(rows[t])
      /\ row \in Row
  BY <1>2, <1>3, <1>5, RowIds DEF Row
<1>10. n \in Ids
  <2>1. w \in Inserting(t) /\ IsFiniteSet(Inserting(t)) /\ Cardinality(Inserting(t)) \in Nat
    BY <1>1, <1>2, <1>3, InsertingFinite DEF Inserting
  <2>2. Cardinality(Inserting(t)) # 0
    BY <2>1, FS_EmptySet
  <2>3. Len(rows[t]) + Cardinality(Inserting(t)) <= calls /\ calls \in 0 .. MaxCalls
    BY <1>2, <1>3 DEF StoreInv, Room, Typed
  <2> QED
    BY <1>4, <1>9, <2>1, <2>2, <2>3, StoreAssumption DEF Ids
<1>11. /\ rows'[t] = Append(rows[t], row) /\ rows'[t] \in Seq(Row) /\ Len(rows'[t]) = n
       /\ DOMAIN rows'[t] = 1 .. n /\ rows'[t][n] = row
       /\ \A i \in DOMAIN rows[t] : rows'[t][i] = rows[t][i]
       /\ \A u \in Tables \ {t} : rows'[u] = rows[u]
  <2>1. rows'[t] = Append(rows[t], row)
    BY <1>2, <1>3, <1>8 DEF StoreInv, Typed
  <2>2. \A u \in Tables \ {t} : rows'[u] = rows[u]
    BY <1>8 DEF StoreInv, Typed
  <2> QED
    BY <1>4, <1>9, <2>1, <2>2, AppendProperties
<1>12. e \in Event /\ j \in Job /\ j.at = "record" /\ j.event = e
  BY <1>2, <1>3, <1>6, <1>7, <1>10, Events DEF ToRecord, Job, Created
<1>13. RowsGrow /\ LogGrows
  <2>1. ASSUME NEW u \in Tables, NEW i \in DOMAIN rows[u]
        PROVE  i \in DOMAIN rows'[u] /\ rows'[u][i] = rows[u][i]
    BY <1>4, <1>9, <1>11
  <2> QED
    BY <1>8, <2>1 DEF RowsGrow, LogGrows
<1>14. Typed'
  <2>1. rows' \in [Tables -> Seq(Row)]
    BY <1>2, <1>3, <1>8, <1>9, <1>11 DEF StoreInv, Typed
  <2>2. ASSUME NEW u \in Tables \ {"task"}, NEW i \in DOMAIN rows'[u]
        PROVE  rows'[u][i].text # "secret"
    <3>1. CASE u # t \/ i # n
      <4>1. i \in DOMAIN rows[u] /\ rows'[u][i] = rows[u][i]
        BY <1>4, <1>9, <1>11, <2>2, <3>1
      <4> QED
        BY <4>1 DEF StoreInv, Typed
    <3>2. CASE u = t /\ i = n
      BY <1>2, <1>3, <1>5, <1>11, <3>2 DEF JobTrue
    <3> QED
      BY <3>1, <3>2
  <2>3. job' \in [Workers -> Job]
    BY <1>8, <1>12 DEF StoreInv, Typed
  <2> QED
    BY <1>8, <2>1, <2>2, <2>3 DEF StoreInv, Typed
<1>15. Room'
  <2>1. j.at # "insert" /\ job[w].at = "insert" /\ job[w].table = t
    BY <1>1, <1>2, <1>3, <1>12
  <2>2. Len(rows'[t]) = Len(rows[t]) + 1 /\ calls' = calls
    BY <1>4, <1>8, <1>11
  <2> QED
    BY <1>8, <1>11, <1>12, <2>1, <2>2, RoomStays
<1>16. RowsTold'
  <2> SUFFICES ASSUME NEW u \in Tables, NEW i \in DOMAIN rows'[u], NEW c
               PROVE  /\ c = rows'[u][i].by => Told(Created(u, c, i))'
                      /\ c = rows'[u][i].done /\ c # None => Told(Completed(c, i, "success"))'
    BY DEF RowsTold
  <2>1. CASE u # t \/ i # n
    <3>1. i \in DOMAIN rows[u] /\ rows'[u][i] = rows[u][i]
      BY <1>4, <1>9, <1>11, <2>1
    <3>2. job[w].at # "record"
      BY <1>1, <1>2
    <3>3. /\ c = rows[u][i].by => Told(Created(u, c, i))'
          /\ c = rows[u][i].done /\ c # None => Told(Completed(c, i, "success"))'
      BY <1>8, <1>13, <3>1, <3>2, RowsToldStay
    <3> QED
      BY <3>1, <3>3
  <2>2. CASE u = t /\ i = n
    <3>1. rows'[u][i].by = o.by /\ rows'[u][i].done = None
      BY <1>5, <1>11, <2>2
    <3>2. job'[w] = j
      BY <1>8 DEF StoreInv, Typed
    <3>3. Told(e)'
      BY <1>12, <3>2 DEF Told
    <3> QED
      BY <1>6, <2>2, <3>1, <3>3
  <2> QED
    BY <2>1, <2>2
<1>17. MarkedDone' /\ MarkedOncePerWorker'
  <2>1. MarkedDone'
    BY <1>8, <1>13, StoreAssumption DEF StoreInv, MarkedDone, RowsGrow
  <2>2. MarkedOncePerWorker'
    BY <1>8 DEF StoreInv, MarkedOncePerWorker
  <2> QED
    BY <2>1, <2>2
<1>18. JobTrue(w, j)'
  <2>1. Truth(e)'
    BY <1>2, <1>3, <1>5, <1>6, <1>11 DEF Truth, Created
  <2>2. Backed(e)'
    BY <1>6 DEF Backed, Created
  <2>3. e.type = "created" /\ j.button = FALSE /\ j.by = e.by
    BY <1>6, <1>7 DEF Created, ToRecord
  <2> QED
    BY <1>12, <2>1, <2>2, <2>3 DEF JobTrue
<1>19. \A x \in Event : Recorded(files', x) => Recorded(files, x) \/ (Truth(x)' /\ Backed(x)')
  BY <1>8
<1> QED
  BY <1>8, <1>12, <1>13, <1>14, <1>15, <1>16, <1>17, <1>18, <1>19, StepInv

(* The SELECT of complete_task.                                            *)
LEMMA LookInv ==
    ASSUME StoreInv, NEW w \in Workers, Look(w)
    PROVE  StoreInv'
<1>1. PICK o : o = job[w]
  OBVIOUS
<1>2. o \in Job /\ o.at = "look" /\ o.by \in Calls /\ o.id \in Ids /\ o.button \in BOOLEAN
  <2>1. o \in Job /\ o.at = "look"
    BY <1>1 DEF Look, StoreInv, Typed
  <2> QED
    BY <2>1 DEF Job
<1>3. /\ UNCHANGED <<rows, files, bad, marked, lost>> /\ calls' = calls
      /\ job[w].at # "record"
  BY <1>1, <1>2 DEF Look
<1>4. ASSUME NEW r \in {"error", "noop"}, Goto(w, ToRecord(Completed(o.by, o.id, r), o.button)),
             r = "noop" => o.id \in DOMAIN rows["task"] /\ rows["task"][o.id].done # None
      PROVE  StoreInv'
  <2>1. PICK e : e = Completed(o.by, o.id, r)
    OBVIOUS
  <2>2. PICK j : j = ToRecord(e, o.button)
    OBVIOUS
  <2>3. /\ e \in Event /\ e.type = "completed" /\ e.outcome = r /\ e.id = o.id /\ e.by = o.by
        /\ e.table = "task"
    BY <1>2, <2>1, Events DEF Completed
  <2>4. j \in Job /\ j.at = "record" /\ j.event = e /\ j.by = e.by
    BY <1>2, <2>2, <2>3 DEF ToRecord, Job
  <2>5. Truth(e) /\ Backed(e)
    BY <1>4, <2>3, StoreAssumption DEF Truth, Backed
  <2>6. \E a \in {"success", "noop", "error"} : e = Completed(e.by, e.id, a)
    BY <2>1, <2>3
  <2>7. JobTrue(w, j)
    BY <2>3, <2>4, <2>5, <2>6 DEF JobTrue
  <2>8. job' = [job EXCEPT ![w] = j]
    BY <1>4, <2>1, <2>2 DEF Goto
  <2> QED
    BY <1>3, <2>4, <2>7, <2>8, QuietInv
<1>5. CASE o.id \notin DOMAIN rows["task"]
  BY <1>1, <1>4, <1>5 DEF Look
<1>6. CASE o.id \in DOMAIN rows["task"] /\ rows["task"][o.id].done # None
  BY <1>1, <1>4, <1>6 DEF Look
<1>7. CASE o.id \in DOMAIN rows["task"] /\ rows["task"][o.id].done = None
  <2>1. PICK j : j = [o EXCEPT !.at = "update"]
    OBVIOUS
  <2>2. j \in Job /\ j.at = "update" /\ j.id = o.id
    BY <1>2, <2>1 DEF Job
  <2>3. Unmarked(w, o.id)
    BY <1>7 DEF Unmarked, StoreInv, MarkedDone
  <2>4. job' = [job EXCEPT ![w] = j]
    BY <1>1, <1>7, <2>1 DEF Look, Goto
  <2>5. JobTrue(w, j)
    BY <1>7, <2>2, <2>3 DEF JobTrue
  <2> QED
    BY <1>3, <2>2, <2>4, <2>5, QuietInv
<1> QED
  BY <1>5, <1>6, <1>7

(* The UPDATE: the task is done, and its record is next.                   *)
LEMMA UpdateInv ==
    ASSUME StoreInv, NEW w \in Workers, Update(w)
    PROVE  StoreInv'
<1>1. PICK o : o = job[w]
  OBVIOUS
<1>2. /\ o \in Job /\ o.at = "update" /\ o.by \in Calls /\ o.id \in Ids /\ o.button \in BOOLEAN
      /\ o.id \in DOMAIN rows["task"] /\ Unmarked(w, o.id)
  <2>1. o \in Job /\ o.at = "update" /\ JobTrue(w, o)
    BY <1>1 DEF Update, StoreInv, Typed, JobsTrue
  <2> QED
    BY <2>1 DEF Job, JobTrue
<1>3. PICK e : e = Completed(o.by, o.id, "success")
  OBVIOUS
<1>4. PICK j : j = ToRecord(e, o.button)
  OBVIOUS
<1>5. PICK row : row = [rows["task"][o.id] EXCEPT !.done = o.by]
  OBVIOUS
<1>6. /\ rows' = [rows EXCEPT !["task"] = [@ EXCEPT ![o.id] = row]]
      /\ job' = [job EXCEPT ![w] = j]
      /\ UNCHANGED <<calls, files, bad, marked, lost>>
  BY <1>1, <1>3, <1>4, <1>5 DEF Update, Goto
<1>7. /\ rows["task"] \in Seq(Row) /\ Len(rows["task"]) \in Nat
      /\ DOMAIN rows["task"] = 1 .. Len(rows["task"])
      /\ rows["task"][o.id] \in Row
  BY <1>2, StoreAssumption, RowIds
<1>8. row \in Row /\ row.done = o.by /\ row.by = rows["task"][o.id].by
  BY <1>2, <1>5, <1>7 DEF Row
<1>9. /\ rows'["task"] = [rows["task"] EXCEPT ![o.id] = row]
      /\ \A u \in Tables \ {"task"} : rows'[u] = rows[u]
  BY <1>6, StoreAssumption DEF StoreInv, Typed
<1>10. /\ rows'["task"] \in Seq(Row) /\ Len(rows'["task"]) = Len(rows["task"])
       /\ DOMAIN rows'["task"] = DOMAIN rows["task"]
       /\ rows'["task"][o.id] = row
       /\ \A i \in DOMAIN rows["task"] : i # o.id => rows'["task"][i] = rows["task"][i]
  BY <1>2, <1>7, <1>8, <1>9, ExceptSeq
<1>11. /\ e \in Event /\ e.type = "completed" /\ e.outcome = "success" /\ e.id = o.id
       /\ e.by = o.by /\ e.table = "task"
       /\ j \in Job /\ j.at = "record" /\ j.event = e /\ j.by = e.by
  <2>1. /\ e \in Event /\ e.type = "completed" /\ e.outcome = "success" /\ e.id = o.id
        /\ e.by = o.by /\ e.table = "task"
    BY <1>2, <1>3, Events DEF Completed
  <2> QED
    BY <1>2, <1>4, <2>1 DEF ToRecord, Job
<1>12. /\ \A u \in Tables : DOMAIN rows'[u] = DOMAIN rows[u] /\ Len(rows'[u]) = Len(rows[u])
       /\ \A u \in Tables : \A i \in DOMAIN rows[u] :
            /\ u # "task" \/ i # o.id => rows'[u][i] = rows[u][i]
            /\ rows'[u][i].by = rows[u][i].by
  BY <1>8, <1>9, <1>10
<1>13. RowsGrow /\ LogGrows
  <2>1. o.by # None
    BY <1>2, NamesAssumption
  <2> QED
    BY <1>6, <1>8, <1>10, <1>12, <2>1 DEF RowsGrow, LogGrows
<1>14. Typed'
  <2>1. rows' \in [Tables -> Seq(Row)]
    BY <1>6, <1>9, <1>10 DEF StoreInv, Typed
  <2>2. \A u \in Tables \ {"task"} : \A i \in DOMAIN rows'[u] : rows'[u][i].text # "secret"
    BY <1>9 DEF StoreInv, Typed
  <2>3. job' \in [Workers -> Job]
    BY <1>6, <1>11 DEF StoreInv, Typed
  <2> QED
    BY <1>6, <2>1, <2>2, <2>3 DEF StoreInv, Typed
<1>15. Room'
  <2> SUFFICES ASSUME NEW t \in Tables PROVE Len(rows'[t]) + Cardinality(Inserting(t)') <= calls'
    BY DEF Room
  <2>1. Inserting(t)' = Inserting(t)
    BY <1>1, <1>2, <1>6, <1>11 DEF Inserting, StoreInv, Typed
  <2> QED
    BY <1>6, <1>12, <2>1 DEF StoreInv, Room
<1>16. RowsTold'
  <2> SUFFICES ASSUME NEW u \in Tables, NEW i \in DOMAIN rows[u], NEW c
               PROVE  /\ c = rows'[u][i].by => Told(Created(u, c, i))'
                      /\ c = rows'[u][i].done /\ c # None => Told(Completed(c, i, "success"))'
    BY <1>12 DEF RowsTold
  <2>1. job[w].at # "record"
    BY <1>1, <1>2
  <2>2. /\ c = rows[u][i].by => Told(Created(u, c, i))'
        /\ c = rows[u][i].done /\ c # None => Told(Completed(c, i, "success"))'
    BY <1>6, <1>13, <2>1, RowsToldStay
  <2>3. CASE u # "task" \/ i # o.id
    BY <1>12, <2>2, <2>3
  <2>4. CASE u = "task" /\ i = o.id
    <3>1. job'[w] = j
      BY <1>6 DEF StoreInv, Typed
    <3>2. Told(e)'
      BY <1>11, <3>1 DEF Told
    <3> QED
      BY <1>3, <1>8, <1>10, <1>12, <2>2, <2>4, <3>2
  <2> QED
    BY <2>3, <2>4
<1>17. MarkedDone' /\ MarkedOncePerWorker'
  <2>1. MarkedDone'
    BY <1>6, <1>13, StoreAssumption DEF StoreInv, MarkedDone, RowsGrow
  <2>2. MarkedOncePerWorker'
    BY <1>6 DEF StoreInv, MarkedOncePerWorker
  <2> QED
    BY <2>1, <2>2
<1>18. JobTrue(w, j)'
  <2>1. Truth(e)'
    BY <1>2, <1>8, <1>10, <1>11, NamesAssumption, StoreAssumption DEF Truth
  <2>2. Backed(e)'
    BY <1>11 DEF Backed
  <2>3. Unmarked(w, e.id)'
    BY <1>2, <1>6, <1>11 DEF Unmarked
  <2>4. e = Completed(e.by, e.id, "success")
    BY <1>3, <1>11
  <2> QED
    BY <1>2, <1>11, <2>1, <2>2, <2>3, <2>4 DEF JobTrue
<1>19. \A x \in Event : Recorded(files', x) => Recorded(files, x) \/ (Truth(x)' /\ Backed(x)')
  BY <1>6
<1> QED
  BY <1>6, <1>11, <1>13, <1>14, <1>15, <1>16, <1>17, <1>18, <1>19, StepInv

(* The record that ends a call: whoever is told of a completion has not    *)
(* been told of that task before.                                          *)
LEMMA AnswerInv ==
    ASSUME StoreInv, NEW w \in Workers, Answer(w)
    PROVE  StoreInv'
<1>1. PICK o : o = job[w]
  OBVIOUS
<1>2. PICK e : e = o.event
  OBVIOUS
<1>3. /\ o \in Job /\ o.at = "record" /\ o.by \in Calls /\ o.button \in BOOLEAN /\ e \in Event
      /\ JobTrue(w, o)
  <2>1. o \in Job /\ o.at = "record" /\ JobTrue(w, o)
    BY <1>1 DEF Answer, StoreInv, Typed, JobsTrue
  <2> QED
    BY <1>2, <2>1 DEF Job
<1>4. /\ e.by = o.by /\ Truth(e) /\ Backed(e)
      /\ o.button => \E a \in {"success", "noop", "error"} : e = Completed(e.by, e.id, a)
      /\ e.type = "completed" /\ e.outcome = "success" =>
           e.table = "task" /\ e.id \in Ids /\ Unmarked(w, e.id)
  BY <1>2, <1>3 DEF JobTrue
<1>5. PICK j : j = IF o.button THEN ToRecord(Clicked(e), FALSE) ELSE Idle
  OBVIOUS
<1>6. /\ Audit(e)
      /\ job' = [job EXCEPT ![w] = j]
      /\ rows' = rows /\ calls' = calls
      /\ marked' = IF e.type = "completed" /\ e.outcome = "success"
                   THEN marked \cup {<<w, e.by, e.id>>} ELSE marked
  BY <1>1, <1>2, <1>5 DEF Answer, Goto
<1>7. /\ files' \in Logs(Event) /\ CutsUnread(files') /\ bad' \in 0 .. MaxBadWrites
      /\ lost' \subseteq Calls /\ LogGrows
      /\ \A x \in Event : Recorded(files', x) => Recorded(files, x) \/ x = e
      /\ Recorded(files', e) \/ e.by \in lost'
  <2>1. WriteOutcomes \in SUBSET QuoteOutcomes
    BY DEF QuoteOutcomes
  <2> QED
    BY <1>3, <1>6, <2>1, RecordingGrows DEF StoreInv, Audit
<1>8. RowsGrow
  BY <1>6 DEF RowsGrow
<1>9. Truth(e)' /\ Backed(e)'
  BY <1>3, <1>4, <1>7, <1>8, TruthStays DEF StoreInv
<1>10. j \in Job /\ JobTrue(w, j)' /\ j.at # "insert"
  <2>1. CASE o.button
    <3>1. PICK a \in {"success", "noop", "error"} : e = Completed(e.by, e.id, a)
      BY <1>4, <2>1
    <3>2. PICK c : c = Clicked(e)
      OBVIOUS
    <3>3. e.type = "completed" /\ e.table = "task" /\ e.outcome = a
      BY <3>1 DEF Completed
    <3>4. /\ c \in Event /\ c.type = "clicked" /\ c.by = e.by /\ c.id = e.id /\ c.table = "task"
          /\ c.outcome = IF a = "error" THEN "error" ELSE "success"
      BY <1>3, <3>2, <3>3 DEF Clicked, Event
    <3>5. /\ j.at = "record" /\ j.event = c /\ j.by = c.by /\ j.button = FALSE /\ j \in Job
      BY <1>3, <1>5, <2>1, <3>2, <3>4, Events DEF ToRecord, Job
    <3>6. Truth(c)'
      BY <1>9, <3>3, <3>4 DEF Truth
    <3>7. Backed(c)'
      BY <1>7, <3>1, <3>4 DEF Backed
    <3> QED
      BY <3>4, <3>5, <3>6, <3>7 DEF JobTrue
  <2>2. CASE ~o.button
    BY <1>5, <2>2 DEF Idle, Job, JobTrue
  <2> QED
    BY <1>3, <2>1, <2>2
<1>11. marked' \subseteq Workers \X Calls \X Ids
  BY <1>3, <1>4, <1>6 DEF StoreInv, Typed
<1>12. Typed'
  <2>1. job' \in [Workers -> Job]
    BY <1>6, <1>10 DEF StoreInv, Typed
  <2> QED
    BY <1>6, <1>7, <1>11, <2>1 DEF StoreInv, Typed
<1>13. Room'
  BY <1>6, <1>10, RoomStays
<1>14. RowsTold'
  <2>1. job[w].at = "record" => Recorded(files', job[w].event) \/ job[w].event.by \in lost'
    BY <1>1, <1>2, <1>7
  <2> QED
    BY <1>6, <1>7, <2>1, RowsToldStay DEF RowsTold
<1>15. \A m \in marked' : m \in marked \/ (m[1] = w /\ m[3] = e.id /\ m = <<w, e.by, e.id>>
                                            /\ e.type = "completed" /\ e.outcome = "success")
  BY <1>6
<1>16. MarkedDone'
  <2> SUFFICES ASSUME NEW m \in marked'
               PROVE  m[3] \in DOMAIN rows["task"] /\ rows["task"][m[3]].done # None
    BY <1>6 DEF MarkedDone
  <2>1. CASE m \in marked
    BY <2>1 DEF StoreInv, MarkedDone
  <2>2. CASE m \notin marked
    <3>1. /\ m[3] = e.id /\ e.type = "completed" /\ e.outcome = "success"
          /\ e.table = "task" /\ e.id \in Ids
      BY <1>4, <1>15, <2>2
    <3>2. e.id # None
      BY <3>1, NamesAssumption DEF Ids, Calls
    <3> QED
      BY <1>4, <3>1, <3>2 DEF Truth
  <2> QED
    BY <2>1, <2>2
<1>17. MarkedOncePerWorker'
  <2> SUFFICES ASSUME NEW m \in marked', NEW n \in marked', m[1] = n[1], m[3] = n[3]
               PROVE  m = n
    BY DEF MarkedOncePerWorker
  <2>1. CASE m \in marked /\ n \in marked
    BY <2>1 DEF StoreInv, MarkedOncePerWorker
  <2>2. CASE m \notin marked /\ n \notin marked
    BY <1>15, <2>2
  <2>3. CASE m \in marked /\ n \notin marked
    BY <1>4, <1>15, <2>3 DEF Unmarked
  <2>4. CASE m \notin marked /\ n \in marked
    BY <1>4, <1>15, <2>4 DEF Unmarked
  <2> QED
    BY <2>1, <2>2, <2>3, <2>4
<1>18. \A x \in Event : Recorded(files', x) => Recorded(files, x) \/ (Truth(x)' /\ Backed(x)')
  BY <1>7, <1>9
<1>19. \A m \in marked' : m \in marked \/ m[1] = w
  BY <1>15
<1> QED
  BY <1>6, <1>7, <1>8, <1>10, <1>12, <1>13, <1>14, <1>16, <1>17, <1>18, <1>19, StepInv

(* A call that fails leaves nothing behind.                                *)
LEMMA FailInv ==
    ASSUME StoreInv, NEW w \in Workers, Fail(w)
    PROVE  StoreInv'
<1>1. /\ job' = [job EXCEPT ![w] = Idle] /\ job[w].at # "record"
      /\ UNCHANGED <<rows, files, bad, marked, lost>> /\ calls' = calls
  BY DEF Fail, Goto
<1>2. PICK j : j = Idle
  OBVIOUS
<1>3. j \in Job /\ JobTrue(w, j) /\ j.at # "insert"
  BY <1>2 DEF Idle, Job, JobTrue
<1> QED
  BY <1>1, <1>2, <1>3, QuietInv

(* A process that ends takes the records with it that its workers had to   *)
(* write.                                                                  *)
LEMMA KillInv ==
    ASSUME StoreInv, NEW p \in Processes, Kill(p)
    PROVE  StoreInv'
<1>1. PICK mine : mine = {w \in Workers : w[1] = p /\ job[w] # Idle}
  OBVIOUS
<1>2. /\ job' = [w \in Workers |-> IF w \in mine THEN Idle ELSE job[w]]
      /\ lost' = lost \cup {job[w].by : w \in mine}
      /\ UNCHANGED <<rows, calls, files, bad, marked>>
  BY <1>1 DEF Kill
<1>3. \A w \in Workers : job'[w] = job[w] \/ (w \in mine /\ job'[w] = Idle)
  BY <1>2
<1>4. \A w \in mine : w \in Workers /\ job[w] \in Job /\ job[w].by \in Calls
  BY <1>1 DEF StoreInv, Typed, Job, Idle
<1>5. Typed'
  <2>1. lost' \subseteq Calls
    BY <1>2, <1>4 DEF StoreInv, Typed
  <2>2. job' \in [Workers -> Job]
    BY <1>2 DEF StoreInv, Typed, Idle, Job
  <2> QED
    BY <1>2, <2>1, <2>2 DEF StoreInv, Typed
<1>6. RowsGrow /\ LogGrows
  BY <1>2 DEF RowsGrow, LogGrows
<1>7. Room'
  <2> SUFFICES ASSUME NEW t \in Tables PROVE Len(rows[t]) + Cardinality(Inserting(t)') <= calls
    BY <1>2 DEF Room
  <2>1. Inserting(t)' \subseteq Inserting(t)
    BY <1>3 DEF Inserting, Idle
  <2>2. Cardinality(Inserting(t)') \in Nat /\ Cardinality(Inserting(t)') <= Cardinality(Inserting(t))
    BY <2>1, InsertingFinite, FS_Subset, FS_CardinalityType
  <2>3. /\ Len(rows[t]) \in Nat /\ Cardinality(Inserting(t)) \in Nat /\ calls \in Nat
        /\ Len(rows[t]) + Cardinality(Inserting(t)) <= calls
    BY RowIds, InsertingFinite DEF StoreInv, Typed, Room
  <2> QED
    BY <2>2, <2>3
<1>8. JobsTrue'
  <2> SUFFICES ASSUME NEW v \in Workers PROVE JobTrue(v, job[v])'
    BY DEF JobsTrue
  <2>1. CASE job'[v] = Idle
    BY <2>1 DEF JobTrue, Idle
  <2>2. CASE job'[v] = job[v]
    <3>1. PICK o : o = job[v]
      OBVIOUS
    <3>2. JobTrue(v, o) /\ o \in Job
      BY <3>1 DEF StoreInv, Typed, JobsTrue
    <3>3. o.at = "record" => o.event \in Event
      BY <3>2 DEF Job
    <3>4. o.at = "record" => Truth(o.event)' /\ Backed(o.event)'
      BY <1>6, <3>2, <3>3, TruthStays DEF StoreInv, JobTrue
    <3>5. JobTrue(v, o)'
      BY <1>2, <3>2, <3>4 DEF JobTrue, Unmarked
    <3> QED
      BY <2>2, <3>1, <3>5
  <2> QED
    BY <1>3, <2>1, <2>2
<1>9. FilesTrue'
  BY <1>2, <1>6, TruthStays DEF StoreInv, FilesTrue
<1>10. RowsTold'
  <2>1. ASSUME NEW e \in Event, Told(e)
        PROVE  Told(e)'
    <3>1. CASE Recorded(files, e) \/ e.by \in lost
      BY <1>2, <3>1 DEF Told
    <3>2. CASE \E v \in Workers : job[v].at = "record" /\ job[v].event = e
      <4>1. PICK v \in Workers : job[v].at = "record" /\ job[v].event = e
        BY <3>2
      <4>2. CASE v \in mine
        <5>1. e.by = job[v].by
          BY <4>1 DEF StoreInv, JobsTrue, JobTrue
        <5> QED
          BY <1>2, <4>2, <5>1 DEF Told
      <4>3. CASE v \notin mine
        <5>1. job'[v].at = "record" /\ job'[v].event = e
          BY <1>3, <4>1, <4>3
        <5> QED
          BY <5>1 DEF Told
      <4> QED
        BY <4>2, <4>3
    <3> QED
      BY <2>1, <3>1, <3>2 DEF Told
  <2> SUFFICES ASSUME NEW t \in Tables, NEW i \in DOMAIN rows[t], NEW c
               PROVE  /\ c = rows[t][i].by => Told(Created(t, c, i))'
                      /\ c = rows[t][i].done /\ c # None => Told(Completed(c, i, "success"))'
    BY <1>2 DEF RowsTold
  <2>2. i \in Ids /\ rows[t][i].by \in Calls /\ rows[t][i].done \in Calls \cup {None}
    BY RowIds DEF Row
  <2>3. /\ c = rows[t][i].by => Told(Created(t, c, i))
        /\ c = rows[t][i].done /\ c # None => Told(Completed(c, i, "success"))
    BY DEF StoreInv, RowsTold
  <2> QED
    BY <2>1, <2>2, <2>3, Events
<1>11. MarkedDone' /\ MarkedOncePerWorker'
  BY <1>2 DEF StoreInv, MarkedDone, MarkedOncePerWorker
<1> QED
  BY <1>5, <1>7, <1>8, <1>9, <1>10, <1>11 DEF StoreInv

-----------------------------------------------------------------------------
(* At first there is nothing to agree about.                               *)
LEMMA InitInv ==
    ASSUME DashInit
    PROVE  StoreInv
<1>1. /\ rows = [t \in Tables |-> <<>>] /\ job = [w \in Workers |-> Idle]
      /\ calls = 0 /\ bad = 0 /\ files = NoFiles /\ marked = {} /\ lost = {}
  BY DEF DashInit, Init
<1>2. \A t \in Tables : rows[t] = <<>> /\ DOMAIN rows[t] = {} /\ Len(rows[t]) = 0
  BY <1>1
<1>3. files \in Logs(Event) /\ CutsUnread(files) /\ \A e : ~Recorded(files, e)
  BY <1>1, NoFilesRead
<1>4. Typed
  <2>1. rows \in [Tables -> Seq(Row)] /\ job \in [Workers -> Job]
    BY <1>1 DEF Idle, Job
  <2> QED
    BY <1>1, <1>2, <1>3, <2>1, StoreAssumption DEF Typed
<1>5. Room
  <2> SUFFICES ASSUME NEW t \in Tables PROVE Len(rows[t]) + Cardinality(Inserting(t)) <= calls
    BY DEF Room
  <2>1. Inserting(t) = {}
    BY <1>1 DEF Inserting, Idle
  <2>2. Cardinality(Inserting(t)) = 0
    BY <2>1, FS_EmptySet
  <2> QED
    BY <1>1, <1>2, <2>2
<1>6. JobsTrue
  BY <1>1 DEF JobsTrue, JobTrue, Idle
<1>7. FilesTrue /\ RowsTold
  BY <1>2, <1>3 DEF FilesTrue, RowsTold
<1>8. MarkedDone /\ MarkedOncePerWorker
  BY <1>1 DEF MarkedDone, MarkedOncePerWorker
<1> QED
  BY <1>4, <1>5, <1>6, <1>7, <1>8 DEF StoreInv

(* A step that changes nothing but pages.                                  *)
LEMMA SameInv ==
    ASSUME StoreInv, UNCHANGED vars
    PROVE  StoreInv'
<1>1. UNCHANGED <<rows, job, calls, files, bad, marked, lost>>
  BY DEF vars
<1>2. Typed' /\ Room' /\ MarkedDone' /\ MarkedOncePerWorker'
  BY <1>1 DEF StoreInv, Typed, Room, Inserting, MarkedDone, MarkedOncePerWorker
<1>3. JobsTrue' /\ FilesTrue' /\ RowsTold'
  <2>1. JobsTrue'
    <3>1. ASSUME NEW w \in Workers PROVE JobTrue(w, job[w])'
      <4>1. PICK j : j = job[w]
        OBVIOUS
      <4>2. JobTrue(w, j) /\ j = job'[w]
        BY <1>1, <4>1 DEF StoreInv, JobsTrue
      <4>3. /\ rows' = rows /\ files' = files /\ lost' = lost /\ marked' = marked
            /\ j = job'[w] /\ JobTrue(w, j)
        BY <1>1, <4>2
      <4> QED
        BY ONLY <4>3 DEF JobTrue, Truth, Backed, Unmarked
    <3> QED
      BY <3>1 DEF JobsTrue
  <2>2. FilesTrue'
    BY <1>1 DEF StoreInv, FilesTrue, Truth, Backed
  <2>3. RowsTold'
    BY <1>1 DEF StoreInv, RowsTold, Told
  <2> QED
    BY <2>1, <2>2, <2>3
<1> QED
  BY <1>2, <1>3 DEF StoreInv

(* A worker's step.                                                        *)
LEMMA WorkInv ==
    ASSUME StoreInv, NEW w \in Workers, Work(w)
    PROVE  StoreInv'
<1>1. CASE AddTask(w) \/ Query(w) \/ (\E text \in Texts, t \in Tables \ {"task"} : Save(w, t, text))
  BY <1>1, CallInv
<1>2. CASE \E id \in Ids : CompleteTask(w, id, FALSE) \/ (w = Loop /\ CompleteTask(w, id, TRUE))
  BY <1>2, CallInv
<1>3. CASE \E t \in Tables : List(w, t)
  BY <1>3, CallInv
<1>4. CASE Insert(w) \/ Look(w) \/ Update(w)
  BY <1>4, InsertInv, LookInv, UpdateInv
<1>5. CASE Answer(w) \/ Fail(w)
  BY <1>5, AnswerInv, FailInv
<1> QED
  BY <1>1, <1>2, <1>3, <1>4, <1>5 DEF Work

(* A page's step: only a view writes, and only a record.                   *)
LEMMA BrowseInv ==
    ASSUME StoreInv, NEW t \in Threads, Browse(t)
    PROVE  StoreInv'
<1>1. ASSUME NEW left, View(t, left)
      PROVE  StoreInv'
  <2>1. PICK e : e = NoId("viewed", None, calls + 1, "success")
    OBVIOUS
  <2>2. calls < MaxCalls /\ calls' = calls + 1 /\ calls + 1 \in Calls
    BY <1>1, StoreAssumption DEF View, Calls, StoreInv, Typed
  <2>3. e \in Event /\ e.id = None /\ e.type # "clicked"
    BY <2>1, <2>2 DEF NoId, Event
  <2>4. Recording(e, WriteOutcomes) /\ UNCHANGED <<rows, job, marked>>
    BY <1>1, <2>1 DEF View, Audit
  <2>5. WriteOutcomes \in SUBSET QuoteOutcomes
    BY DEF QuoteOutcomes
  <2> QED
    BY <2>2, <2>3, <2>4, <2>5, NoteInv
<1>2. CASE View(t, Readings) \/ View(t, <<"audit">>)
  BY <1>1, <1>2
<1>3. CASE \E table \in Tables : ReadRows(t, table)
  BY <1>3, SameInv DEF ReadRows
<1>4. CASE CountTasks(t) \/ CountDone(t) \/ ReadAudit(t) \/ PageFails(t)
  BY <1>4, SameInv DEF CountTasks, CountDone, ReadAudit, PageFails
<1> QED
  BY <1>2, <1>3, <1>4 DEF Browse

(* The invariant of the tables and their trail holds always, whatever the  *)
(* pages do meanwhile.                                                     *)
THEOREM StoreInvariant == DashSpec => []StoreInv
<1>1. DashInit => StoreInv
  BY InitInv
<1>2. StoreInv /\ [DashNext]_dashVars => StoreInv'
  <2> SUFFICES ASSUME StoreInv, [DashNext]_dashVars PROVE StoreInv'
    OBVIOUS
  <2>1. CASE \E w \in Workers : Work(w)
    BY <2>1, WorkInv
  <2>2. CASE \E t \in Threads : Browse(t)
    BY <2>2, BrowseInv
  <2>3. CASE \E p \in Processes : Kill(p)
    BY <2>3, KillInv
  <2>4. CASE UNCHANGED dashVars
    BY <2>4, SameInv DEF dashVars
  <2> QED
    BY <2>1, <2>2, <2>3, <2>4 DEF DashNext
<1> QED
  BY <1>1, <1>2, PTL DEF DashSpec

(* Rows, jobs, calls and files are what they are said to be; in particular *)
(* no text with a secret in it is in a memory or a note, and no table has  *)
(* more rows than there were calls (memory.py, tasks.py).                  *)
THEOREM StoreTypeOK == DashSpec => []TypeOK
<1>1. StoreInv => TypeOK
  <2> SUFFICES ASSUME StoreInv PROVE TypeOK
    OBVIOUS
  <2>1. \A t \in Tables : rows[t] \in Seq(Row) /\ Len(rows[t]) <= calls
    BY RowIds
  <2>2. DOMAIN files = Days /\ \A d \in Days : files[d] \in Seq(Lines(Event))
    BY DEF StoreInv, Typed, Logs
  <2> QED
    BY <2>1, <2>2 DEF StoreInv, Typed, TypeOK
<1> QED
  BY <1>1, StoreInvariant, PTL

(* What is on record of a click is on record of the task too.              *)
LEMMA ClicksAgreeLemma ==
    ASSUME StoreInv
    PROVE  ClicksAgree
<1> SUFFICES ASSUME NEW c \in Calls, NEW id \in Ids, NEW well \in BOOLEAN,
                    NEW e, e = Completed(c, id, IF well THEN "success" ELSE "error"),
                    Recorded(files, Clicked(e))
             PROVE  \/ Recorded(files, e) \/ c \in lost
                    \/ well /\ Recorded(files, Completed(c, id, "noop"))
  BY DEF ClicksAgree
<1>1. e.by = c /\ e.id = id /\ e.type = "completed" /\ e.table = "task"
      /\ e.outcome = IF well THEN "success" ELSE "error"
  BY DEF Completed
<1>2. e \in Event
  BY Events
<1>3. PICK k : k = Clicked(e)
  OBVIOUS
<1>4. /\ k \in Event /\ k.type = "clicked" /\ k.by = c /\ k.id = id
      /\ k.outcome = IF well THEN "success" ELSE "error"
  BY <1>1, <1>2, <1>3 DEF Clicked, Event
<1>5. Backed(k)
  BY <1>3, <1>4 DEF StoreInv, FilesTrue
<1> QED
  BY <1>4, <1>5 DEF Backed

(* The log and the tables agree: every record of a change is about a row   *)
(* that is there, and a row whose record is missing is that of a call at   *)
(* work, of one whose process ended or whose record could not be written   *)
(* (memory.py, tasks.py, log_storage_event, dashboard_task_completed).     *)
THEOREM TrailAndStoreAgree == DashSpec => []TrailMatchesStore
<1>1. StoreInv => TrailMatchesStore
  <2> SUFFICES ASSUME StoreInv PROVE TrailMatchesStore
    OBVIOUS
  <2>1. ASSUME NEW d \in Days, NEW i \in DOMAIN files[d], NEW e, e = files[d][i].text,
               e \notin {Torn, Broken}, e.outcome = "success", e.id # None
        PROVE  /\ e.id \in DOMAIN rows[e.table]
               /\ IF e.type = "created" THEN rows[e.table][e.id].by = e.by
                  ELSE rows[e.table][e.id].done # None
    <3>1. e \in Event
      <4>1. files[d] \in Seq(Lines(Event))
        BY DEF StoreInv, Typed, Logs
      <4>2. files[d][i] \in Lines(Event)
        BY <2>1, <4>1
      <4> QED
        BY <2>1, <4>2 DEF Lines
    <3>2. Recorded(files, e)
      BY <2>1 DEF Recorded
    <3>3. Truth(e)
      BY <3>1, <3>2 DEF StoreInv, FilesTrue
    <3> QED
      BY <2>1, <3>3 DEF Truth
  <2>2. ASSUME NEW t \in Tables, NEW i \in DOMAIN rows[t]
        PROVE  LET r == rows[t][i]
                   excused(c) == Working(c) \/ c \in lost
               IN
               /\ Recorded(files, Created(t, r.by, i)) \/ excused(r.by)
               /\ r.done = None \/ Recorded(files, Completed(r.done, i, "success")) \/ excused(r.done)
    <3>1. ASSUME NEW c, NEW e, e.by = c, Told(e)
          PROVE  Recorded(files, e) \/ Working(c) \/ c \in lost
      <4>1. ASSUME NEW w \in Workers, job[w].at = "record", job[w].event = e
            PROVE  Working(c)
        <5>1. job[w].by = c
          BY <3>1, <4>1 DEF StoreInv, JobsTrue, JobTrue
        <5> QED
          BY <4>1, <5>1 DEF Working, Idle
      <4> QED
        BY <3>1, <4>1 DEF Told
    <3>2. \A c : Created(t, c, i).by = c /\ Completed(c, i, "success").by = c
      BY DEF Created, Completed
    <3> QED
      BY <2>2, <3>1, <3>2 DEF StoreInv, RowsTold
  <2> QED
    BY <2>1, <2>2, ClicksAgreeLemma DEF TrailMatchesStore
<1> QED
  BY <1>1, StoreInvariant, PTL

(* No worker is told twice that it completed one task (complete_task).     *)
THEOREM NobodyIsToldTwice == DashSpec => []MarkedOncePerWorker
<1>1. StoreInv => MarkedOncePerWorker
  BY DEF StoreInv
<1> QED
  BY <1>1, StoreInvariant, PTL

(* Rows stay as they are, or one task is completed.                        *)
RowsKept ==
    \A t \in Tables :
        /\ Len(rows'[t]) >= Len(rows[t])
        /\ \A i \in DOMAIN rows[t] :
            /\ rows'[t][i].by = rows[t][i].by /\ rows'[t][i].text = rows[t][i].text
            /\ rows'[t][i] # rows[t][i] =>
                \E w \in Workers : job[w].at = "update" /\ job[w].id = i /\ t = "task"
                                   /\ rows'[t][i].done = job[w].by

(* Only a completion changes a row, and only its own.                      *)
LEMMA StepKeepsRows ==
    ASSUME StoreInv, [DashNext]_dashVars
    PROVE  RowsKept
<1>1. ASSUME StoreInv, rows' = rows
      PROVE  RowsKept
  BY <1>1, RowIds DEF RowsKept
<1>2. ASSUME StoreInv, NEW w \in Workers, Insert(w)
      PROVE  RowsKept
  <2>1. PICK o : o = job[w]
    OBVIOUS
  <2>2. PICK row : row = [by |-> o.by, text |-> o.text, done |-> None]
    OBVIOUS
  <2>3. o.table \in Tables /\ row \in Row
    <3>1. o \in Job /\ o.at = "insert"
      BY <1>2, <2>1 DEF Insert, StoreInv, Typed
    <3> QED
      BY <2>2, <3>1 DEF Job, Row
  <2>4. rows' = [rows EXCEPT ![o.table] = Append(@, row)]
    BY <1>2, <2>1, <2>2 DEF Insert
  <2>5. ASSUME NEW t \in Tables
        PROVE  Len(rows'[t]) >= Len(rows[t]) /\ \A i \in DOMAIN rows[t] : rows'[t][i] = rows[t][i]
    <3>1. rows[t] \in Seq(Row) /\ Len(rows[t]) \in Nat /\ DOMAIN rows[t] = 1 .. Len(rows[t])
      BY <1>2, RowIds
    <3>2. CASE t = o.table
      <4>1. rows'[t] = Append(rows[t], row)
        BY <1>2, <2>4, <3>2 DEF StoreInv, Typed
      <4> QED
        BY <2>3, <3>1, <4>1, AppendProperties
    <3>3. CASE t # o.table
      BY <1>2, <2>4, <3>1, <3>3 DEF StoreInv, Typed
    <3> QED
      BY <3>2, <3>3
  <2> QED
    BY <2>5 DEF RowsKept
<1>3. ASSUME StoreInv, NEW w \in Workers, Update(w)
      PROVE  RowsKept
  <2>1. PICK o : o = job[w]
    OBVIOUS
  <2>2. o.at = "update" /\ o.id \in DOMAIN rows["task"]
    BY <1>3, <2>1 DEF Update, StoreInv, JobsTrue, JobTrue
  <2>3. PICK row : row = [rows["task"][o.id] EXCEPT !.done = o.by]
    OBVIOUS
  <2>4. rows["task"] \in Seq(Row) /\ rows["task"][o.id] \in Row /\ Len(rows["task"]) \in Nat
    BY <1>3, <2>2, StoreAssumption, RowIds
  <2>5. row \in Row /\ row.done = o.by /\ row.by = rows["task"][o.id].by
        /\ row.text = rows["task"][o.id].text
    <3>1. o.by \in Calls
      <4>1. o \in Job /\ o.at = "update"
        BY <1>3, <2>1, <2>2 DEF StoreInv, Typed
      <4> QED
        BY <4>1 DEF Job
    <3> QED
      BY <2>3, <2>4, <3>1 DEF Row
  <2>6. rows' = [rows EXCEPT !["task"] = [@ EXCEPT ![o.id] = row]]
    BY <1>3, <2>1, <2>3 DEF Update
  <2>7. /\ rows'["task"] = [rows["task"] EXCEPT ![o.id] = row]
        /\ \A t \in Tables \ {"task"} : rows'[t] = rows[t]
    BY <1>3, <2>6, StoreAssumption DEF StoreInv, Typed
  <2>8. /\ Len(rows'["task"]) = Len(rows["task"]) /\ rows'["task"][o.id] = row
        /\ \A i \in DOMAIN rows["task"] : i # o.id => rows'["task"][i] = rows["task"][i]
    BY <2>2, <2>4, <2>5, <2>7, ExceptSeq
  <2>9. \A t \in Tables : Len(rows[t]) \in Nat
    BY <1>3, RowIds
  <2> SUFFICES ASSUME NEW t \in Tables
               PROVE  /\ Len(rows'[t]) >= Len(rows[t])
                      /\ \A i \in DOMAIN rows[t] :
                          /\ rows'[t][i].by = rows[t][i].by /\ rows'[t][i].text = rows[t][i].text
                          /\ rows'[t][i] # rows[t][i] =>
                              \E v \in Workers : job[v].at = "update" /\ job[v].id = i
                                                 /\ t = "task" /\ rows'[t][i].done = job[v].by
    BY DEF RowsKept
  <2>10. CASE t # "task"
    BY <2>7, <2>9, <2>10
  <2>11. CASE t = "task"
    BY <2>1, <2>2, <2>5, <2>8, <2>9, <2>11
  <2> QED
    BY <2>10, <2>11
<1>4. ASSUME DashNext
      PROVE  RowsKept
  <2>1. ASSUME NEW w \in Workers, Work(w)
        PROVE  RowsKept
    <3>1. CASE AddTask(w) \/ Query(w) \/ \E t \in Tables : List(w, t)
      BY <1>1, <3>1 DEF AddTask, Query, List
    <3>2. CASE \E text \in Texts, t \in Tables \ {"task"} : Save(w, t, text)
      BY <1>1, <3>2 DEF Save
    <3>3. CASE \E id \in Ids : CompleteTask(w, id, FALSE) \/ (w = Loop /\ CompleteTask(w, id, TRUE))
      BY <1>1, <3>3 DEF CompleteTask
    <3>4. CASE Look(w) \/ Answer(w) \/ Fail(w)
      BY <1>1, <3>4 DEF Look, Answer, Fail
    <3>5. CASE Insert(w) \/ Update(w)
      BY <1>2, <1>3, <3>5
    <3> QED
      BY <2>1, <3>1, <3>2, <3>3, <3>4, <3>5 DEF Work
  <2>2. ASSUME NEW t \in Threads, Browse(t)
        PROVE  RowsKept
    <3>1. rows' = rows
      BY <2>2 DEF Browse, View, ReadRows, CountTasks, CountDone, ReadAudit, PageFails, vars
    <3> QED
      BY <1>1, <3>1
  <2>3. ASSUME NEW p \in Processes, Kill(p)
        PROVE  RowsKept
    BY <1>1, <2>3 DEF Kill
  <2> QED
    BY <1>4, <2>1, <2>2, <2>3 DEF DashNext
<1>5. CASE UNCHANGED dashVars
  BY <1>1, <1>5 DEF dashVars, vars
<1> QED
  BY <1>4, <1>5

(* Rows are only added, at the end, and a completion changes one task and  *)
(* never opens one again, whoever writes meanwhile (database.py, tasks.py). *)
THEOREM RowsAreKept == DashSpec => RowsStay
<1>1. StoreInv /\ [DashNext]_dashVars => [RowsKept]_dashVars
  BY StepKeepsRows
<1>2. [RowsKept]_dashVars => [RowsKept]_vars
  BY DEF dashVars
<1> QED
  BY <1>1, <1>2, StoreInvariant, PTL DEF DashSpec, RowsStay, RowsKept

-----------------------------------------------------------------------------
(* Pages: what one has read stays true while others write.                 *)
Visit(c) == NoId("viewed", None, c, "success")

Done == DOMAIN rows["task"] \ Listed("task")

(* The audit files come last, and the count of all tasks after the tasks.  *)
InOrder(left) ==
    /\ left \in Seq(ToSet(Readings)) /\ left # <<>>
    /\ \A k \in 1 .. Len(left) : left[k] = "audit" <=> k = Len(left)
    /\ \A k \in 1 .. Len(left) : left[k] = "task" => \E m \in k + 1 .. Len(left) : left[m] = "total"

PageTrue(p) ==
    p.at = "reading" =>
        /\ InOrder(p.left)
        /\ Recorded(files, Visit(p.by)) \/ p.by \in lost
        /\ \A t \in Tables : p.rows[t] \subseteq DOMAIN rows[t]
        /\ p.done <= Cardinality(Done)
        /\ "total" \in ToSet(p.left) \/ \A id \in p.rows["task"] : id <= p.total

PagesTrue == page \in [Threads -> Page] /\ \A t \in Threads : PageTrue(page[t])

(* No step takes a record, or what is known to be lost, back.              *)
LEMMA StepKeepsLog ==
    ASSUME StoreInv, [DashNext]_dashVars
    PROVE  LogGrows
<1>1. ASSUME files' = files, lost \subseteq lost'
      PROVE  LogGrows
  BY <1>1 DEF LogGrows
<1>2. ASSUME NEW event \in Event, NEW outcomes \in SUBSET QuoteOutcomes, Recording(event, outcomes)
      PROVE  LogGrows
  BY <1>2, RecordingGrows DEF StoreInv
<1>3. WriteOutcomes \in SUBSET QuoteOutcomes /\ QuoteOutcomes \in SUBSET QuoteOutcomes
  BY DEF QuoteOutcomes
<1>4. ASSUME NEW type \in {"request", "viewed", "blocked"}, NEW table \in Tables \cup {None},
             NEW o \in {"success", "blocked"}, calls < MaxCalls
      PROVE  NoId(type, table, calls + 1, o) \in Event
  <2>1. calls + 1 \in Calls
    BY <1>4, StoreAssumption DEF StoreInv, Typed, Calls
  <2> QED
    BY <2>1 DEF NoId, Event
<1>5. ASSUME NEW w \in Workers, Work(w)
      PROVE  LogGrows
  <2>1. CASE AddTask(w) \/ \E t \in Tables : List(w, t)
    BY <1>1, <2>1 DEF AddTask, List
  <2>2. CASE \E id \in Ids : CompleteTask(w, id, FALSE) \/ (w = Loop /\ CompleteTask(w, id, TRUE))
    BY <1>1, <2>2 DEF CompleteTask
  <2>3. CASE Insert(w) \/ Look(w) \/ Update(w) \/ Fail(w)
    BY <1>1, <2>3 DEF Insert, Look, Update, Fail
  <2>4. CASE Query(w)
    <3>1. PICK e : e = NoId("request", None, calls + 1, "success")
      OBVIOUS
    <3>2. e \in Event /\ Recording(e, QuoteOutcomes)
      BY <1>4, <2>4, <3>1 DEF Query, Called
    <3> QED
      BY <1>2, <1>3, <3>2
  <2>5. ASSUME NEW text \in Texts, NEW t \in Tables \ {"task"}, Save(w, t, text)
        PROVE  LogGrows
    <3>1. PICK e : e = NoId("blocked", t, calls + 1, "blocked")
      OBVIOUS
    <3>2. e \in Event
      BY <1>4, <2>5, <3>1 DEF Save, Called
    <3>3. Recording(e, WriteOutcomes) \/ UNCHANGED <<files, bad, lost>>
      BY <2>5, <3>1 DEF Save, Audit
    <3> QED
      BY <1>1, <1>2, <1>3, <3>2, <3>3
  <2>6. CASE Answer(w)
    <3>1. PICK e : e = job[w].event
      OBVIOUS
    <3>2. e \in Event
      <4>1. job[w] \in Job /\ job[w].at = "record"
        BY <2>6 DEF Answer, StoreInv, Typed
      <4> QED
        BY <3>1, <4>1 DEF Job
    <3>3. Recording(e, WriteOutcomes)
      BY <2>6, <3>1 DEF Answer, Audit
    <3> QED
      BY <1>2, <1>3, <3>2, <3>3
  <2> QED
    BY <1>5, <2>1, <2>2, <2>3, <2>4, <2>5, <2>6 DEF Work
<1>6. ASSUME NEW t \in Threads, Browse(t)
      PROVE  LogGrows
  <2>1. ASSUME NEW left, View(t, left)
        PROVE  LogGrows
    <3>1. PICK e : e = Visit(calls + 1)
      OBVIOUS
    <3>2. e \in Event /\ Recording(e, WriteOutcomes)
      BY <1>4, <2>1, <3>1 DEF View, Visit, Audit
    <3> QED
      BY <1>2, <1>3, <3>2
  <2>2. CASE UNCHANGED vars
    BY <1>1, <2>2 DEF vars
  <2> QED
    BY <1>6, <2>1, <2>2 DEF Browse, ReadRows, CountTasks, CountDone, ReadAudit, PageFails
<1>7. ASSUME NEW p \in Processes, Kill(p)
      PROVE  LogGrows
  BY <1>1, <1>7 DEF Kill
<1>8. CASE UNCHANGED dashVars
  BY <1>1, <1>8 DEF dashVars, vars
<1> QED
  BY <1>5, <1>6, <1>7, <1>8 DEF DashNext

(* No step takes a row back, or opens a task that is done.                 *)
LEMMA StepGrowsRows ==
    ASSUME StoreInv, [DashNext]_dashVars
    PROVE  RowsGrow /\ StoreInv'
<1>1. RowsKept
  BY StepKeepsRows
<1>2. StoreInv'
  <2>1. CASE \E w \in Workers : Work(w)
    BY <2>1, WorkInv
  <2>2. CASE \E t \in Threads : Browse(t)
    BY <2>2, BrowseInv
  <2>3. CASE \E p \in Processes : Kill(p)
    BY <2>3, KillInv
  <2>4. CASE UNCHANGED dashVars
    BY <2>4, SameInv DEF dashVars
  <2> QED
    BY <2>1, <2>2, <2>3, <2>4 DEF DashNext
<1>3. ASSUME NEW t \in Tables, NEW i \in DOMAIN rows[t]
      PROVE  /\ i \in DOMAIN rows'[t]
             /\ rows'[t][i].by = rows[t][i].by
             /\ rows[t][i].done # None => rows'[t][i].done # None
  <2>1. DOMAIN rows[t] = 1 .. Len(rows[t]) /\ Len(rows[t]) \in Nat
    BY RowIds
  <2>2. rows'[t] \in Seq(Row)
    BY <1>2 DEF StoreInv, Typed
  <2>3. Len(rows'[t]) \in Nat /\ DOMAIN rows'[t] = 1 .. Len(rows'[t])
    BY <2>2
  <2>4. Len(rows'[t]) >= Len(rows[t])
    BY <1>1 DEF RowsKept
  <2>5. i \in DOMAIN rows'[t]
    BY <2>1, <2>3, <2>4
  <2>6. CASE rows'[t][i] = rows[t][i]
    BY <2>5, <2>6
  <2>7. CASE rows'[t][i] # rows[t][i]
    <3>1. PICK w \in Workers : job[w].at = "update" /\ rows'[t][i].done = job[w].by
      BY <1>1, <2>7 DEF RowsKept
    <3>2. job[w] \in Job
      BY DEF StoreInv, Typed
    <3>3. job[w].by # None
      BY <3>1, <3>2, NamesAssumption DEF Job
    <3> QED
      BY <1>1, <2>5, <3>1, <3>3 DEF RowsKept
  <2> QED
    BY <2>6, <2>7
<1> QED
  BY <1>2, <1>3 DEF RowsGrow

(* The tasks that are done are finitely many, and they stay done.          *)
LEMMA DoneGrows ==
    ASSUME StoreInv
    PROVE  /\ IsFiniteSet(Done) /\ Cardinality(Done) \in Nat
           /\ Done = {i \in DOMAIN rows["task"] : rows["task"][i].done # None}
           /\ RowsGrow /\ StoreInv' => Cardinality(Done) <= Cardinality(Done')
<1>1. /\ DOMAIN rows["task"] = 1 .. Len(rows["task"]) /\ Len(rows["task"]) \in Nat
  BY RowIds, StoreAssumption
<1>2. Done = {i \in DOMAIN rows["task"] : rows["task"][i].done # None}
  BY DEF Done, Listed
<1>3. IsFiniteSet(Done)
  <2>1. IsFiniteSet(1 .. Len(rows["task"]))
    BY <1>1, FS_Interval
  <2>2. Done \subseteq 1 .. Len(rows["task"])
    BY <1>1, <1>2
  <2> QED
    BY <2>1, <2>2, FS_Subset
<1>4. ASSUME RowsGrow, StoreInv' PROVE Cardinality(Done) <= Cardinality(Done')
  <2>1. Done' = {i \in DOMAIN rows'["task"] : rows'["task"][i].done # None}
    BY DEF Done, Listed
  <2>2. Done \subseteq Done'
    BY <1>2, <1>4, <2>1, StoreAssumption DEF RowsGrow
  <2>3. rows'["task"] \in Seq(Row)
    BY <1>4, StoreAssumption DEF StoreInv, Typed
  <2>4. DOMAIN rows'["task"] = 1 .. Len(rows'["task"]) /\ Len(rows'["task"]) \in Nat
    BY <2>3
  <2>5. IsFiniteSet(Done')
    <3>1. IsFiniteSet(1 .. Len(rows'["task"]))
      BY <2>4, FS_Interval
    <3>2. Done' \subseteq 1 .. Len(rows'["task"])
      BY <2>1, <2>4
    <3> QED
      BY <3>1, <3>2, FS_Subset
  <2> QED
    BY <2>2, <2>5, FS_Subset
<1> QED
  BY <1>2, <1>3, <1>4, FS_CardinalityType

(* What is read is in order from the start.                                *)
LEMMA ReadingsInOrder == InOrder(Readings) /\ InOrder(<<"audit">>)
<1>1. PICK r : r = NewestOf("memory") \o NewestOf("note")
  OBVIOUS
<1>2. PICK s : s = <<"task", "total", "done", "audit">>
  OBVIOUS
<1>3. r \in Seq({"memory", "note"})
  <2>1. NewestOf("memory") \in Seq({"memory", "note"})
    <3>1. <<"memory">> \in Seq({"memory", "note"}) /\ << >> \in Seq({"memory", "note"})
      BY EmptySeq
    <3> QED
      BY <3>1 DEF NewestOf
  <2>2. NewestOf("note") \in Seq({"memory", "note"})
    <3>1. <<"note">> \in Seq({"memory", "note"}) /\ << >> \in Seq({"memory", "note"})
      BY EmptySeq
    <3> QED
      BY <3>1 DEF NewestOf
  <2> QED
    BY <1>1, <2>1, <2>2, ConcatProperties
<1> DEFINE All == {"memory", "note", "task", "total", "done", "audit"}
<1>4. /\ s \in Seq(All) /\ Len(s) = 4 /\ r \in Seq(All) /\ Len(r) \in Nat
      /\ s[1] = "task" /\ s[2] = "total" /\ s[3] = "done" /\ s[4] = "audit"
      /\ \A k \in 1 .. Len(r) : r[k] \in {"memory", "note"}
  <2>1. s \in Seq(All) /\ Len(s) = 4 /\ s[1] = "task" /\ s[2] = "total" /\ s[3] = "done"
        /\ s[4] = "audit"
    BY <1>2
  <2>2. Len(r) \in Nat /\ \A k \in 1 .. Len(r) : r[k] \in {"memory", "note"}
    BY <1>3
  <2>3. r \in Seq(All)
    BY <1>3
  <2> QED
    BY <2>1, <2>2, <2>3
<1>5. Readings = r \o s
  <2>1. PICK a : a = NewestOf("memory")
    OBVIOUS
  <2>2. PICK b : b = NewestOf("note")
    OBVIOUS
  <2> QED
    BY <1>1, <1>2, <2>1, <2>2 DEF Readings
<1>6. /\ Readings \in Seq(All) /\ Len(Readings) = Len(r) + 4
      /\ \A k \in 1 .. Len(r) : Readings[k] = r[k]
      /\ \A k \in 1 .. 4 : Readings[Len(r) + k] = s[k]
  <2>1. /\ Readings \in Seq(All) /\ Len(Readings) = Len(r) + 4
        /\ \A k \in 1 .. Len(r) + 4 : Readings[k] = IF k <= Len(r) THEN r[k] ELSE s[k - Len(r)]
    <3>1. PICK all : all = All
      OBVIOUS
    <3>2. r \in Seq(all) /\ s \in Seq(all) /\ Len(s) = 4
      BY <1>4, <3>1
    <3>3. /\ r \o s \in Seq(all) /\ Len(r \o s) = Len(r) + Len(s)
          /\ \A k \in 1 .. Len(r) + Len(s) :
               (r \o s)[k] = IF k <= Len(r) THEN r[k] ELSE s[k - Len(r)]
      BY ONLY <3>2, ConcatProperties
    <3> HIDE DEF All
    <3> QED
      BY <1>5, <3>1, <3>2, <3>3
  <2>2. \A k \in 1 .. 4 : Len(r) + k \in 1 .. Len(r) + 4 /\ ~(Len(r) + k <= Len(r))
                         /\ (Len(r) + k) - Len(r) = k
    BY <1>4
  <2>3. \A k \in 1 .. Len(r) : k \in 1 .. Len(r) + 4 /\ k <= Len(r)
    BY <1>4
  <2> HIDE DEF All
  <2>4. \A k \in 1 .. 4 : Readings[Len(r) + k] = s[k]
    BY <2>1, <2>2
  <2> QED
    BY <2>1, <2>3, <2>4
<1>7. DOMAIN Readings = 1 .. Len(Readings) /\ Len(Readings) \in Nat
  BY <1>4, <1>6
<1>8. ToSet(Readings) = {Readings[k] : k \in DOMAIN Readings}
  BY DEF ToSet
<1>9. \A k \in 1 .. Len(Readings) :
        k \in 1 .. Len(r) \/ k \in {Len(r) + 1, Len(r) + 2, Len(r) + 3, Len(r) + 4}
  BY <1>4, <1>6, SMTT(60)
<1>10. /\ Readings[Len(r) + 1] = "task" /\ Readings[Len(r) + 2] = "total"
       /\ Readings[Len(r) + 3] = "done" /\ Readings[Len(r) + 4] = "audit"
  BY <1>4, <1>6
<1>11. Readings \in Seq(ToSet(Readings))
  BY <1>7, <1>8, <1>6
<1>12. InOrder(Readings)
  <2>1. Readings # <<>>
    BY <1>4, <1>6
  <2>2. ASSUME NEW k \in 1 .. Len(Readings)
        PROVE  /\ Readings[k] = "audit" <=> k = Len(Readings)
               /\ Readings[k] = "task" =>
                    \E m \in k + 1 .. Len(Readings) : Readings[m] = "total"
    <3>1. CASE k \in 1 .. Len(r)
      BY <1>4, <1>6, <3>1
    <3>2. CASE k = Len(r) + 1
      <4>1. k + 1 \in k + 1 .. Len(Readings) /\ Readings[k + 1] = "total"
        BY <1>4, <1>6, <1>10, <3>2
      <4> QED
        BY <1>4, <1>6, <1>10, <3>2, <4>1
    <3>3. CASE k \in {Len(r) + 2, Len(r) + 3, Len(r) + 4}
      BY <1>4, <1>6, <1>10, <3>3
    <3> QED
      BY <1>9, <3>1, <3>2, <3>3
  <2> QED
    BY <1>11, <2>1, <2>2 DEF InOrder
<1>13. InOrder(<<"audit">>)
  <2>1. Len(r) + 4 \in DOMAIN Readings
    BY <1>4, <1>6, <1>7
  <2>2. "audit" \in ToSet(Readings)
    BY <1>8, <1>10, <2>1
  <2> QED
    BY <2>2 DEF InOrder
<1> QED
  BY <1>12, <1>13

(* What is left after the first thing is in order too, if anything is.     *)
LEMMA TailInOrder ==
    ASSUME NEW left, InOrder(left)
    PROVE  /\ left \in Seq(ToSet(Readings)) /\ Tail(left) \in Seq(ToSet(Readings))
           /\ Head(left) # "audit" => InOrder(Tail(left)) /\ Tail(left) # <<>>
           /\ Head(left) = "audit" => Tail(left) = <<>>
           /\ Head(left) = "task" => "total" \in ToSet(Tail(left))
           /\ Head(left) # "total" /\ "total" \in ToSet(left) => "total" \in ToSet(Tail(left))
<1>1. /\ left \in Seq(ToSet(Readings)) /\ left # <<>> /\ Len(left) \in Nat \ {0}
      /\ DOMAIN left = 1 .. Len(left) /\ Head(left) = left[1]
  BY EmptySeq DEF InOrder
<1>2. PICK rest : rest = Tail(left)
  OBVIOUS
<1>3. /\ rest \in Seq(ToSet(Readings)) /\ Len(rest) = Len(left) - 1
      /\ DOMAIN rest = 1 .. Len(left) - 1
      /\ \A k \in 1 .. Len(left) - 1 : rest[k] = left[k + 1]
  BY <1>1, <1>2, HeadTailProperties
<1>4. Head(left) = "audit" <=> Len(left) = 1
  <2>1. 1 \in 1 .. Len(left)
    BY <1>1
  <2> QED
    BY <1>1, <2>1 DEF InOrder
<1>5. Head(left) = "audit" => rest = <<>>
  BY <1>1, <1>3, <1>4, EmptySeq
<1>6. ASSUME Head(left) # "audit" PROVE InOrder(rest) /\ rest # <<>>
  <2>1. Len(rest) \in Nat \ {0} /\ rest # <<>>
    BY <1>1, <1>3, <1>4, <1>6
  <2>2. ASSUME NEW k \in 1 .. Len(rest)
        PROVE  /\ rest[k] = "audit" <=> k = Len(rest)
               /\ rest[k] = "task" => \E m \in k + 1 .. Len(rest) : rest[m] = "total"
    <3>1. k + 1 \in 1 .. Len(left) /\ rest[k] = left[k + 1] /\ k \in Nat
      BY <1>1, <1>3
    <3>2. rest[k] = "audit" <=> k + 1 = Len(left)
      BY <3>1 DEF InOrder
    <3>3. ASSUME rest[k] = "task"
          PROVE  \E m \in k + 1 .. Len(rest) : rest[m] = "total"
      <4>1. PICK m \in k + 1 + 1 .. Len(left) : left[m] = "total"
        BY <3>1, <3>3 DEF InOrder
      <4>2. m - 1 \in k + 1 .. Len(rest) /\ rest[m - 1] = left[m]
        BY <1>1, <1>3, <3>1
      <4> QED
        BY <4>1, <4>2
    <3>4. k + 1 = Len(left) <=> k = Len(rest)
      BY <1>1, <1>3, <3>1
    <3> QED
      BY <3>1, <3>2, <3>3, <3>4
  <2> QED
    BY <1>3, <2>1, <2>2 DEF InOrder
<1>7. ASSUME NEW m \in 2 .. Len(left), left[m] = "total"
      PROVE  "total" \in ToSet(rest)
  <2>1. m - 1 \in DOMAIN rest /\ rest[m - 1] = "total"
    BY <1>1, <1>3, <1>7
  <2> QED
    BY <2>1 DEF ToSet
<1>8. Head(left) = "task" => "total" \in ToSet(rest)
  <2>1. 1 \in 1 .. Len(left)
    BY <1>1
  <2>2. Head(left) = "task" => \E m \in 1 + 1 .. Len(left) : left[m] = "total"
    BY <1>1, <2>1 DEF InOrder
  <2> QED
    BY <1>7, <2>2
<1>9. Head(left) # "total" /\ "total" \in ToSet(left) => "total" \in ToSet(rest)
  <2> SUFFICES ASSUME left[1] # "total", NEW m \in DOMAIN left, left[m] = "total"
               PROVE  "total" \in ToSet(rest)
    BY <1>1 DEF ToSet
  <2>1. m \in 2 .. Len(left)
    BY <1>1
  <2> QED
    BY <1>7, <2>1
<1> QED
  BY <1>1, <1>2, <1>3, <1>5, <1>6, <1>8, <1>9

(* Other steps leave what is true of a page true.                          *)
LEMMA PageStays ==
    ASSUME StoreInv, StoreInv', RowsGrow, LogGrows, NEW p \in Page, PageTrue(p)
    PROVE  PageTrue(p)'
<1> SUFFICES ASSUME p.at = "reading" PROVE PageTrue(p)'
  BY DEF PageTrue
<1>1. InOrder(p.left) /\ p.by \in Calls /\ p.done \in Nat
  BY DEF PageTrue, Page
<1>2. Visit(p.by) \in Event
  BY <1>1 DEF Visit, NoId, Event
<1>3. Recorded(files', Visit(p.by)) \/ p.by \in lost'
  BY <1>2 DEF PageTrue, LogGrows
<1>4. \A t \in Tables : p.rows[t] \subseteq DOMAIN rows'[t]
  BY DEF PageTrue, RowsGrow
<1>5. p.done <= Cardinality(Done')
  <2>1. Cardinality(Done) \in Nat /\ Cardinality(Done) <= Cardinality(Done')
    BY DoneGrows
  <2>2. Cardinality(Done') \in Nat
    <3>1. rows'["task"] \in Seq(Row)
      BY StoreAssumption DEF StoreInv, Typed
    <3>2. Done' \subseteq 1 .. Len(rows'["task"]) /\ Len(rows'["task"]) \in Nat
      BY <3>1 DEF Done
    <3>3. IsFiniteSet(1 .. Len(rows'["task"]))
      BY <3>2, FS_Interval
    <3>4. IsFiniteSet(Done')
      BY <3>2, <3>3, FS_Subset
    <3> QED
      BY <3>4, FS_CardinalityType
  <2> QED
    BY <1>1, <2>1, <2>2 DEF PageTrue
<1> QED
  BY <1>1, <1>3, <1>4, <1>5 DEF PageTrue

(* What a page has read of one table, or counted, was so.                  *)
LEMMA ReadInv ==
    ASSUME StoreInv, PagesTrue, UNCHANGED vars, NEW t \in Threads,
           page[t].at = "reading", Head(page[t].left) # "audit", NEW q,
           \/ \E table \in Tables :
                /\ Head(page[t].left) = table
                /\ q = [Rest(page[t]) EXCEPT !.rows[table] = Listed(table)]
           \/ /\ Head(page[t].left) = "total"
              /\ q = [Rest(page[t]) EXCEPT !.total = Len(rows["task"])]
           \/ /\ Head(page[t].left) = "done"
              /\ q = [Rest(page[t]) EXCEPT !.done = Cardinality(Done)]
    PROVE  q \in Page /\ PageTrue(q) /\ q.at = "reading"
<1>1. PICK p : p = page[t]
  OBVIOUS
<1>2. /\ p \in Page /\ p.at = "reading" /\ PageTrue(p)
  BY <1>1 DEF PagesTrue
<1>3. PICK left : left = Tail(p.left)
  OBVIOUS
<1>4. /\ InOrder(left) /\ left # <<>> /\ left \in Seq(ToSet(Readings))
      /\ Head(p.left) = "task" => "total" \in ToSet(left)
      /\ Head(p.left) # "total" /\ "total" \in ToSet(p.left) => "total" \in ToSet(left)
  BY <1>1, <1>2, <1>3, TailInOrder DEF PageTrue
<1>5. PICK r : r = Rest(p)
  OBVIOUS
<1>6. /\ r \in Page /\ r.at = "reading" /\ r.left = left /\ r.by = p.by /\ r.rows = p.rows
      /\ r.total = p.total /\ r.done = p.done /\ r.audit = p.audit
  <2>1. r = [p EXCEPT !.left = left, !.at = "reading"]
    BY <1>2, <1>3, <1>4, <1>5 DEF Rest, Page
  <2> QED
    BY <1>2, <1>4, <2>1 DEF Page
<1>7. \A table \in Tables : Len(rows[table]) \in Nat /\ DOMAIN rows[table] = 1 .. Len(rows[table])
                             /\ DOMAIN rows[table] \subseteq Ids
  BY RowIds
<1>8. CASE \E table \in Tables :
             Head(p.left) = table /\ q = [r EXCEPT !.rows[table] = Listed(table)]
  <2>1. PICK table \in Tables : Head(p.left) = table /\ q = [r EXCEPT !.rows[table] = Listed(table)]
    BY <1>8
  <2>2. Listed(table) \subseteq DOMAIN rows[table] /\ Listed(table) \subseteq Ids
    BY <1>7 DEF Listed
  <2>3. PICK listed : listed = [r.rows EXCEPT ![table] = Listed(table)]
    OBVIOUS
  <2>4. /\ r.rows \in [Tables -> SUBSET Ids] /\ listed \in [Tables -> SUBSET Ids]
        /\ listed[table] = Listed(table)
        /\ \A u \in Tables \ {table} : listed[u] = p.rows[u]
    <3>1. r.rows \in [Tables -> SUBSET Ids]
      BY <1>6 DEF Page
    <3> QED
      BY <1>6, <2>2, <2>3, <3>1
  <2>5. q = [r EXCEPT !.rows = listed]
    BY <2>1, <2>3
  <2>6. q \in Page /\ q.at = "reading" /\ q.left = left /\ q.by = p.by /\ q.rows = listed
        /\ q.total = p.total /\ q.done = p.done
    BY <1>6, <2>4, <2>5 DEF Page
  <2>7. "total" \in ToSet(left) \/ \A id \in listed["task"] : id <= p.total
    <3>1. CASE table = "task"
      BY <1>4, <2>1, <3>1
    <3>2. CASE table # "task"
      <4>1. table # "total"
        BY StoreAssumption
      <4> QED
        BY <1>2, <1>4, <2>1, <2>4, <3>2, <4>1, StoreAssumption DEF PageTrue
    <3> QED
      BY <3>1, <3>2
  <2> QED
    BY <1>2, <1>4, <2>2, <2>4, <2>6, <2>7 DEF PageTrue
<1>9. CASE Head(p.left) = "total" /\ q = [r EXCEPT !.total = Len(rows["task"])]
  <2>1. Len(rows["task"]) \in Nat
    BY <1>7, StoreAssumption
  <2>2. q \in Page /\ q.at = "reading" /\ q.left = left /\ q.by = p.by /\ q.rows = p.rows
        /\ q.total = Len(rows["task"]) /\ q.done = p.done
    BY <1>6, <1>9, <2>1 DEF Page
  <2>3. \A id \in p.rows["task"] : id <= Len(rows["task"])
    BY <1>2, <1>7, StoreAssumption DEF PageTrue
  <2> QED
    BY <1>2, <1>4, <2>2, <2>3 DEF PageTrue
<1>10. CASE Head(p.left) = "done" /\ q = [r EXCEPT !.done = Cardinality(Done)]
  <2>1. Cardinality(Done) \in Nat
    BY DoneGrows
  <2>2. q \in Page /\ q.at = "reading" /\ q.left = left /\ q.by = p.by /\ q.rows = p.rows
        /\ q.total = p.total /\ q.done = Cardinality(Done)
    BY <1>6, <1>10, <2>1 DEF Page
  <2>3. "total" \in ToSet(left) \/ \A id \in p.rows["task"] : id <= p.total
    BY <1>2, <1>4, <1>10 DEF PageTrue
  <2> QED
    BY <1>2, <1>4, <2>1, <2>2, <2>3 DEF PageTrue
<1> QED
  BY <1>1, <1>5, <1>8, <1>9, <1>10

(* The audit files are read last.                                          *)
LEMMA ReadAuditInv ==
    ASSUME StoreInv, PagesTrue, NEW t \in Threads,
           page[t].at = "reading", Head(page[t].left) = "audit", NEW q,
           q = [Rest(page[t]) EXCEPT !.audit = ReadFiltered(files, Event, RecentLimit)]
    PROVE  LET p == page[t] IN
           /\ q \in Page /\ q.at = "shown" /\ q.by = p.by /\ q.rows = p.rows
           /\ q.total = p.total /\ q.done = p.done
           /\ q.audit = ReadFiltered(files, Event, RecentLimit)
           /\ "total" \notin ToSet(p.left)
<1>1. PICK p : p = page[t]
  OBVIOUS
<1>2. /\ p \in Page /\ p.at = "reading" /\ PageTrue(p)
  BY <1>1 DEF PagesTrue
<1>3. p.left \in Seq(ToSet(Readings)) /\ Tail(p.left) = <<>> /\ <<>> \in Seq(ToSet(Readings))
  BY <1>1, <1>2, TailInOrder DEF PageTrue
<1>4. PICK audit : audit = ReadFiltered(files, Event, RecentLimit)
  OBVIOUS
<1>5. audit \in Seq(Event)
  <2>1. files \in Logs(Event) /\ RecentLimit \in Nat
    BY DashboardAssumption DEF StoreInv, Typed
  <2> QED
    BY ONLY <1>4, <2>1, ReadsInOrder
<1>6. q = [p EXCEPT !.left = <<>>, !.at = "shown", !.audit = audit]
  BY <1>1, <1>2, <1>3, <1>4 DEF Rest, Page
<1>7. /\ q \in Page /\ q.at = "shown" /\ q.by = p.by /\ q.rows = p.rows
      /\ q.total = p.total /\ q.done = p.done /\ q.audit = audit
  BY <1>2, <1>3, <1>5, <1>6 DEF Page
<1>8. "total" \notin ToSet(p.left)
  <2>1. InOrder(p.left) /\ Len(p.left) \in Nat \ {0} /\ DOMAIN p.left = 1 .. Len(p.left)
    BY <1>2, <1>3, EmptySeq DEF PageTrue, InOrder
  <2>2. 1 \in 1 .. Len(p.left) /\ p.left[1] = "audit"
    BY <1>1, <2>1
  <2>3. Len(p.left) = 1
    BY <2>1, <2>2 DEF InOrder
  <2> QED
    BY <2>1, <2>2, <2>3 DEF ToSet
<1> QED
  BY <1>1, <1>4, <1>7, <1>8

(* A thread goes on with its page; what is true of the others stays true.  *)
LEMMA PagesStay ==
    ASSUME StoreInv, StoreInv', RowsGrow, LogGrows, PagesTrue,
           \A t \in Threads : \E q \in Page :
             page'[t] = q /\ (q = page[t] \/ PageTrue(q)'),
           DOMAIN page' = Threads, page' = [t \in Threads |-> page'[t]]
    PROVE  PagesTrue'
<1>1. page \in [Threads -> Page] /\ \A t \in Threads : PageTrue(page[t])
  BY DEF PagesTrue
<1>2. page' \in [Threads -> Page]
  OBVIOUS
<1>3. ASSUME NEW t \in Threads
      PROVE  PageTrue(page[t])'
  <2>1. PICK q \in Page : page'[t] = q /\ (q = page[t] \/ PageTrue(q)')
    OBVIOUS
  <2>2. q = page[t] => PageTrue(q)
    BY <1>1
  <2>3. PageTrue(q)'
    BY <2>1, <2>2, PageStays
  <2> QED
    BY <2>1, <2>3 DEF PageTrue
<1> QED
  BY <1>2, <1>3 DEF PagesTrue

(* Each thread at its page.                                                *)
LEMMA BrowsePages ==
    ASSUME StoreInv, StoreInv', RowsGrow, LogGrows, PagesTrue, NEW t \in Threads, Browse(t)
    PROVE  PagesTrue'
<1>1. page \in [Threads -> Page] /\ page[t] \in Page
  BY DEF PagesTrue
<1>2. ASSUME NEW q \in Page, PageTrue(q)', page' = [page EXCEPT ![t] = q]
      PROVE  PagesTrue'
  <2>1. DOMAIN page' = Threads /\ page' = [u \in Threads |-> page'[u]] /\ page'[t] = q
        /\ \A u \in Threads \ {t} : page'[u] = page[u]
    BY <1>1, <1>2
  <2>2. \A u \in Threads : \E x \in Page : page'[u] = x /\ (x = page[u] \/ PageTrue(x)')
    BY <1>1, <1>2, <2>1
  <2> QED
    BY <2>1, <2>2, PagesStay
<1>3. ASSUME NEW left, InOrder(left), View(t, left)
      PROVE  PagesTrue'
  <2>1. PICK c : c = calls + 1
    OBVIOUS
  <2>2. PICK q : q = [at |-> "reading", by |-> c, left |-> left,
                      rows |-> [table \in Tables |-> {}], total |-> 0, done |-> 0, audit |-> <<>>]
    OBVIOUS
  <2>3. c \in Calls /\ page' = [page EXCEPT ![t] = q] /\ Audit(Visit(c))
    BY <1>3, <2>1, <2>2, StoreAssumption DEF View, Show, StoreInv, Typed, Calls, Visit
  <2>4. Visit(c) \in Event /\ Visit(c).by = c
    BY <2>3 DEF Visit, NoId, Event
  <2>5. Recorded(files', Visit(c)) \/ c \in lost'
    <3>1. PICK e : e = Visit(c)
      OBVIOUS
    <3>2. Recording(e, WriteOutcomes) /\ WriteOutcomes \in SUBSET QuoteOutcomes
      BY <2>3, <3>1 DEF Audit, QuoteOutcomes
    <3>3. Typed /\ e \in Event
      BY <2>4, <3>1 DEF StoreInv
    <3>4. Recorded(files', e) \/ e.by \in lost'
      BY ONLY <3>2, <3>3, RecordingGrows
    <3> QED
      BY <2>4, <3>1, <3>4
  <2>6. /\ q \in Page /\ q.at = "reading" /\ q.left = left /\ q.by = c
        /\ q.rows = [table \in Tables |-> {}] /\ q.total = 0 /\ q.done = 0
    <3>1. left \in Seq(ToSet(Readings)) /\ <<>> \in Seq(Event)
          /\ [table \in Tables |-> {}] \in [Tables -> SUBSET Ids]
      BY <1>3 DEF InOrder
    <3> QED
      BY <2>2, <2>3, <3>1 DEF Page
  <2>7. Cardinality(Done') \in Nat
    <3>1. rows' = rows
      BY <1>3 DEF View
    <3>2. Done' = Done
      BY <3>1 DEF Done, Listed
    <3> QED
      BY <3>2, DoneGrows
  <2>8. PageTrue(q)'
    <3>1. q.rows["task"] = {} /\ \A table \in Tables : q.rows[table] = {}
      BY <2>6, StoreAssumption
    <3> QED
      BY <1>3, <2>5, <2>6, <2>7, <3>1 DEF PageTrue
  <2> QED
    BY <1>2, <2>3, <2>6, <2>8
<1>4. CASE View(t, Readings) \/ View(t, <<"audit">>)
  BY <1>3, <1>4, ReadingsInOrder
<1>5. ASSUME NEW q, page' = [page EXCEPT ![t] = q], UNCHANGED vars,
             page[t].at = "reading", Head(page[t].left) # "audit",
             \/ \E table \in Tables :
                  /\ Head(page[t].left) = table
                  /\ q = [Rest(page[t]) EXCEPT !.rows[table] = Listed(table)]
             \/ /\ Head(page[t].left) = "total"
                /\ q = [Rest(page[t]) EXCEPT !.total = Len(rows["task"])]
             \/ /\ Head(page[t].left) = "done"
                /\ q = [Rest(page[t]) EXCEPT !.done = Cardinality(Done)]
      PROVE  PagesTrue'
  <2>1. q \in Page /\ PageTrue(q)
    BY <1>5, ReadInv
  <2>2. PageTrue(q)'
    BY <2>1, PageStays
  <2> QED
    BY <1>2, <1>5, <2>1, <2>2
<1>6. CASE \E table \in Tables : ReadRows(t, table)
  <2>1. PICK table \in Tables : ReadRows(t, table)
    BY <1>6
  <2>2. PICK q : q = [Rest(page[t]) EXCEPT !.rows[table] = Listed(table)]
    OBVIOUS
  <2>3. /\ page' = [page EXCEPT ![t] = q] /\ UNCHANGED vars
        /\ page[t].at = "reading" /\ Head(page[t].left) = table /\ table # "audit"
    BY <2>1, <2>2, StoreAssumption DEF ReadRows, Show, Reading
  <2> QED
    BY <1>5, <2>2, <2>3
<1>7. CASE CountTasks(t)
  <2>1. PICK q : q = [Rest(page[t]) EXCEPT !.total = Len(rows["task"])]
    OBVIOUS
  <2>2. /\ page' = [page EXCEPT ![t] = q] /\ UNCHANGED vars
        /\ page[t].at = "reading" /\ Head(page[t].left) = "total"
    BY <1>7, <2>1 DEF CountTasks, Show, Reading
  <2> QED
    BY <1>5, <2>1, <2>2
<1>8. CASE CountDone(t)
  <2>1. PICK q : q = [Rest(page[t]) EXCEPT !.done = Cardinality(Done)]
    OBVIOUS
  <2>2. /\ page' = [page EXCEPT ![t] = q] /\ UNCHANGED vars
        /\ page[t].at = "reading" /\ Head(page[t].left) = "done"
    BY <1>8, <2>1 DEF CountDone, Show, Reading, Done
  <2> QED
    BY <1>5, <2>1, <2>2
<1>9. CASE PageFails(t)
  <2>1. NoPage \in Page /\ NoPage.at # "reading"
    BY DEF NoPage, Page
  <2>2. PageTrue(NoPage)'
    BY <2>1 DEF PageTrue, NoPage
  <2> QED
    BY <1>2, <1>9, <2>1, <2>2 DEF PageFails, Show
<1>10. CASE ReadAudit(t)
  <2>1. PICK q : q = [Rest(page[t]) EXCEPT !.audit = ReadFiltered(files, Event, RecentLimit)]
    OBVIOUS
  <2>2. PICK crash : crash = [at |-> "crashed"]
    OBVIOUS
  <2>3. /\ page[t].at = "reading" /\ Head(page[t].left) = "audit"
        /\ page' = [page EXCEPT ![t] = crash] \/ page' = [page EXCEPT ![t] = q]
    BY <1>10, <2>1, <2>2 DEF ReadAudit, Show, Reading
  <2>4. q \in Page /\ q.at = "shown"
    BY <2>1, <2>3, ReadAuditInv
  <2>5. crash \in Page /\ crash.at = "crashed"
    BY <2>2 DEF Page
  <2>6. PageTrue(q)' /\ PageTrue(crash)'
    BY <2>4, <2>5 DEF PageTrue
  <2> QED
    BY <1>2, <2>3, <2>4, <2>5, <2>6
<1> QED
  BY <1>4, <1>6, <1>7, <1>8, <1>9, <1>10 DEF Browse

(* Every step leaves pages as they should be.                              *)
LEMMA PagesInv ==
    ASSUME StoreInv, PagesTrue, [DashNext]_dashVars
    PROVE  PagesTrue'
<1>1. StoreInv' /\ RowsGrow /\ LogGrows
  BY StepGrowsRows, StepKeepsLog
<1>2. page \in [Threads -> Page]
  BY DEF PagesTrue
<1>3. NoPage \in Page /\ PageTrue(NoPage)'
  BY DEF NoPage, Page, PageTrue
<1>4. ASSUME page' = page
      PROVE  PagesTrue'
  BY <1>1, <1>2, <1>4, PagesStay
<1>5. ASSUME NEW p \in Processes, Kill(p),
             page' = [t \in Threads |-> IF t[1] = p THEN NoPage ELSE page[t]]
      PROVE  PagesTrue'
  <2>1. DOMAIN page' = Threads /\ page' = [t \in Threads |-> page'[t]]
    BY <1>5
  <2>2. ASSUME NEW t \in Threads
        PROVE  \E q \in Page : page'[t] = q /\ (q = page[t] \/ PageTrue(q)')
    <3>1. page'[t] = NoPage \/ page'[t] = page[t]
      BY <1>5
    <3> QED
      BY <1>2, <1>3, <3>1
  <2> QED
    BY <1>1, <2>1, <2>2, PagesStay
<1>6. CASE UNCHANGED dashVars
  BY <1>4, <1>6 DEF dashVars
<1>7. ASSUME NEW t \in Threads, Browse(t)
      PROVE  PagesTrue'
  BY <1>1, <1>7, BrowsePages
<1> QED
  BY <1>4, <1>5, <1>6, <1>7 DEF DashNext

(* Pages hold what they are said to, beside tables and files that do too.  *)
THEOREM PagesInvariant == DashSpec => []PagesTrue
<1>1. DashInit => PagesTrue
  BY DEF DashInit, PagesTrue, PageTrue, NoPage, Page
<1>2. StoreInv /\ PagesTrue /\ [DashNext]_dashVars => PagesTrue'
  BY PagesInv
<1> QED
  BY <1>1, <1>2, StoreInvariant, PTL DEF DashSpec

(* Rows, jobs, files and pages are what they are said to be                *)
(* (get_memory_summary, build_view_model).                                 *)
THEOREM DashboardTypeOK == DashSpec => []DashTypeOK
<1>1. TypeOK /\ PagesTrue => DashTypeOK
  BY DEF DashTypeOK, PagesTrue
<1> QED
  BY <1>1, StoreTypeOK, PagesInvariant, PTL

(* A page is shown when its last part, the audit files, was read.          *)
LEMMA ShownAfterAudit ==
    ASSUME StoreInv, PagesTrue, [DashNext]_dashVars, NEW t \in Threads,
           page[t].at = "reading", page'[t].at = "shown"
    PROVE  /\ Head(page[t].left) = "audit"
           /\ page'[t] = [Rest(page[t]) EXCEPT !.audit = ReadFiltered(files, Event, RecentLimit)]
<1>1. page \in [Threads -> Page]
  BY DEF PagesTrue
<1>2. page'[t] # page[t] /\ page'[t] # NoPage
  BY DEF NoPage
<1>3. PICK u \in Threads : Browse(u)
  BY <1>1, <1>2 DEF DashNext, dashVars
<1>4. u = t
  <2>1. \E q : page' = [page EXCEPT ![u] = q]
    BY <1>3 DEF Browse, View, ReadRows, CountTasks, CountDone, ReadAudit, PageFails, Show
  <2> QED
    BY <1>1, <1>2, <2>1
<1>5. ASSUME NEW q, page' = [page EXCEPT ![t] = q] PROVE page'[t] = q
  BY <1>1, <1>5
<1>6. ASSUME View(t, Readings) \/ View(t, <<"audit">>) PROVE FALSE
  BY <1>6 DEF View
<1>7. ASSUME NEW q, page' = [page EXCEPT ![t] = q], UNCHANGED vars,
             Head(page[t].left) # "audit",
             \/ \E table \in Tables :
                  /\ Head(page[t].left) = table
                  /\ q = [Rest(page[t]) EXCEPT !.rows[table] = Listed(table)]
             \/ /\ Head(page[t].left) = "total"
                /\ q = [Rest(page[t]) EXCEPT !.total = Len(rows["task"])]
             \/ /\ Head(page[t].left) = "done"
                /\ q = [Rest(page[t]) EXCEPT !.done = Cardinality(Done)]
      PROVE  FALSE
  <2>1. q.at = "reading"
    BY <1>7, ReadInv
  <2>2. page'[t] = q
    BY <1>5, <1>7
  <2> QED
    BY <2>1, <2>2
<1>8. ASSUME NEW table \in Tables, ReadRows(t, table) PROVE FALSE
  <2>1. PICK q : q = [Rest(page[t]) EXCEPT !.rows[table] = Listed(table)]
    OBVIOUS
  <2>2. /\ page' = [page EXCEPT ![t] = q] /\ UNCHANGED vars
        /\ Head(page[t].left) = table /\ table # "audit"
    BY <1>8, <2>1, StoreAssumption DEF ReadRows, Show, Reading
  <2> QED
    BY <1>7, <2>1, <2>2
<1>9. ASSUME CountTasks(t) PROVE FALSE
  <2>1. PICK q : q = [Rest(page[t]) EXCEPT !.total = Len(rows["task"])]
    OBVIOUS
  <2>2. page' = [page EXCEPT ![t] = q] /\ UNCHANGED vars /\ Head(page[t].left) = "total"
    BY <1>9, <2>1 DEF CountTasks, Show, Reading
  <2> QED
    BY <1>7, <2>1, <2>2
<1>10. ASSUME CountDone(t) PROVE FALSE
  <2>1. PICK q : q = [Rest(page[t]) EXCEPT !.done = Cardinality(Done)]
    OBVIOUS
  <2>2. page' = [page EXCEPT ![t] = q] /\ UNCHANGED vars /\ Head(page[t].left) = "done"
    BY <1>10, <2>1 DEF CountDone, Show, Reading, Done
  <2> QED
    BY <1>7, <2>1, <2>2
<1>11. ~PageFails(t)
  BY <1>2, <1>5 DEF PageFails, Show
<1>12. ReadAudit(t)
  BY <1>3, <1>4, <1>6, <1>8, <1>9, <1>10, <1>11 DEF Browse
<1>13. PICK q : q = [Rest(page[t]) EXCEPT !.audit = ReadFiltered(files, Event, RecentLimit)]
  OBVIOUS
<1>14. PICK crash : crash = [at |-> "crashed"]
  OBVIOUS
<1>15. /\ Head(page[t].left) = "audit"
       /\ page' = [page EXCEPT ![t] = crash] \/ page' = [page EXCEPT ![t] = q]
  BY <1>12, <1>13, <1>14 DEF ReadAudit, Show, Reading
<1>16. page'[t] # crash
  BY <1>14
<1> QED
  BY <1>5, <1>13, <1>15, <1>16

(* The list of a page tells of a record, or need not.                      *)
ListTells(p, e) ==
    e \in ToSet(p.audit) \/ Len(p.audit) = RecentLimit \/ e.by \in lost \/ Working(e.by)

Explained(p) ==
    /\ ListTells(p, Visit(p.by))
    /\ \A table \in Tables : \A id \in p.rows[table] :
         ListTells(p, Created(table, rows[table][id].by, id))
    /\ p.done <= Cardinality({id \in DOMAIN rows["task"] :
            /\ rows["task"][id].done # None
            /\ ListTells(p, Completed(rows["task"][id].done, id, "success"))})
    /\ \A id \in p.rows["task"] : id <= p.total

LEMMA PageExplained ==
    ASSUME StoreInv, PagesTrue, [DashNext]_dashVars, NEW t \in Threads,
           page[t].at = "reading", page'[t].at = "shown"
    PROVE  Explained(page'[t])
<1>1. PICK q : q = page'[t]
  OBVIOUS
<1>2. PICK p : p = page[t]
  OBVIOUS
<1>3. /\ q \in Page /\ q.by = p.by /\ q.rows = p.rows
      /\ q.total = p.total /\ q.done = p.done
      /\ q.audit = ReadFiltered(files, Event, RecentLimit)
      /\ "total" \notin ToSet(p.left)
  <2>1. /\ Head(page[t].left) = "audit"
        /\ q = [Rest(page[t]) EXCEPT !.audit = ReadFiltered(files, Event, RecentLimit)]
    BY ONLY StoreInv, PagesTrue, [DashNext]_dashVars, t \in Threads, page[t].at = "reading",
            page'[t].at = "shown", <1>1, ShownAfterAudit
  <2>2. LET r == page[t] IN
        /\ q \in Page /\ q.at = "shown" /\ q.by = r.by /\ q.rows = r.rows
        /\ q.total = r.total /\ q.done = r.done
        /\ q.audit = ReadFiltered(files, Event, RecentLimit)
        /\ "total" \notin ToSet(r.left)
    BY ONLY StoreInv, PagesTrue, t \in Threads, page[t].at = "reading", <2>1, ReadAuditInv
  <2> QED
    BY ONLY <1>2, <2>2
<1>4. p \in Page /\ p.at = "reading" /\ PageTrue(p)
  BY <1>2 DEF PagesTrue
<1>5. ASSUME NEW e \in Event, Recorded(files, e) PROVE ListTells(q, e)
  <2>1. files \in Logs(Event) /\ RecentLimit \in Nat
    BY DashboardAssumption DEF StoreInv, Typed
  <2>2. Len(ReadFiltered(files, Event, RecentLimit)) # RecentLimit =>
          e \in ToSet(ReadFiltered(files, Event, RecentLimit))
    BY ONLY <1>5, <2>1, ReadsAll
  <2> QED
    BY <1>3, <2>2 DEF ListTells
<1>6. ASSUME NEW e \in Event, Told(e) PROVE ListTells(q, e)
  <2>1. CASE Recorded(files, e)
    BY <1>5, <2>1
  <2>2. CASE e.by \in lost
    BY <2>2 DEF ListTells
  <2>3. ASSUME NEW w \in Workers, job[w].at = "record", job[w].event = e
        PROVE  ListTells(q, e)
    <3>1. job[w].by = e.by
      BY <2>3 DEF StoreInv, JobsTrue, JobTrue
    <3> QED
      BY <2>3, <3>1 DEF ListTells, Working, Idle
  <2> QED
    BY <1>6, <2>1, <2>2, <2>3 DEF Told
<1>7. ListTells(q, Visit(q.by))
  <2>1. Visit(p.by) \in Event /\ Visit(p.by).by = p.by
    BY <1>4 DEF Page, Visit, NoId, Event
  <2>2. Recorded(files, Visit(p.by)) \/ p.by \in lost
    BY <1>4 DEF PageTrue
  <2>3. Told(Visit(p.by))
    BY <2>1, <2>2 DEF Told
  <2> QED
    BY <1>3, <1>6, <2>1, <2>3
<1>8. ASSUME NEW table \in Tables, NEW id \in q.rows[table]
      PROVE  ListTells(q, Created(table, rows[table][id].by, id))
  <2>1. id \in DOMAIN rows[table]
    BY <1>3, <1>4 DEF PageTrue
  <2>2. id \in Ids /\ rows[table][id] \in Row
    BY <2>1, RowIds
  <2>3. Created(table, rows[table][id].by, id) \in Event
    BY <2>2, Events DEF Row
  <2>4. Told(Created(table, rows[table][id].by, id))
    BY <2>1 DEF StoreInv, RowsTold
  <2> QED
    BY <1>6, <2>3, <2>4
<1>9. {id \in DOMAIN rows["task"] :
         /\ rows["task"][id].done # None
         /\ ListTells(q, Completed(rows["task"][id].done, id, "success"))} = Done
  <2>1. ASSUME NEW id \in DOMAIN rows["task"], rows["task"][id].done # None
        PROVE  ListTells(q, Completed(rows["task"][id].done, id, "success"))
    <3>1. id \in Ids /\ rows["task"][id] \in Row
      BY RowIds, StoreAssumption
    <3>2. rows["task"][id].done \in Calls
      BY <2>1, <3>1 DEF Row
    <3>3. Completed(rows["task"][id].done, id, "success") \in Event
      BY <3>1, <3>2, Events
    <3>4. Told(Completed(rows["task"][id].done, id, "success"))
      BY <2>1, StoreAssumption DEF StoreInv, RowsTold
    <3> QED
      BY <1>6, <3>3, <3>4
  <2> QED
    BY <2>1, DoneGrows
<1>10. q.done <= Cardinality(Done) /\ \A id \in q.rows["task"] : id <= q.total
  BY <1>3, <1>4 DEF PageTrue
<1> QED
  BY <1>1, <1>7, <1>8, <1>9, <1>10 DEF Explained

(* What a page shows its own audit list explains, though its parts were    *)
(* read one after the other while others wrote (get_dashboard,             *)
(* build_view_model).                                                      *)
THEOREM PagesAreBacked == DashSpec => PageBackedByTrail
<1> DEFINE AllExplained ==
      \A t \in Threads :
        page[t].at = "reading" /\ page'[t].at = "shown" =>
            LET p == page'[t]
                tasks == rows["task"]
                told(e) == \/ e \in ToSet(p.audit) \/ Len(p.audit) = RecentLimit
                           \/ e.by \in lost \/ Working(e.by)
            IN
            /\ told(NoId("viewed", None, p.by, "success"))
            /\ \A table \in Tables : \A id \in p.rows[table] :
                told(Created(table, rows[table][id].by, id))
            /\ p.done <= Cardinality({id \in DOMAIN tasks :
                    tasks[id].done # None /\ told(Completed(tasks[id].done, id, "success"))})
            /\ \A id \in p.rows["task"] : id <= p.total
<1>1. ASSUME StoreInv, PagesTrue, [DashNext]_dashVars
      PROVE  AllExplained
  BY <1>1, PageExplained DEF Explained, ListTells, Visit
<1>2. StoreInv /\ PagesTrue /\ [DashNext]_dashVars => [AllExplained]_dashVars
  <2> HIDE DEF AllExplained
  <2> QED
    BY <1>1
<1> QED
  BY <1>2, StoreInvariant, PagesInvariant, PTL DEF DashSpec, PageBackedByTrail
=============================================================================
