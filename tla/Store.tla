--------------------------------- MODULE Store ---------------------------------
(***************************************************************************)
(* Memory, notes and tasks (backend/core/memory.py, core/tasks.py, their    *)
(* routes, storage/database.py) and the audit record of every change.       *)
(*                                                                         *)
(* The routes run in threads of the server, /ask and the buttons of the    *)
(* dashboard on its event loop, and the voice command line is another      *)
(* process on the same database.                                           *)
(***************************************************************************)
EXTENDS Integers, Sequences, FiniteSets, AuditLog

CONSTANTS
    Processes,   \* the server and the command line
    Workers,     \* threads of the processes: pairs <<process, number>>
    Loop,        \* the one of them that is the server's event loop
    Tables,      \* "memory", "note", "task"
    None,
    MaxCalls,    \* bound: calls made
    MaxBadWrites \* bound: audit records whose write fails

ASSUME StoreAssumption ==
    /\ Workers \subseteq Processes \X Nat /\ IsFiniteSet(Workers) /\ Loop \in Workers
    /\ "task" \in Tables /\ Tables \subseteq {"memory", "note", "task"}
    /\ MaxCalls \in Nat /\ MaxBadWrites \in Nat

VARIABLES
    rows,      \* the committed rows of each table; their ids are 1, 2, ...
    job,       \* what each worker is doing
    calls,     \* how many calls were made: their request ids
    files,     \* the audit log
    bad,       \* how many writes of it went wrong
    marked,    \* each answer "Marked task as done": worker, call and task
    lost       \* calls whose record was not written, or whose process ended

vars == <<rows, job, calls, files, bad, marked, lost>>

Calls == 1 .. MaxCalls

(* The texts that the service tells apart; a blank one is refused, and     *)
(* nothing changes.                                                        *)
Texts == {"plain", "secret"}

(* A row of any table; `done` is the call that completed a task.           *)
Row == [by : Calls, text : Texts, done : Calls \cup {None}]

Ids == 1 .. MaxCalls

(* The records of memory, notes and tasks; `request` quotes a query,       *)
(* `clicked` and `viewed` are those of the dashboard.                      *)
Event == [type : {"created", "blocked", "listed", "completed", "request", "clicked", "viewed"},
          table : Tables \cup {None}, by : Calls, id : Ids \cup {None},
          outcome : {"success", "error", "noop", "blocked"}]

ASSUME NamesAssumption == None \notin Calls /\ {Torn, Broken} \cap Event = {}

Job ==
    [at : {"idle"}]
        \cup [at : {"insert"}, by : Calls, table : Tables, text : Texts]
        \cup [at : {"look", "update"}, by : Calls, id : Ids, button : BOOLEAN]
        \cup [at : {"record"}, by : Calls, event : Event, button : BOOLEAN]

Idle == [at |-> "idle"]

TypeOK ==
    /\ calls \in 0 .. MaxCalls /\ bad \in 0 .. MaxBadWrites
    /\ DOMAIN rows = Tables
    /\ \A t \in Tables : rows[t] \in Seq(Row) /\ Len(rows[t]) <= calls
    /\ \A t \in Tables \ {"task"} : \A i \in DOMAIN rows[t] : rows[t][i].text # "secret"
    /\ DOMAIN job = Workers /\ \A w \in Workers : job[w] \in Job
    /\ DOMAIN files = Days /\ \A d \in Days : files[d] \in Seq(Lines(Event))
    /\ marked \subseteq Workers \X Calls \X Ids /\ lost \subseteq Calls

Init ==
    /\ rows = [t \in Tables |-> <<>>]
    /\ job = [w \in Workers |-> Idle]
    /\ calls = 0 /\ bad = 0
    /\ files = NoFiles
    /\ marked = {} /\ lost = {}

-----------------------------------------------------------------------------
Goto(w, j) == job' = [job EXCEPT ![w] = j]

(* A record on day 1; a failure is only logged.                            *)
Recording(event, outcomes) ==
    \E outcome \in outcomes :
        /\ outcome = "whole" \/ bad < MaxBadWrites
        /\ files' = Write(files, 1, event, outcome)
        /\ bad' = bad + IF outcome = "whole" THEN 0 ELSE 1
        /\ lost' = IF Recorded(files', event) THEN lost ELSE lost \cup {event.by}

Audit(event) == Recording(event, WriteOutcomes)

Created(table, by, id) ==
    [type |-> "created", table |-> table, by |-> by, id |-> id, outcome |-> "success"]

Completed(by, id, outcome) ==
    [type |-> "completed", table |-> "task", by |-> by, id |-> id, outcome |-> outcome]

(* dashboard_task_completed; a task already done counts as a success.      *)
Clicked(e) == [e EXCEPT !.type = "clicked",
                        !.outcome = IF @ = "error" THEN "error" ELSE "success"]

NoId(type, table, by, outcome) ==
    [type |-> type, table |-> table, by |-> by, id |-> None, outcome |-> outcome]

(* The job that is left when only a record is.                             *)
ToRecord(event, button) ==
    [at |-> "record", by |-> event.by, event |-> event, button |-> button]

(* A new call of an idle worker.                                           *)
Called(w) == job[w] = Idle /\ calls < MaxCalls /\ calls' = calls + 1

(* The sensitive-data check left to the callers.                           *)
SaveUnchecked(w, table, text) ==
    /\ Called(w)
    /\ Goto(w, [at |-> "insert", by |-> calls + 1, table |-> table, text |-> text])
    /\ UNCHANGED <<rows, files, bad, marked, lost>>

(* save_memory and save_note up to the session.                            *)
Save(w, table, text) ==
    /\ Called(w)
    /\ \/ /\ text = "secret"
          /\ Audit(NoId("blocked", table, calls + 1, "blocked"))
          /\ UNCHANGED job
       \/ /\ text # "secret"
          /\ Goto(w, [at |-> "insert", by |-> calls + 1, table |-> table, text |-> text])
          /\ UNCHANGED <<files, bad, lost>>
    /\ UNCHANGED <<rows, marked>>

(* add_task; a title is not checked, so what it holds makes no difference. *)
AddTask(w) ==
    /\ Called(w)
    /\ Goto(w, [at |-> "insert", by |-> calls + 1, table |-> "task", text |-> "plain"])
    /\ UNCHANGED <<rows, files, bad, marked, lost>>

(* log_request: /ask, with a query that leaves the tables alone.           *)
Query(w) ==
    /\ Called(w)
    /\ Recording(NoId("request", None, calls + 1, "success"), QuoteOutcomes)
    /\ UNCHANGED <<rows, job, marked>>

(* The record first, the row after it.                                     *)
InsertAfterRecord(w) ==
    LET j == job[w] IN
    /\ j.at = "insert"
    /\ \/ Audit(Created(j.table, j.by, Len(rows[j.table]) + 1)) /\ UNCHANGED <<rows, job>>
       \/ /\ rows' = [rows EXCEPT ![j.table] =
                        Append(@, [by |-> j.by, text |-> j.text, done |-> None])]
          /\ Goto(w, Idle)
          /\ UNCHANGED <<files, bad, lost>>
    /\ UNCHANGED <<calls, marked>>

(* The INSERT, in a transaction that is committed.                         *)
Insert(w) ==
    LET j == job[w] IN
    /\ j.at = "insert"
    /\ rows' = [rows EXCEPT ![j.table] =
                    Append(@, [by |-> j.by, text |-> j.text, done |-> None])]
    /\ Goto(w, ToRecord(Created(j.table, j.by, Len(rows[j.table]) + 1), FALSE))
    /\ UNCHANGED <<calls, files, bad, marked, lost>>

(* complete_task, with a number there is or the one that comes next, by    *)
(* route or phrase, or by the button of the dashboard.                     *)
CompleteTask(w, id, button) ==
    /\ Called(w)
    /\ id <= Len(rows["task"]) + 1
    /\ Goto(w, [at |-> "look", by |-> calls + 1, id |-> id, button |-> button])
    /\ UNCHANGED <<rows, files, bad, marked, lost>>

(* The SELECT does not look at the status.                                 *)
LookBlindly(w) ==
    LET j == job[w] IN
    /\ j.at = "look"
    /\ Goto(w, IF j.id \in DOMAIN rows["task"]
               THEN [j EXCEPT !.at = "update"]
               ELSE ToRecord(Completed(j.by, j.id, "error"), j.button))
    /\ UNCHANGED <<rows, calls, files, bad, marked, lost>>

(* Its SELECT, which opens no transaction.                                 *)
Look(w) ==
    LET j == job[w] IN
    /\ j.at = "look"
    /\ Goto(w,
        IF j.id \notin DOMAIN rows["task"]
        THEN ToRecord(Completed(j.by, j.id, "error"), j.button)
        ELSE IF rows["task"][j.id].done # None
        THEN ToRecord(Completed(j.by, j.id, "noop"), j.button)
        ELSE [j EXCEPT !.at = "update"])
    /\ UNCHANGED <<rows, calls, files, bad, marked, lost>>

(* Without the WHERE.                                                      *)
UpdateEvery(w) ==
    LET j == job[w] IN
    /\ j.at = "update"
    /\ rows' = [rows EXCEPT !["task"] =
                    [i \in DOMAIN @ |-> [@[i] EXCEPT !.done = j.by]]]
    /\ Goto(w, ToRecord(Completed(j.by, j.id, "success"), j.button))
    /\ UNCHANGED <<calls, files, bad, marked, lost>>

(* Its UPDATE, committed: whatever the status is by now.                   *)
Update(w) ==
    LET j == job[w] IN
    /\ j.at = "update"
    /\ rows' = [rows EXCEPT !["task"][j.id].done = j.by]
    /\ Goto(w, ToRecord(Completed(j.by, j.id, "success"), j.button))
    /\ UNCHANGED <<calls, files, bad, marked, lost>>

(* The record that ends a call, and its answer; a button's call has one    *)
(* more to write.                                                          *)
Answer(w) ==
    LET j == job[w]
        e == j.event
    IN
    /\ j.at = "record"
    /\ Audit(e)
    /\ marked' = IF e.type = "completed" /\ e.outcome = "success"
                 THEN marked \cup {<<w, e.by, e.id>>} ELSE marked
    /\ Goto(w, IF j.button THEN ToRecord(Clicked(e), FALSE) ELSE Idle)
    /\ UNCHANGED <<rows, calls>>

(* list_memory, list_notes, list_tasks: the rows are read and put together *)
(* for the caller, and the reading is put on record.                       *)
List(w, table) ==
    /\ Called(w)
    /\ Goto(w, ToRecord(NoId("listed", table, calls + 1, "success"), FALSE))
    /\ UNCHANGED <<rows, files, bad, marked, lost>>

(* db_session rolls back and raises: "database is locked", a full disk.    *)
Fail(w) ==
    /\ job[w].at \in {"insert", "look", "update"}
    /\ Goto(w, Idle)
    /\ UNCHANGED <<rows, calls, files, bad, marked, lost>>

(* A process ends, with everything its workers were doing.                 *)
Kill(p) ==
    LET mine == {w \in Workers : w[1] = p /\ job[w] # Idle} IN
    /\ mine # {}
    /\ job' = [w \in Workers |-> IF w \in mine THEN Idle ELSE job[w]]
    /\ lost' = lost \cup {job[w].by : w \in mine}
    /\ UNCHANGED <<rows, calls, files, bad, marked>>

Work(w) ==
    \/ AddTask(w) \/ Query(w)
    \/ \E text \in Texts, t \in Tables \ {"task"} : Save(w, t, text)
    \/ \E id \in Ids : CompleteTask(w, id, FALSE) \/ (w = Loop /\ CompleteTask(w, id, TRUE))
    \/ \E t \in Tables : List(w, t)
    \/ Insert(w) \/ Look(w) \/ Update(w) \/ Answer(w) \/ Fail(w)

Next == (\E w \in Workers : Work(w)) \/ (\E p \in Processes : Kill(p))

Spec == Init /\ [][Next]_vars

-----------------------------------------------------------------------------
Working(c) == \E w \in Workers : job[w] # Idle /\ job[w].by = c

(* The two records of one click on a task agree, though one is written by  *)
(* complete_task and the other by the route, after it: what the dashboard  *)
(* reports as completed the tables' record reports as completed or done    *)
(* before, and what it reports as failed was not found.                    *)
ClicksAgree ==
    \A c \in Calls, id \in Ids, well \in BOOLEAN :
        LET e == Completed(c, id, IF well THEN "success" ELSE "error") IN
        Recorded(files, Clicked(e)) =>
            \/ Recorded(files, e) \/ c \in lost
            \/ well /\ Recorded(files, Completed(c, id, "noop"))

(* The log and the tables agree: a record of a change is about a row that  *)
(* is there, and a row whose creation or completion is not on record is    *)
(* that of a call at work, of one whose process ended, or of one whose      *)
(* record could not be written (db_session, then log_storage_event); and   *)
(* the two records of a click agree.                                       *)
TrailMatchesStore ==
    /\ ClicksAgree
    /\ \A d \in Days : \A i \in DOMAIN files[d] :
        LET e == files[d][i].text IN
        e \notin {Torn, Broken} /\ e.outcome = "success" /\ e.id # None =>
            /\ e.id \in DOMAIN rows[e.table]
            /\ IF e.type = "created" THEN rows[e.table][e.id].by = e.by
               ELSE rows[e.table][e.id].done # None
    /\ \A t \in Tables : \A i \in DOMAIN rows[t] :
        LET r == rows[t][i]
            excused(c) == Working(c) \/ c \in lost
        IN
        /\ Recorded(files, Created(t, r.by, i)) \/ excused(r.by)
        /\ r.done = None \/ Recorded(files, Completed(r.done, i, "success")) \/ excused(r.done)

(* Overlapping requests may each be told that they completed a task, but   *)
(* no worker twice: the status is read before it is written (complete_task). *)
MarkedOncePerWorker ==
    \A m, n \in marked : m[1] = n[1] /\ m[3] = n[3] => m = n

(* Rows are only added, at the end, and a completion changes one task and  *)
(* never opens one again: concurrent writers do not lose each other's work. *)
RowsStay ==
    [][\A t \in Tables :
        /\ Len(rows'[t]) >= Len(rows[t])
        /\ \A i \in DOMAIN rows[t] :
            /\ rows'[t][i].by = rows[t][i].by /\ rows'[t][i].text = rows[t][i].text
            /\ rows'[t][i] # rows[t][i] =>
                \E w \in Workers : job[w].at = "update" /\ job[w].id = i /\ t = "task"
                                   /\ rows'[t][i].done = job[w].by]_vars
=============================================================================
