------------------------------- MODULE Dashboard -------------------------------
(***************************************************************************)
(* The dashboard (backend/dashboard/service.py, api/routes/dashboard.py)    *)
(* beside the workers of Store: a page is put together from queries that    *)
(* are transactions of their own, and from the audit files, while calls    *)
(* change the tables and write to the files.                               *)
(***************************************************************************)
EXTENDS Store

CONSTANTS
    Threads,     \* threads of the server that put pages together
    NewestRows,  \* how many memories and notes a page shows: 5
    RecentLimit  \* how many audit records a page shows: 25

ASSUME DashboardAssumption ==
    /\ Threads \subseteq Processes \X Nat
    /\ NewestRows \in Nat \ {0} /\ RecentLimit \in Nat \ {0}

VARIABLE page    \* what each thread has of a page

dashVars == <<vars, page>>

NewestOf(table) == IF table \in Tables THEN <<table>> ELSE <<>>

(* The audit files before the tables.                                      *)
ReadingsAuditFirst ==
    <<"audit">> \o NewestOf("memory") \o NewestOf("note") \o <<"task", "total", "done">>

(* What get_memory_summary reads, in its order, and the audit files last.  *)
Readings ==
    NewestOf("memory") \o NewestOf("note") \o <<"task", "total", "done", "audit">>

(* `rows` are the rows that are listed, `audit` the records.               *)
Page ==
    [at : {"none", "crashed"}]
        \cup [at : {"reading", "shown"}, by : Calls, left : Seq(ToSet(Readings)),
              rows : [Tables -> SUBSET Ids], total : Nat, done : Nat, audit : Seq(Event)]

NoPage == [at |-> "none"]

DashTypeOK == TypeOK /\ page \in [Threads -> Page]

DashInit == Init /\ page = [t \in Threads |-> NoPage]

-----------------------------------------------------------------------------
Show(t, p) == page' = [page EXCEPT ![t] = p]

(* get_dashboard and get_dashboard_audit: the visit is put on record, then *)
(* `left` is read.                                                         *)
View(t, left) ==
    /\ page[t].at # "reading" /\ calls < MaxCalls /\ calls' = calls + 1
    /\ Audit(NoId("viewed", None, calls + 1, "success"))
    /\ Show(t, [at |-> "reading", by |-> calls + 1, left |-> left,
                rows |-> [table \in Tables |-> {}], total |-> 0, done |-> 0, audit |-> <<>>])
    /\ UNCHANGED <<rows, job, marked>>

(* The next thing a page reads.                                            *)
Reading(t, what) == page[t].at = "reading" /\ Head(page[t].left) = what

(* A page that has read one thing more.                                    *)
Rest(p) == [p EXCEPT !.left = Tail(@), !.at = IF Tail(p.left) = <<>> THEN "shown" ELSE @]

Listed(table) ==
    IF table = "task" THEN {i \in DOMAIN rows["task"] : rows["task"][i].done = None}
    ELSE {i \in DOMAIN rows[table] : i > Len(rows[table]) - NewestRows}

(* SELECT of open tasks, or of the newest memories or notes.               *)
ReadRows(t, table) ==
    /\ Reading(t, table)
    /\ Show(t, [Rest(page[t]) EXCEPT !.rows[table] = Listed(table)])
    /\ UNCHANGED vars

(* SELECT COUNT( * ) of all tasks, and of those that are done.             *)
CountTasks(t) ==
    /\ Reading(t, "total")
    /\ Show(t, [Rest(page[t]) EXCEPT !.total = Len(rows["task"])])
    /\ UNCHANGED vars

CountDone(t) ==
    /\ Reading(t, "done")
    /\ Show(t, [Rest(page[t]) EXCEPT
                    !.done = Cardinality(DOMAIN rows["task"] \ Listed("task"))])
    /\ UNCHANGED vars

(* read_recent; what it raises nobody catches.                             *)
ReadAudit(t) ==
    /\ Reading(t, "audit")
    /\ Show(t, IF ReadingRaises(files, Event, RecentLimit) THEN [at |-> "crashed"]
               ELSE [Rest(page[t]) EXCEPT !.audit = ReadFiltered(files, Event, RecentLimit)])
    /\ UNCHANGED vars

(* db_session raises: no page.                                             *)
PageFails(t) ==
    /\ page[t].at = "reading" /\ Head(page[t].left) # "audit"
    /\ Show(t, NoPage)
    /\ UNCHANGED vars

Browse(t) ==
    \/ View(t, Readings) \/ View(t, <<"audit">>)
    \/ \E table \in Tables : ReadRows(t, table)
    \/ CountTasks(t) \/ CountDone(t) \/ ReadAudit(t) \/ PageFails(t)

DashNext ==
    \/ (\E w \in Workers : Work(w)) /\ UNCHANGED page
    \/ \E t \in Threads : Browse(t)
    \/ \E p \in Processes :
        /\ Kill(p)
        /\ page' = [t \in Threads |-> IF t[1] = p THEN NoPage ELSE page[t]]

DashSpec == DashInit /\ [][DashNext]_dashVars

-----------------------------------------------------------------------------
(* What a page shows its own audit list explains, though everything on it  *)
(* was read one after the other while others wrote: the visit itself is in *)
(* the list, and every row that is listed and every task that is counted   *)
(* as done has its record there, unless that record was lost, is still to  *)
(* be written or is older than all the list has room for; and no task is   *)
(* listed that the count of all leaves out (get_dashboard, build_view_model). *)
PageBackedByTrail ==
    [][\A t \in Threads :
        page[t].at = "reading" /\ page'[t].at = "shown" =>
            LET p == page'[t]
                tasks == rows["task"]
                told(e) == \/ e \in ToSet(p.audit) \/ Len(p.audit) = RecentLimit
                           \/ e.by \in lost \/ Working(e.by)
            IN
            /\ told(NoId("viewed", None, p.by, "success"))
            /\ \A table \in Tables : \A id \in p.rows[table] :
                told(Created(table, rows[table][id].by, id))
            /\ p.done <= Cardinality({id \in DOMAIN tasks :
                    tasks[id].done # None /\ told(Completed(tasks[id].done, id, "success"))})
            /\ \A id \in p.rows["task"] : id <= p.total]_dashVars

-----------------------------------------------------------------------------
(* The claim of README.md:328 and of audit_reader.py:4: a corrupt line     *)
(* never crashes the page.                                                 *)
CorruptLinesSkipped == \A t \in Threads : page[t].at # "crashed"
=============================================================================
