------------------------------ MODULE Briefing ------------------------------
(***************************************************************************)
(* The briefing generator over its two SQLite tables                       *)
(* (backend/briefing/generator.py, rss_client.py and its callers).         *)
(*                                                                         *)
(* Refreshes run in thread-pool threads (/briefing/...), on the event loop *)
(* (/ask, the dashboard) and in the voice CLI's process, so several may    *)
(* overlap.  Each db_session is a transaction of its own: the freshness    *)
(* check, the insertion of the run, every duplicate check, every insertion *)
(* of an item and the closing update are separate steps.                   *)
(***************************************************************************)
EXTENDS Integers, Sequences, FiniteSets, SequencesExt

CONSTANTS
    Workers,       \* threads and processes that may run the generator
    SourceOrder,   \* SOURCES, in order
    Category,      \* the category of each source
    Feeds,         \* the sequences of stories, [title, url], a source may return
    Daily,         \* the briefing_type "daily"
    NoUrl,         \* a story without a link
    ItemCap,       \* briefing_max_items_per_category
    CacheWindow,   \* briefing_cache_minutes
    DedupWindow,   \* seven days
    MaxTime,       \* bound: the last instant of the modelled clock
    MaxRuns        \* bound: rows of briefing_runs

Sources == ToSet(SourceOrder)

Categories == {Category[s] : s \in Sources}

Stories == UNION {ToSet(f) : f \in UNION {Feeds[s] : s \in Sources}}

ASSUME BriefingAssumption ==
    /\ IsFiniteSet(Workers)
    /\ SourceOrder \in Seq(Sources) \ {<<>>}
    /\ \A s \in Sources : Feeds[s] \subseteq Seq(Stories)
    /\ Daily \notin Categories
    /\ ItemCap \in Nat \ {0} /\ CacheWindow \in Nat /\ DedupWindow \in Nat
    /\ MaxTime \in Nat /\ MaxRuns \in Nat

VARIABLES
    now,      \* the clock
    runs,     \* briefing_runs, by id
    items,    \* briefing_items, by id
    worker    \* what each thread or process is doing

vars == <<now, runs, items, worker>>

Time == 0 .. MaxTime

(* A run's `auto`, `by`, `closed` and `tried` are not columns: they record *)
(* what started it, which worker runs it, whether it reached its closing   *)
(* update and which sources it got to.                                     *)
Run == [type : Categories \cup {Daily}, createdAt : Time,
        status : {"success", "partial"}, count : Nat,
        auto : BOOLEAN, by : Workers, closed : BOOLEAN, tried : SUBSET Sources]

(* An item's `run` is not a column: it records which refresh stored it.    *)
Item == [category : Categories, story : Stories, fetchedAt : Time, run : 1 .. MaxRuns]

Idle == [at |-> "idle"]

(* `type` is the run to start if one is needed; `todo` the places in       *)
(* SourceOrder of the sources left; `offered` what is left of the current  *)
(* source's items.                                                         *)
Asking == [at : {"check", "start", "serve"}, type : Categories \cup {Daily},
           auto : BOOLEAN]

Refreshing == [at : {"fetch", "dedup", "insert"}, auto : BOOLEAN, run : 1 .. MaxRuns,
               todo : SUBSET DOMAIN SourceOrder, offered : Seq(Stories), source : Sources,
               failed : SUBSET Sources, count : Nat]

TypeOK ==
    /\ now \in Time
    /\ runs \in Seq(Run) /\ Len(runs) <= MaxRuns
    /\ items \in Seq(Item)
    /\ worker \in [Workers -> {Idle} \cup Asking \cup Refreshing]

Init ==
    /\ now = 0
    /\ runs = <<>>
    /\ items = <<>>
    /\ worker = [w \in Workers |-> Idle]

-----------------------------------------------------------------------------
(* The bound keeps a row of briefing_runs for every worker already asking. *)
RoomForRun ==
    Len(runs) + Cardinality({w \in Workers : worker[w].at \in {"check", "start"}}) < MaxRuns

Ask(w, at, type, auto) ==
    /\ worker[w].at = "idle"
    /\ RoomForRun
    /\ worker' = [worker EXCEPT ![w] = [at |-> at, type |-> type, auto |-> auto]]
    /\ UNCHANGED <<now, runs, items>>

(* POST /briefing/refresh and the dashboard's button: no freshness check.  *)
AskRefresh(w) == Ask(w, "start", Daily, FALSE)

(* /ask "daily briefing" and GET /briefing/daily.                          *)
AskDaily(w) == Ask(w, "check", Daily, TRUE)

(* /ask "ai news" and the other categories.                                *)
AskCategory(w) == \E c \in Categories : Ask(w, "check", c, TRUE)

(* Only a refresh that has ended counts.                                   *)
FreshClosed(type) ==
    \E i \in DOMAIN runs :
        runs[i].closed /\ runs[i].type = type /\ runs[i].createdAt > now - CacheWindow

(* _has_fresh_run: both statuses a run can have count.                     *)
Fresh(type) ==
    \E i \in DOMAIN runs : runs[i].type = type /\ runs[i].createdAt > now - CacheWindow

(* Only daily runs are looked for, whatever was asked for.                 *)
Check(w) ==
    /\ worker[w].at = "check"
    /\ worker' = [worker EXCEPT ![w].at = IF Fresh(Daily) THEN "serve" ELSE "start"]
    /\ UNCHANGED <<now, runs, items>>

(* The sources refresh_briefing selects for a type of run, by their places. *)
Selected(type) == {i \in DOMAIN SourceOrder : type \in {Daily, Category[SourceOrder[i]]}}

SourcesAt(places) == {SourceOrder[i] : i \in places}

(* The row's id is read before the row is inserted.                        *)
StartEarlyId(w) ==
    LET q == worker[w] IN
    /\ q.at = "start"
    /\ runs' = Append(runs, [type |-> q.type, createdAt |-> now, status |-> "success",
                             count |-> 0, auto |-> q.auto, by |-> w, closed |-> FALSE,
                             tried |-> {}])
    /\ worker' = [worker EXCEPT ![w] =
                     [at |-> "fetch", auto |-> q.auto, run |-> Len(runs),
                      todo |-> Selected(q.type), offered |-> <<>>,
                      source |-> SourceOrder[1], failed |-> {}, count |-> 0]]
    /\ UNCHANGED <<now, items>>

(* The run is inserted before anything is fetched, already a "success".    *)
Start(w) ==
    LET q == worker[w] IN
    /\ q.at = "start"
    /\ runs' = Append(runs, [type |-> q.type, createdAt |-> now, status |-> "success",
                             count |-> 0, auto |-> q.auto, by |-> w, closed |-> FALSE,
                             tried |-> {}])
    /\ worker' = [worker EXCEPT ![w] =
                     [at |-> "fetch", auto |-> q.auto, run |-> Len(runs) + 1,
                      todo |-> Selected(q.type), offered |-> <<>>,
                      source |-> SourceOrder[1], failed |-> {}, count |-> 0]]
    /\ UNCHANGED <<now, items>>

-----------------------------------------------------------------------------
(* The sources are asked in order: the next one is the first of those left. *)
Upcoming(w) ==
    IF worker[w].at = "fetch" THEN {i \in worker[w].todo : \A j \in worker[w].todo : i <= j}
    ELSE {}

(* The source at place i is asked; `q` is what its answer makes of the     *)
(* worker.                                                                 *)
AskSource(w, i, q) ==
    /\ worker' = [worker EXCEPT ![w] = [q EXCEPT !.todo = @ \ {i}]]
    /\ runs' = [runs EXCEPT ![q.run].tried = @ \cup {SourceOrder[i]}]
    /\ UNCHANGED <<now, items>>

Capped(feed) == SubSeq(feed, 1, IF Len(feed) < ItemCap THEN Len(feed) ELSE ItemCap)

(* The source answers: the first ItemCap of its items are looked at.       *)
Fetch(w) ==
    \E i \in Upcoming(w) : \E feed \in Feeds[SourceOrder[i]] :
        AskSource(w, i, [worker[w] EXCEPT !.source = SourceOrder[i],
                                          !.offered = Capped(feed),
                                          !.at = IF feed = <<>> THEN "fetch" ELSE "dedup"])

(* SourceFetchError ends the loop.                                         *)
FetchFailsBreak(w) ==
    \E i \in Upcoming(w) :
        /\ worker' = [worker EXCEPT ![w].failed = @ \cup {SourceOrder[i]}, ![w].todo = {}]
        /\ UNCHANGED <<now, runs, items>>

(* SourceFetchError: the loop goes on with the next source.                *)
FetchFails(w) ==
    \E i \in Upcoming(w) :
        AskSource(w, i, [worker[w] EXCEPT !.failed = @ \cup {SourceOrder[i]}])

(* A story without a link is never a duplicate.                            *)
DuplicateByUrlOnly(story, category) ==
    \E i \in DOMAIN items :
        /\ items[i].fetchedAt > now - DedupWindow
        /\ story.url # NoUrl /\ items[i].story.url = story.url

(* _is_duplicate: by link in any category, or by category and title.       *)
Duplicate(story, category) ==
    \E i \in DOMAIN items :
        /\ items[i].fetchedAt > now - DedupWindow
        /\ IF story.url # NoUrl
           THEN items[i].story.url = story.url
           ELSE items[i].category = category /\ items[i].story.title = story.title

(* A duplicate is looked at again.                                         *)
NextItemAgain(q) == [q EXCEPT !.at = "dedup"]

(* The worker is through with the item it looks at.                        *)
NextItem(q) ==
    [q EXCEPT !.offered = Tail(@), !.at = IF Tail(q.offered) = <<>> THEN "fetch" ELSE "dedup"]

Dedup(w) ==
    LET q == worker[w] IN
    /\ q.at = "dedup"
    /\ worker' = [worker EXCEPT ![w] =
                     IF Duplicate(Head(q.offered), Category[q.source])
                     THEN NextItem(q) ELSE [q EXCEPT !.at = "insert"]]
    /\ UNCHANGED <<now, runs, items>>

Insert(w) ==
    LET q == worker[w] IN
    /\ q.at = "insert"
    /\ items' = Append(items, [category |-> Category[q.source], story |-> Head(q.offered),
                               fetchedAt |-> now, run |-> q.run])
    /\ worker' = [worker EXCEPT ![w] = [NextItem(q) EXCEPT !.count = @ + 1]]
    /\ UNCHANGED <<now, runs>>

(* The closing update goes to the latest run.                              *)
CloseLatest(w) ==
    LET q == worker[w] IN
    /\ q.at = "fetch"
    /\ q.todo = {}
    /\ runs' = [runs EXCEPT ![Len(runs)].count = q.count, ![Len(runs)].closed = TRUE]
    /\ worker' = [worker EXCEPT ![w] = Idle]
    /\ UNCHANGED <<now, items>>

(* The closing update; a manual refresh is then over, the others go on to  *)
(* read the items they serve.                                              *)
Close(w) ==
    LET q == worker[w] IN
    /\ q.at = "fetch"
    /\ q.todo = {}
    /\ runs' = [runs EXCEPT ![q.run].count = q.count, ![q.run].closed = TRUE,
                            ![q.run].status = IF q.failed = {} THEN "success" ELSE "partial"]
    /\ worker' = [worker EXCEPT ![w] =
                     IF q.auto THEN [at |-> "serve", type |-> runs[q.run].type, auto |-> TRUE]
                     ELSE Idle]
    /\ UNCHANGED <<now, items>>

(* The items are read and rendered.                                        *)
Serve(w) ==
    /\ worker[w].at = "serve"
    /\ worker' = [worker EXCEPT ![w] = Idle]
    /\ UNCHANGED <<now, runs, items>>

(* Any other exception ("database is locked", a malformed feed) or the end *)
(* of the process: what was committed stays as it is.                      *)
Abort(w) ==
    /\ worker[w].at # "idle"
    /\ worker' = [worker EXCEPT ![w] = Idle]
    /\ UNCHANGED <<now, runs, items>>

Tick ==
    /\ now < MaxTime
    /\ now' = now + 1
    /\ UNCHANGED <<runs, items, worker>>

Work(w) ==
    \/ Check(w) \/ Start(w) \/ Fetch(w) \/ FetchFails(w)
    \/ Dedup(w) \/ Insert(w) \/ Close(w) \/ Serve(w)

Next ==
    \/ \E w \in Workers :
          AskRefresh(w) \/ AskDaily(w) \/ AskCategory(w) \/ Work(w) \/ Abort(w)
    \/ Tick

Spec == Init /\ [][Next]_vars

(* Every source call ends (briefing_fetch_timeout_seconds) and SQLite      *)
(* answers; nobody has to ask, and time need not pass.                     *)
FairSpec == Spec /\ \A w \in Workers : WF_vars(Work(w))

-----------------------------------------------------------------------------
Same(x, y) ==
    IF x.story.url # NoUrl THEN x.story.url = y.story.url
    ELSE x.category = y.category /\ x.story.title = y.story.title

(* Within the deduplication window no worker stores a story twice: two     *)
(* copies are those of refreshes that overlapped, each with a check that   *)
(* came before the other's insertion.  With one worker this is exact       *)
(* deduplication, through aborted runs and stories shared by sources.      *)
CopiesBounded ==
    \A i, j \in DOMAIN items :
        /\ i < j /\ Same(items[j], items[i])
        /\ items[j].fetchedAt < items[i].fetchedAt + DedupWindow
        => runs[items[i].run].by # runs[items[j].run].by

(* The freshness check keeps each worker to one automatic daily refresh    *)
(* per cache window, whatever fails, aborts or overlaps in between: an     *)
(* extra refresh is one whose check came before the other was started.     *)
AutoRefreshBounded ==
    \A i, j \in DOMAIN runs :
        /\ i < j /\ runs[i].auto /\ runs[j].auto
        /\ runs[i].type = Daily /\ runs[j].type = Daily
        /\ runs[j].createdAt < runs[i].createdAt + CacheWindow
        => runs[i].by # runs[j].by

(* A run that was closed counts exactly the items it stored and got to     *)
(* every source of its type, whichever of them failed.                     *)
ClosedRunsComplete ==
    \A i \in DOMAIN runs :
        runs[i].closed =>
            /\ runs[i].count = Cardinality({j \in DOMAIN items : items[j].run = i})
            /\ runs[i].tried = SourcesAt(Selected(runs[i].type))

(* Rows are only ever added: no overlapping refresh rewrites the items or  *)
(* the closed run of another.                                              *)
ClosedRunsFinal ==
    [][/\ IsPrefix(items, items')
       /\ \A i \in DOMAIN runs : runs[i].closed => runs'[i] = runs[i]]_vars

(* Whoever asks for a briefing gets it, unless the request is aborted.     *)
BriefingEnds == \A w \in Workers : worker[w].at # "idle" ~> worker[w].at = "idle"

-----------------------------------------------------------------------------
(* The claim of .env.example:96: an automatic refresh is skipped only when *)
(* a successful run is recent enough, hence one that has ended.            *)
CachedOnSuccessOnly ==
    [][\A w \in Workers :
          worker[w].at = "check" /\ worker'[w].at = "serve" =>
              \E i \in DOMAIN runs :
                  /\ runs[i].closed
                  /\ runs[i].createdAt > now - CacheWindow]_vars
=============================================================================
