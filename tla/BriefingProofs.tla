---------------------------- MODULE BriefingProofs ----------------------------
(***************************************************************************)
(* What overlapping refreshes store, count and close: proofs for any       *)
(* workers, sources, feeds, caps, windows and numbers of runs, whatever    *)
(* fails, aborts or overlaps.                                              *)
(***************************************************************************)
EXTENDS Briefing, SequenceTheorems, FiniteSetTheorems, TLAPS

Busy(w) == worker[w].at \in {"fetch", "dedup", "insert"}

Stored(run) == {j \in DOMAIN items : items[j].run = run}

OfferedLeft == \A w \in Workers : worker[w].at \in {"dedup", "insert"} => worker[w].offered # <<>>

(* A refresh works on an open run of its own.                              *)
RunOwned ==
    \A w \in Workers : Busy(w) =>
        /\ worker[w].run \in DOMAIN runs
        /\ runs[worker[w].run].by = w /\ ~runs[worker[w].run].closed

ItemRuns == \A j \in DOMAIN items : items[j].run \in DOMAIN runs

(* The story q is at, as the item it would become.                         *)
Story(q) == [category |-> Category[q.source], story |-> Head(q.offered)]

(* What a worker is about to insert it has looked up: its own copies, if   *)
(* any, are outside the deduplication window.                              *)
LookedUp(w, q) ==
    \A i \in DOMAIN items :
        runs[items[i].run].by = w /\ Same(Story(q), items[i])
            => items[i].fetchedAt + DedupWindow <= now

(* A worker about to start an automatic daily refresh has none of its own  *)
(* within the cache window.                                                *)
CheckedFirst(w, q) ==
    q.auto /\ q.type = Daily =>
        \A i \in DOMAIN runs :
            runs[i].auto /\ runs[i].type = Daily /\ runs[i].by = w
                => runs[i].createdAt + CacheWindow <= now

LookedBefore ==
    \A w \in Workers :
        /\ worker[w].at = "insert" => LookedUp(w, worker[w])
        /\ worker[w].at = "start" => CheckedFirst(w, worker[w])

(* A refresh has counted what it stored and knows what is left to try.     *)
Counted(q) ==
    /\ q.count = Cardinality(Stored(q.run))
    /\ runs[q.run].tried \cup SourcesAt(q.todo) = SourcesAt(Selected(runs[q.run].type))

Counting == \A w \in Workers : Busy(w) => Counted(worker[w])

AskingWorkers == {w \in Workers : worker[w].at \in {"check", "start"}}

Room == Len(runs) + Cardinality(AskingWorkers) <= MaxRuns

BriefingInv ==
    /\ TypeOK /\ Room
    /\ OfferedLeft /\ RunOwned /\ ItemRuns /\ LookedBefore /\ Counting
    /\ CopiesBounded /\ AutoRefreshBounded /\ ClosedRunsComplete

-----------------------------------------------------------------------------
(* A step of w adds runs of w and changes nothing but the open ones of w,  *)
(* never who runs them, what for, when and why.                            *)
OwnRunsOnly(w) ==
    /\ \A i \in DOMAIN runs' : runs'[i].by # w => i \in DOMAIN runs /\ runs'[i] = runs[i]
    /\ \A i \in DOMAIN runs :
        /\ i \in DOMAIN runs'
        /\ runs'[i].by = runs[i].by /\ runs'[i].type = runs[i].type
        /\ runs'[i].auto = runs[i].auto /\ runs'[i].createdAt = runs[i].createdAt
        /\ runs[i].closed => runs'[i] = runs[i]

(* There are finitely many of those who ask.                               *)
LEMMA AskingFinite == IsFiniteSet(AskingWorkers) /\ Cardinality(AskingWorkers) \in Nat
<1>1. IsFiniteSet(AskingWorkers)
  BY BriefingAssumption, FS_Subset DEF AskingWorkers
<1> QED
  BY <1>1, FS_CardinalityType

(* No step of a worker needs more room than it found, except asking, which *)
(* looked for it, and starting, which uses what was kept.                  *)
LEMMA RoomKept ==
    ASSUME BriefingInv, NEW w \in Workers, NEW q, worker' = [worker EXCEPT ![w] = q],
           \/ Len(runs') = Len(runs) /\ (q.at \notin {"check", "start"} \/ w \in AskingWorkers)
           \/ Len(runs') = Len(runs) /\ RoomForRun
           \/ Len(runs') = Len(runs) + 1 /\ w \in AskingWorkers /\ q.at \notin {"check", "start"}
    PROVE  Room'
<1>1. IsFiniteSet(AskingWorkers) /\ Cardinality(AskingWorkers) \in Nat
  BY AskingFinite
<1>2. Len(runs) \in Nat /\ MaxRuns \in Nat /\ worker \in [Workers -> {Idle} \cup Asking \cup Refreshing]
  BY BriefingAssumption DEF BriefingInv, TypeOK
<1>3. CASE q.at \in {"check", "start"}
  <2>1. AskingWorkers' = AskingWorkers \cup {w}
    BY <1>2, <1>3 DEF AskingWorkers
  <2>2. Cardinality(AskingWorkers') =
          IF w \in AskingWorkers THEN Cardinality(AskingWorkers) ELSE Cardinality(AskingWorkers) + 1
    BY <1>1, <2>1, FS_AddElement
  <2>3. RoomForRun => Len(runs) + Cardinality(AskingWorkers) < MaxRuns
    BY DEF RoomForRun, AskingWorkers
  <2> QED
    BY <1>1, <1>2, <1>3, <2>2, <2>3 DEF BriefingInv, Room
<1>4. CASE q.at \notin {"check", "start"}
  <2>1. AskingWorkers' = AskingWorkers \ {w}
    BY <1>2, <1>4 DEF AskingWorkers
  <2>2. Cardinality(AskingWorkers') =
          IF w \in AskingWorkers THEN Cardinality(AskingWorkers) - 1 ELSE Cardinality(AskingWorkers)
    BY <1>1, <2>1, FS_RemoveElement
  <2>3. Len(runs) + Cardinality(AskingWorkers) <= MaxRuns
    BY DEF BriefingInv, Room
  <2> QED
    BY <1>1, <1>2, <2>2, <2>3 DEF Room
<1> QED
  BY <1>3, <1>4

(* A step of one worker that stores no item.                               *)
LEMMA StepInv ==
    ASSUME BriefingInv, NEW w \in Workers, NEW q \in {Idle} \cup Asking \cup Refreshing,
           worker' = [worker EXCEPT ![w] = q], UNCHANGED <<now, items>>,
           runs' \in Seq(Run), OwnRunsOnly(w), Room',
           q.at \in {"dedup", "insert"} => q.offered # <<>>,
           q.at \in {"fetch", "dedup", "insert"} =>
               /\ q.run \in DOMAIN runs' /\ runs'[q.run].by = w /\ ~runs'[q.run].closed
               /\ Counted(q)',
           q.at = "insert" => LookedUp(w, q)', q.at = "start" => CheckedFirst(w, q)',
           AutoRefreshBounded', ClosedRunsComplete'
    PROVE  BriefingInv'
<1>1. worker'[w] = q /\ \A v \in Workers \ {w} : worker'[v] = worker[v]
  BY DEF BriefingInv, TypeOK
<1>2. TypeOK'
  <2>1. Len(runs') <= MaxRuns
    <3>1. Cardinality(AskingWorkers') \in Nat
      <4>1. AskingWorkers' \subseteq Workers
        BY DEF AskingWorkers
      <4> QED
        BY <4>1, BriefingAssumption, FS_Subset, FS_CardinalityType
    <3> QED
      BY <3>1, BriefingAssumption DEF Room
  <2> QED
    BY <2>1 DEF BriefingInv, TypeOK
<1>3. OfferedLeft'
  BY <1>1 DEF BriefingInv, OfferedLeft
<1>4. RunOwned'
  BY <1>1 DEF BriefingInv, RunOwned, Busy, OwnRunsOnly
<1>5. ItemRuns'
  BY DEF BriefingInv, ItemRuns, OwnRunsOnly
<1>6. LookedBefore'
  <2>1. ASSUME NEW v \in Workers \ {w}, worker[v].at = "insert"
        PROVE  LookedUp(v, worker[v])'
    BY <1>1, <2>1 DEF BriefingInv, ItemRuns, LookedBefore, LookedUp, Story, OwnRunsOnly
  <2>2. ASSUME NEW v \in Workers \ {w}, worker[v].at = "start"
        PROVE  CheckedFirst(v, worker[v])'
    BY <1>1, <2>2 DEF BriefingInv, LookedBefore, CheckedFirst, OwnRunsOnly
  <2> QED
    BY <1>1, <2>1, <2>2 DEF LookedBefore
<1>7. Counting'
  <2>1. ASSUME NEW v \in Workers \ {w}, Busy(v)
        PROVE  Counted(worker[v])'
    <3>1. worker[v].run \in DOMAIN runs /\ runs'[worker[v].run] = runs[worker[v].run]
      BY <2>1 DEF BriefingInv, RunOwned, OwnRunsOnly
    <3> QED
      <4>1. worker'[v] = worker[v] /\ Counted(worker[v])
        BY <1>1, <2>1 DEF BriefingInv, Counting
      <4>2. Stored(worker[v].run)' = Stored(worker[v].run)
        BY <4>1 DEF Stored
      <4> QED
        BY <3>1, <4>1, <4>2 DEF Counted
  <2> QED
    BY <1>1, <2>1 DEF Counting, Busy
<1>8. CopiesBounded'
  BY DEF BriefingInv, ItemRuns, CopiesBounded, OwnRunsOnly
<1> QED
  BY <1>2, <1>3, <1>4, <1>5, <1>6, <1>7, <1>8 DEF BriefingInv

(* A step that leaves both tables alone.                                   *)
LEMMA QuietStepInv ==
    ASSUME BriefingInv, NEW w \in Workers, NEW q \in {Idle} \cup Asking \cup Refreshing,
           worker' = [worker EXCEPT ![w] = q], UNCHANGED <<now, items, runs>>, Room',
           q.at \in {"dedup", "insert"} => q.offered # <<>>,
           q.at \in {"fetch", "dedup", "insert"} =>
               /\ Busy(w) /\ q.run = worker[w].run /\ q.count = worker[w].count
               /\ q.todo = worker[w].todo,
           q.at = "insert" => LookedUp(w, q), q.at = "start" => CheckedFirst(w, q)
    PROVE  BriefingInv'
<1>1. runs' \in Seq(Run) /\ OwnRunsOnly(w)
  BY DEF OwnRunsOnly, BriefingInv, TypeOK
<1>2. q.at \in {"fetch", "dedup", "insert"} =>
        /\ q.run \in DOMAIN runs' /\ runs'[q.run].by = w /\ ~runs'[q.run].closed
        /\ Counted(q)'
  BY ZenonT(40) DEF BriefingInv, RunOwned, Counting, Counted, Stored
<1>3. (q.at = "insert" => LookedUp(w, q)') /\ (q.at = "start" => CheckedFirst(w, q)')
  BY DEF LookedUp, CheckedFirst
<1>4. AutoRefreshBounded' /\ ClosedRunsComplete'
  BY DEF BriefingInv, AutoRefreshBounded, ClosedRunsComplete
<1> QED
  BY <1>1, <1>2, <1>3, <1>4, StepInv

(* Somebody asks, is served, or is gone.                                   *)
LEMMA AskInv ==
    ASSUME BriefingInv, NEW w \in Workers,
           AskRefresh(w) \/ AskDaily(w) \/ AskCategory(w) \/ Serve(w) \/ Abort(w)
    PROVE  BriefingInv'
<1>1. PICK q \in {Idle} \cup Asking :
        /\ worker' = [worker EXCEPT ![w] = q] /\ UNCHANGED <<now, items, runs>>
        /\ q = Idle \/ RoomForRun
        /\ q.at = "start" => ~q.auto
  <2>1. CASE AskRefresh(w) \/ AskDaily(w) \/ AskCategory(w)
    <3>1. PICK at \in {"check", "start"}, type \in Categories \cup {Daily}, auto \in BOOLEAN :
             Ask(w, at, type, auto) /\ (at = "start" => ~auto)
      BY <2>1 DEF AskRefresh, AskDaily, AskCategory
    <3> DEFINE q == [at |-> at, type |-> type, auto |-> auto]
    <3>2. q \in Asking /\ (q.at = "start" => ~q.auto)
      BY <3>1 DEF Asking
    <3>3. worker' = [worker EXCEPT ![w] = q] /\ UNCHANGED <<now, items, runs>> /\ RoomForRun
      BY <3>1 DEF Ask
    <3> HIDE DEF q
    <3> QED
      BY <3>2, <3>3
  <2>2. CASE Serve(w) \/ Abort(w)
    BY <2>2 DEF Serve, Abort, Idle
  <2> QED
    BY <2>1, <2>2
<1>2. q.at \in {"idle", "check", "start", "serve"}
  BY DEF Idle, Asking
<1>3. Room'
  BY <1>1, RoomKept DEF Idle
<1>4. q.at = "start" => CheckedFirst(w, q)
  BY <1>1 DEF CheckedFirst
<1> QED
  BY <1>1, <1>2, <1>3, <1>4, QuietStepInv

(* The freshness check finds no daily run within the window, or serves.    *)
LEMMA CheckInv ==
    ASSUME BriefingInv, NEW w \in Workers, Check(w)
    PROVE  BriefingInv'
<1> DEFINE at == IF Fresh(Daily) THEN "serve" ELSE "start"
           q == [worker[w] EXCEPT !.at = at]
<1>1. /\ worker[w].at = "check" /\ worker' = [worker EXCEPT ![w] = q]
      /\ UNCHANGED <<now, items, runs>>
  BY DEF Check, BriefingInv, TypeOK
<1>2. worker[w] \in Asking
  BY <1>1 DEF BriefingInv, TypeOK, Idle, Refreshing
<1>3. q \in Asking /\ q.at = at
  BY <1>2 DEF Asking
<1>4. Room'
  BY <1>1, RoomKept DEF AskingWorkers
<1>5. q.at = "start" => CheckedFirst(w, q)
  <2> SUFFICES ASSUME ~Fresh(Daily), NEW i \in DOMAIN runs, runs[i].type = Daily
               PROVE  runs[i].createdAt + CacheWindow <= now
    BY <1>3 DEF CheckedFirst
  <2>1. runs[i].createdAt \in Int /\ now \in Int /\ CacheWindow \in Int
    <3>1. runs[i] \in Run
      BY DEF BriefingInv, TypeOK
    <3> QED
      BY <3>1, BriefingAssumption DEF BriefingInv, TypeOK, Run, Time
  <2>2. ~(runs[i].createdAt > now - CacheWindow)
    BY DEF Fresh
  <2> QED
    BY <2>1, <2>2
<1> HIDE DEF q
<1> QED
  BY <1>1, <1>3, <1>4, <1>5, QuietStepInv

(* A run that is started is its worker's own, open and has everything to   *)
(* try.                                                                    *)
LEMMA StartInv ==
    ASSUME BriefingInv, NEW w \in Workers, Start(w)
    PROVE  BriefingInv' /\ OwnRunsOnly(w)
<1> DEFINE o == worker[w]
           row == [type |-> o.type, createdAt |-> now, status |-> "success", count |-> 0,
                   auto |-> o.auto, by |-> w, closed |-> FALSE, tried |-> {}]
<1>0. PICK q : q = [at |-> "fetch", auto |-> o.auto, run |-> Len(runs) + 1,
                    todo |-> Selected(o.type), offered |-> <<>>,
                    source |-> SourceOrder[1], failed |-> {}, count |-> 0]
  OBVIOUS
<1>1. /\ o.at = "start" /\ runs' = Append(runs, row) /\ worker' = [worker EXCEPT ![w] = q]
      /\ UNCHANGED <<now, items>>
  BY <1>0 DEF Start
<1>2. o \in Asking
  BY <1>1 DEF BriefingInv, TypeOK, Idle, Refreshing
<1>3. runs \in Seq(Run) /\ Len(runs) \in Nat /\ items \in Seq(Item)
  BY DEF BriefingInv, TypeOK
<1>4. row \in Run
  BY <1>2 DEF BriefingInv, TypeOK, Asking, Run
<1>5. /\ runs' \in Seq(Run) /\ Len(runs') = Len(runs) + 1
      /\ DOMAIN runs' = DOMAIN runs \cup {Len(runs) + 1}
      /\ \A i \in DOMAIN runs : runs'[i] = runs[i]
      /\ runs'[Len(runs) + 1] = row /\ Len(runs) + 1 \notin DOMAIN runs
  BY <1>1, <1>3, <1>4, AppendProperties
<1>6. Room'
  BY <1>0, <1>1, <1>5, RoomKept DEF AskingWorkers
<1>7. Len(runs) + 1 \in 1 .. MaxRuns
  BY <1>1, <1>3, <1>5, <1>6, BriefingAssumption, FS_Subset, FS_CardinalityType
     DEF Room, AskingWorkers
<1>8. q \in Refreshing
  <2>1. SourceOrder[1] \in Sources /\ Selected(o.type) \subseteq DOMAIN SourceOrder
    BY BriefingAssumption DEF Selected
  <2>2. <<>> \in Seq(Stories)
    OBVIOUS
  <2> QED
    BY <1>0, <1>2, <1>7, <2>1, <2>2 DEF Refreshing, Asking
<1>9. OwnRunsOnly(w)
  BY <1>5 DEF OwnRunsOnly
<1>10. Counted(q)'
  <2>1. Stored(q.run) = {} /\ Stored(q.run)' = Stored(q.run)
    BY <1>0, <1>1, <1>5 DEF Stored, BriefingInv, ItemRuns
  <2>2. q.count = 0 /\ Cardinality({}) = 0
    BY <1>0, FS_EmptySet
  <2>3. runs'[q.run].tried = {} /\ runs'[q.run].type = o.type /\ q.todo = Selected(o.type)
    BY <1>0, <1>5
  <2> QED
    BY <2>1, <2>2, <2>3 DEF Counted
<1>11. AutoRefreshBounded'
  <2> SUFFICES ASSUME NEW i \in DOMAIN runs', NEW j \in DOMAIN runs',
                      i < j, runs'[i].auto, runs'[j].auto,
                      runs'[i].type = Daily, runs'[j].type = Daily,
                      runs'[j].createdAt < runs'[i].createdAt + CacheWindow,
                      runs'[i].by = runs'[j].by
               PROVE  FALSE
    BY DEF AutoRefreshBounded
  <2>1. i \in DOMAIN runs
    BY <1>3, <1>5
  <2>2. CASE j \in DOMAIN runs
    BY <1>5, <2>1, <2>2 DEF BriefingInv, AutoRefreshBounded
  <2>3. CASE j = Len(runs) + 1
    <3>1. o.auto /\ o.type = Daily /\ runs[i].by = w /\ now < runs[i].createdAt + CacheWindow
      BY <1>5, <2>1, <2>3
    <3>2. runs[i].createdAt + CacheWindow <= now
      BY <1>1, <1>5, <2>1, <3>1 DEF BriefingInv, LookedBefore, CheckedFirst
    <3>3. now \in Int /\ runs[i].createdAt \in Int /\ CacheWindow \in Int
      <4>1. runs[i] \in Run
        BY <1>3, <2>1
      <4> QED
        BY <4>1, BriefingAssumption DEF BriefingInv, TypeOK, Run, Time
    <3> QED
      BY <3>1, <3>2, <3>3
  <2> QED
    BY <1>5, <2>2, <2>3
<1>12. ClosedRunsComplete'
  <2>1. \A i \in DOMAIN runs' : runs'[i].closed => i \in DOMAIN runs /\ runs'[i] = runs[i]
    BY <1>5
  <2>2. items' = items
    BY <1>1
  <2> QED
    BY <2>1, <2>2 DEF BriefingInv, ClosedRunsComplete
<1>13. /\ q.run \in DOMAIN runs' /\ runs'[q.run].by = w /\ ~runs'[q.run].closed
       /\ q.at = "fetch"
  BY <1>0, <1>5
<1> QED
  BY <1>1, <1>5, <1>6, <1>8, <1>9, <1>10, <1>11, <1>12, <1>13, StepInv

(* What is looked at of a feed is what it begins with.                     *)
LEMMA CappedFeed ==
    ASSUME NEW feed \in Seq(Stories)
    PROVE  Capped(feed) \in Seq(Stories) /\ (feed # <<>> => Capped(feed) # <<>>)
<1> DEFINE n == IF Len(feed) < ItemCap THEN Len(feed) ELSE ItemCap
<1>1. n \in 0 .. Len(feed) /\ ItemCap \in Nat \ {0} /\ Len(feed) \in Nat
  BY BriefingAssumption
<1>2. SubSeq(feed, 1, n) \in Seq(Stories) /\ Len(SubSeq(feed, 1, n)) = n
  BY <1>1, SubSeqProperties
<1>3. feed # <<>> => n # 0
  BY <1>1
<1> QED
  BY <1>2, <1>3 DEF Capped

(* A source that was asked is left no more, whether it answered or not.    *)
LEMMA FetchInv ==
    ASSUME BriefingInv, NEW w \in Workers, Fetch(w) \/ FetchFails(w)
    PROVE  BriefingInv' /\ OwnRunsOnly(w)
<1> DEFINE o == worker[w]
<1>1. PICK i \in Upcoming(w), q \in Refreshing :
        /\ worker' = [worker EXCEPT ![w] = q]
        /\ runs' = [runs EXCEPT ![o.run].tried = @ \cup {SourceOrder[i]}]
        /\ UNCHANGED <<now, items>>
        /\ q.run = o.run /\ q.count = o.count /\ q.todo = o.todo \ {i}
        /\ q.at \in {"fetch", "dedup"} /\ (q.at = "dedup" => q.offered # <<>>)
  <2>1. CASE Fetch(w)
    <3>0. PICK i \in Upcoming(w) : \E feed \in Feeds[SourceOrder[i]] :
             AskSource(w, i, [o EXCEPT !.source = SourceOrder[i],
                                       !.offered = Capped(feed),
                                       !.at = IF feed = <<>> THEN "fetch" ELSE "dedup"])
      BY <2>1 DEF Fetch
    <3>1. PICK feed \in Feeds[SourceOrder[i]] :
             AskSource(w, i, [o EXCEPT !.source = SourceOrder[i],
                                       !.offered = Capped(feed),
                                       !.at = IF feed = <<>> THEN "fetch" ELSE "dedup"])
      BY <3>0
    <3>2. o.at = "fetch" /\ o \in Refreshing /\ i \in DOMAIN SourceOrder
      BY DEF Upcoming, BriefingInv, TypeOK, Idle, Asking, Refreshing
    <3>3. SourceOrder[i] \in Sources /\ feed \in Seq(Stories)
      BY <3>2, BriefingAssumption
    <3>4. Capped(feed) \in Seq(Stories) /\ (feed # <<>> => Capped(feed) # <<>>)
      BY <3>3, CappedFeed
    <3> DEFINE q == [[o EXCEPT !.source = SourceOrder[i], !.offered = Capped(feed),
                               !.at = IF feed = <<>> THEN "fetch" ELSE "dedup"]
                     EXCEPT !.todo = @ \ {i}]
    <3>5. /\ q \in Refreshing /\ q.run = o.run /\ q.count = o.count /\ q.todo = o.todo \ {i}
          /\ q.at \in {"fetch", "dedup"} /\ (q.at = "dedup" => q.offered # <<>>)
      BY <3>2, <3>3, <3>4 DEF Refreshing
    <3>6. /\ worker' = [worker EXCEPT ![w] = q]
          /\ runs' = [runs EXCEPT ![o.run].tried = @ \cup {SourceOrder[i]}]
          /\ UNCHANGED <<now, items>>
      BY <3>1, <3>2 DEF AskSource, Refreshing
    <3> HIDE DEF q
    <3> QED
      BY <3>5, <3>6
  <2>2. CASE FetchFails(w)
    <3>1. PICK i \in Upcoming(w) :
             AskSource(w, i, [o EXCEPT !.failed = @ \cup {SourceOrder[i]}])
      BY <2>2 DEF FetchFails
    <3>2. o.at = "fetch" /\ o \in Refreshing /\ i \in DOMAIN SourceOrder
      BY DEF Upcoming, BriefingInv, TypeOK, Idle, Asking, Refreshing
    <3>3. SourceOrder[i] \in Sources
      BY <3>2, BriefingAssumption
    <3> DEFINE q == [[o EXCEPT !.failed = @ \cup {SourceOrder[i]}] EXCEPT !.todo = @ \ {i}]
    <3>4. /\ q \in Refreshing /\ q.run = o.run /\ q.count = o.count /\ q.todo = o.todo \ {i}
          /\ q.at = "fetch"
      BY <3>2, <3>3 DEF Refreshing
    <3>5. /\ worker' = [worker EXCEPT ![w] = q]
          /\ runs' = [runs EXCEPT ![o.run].tried = @ \cup {SourceOrder[i]}]
          /\ UNCHANGED <<now, items>>
      BY <3>1, <3>2 DEF AskSource, Refreshing
    <3> HIDE DEF q
    <3> QED
      BY <3>4, <3>5
  <2> QED
    BY <2>1, <2>2
<1>2. o.at = "fetch" /\ o \in Refreshing /\ i \in o.todo /\ i \in DOMAIN SourceOrder
  BY DEF Upcoming, BriefingInv, TypeOK, Idle, Asking, Refreshing
<1>3. o.run \in DOMAIN runs /\ runs[o.run].by = w /\ ~runs[o.run].closed /\ Counted(o)
  BY <1>2 DEF BriefingInv, RunOwned, Counting, Busy
<1> DEFINE row == [runs[o.run] EXCEPT !.tried = @ \cup {SourceOrder[i]}]
<1>4. runs \in Seq(Run) /\ runs[o.run] \in Run
  BY <1>3 DEF BriefingInv, TypeOK
<1>5. /\ row \in Run /\ row.by = runs[o.run].by /\ row.type = runs[o.run].type
      /\ row.auto = runs[o.run].auto /\ row.createdAt = runs[o.run].createdAt
      /\ row.closed = runs[o.run].closed
      /\ row.tried = runs[o.run].tried \cup {SourceOrder[i]}
  <2>1. SourceOrder[i] \in Sources
    BY <1>2, BriefingAssumption
  <2>2. runs[o.run].tried \cup {SourceOrder[i]} \in SUBSET Sources
    BY <1>4, <2>1 DEF Run
  <2> QED
    BY <1>4, <2>2 DEF Run
<1>6. /\ runs' = [runs EXCEPT ![o.run] = row] /\ runs' \in Seq(Run)
      /\ Len(runs') = Len(runs) /\ DOMAIN runs' = DOMAIN runs
  BY <1>1, <1>3, <1>4, <1>5, ExceptSeq
<1> HIDE DEF row
<1>7. OwnRunsOnly(w)
  BY <1>3, <1>5, <1>6 DEF OwnRunsOnly
<1>8. Room'
  BY <1>1, <1>6, RoomKept
<1>9. Counted(q)'
  <2>1. q.count = Cardinality(Stored(q.run))'
    BY <1>1, <1>3 DEF Counted, Stored
  <2>2. SourcesAt(o.todo) = SourcesAt(o.todo \ {i}) \cup {SourceOrder[i]}
    BY <1>2 DEF SourcesAt
  <2>3. runs'[q.run].tried = runs[o.run].tried \cup {SourceOrder[i]}
        /\ runs'[q.run].type = runs[o.run].type
    BY <1>1, <1>3, <1>5, <1>6
  <2> QED
    BY <1>1, <1>3, <2>1, <2>2, <2>3 DEF Counted
<1>10. AutoRefreshBounded'
  BY <1>6, <1>7 DEF BriefingInv, AutoRefreshBounded, OwnRunsOnly
<1>11. ClosedRunsComplete'
  <2>1. \A k \in DOMAIN runs' : runs'[k].closed => k \in DOMAIN runs /\ runs'[k] = runs[k]
    BY <1>3, <1>5, <1>6
  <2>2. items' = items
    BY <1>1
  <2> QED
    BY <2>1, <2>2 DEF BriefingInv, ClosedRunsComplete
<1>12. q.run \in DOMAIN runs' /\ runs'[q.run].by = w /\ ~runs'[q.run].closed
  BY <1>1, <1>3, <1>5, <1>6
<1> QED
  BY <1>1, <1>6, <1>7, <1>8, <1>9, <1>10, <1>11, <1>12, StepInv

(* The worker is through with an item of its source.                       *)
LEMMA NextItemTyped ==
    ASSUME NEW o \in Refreshing, o.offered # <<>>
    PROVE  LET q == NextItem(o) IN
           /\ q \in Refreshing /\ q.run = o.run /\ q.count = o.count /\ q.todo = o.todo
           /\ q.at \in {"fetch", "dedup"} /\ (q.at = "dedup" => q.offered # <<>>)
<1>1. o.offered \in Seq(Stories)
  BY DEF Refreshing
<1>2. Tail(o.offered) \in Seq(Stories)
  BY <1>1, HeadTailProperties
<1> QED
  BY <1>2 DEF NextItem, Refreshing

(* A story found within the window is skipped; one that is not may be      *)
(* stored.                                                                 *)
LEMMA DedupInv ==
    ASSUME BriefingInv, NEW w \in Workers, Dedup(w)
    PROVE  BriefingInv'
<1> DEFINE o == worker[w]
<1>1. o.at = "dedup" /\ o \in Refreshing /\ o.offered # <<>> /\ Busy(w)
  BY DEF Dedup, BriefingInv, TypeOK, OfferedLeft, Idle, Asking, Busy
<1>2. PICK q :
        /\ worker' = [worker EXCEPT ![w] = q] /\ UNCHANGED <<now, items, runs>>
        /\ q = IF Duplicate(Head(o.offered), Category[o.source])
               THEN NextItem(o) ELSE [o EXCEPT !.at = "insert"]
  BY DEF Dedup
<1>3. CASE Duplicate(Head(o.offered), Category[o.source])
  <2>1. /\ q \in Refreshing /\ q.run = o.run /\ q.count = o.count /\ q.todo = o.todo
        /\ q.at \in {"fetch", "dedup"} /\ (q.at = "dedup" => q.offered # <<>>)
    BY <1>1, <1>2, <1>3, NextItemTyped
  <2>2. Room'
    BY <1>2, <2>1, RoomKept
  <2> QED
    BY <1>1, <1>2, <2>1, <2>2, QuietStepInv
<1>4. CASE ~Duplicate(Head(o.offered), Category[o.source])
  <2>1. /\ q \in Refreshing /\ q.run = o.run /\ q.count = o.count /\ q.todo = o.todo
        /\ q.at = "insert" /\ q.offered = o.offered /\ q.source = o.source
    BY <1>1, <1>2, <1>4 DEF Refreshing
  <2>2. Room'
    BY <1>2, <2>1, RoomKept
  <2>3. LookedUp(w, q)
    <3> SUFFICES ASSUME NEW i \in DOMAIN items, Same(Story(q), items[i])
                 PROVE  items[i].fetchedAt + DedupWindow <= now
      BY DEF LookedUp
    <3>1. ~(items[i].fetchedAt > now - DedupWindow)
      BY <1>4, <2>1 DEF Duplicate, Same, Story
    <3>2. items[i] \in Item
      BY DEF BriefingInv, TypeOK
    <3>3. items[i].fetchedAt \in Int /\ now \in Int /\ DedupWindow \in Int
      BY <3>2, BriefingAssumption DEF BriefingInv, TypeOK, Item, Time
    <3> QED
      BY <3>1, <3>3
  <2> QED
    BY <1>1, <1>2, <2>1, <2>2, <2>3, QuietStepInv
<1> QED
  BY <1>3, <1>4

(* An item is counted by the run that stores it, and its own worker has no *)
(* other copy of it within the window.                                     *)
LEMMA InsertInv ==
    ASSUME BriefingInv, NEW w \in Workers, Insert(w)
    PROVE  BriefingInv' /\ IsPrefix(items, items')
<1> DEFINE o == worker[w]
           n == Len(items) + 1
<1>1. o.at = "insert" /\ o \in Refreshing /\ o.offered # <<>> /\ LookedUp(w, o)
  BY DEF Insert, BriefingInv, TypeOK, OfferedLeft, LookedBefore, Idle, Asking
<1>2. o.run \in DOMAIN runs /\ runs[o.run].by = w /\ ~runs[o.run].closed /\ Counted(o)
  BY <1>1 DEF BriefingInv, RunOwned, Counting, Busy
<1>3. PICK row, q :
        /\ items' = Append(items, row) /\ worker' = [worker EXCEPT ![w] = q]
        /\ UNCHANGED <<now, runs>>
        /\ row = [category |-> Category[o.source], story |-> Head(o.offered),
                  fetchedAt |-> now, run |-> o.run]
        /\ q = [NextItem(o) EXCEPT !.count = @ + 1]
  BY DEF Insert
<1>4. /\ q \in Refreshing /\ q.run = o.run /\ q.count = o.count + 1 /\ q.todo = o.todo
      /\ q.at \in {"fetch", "dedup"} /\ (q.at = "dedup" => q.offered # <<>>)
  <2>1. PICK p : p = NextItem(o)
    OBVIOUS
  <2>2. /\ p \in Refreshing /\ p.run = o.run /\ p.count = o.count /\ p.todo = o.todo
        /\ p.at \in {"fetch", "dedup"} /\ (p.at = "dedup" => p.offered # <<>>)
    BY <1>1, <2>1, NextItemTyped
  <2>3. q = [p EXCEPT !.count = @ + 1]
    BY <1>3, <2>1
  <2> QED
    BY <2>2, <2>3 DEF Refreshing
<1>5. row \in Item
  <2>1. Head(o.offered) \in Stories /\ o.source \in Sources /\ o.run \in 1 .. MaxRuns
    BY <1>1, HeadTailProperties DEF Refreshing
  <2>2. Category[o.source] \in Categories
    BY <2>1 DEF Categories
  <2> QED
    BY <1>3, <2>1, <2>2 DEF Item, BriefingInv, TypeOK
<1>6. items \in Seq(Item) /\ Len(items) \in Nat
  BY DEF BriefingInv, TypeOK
<1>7. /\ items' \in Seq(Item) /\ Len(items') = n /\ DOMAIN items' = DOMAIN items \cup {n}
      /\ \A j \in DOMAIN items : items'[j] = items[j]
      /\ items'[n] = row /\ n \notin DOMAIN items /\ n \in Nat
  BY <1>3, <1>5, <1>6, AppendProperties
<1>8. worker'[w] = q /\ \A v \in Workers \ {w} : worker'[v] = worker[v]
  BY <1>3 DEF BriefingInv, TypeOK
<1>9. TypeOK' /\ OfferedLeft' /\ RunOwned'
  <2>1. TypeOK'
    BY <1>3, <1>4, <1>7 DEF BriefingInv, TypeOK
  <2>2. OfferedLeft'
    BY <1>4, <1>8 DEF BriefingInv, OfferedLeft
  <2>3. RunOwned'
    BY <1>2, <1>3, <1>4, <1>8 DEF BriefingInv, RunOwned, Busy
  <2> QED
    BY <2>1, <2>2, <2>3
<1>10. Room'
  BY <1>3, <1>4, RoomKept
<1>11. ItemRuns'
  BY <1>2, <1>3, <1>7 DEF BriefingInv, ItemRuns
<1>12. LookedBefore'
  <2>1. ASSUME NEW v \in Workers \ {w}, worker[v].at = "insert"
        PROVE  LookedUp(v, worker[v])'
    <3>1. LookedUp(v, worker[v]) /\ worker'[v] = worker[v]
      BY <1>8, <2>1 DEF BriefingInv, LookedBefore
    <3>2. runs'[items'[n].run].by = w
      BY <1>2, <1>3, <1>7
    <3> QED
      BY <1>3, <1>7, <3>1, <3>2 DEF LookedUp, Story
  <2>2. ASSUME NEW v \in Workers \ {w}, worker[v].at = "start"
        PROVE  CheckedFirst(v, worker[v])'
    BY <1>3, <1>8, <2>2 DEF BriefingInv, LookedBefore, CheckedFirst
  <2> QED
    BY <1>4, <1>8, <2>1, <2>2 DEF LookedBefore
<1>13. \A run \in DOMAIN runs : Stored(run)' = IF run = o.run THEN Stored(run) \cup {n} ELSE Stored(run)
  BY <1>3, <1>7 DEF Stored
<1>14. Cardinality(Stored(o.run) \cup {n}) = Cardinality(Stored(o.run)) + 1
  <2>1. Stored(o.run) \subseteq 1 .. Len(items)
    BY <1>6 DEF Stored
  <2>2. IsFiniteSet(Stored(o.run))
    <3>1. IsFiniteSet(1 .. Len(items))
      BY <1>6, FS_Interval
    <3> QED
      BY <2>1, <3>1, FS_Subset
  <2>3. n \notin Stored(o.run)
    BY <1>7 DEF Stored
  <2> QED
    BY <2>2, <2>3, FS_AddElement
<1>15. Counting'
  <2>1. Counted(q)'
    BY <1>2, <1>3, <1>4, <1>13, <1>14 DEF Counted
  <2>2. ASSUME NEW v \in Workers \ {w}, Busy(v)
        PROVE  Counted(worker[v])'
    <3>1. /\ worker'[v] = worker[v] /\ Counted(worker[v]) /\ worker[v].run \in DOMAIN runs
          /\ runs[worker[v].run].by = v
      BY <1>8, <2>2 DEF BriefingInv, Counting, RunOwned
    <3>2. Stored(worker[v].run)' = Stored(worker[v].run)
      BY <1>2, <1>3, <1>7, <3>1 DEF Stored
    <3> QED
      BY <1>3, <3>1, <3>2 DEF Counted
  <2> QED
    BY <1>8, <2>1, <2>2 DEF Counting, Busy
<1>16. CopiesBounded'
  <2> SUFFICES ASSUME NEW i \in DOMAIN items', NEW j \in DOMAIN items', i < j,
                      Same(items'[j], items'[i]),
                      items'[j].fetchedAt < items'[i].fetchedAt + DedupWindow
               PROVE  runs[items'[i].run].by # runs[items'[j].run].by
    BY <1>3 DEF CopiesBounded
  <2>1. i \in DOMAIN items
    BY <1>6, <1>7
  <2>2. CASE j \in DOMAIN items
    BY <1>7, <2>1, <2>2 DEF BriefingInv, CopiesBounded
  <2>3. CASE j = n
    <3>1. Same(Story(o), items[i]) /\ now < items[i].fetchedAt + DedupWindow
      BY <1>3, <1>7, <2>1, <2>3 DEF Same, Story
    <3>2. items[i].fetchedAt \in Int /\ now \in Int /\ DedupWindow \in Int
      <4>1. items[i] \in Item
        BY <1>6, <2>1
      <4> QED
        BY <4>1, BriefingAssumption DEF BriefingInv, TypeOK, Item, Time
    <3>3. runs[items[i].run].by # w
      BY <1>1, <2>1, <3>1, <3>2 DEF LookedUp
    <3> QED
      BY <1>2, <1>3, <1>7, <2>1, <2>3, <3>3
  <2> QED
    BY <1>7, <2>2, <2>3
<1>17. AutoRefreshBounded'
  BY <1>3 DEF BriefingInv, AutoRefreshBounded
<1>18. ClosedRunsComplete'
  <2> SUFFICES ASSUME NEW i \in DOMAIN runs, runs[i].closed
               PROVE  /\ runs[i].count = Cardinality(Stored(i)')
                      /\ runs[i].tried = SourcesAt(Selected(runs[i].type))
    BY <1>3 DEF ClosedRunsComplete, Stored
  <2>1. Stored(i)' = Stored(i)
    BY <1>2, <1>13
  <2> QED
    BY <2>1 DEF BriefingInv, ClosedRunsComplete, Stored
<1>19. IsPrefix(items, items')
  <2>1. SubSeq(items', 1, Len(items)) = items
    BY <1>3, <1>5, <1>6, <1>7, SubSeqProperties
  <2> QED
    BY <1>6, <1>7, <2>1 DEF IsPrefix
<1> QED
  BY <1>9, <1>10, <1>11, <1>12, <1>15, <1>16, <1>17, <1>18, <1>19 DEF BriefingInv

(* A run is closed by its own worker, with everything counted and tried.   *)
LEMMA CloseInv ==
    ASSUME BriefingInv, NEW w \in Workers, Close(w)
    PROVE  BriefingInv' /\ OwnRunsOnly(w)
<1> DEFINE o == worker[w]
<1>1. o.at = "fetch" /\ o.todo = {} /\ o \in Refreshing
  BY DEF Close, BriefingInv, TypeOK, Idle, Asking
<1>2. o.run \in DOMAIN runs /\ runs[o.run].by = w /\ ~runs[o.run].closed /\ Counted(o)
  BY <1>1 DEF BriefingInv, RunOwned, Counting, Busy
<1>3. runs \in Seq(Run) /\ runs[o.run] \in Run
  BY <1>2 DEF BriefingInv, TypeOK
<1>4. PICK row, q :
        /\ row = [runs[o.run] EXCEPT !.count = o.count, !.closed = TRUE,
                                     !.status = IF o.failed = {} THEN "success" ELSE "partial"]
        /\ q = IF o.auto THEN [at |-> "serve", type |-> runs[o.run].type, auto |-> TRUE] ELSE Idle
  OBVIOUS
<1>5. /\ runs' = [runs EXCEPT ![o.run] = row] /\ worker' = [worker EXCEPT ![w] = q]
      /\ UNCHANGED <<now, items>>
  BY <1>2, <1>3, <1>4 DEF Close
<1>6. /\ row \in Run /\ row.by = runs[o.run].by /\ row.type = runs[o.run].type
      /\ row.auto = runs[o.run].auto /\ row.createdAt = runs[o.run].createdAt
      /\ row.tried = runs[o.run].tried /\ row.count = o.count
  BY <1>1, <1>3, <1>4 DEF Run, Refreshing
<1>7. q \in {Idle} \cup Asking /\ q.at \in {"idle", "serve"}
  BY <1>3, <1>4 DEF Asking, Run, Idle
<1>8. runs' \in Seq(Run) /\ Len(runs') = Len(runs) /\ DOMAIN runs' = DOMAIN runs
  BY <1>2, <1>3, <1>5, <1>6, ExceptSeq
<1>9. OwnRunsOnly(w)
  BY <1>2, <1>5, <1>6, <1>8 DEF OwnRunsOnly
<1>10. Room'
  BY <1>5, <1>7, <1>8, RoomKept
<1>11. AutoRefreshBounded'
  BY <1>8, <1>9 DEF BriefingInv, AutoRefreshBounded, OwnRunsOnly
<1>12. ClosedRunsComplete'
  <2> SUFFICES ASSUME NEW i \in DOMAIN runs, runs'[i].closed
               PROVE  /\ runs'[i].count = Cardinality(Stored(i))
                      /\ runs'[i].tried = SourcesAt(Selected(runs'[i].type))
    BY <1>5, <1>8 DEF ClosedRunsComplete, Stored
  <2>1. CASE i = o.run
    <3>1. SourcesAt(o.todo) = {}
      BY <1>1 DEF SourcesAt
    <3> QED
      BY <1>2, <1>5, <1>6, <2>1, <3>1 DEF Counted
  <2>2. CASE i # o.run
    BY <1>5, <2>2 DEF BriefingInv, ClosedRunsComplete, Stored
  <2> QED
    BY <2>1, <2>2
<1> QED
  BY <1>5, <1>7, <1>8, <1>9, <1>10, <1>11, <1>12, StepInv

(* Time only takes copies and runs out of their windows.                   *)
LEMMA TickInv ==
    ASSUME BriefingInv, Tick
    PROVE  BriefingInv'
<1>1. now' = now + 1 /\ now' \in Time /\ now \in Int /\ UNCHANGED <<runs, items, worker>>
  BY BriefingAssumption DEF Tick, BriefingInv, TypeOK, Time
<1>2. \A i \in DOMAIN items : items[i].fetchedAt \in Int
  <2>1. \A i \in DOMAIN items : items[i] \in Item
    BY DEF BriefingInv, TypeOK
  <2> QED
    BY <2>1 DEF Item, Time
<1>3. \A i \in DOMAIN runs : runs[i].createdAt \in Int
  <2>1. \A i \in DOMAIN runs : runs[i] \in Run
    BY DEF BriefingInv, TypeOK
  <2> QED
    BY <2>1 DEF Run, Time
<1>4. ASSUME NEW w \in Workers
      PROVE  /\ LookedUp(w, worker[w]) => LookedUp(w, worker[w])'
             /\ CheckedFirst(w, worker[w]) => CheckedFirst(w, worker[w])'
  BY <1>1, <1>2, <1>3, BriefingAssumption DEF LookedUp, CheckedFirst, Story
<1>5. LookedBefore'
  BY <1>1, <1>4 DEF BriefingInv, LookedBefore
<1>6. TypeOK' /\ Room' /\ OfferedLeft' /\ RunOwned' /\ ItemRuns'
  BY <1>1 DEF BriefingInv, TypeOK, Room, AskingWorkers, OfferedLeft, RunOwned, ItemRuns, Busy
<1>7. Counting' /\ CopiesBounded' /\ AutoRefreshBounded' /\ ClosedRunsComplete'
  BY <1>1, ZenonT(40)
     DEF BriefingInv, Counting, Counted, Busy, Stored, CopiesBounded, AutoRefreshBounded,
         ClosedRunsComplete
<1> QED
  BY <1>5, <1>6, <1>7 DEF BriefingInv

(* Nothing is stored and nobody refreshes at first.                        *)
LEMMA InitInv == Init => BriefingInv
<1> SUFFICES ASSUME Init PROVE BriefingInv
  OBVIOUS
<1>1. TypeOK
  BY BriefingAssumption DEF Init, TypeOK, Time
<1>2. Room
  <2>1. AskingWorkers = {}
    BY DEF Init, AskingWorkers, Idle
  <2> QED
    BY <2>1, FS_EmptySet, BriefingAssumption DEF Init, Room
<1>3. OfferedLeft /\ RunOwned /\ ItemRuns /\ LookedBefore /\ Counting
  BY DEF Init, OfferedLeft, RunOwned, ItemRuns, LookedBefore, Counting, Busy, Idle
<1>4. CopiesBounded /\ AutoRefreshBounded /\ ClosedRunsComplete
  BY DEF Init, CopiesBounded, AutoRefreshBounded, ClosedRunsComplete
<1> QED
  BY <1>1, <1>2, <1>3, <1>4 DEF BriefingInv

(* Every step keeps the invariant, all items and all closed runs.          *)
LEMMA NextInv ==
    ASSUME BriefingInv, [Next]_vars
    PROVE  /\ BriefingInv'
           /\ IsPrefix(items, items')
           /\ \A i \in DOMAIN runs : runs[i].closed => runs'[i] = runs[i]
<1>0. items' = items => IsPrefix(items, items')
  <2>1. SubSeq(items, 1, Len(items)) = items
    BY SubSeqFull DEF BriefingInv, TypeOK
  <2> QED
    BY <2>1 DEF IsPrefix, BriefingInv, TypeOK
<1>1. CASE UNCHANGED vars
  <2>1. TypeOK' /\ Room' /\ OfferedLeft' /\ RunOwned' /\ ItemRuns' /\ LookedBefore'
    BY <1>1 DEF vars, BriefingInv, TypeOK, Room, AskingWorkers, OfferedLeft, RunOwned, ItemRuns,
                Busy, LookedBefore, LookedUp, CheckedFirst, Story
  <2>2. Counting' /\ CopiesBounded' /\ AutoRefreshBounded' /\ ClosedRunsComplete'
    BY <1>1, ZenonT(40) DEF vars, BriefingInv, Counting, Counted, Busy, Stored, CopiesBounded,
                AutoRefreshBounded, ClosedRunsComplete
  <2> QED
    BY <1>0, <1>1, <2>1, <2>2 DEF vars, BriefingInv
<1>2. CASE Tick
  BY <1>0, <1>2, TickInv DEF Tick
<1>3. ASSUME NEW w \in Workers,
             AskRefresh(w) \/ AskDaily(w) \/ AskCategory(w) \/ Work(w) \/ Abort(w)
      PROVE  /\ BriefingInv'
             /\ IsPrefix(items, items')
             /\ \A i \in DOMAIN runs : runs[i].closed => runs'[i] = runs[i]
  <2>1. CASE AskRefresh(w) \/ AskDaily(w) \/ AskCategory(w) \/ Serve(w) \/ Abort(w) \/ Check(w) \/ Dedup(w)
    <3>1. items' = items /\ runs' = runs
      BY <2>1 DEF AskRefresh, AskDaily, AskCategory, Ask, Serve, Abort, Check, Dedup
    <3> QED
      BY <1>0, <2>1, <3>1, AskInv, CheckInv, DedupInv
  <2>2. CASE Start(w) \/ Fetch(w) \/ FetchFails(w) \/ Close(w)
    <3>1. BriefingInv' /\ OwnRunsOnly(w)
      BY <2>2, StartInv, FetchInv, CloseInv
    <3>2. items' = items
      BY <2>2 DEF Start, Fetch, FetchFails, AskSource, Close
    <3> QED
      BY <1>0, <3>1, <3>2 DEF OwnRunsOnly
  <2>3. CASE Insert(w)
    BY <2>3, InsertInv DEF Insert
  <2> QED
    BY <1>3, <2>1, <2>2, <2>3 DEF Work
<1> QED
  BY <1>1, <1>2, <1>3 DEF Next

(* The invariant the properties of the briefing follow from.               *)
THEOREM BriefingInvariant == Spec => []BriefingInv
<1>1. BriefingInv /\ [Next]_vars => BriefingInv'
  BY NextInv
<1> QED
  BY <1>1, InitInv, PTL DEF Spec

(* Type correctness: rows and workers have their shapes, and no worker     *)
(* works on a run or a story there is not (generator.py).                  *)
THEOREM BriefingTypeOK == Spec => []TypeOK
<1>1. BriefingInv => TypeOK
  BY DEF BriefingInv
<1> QED
  BY <1>1, BriefingInvariant, PTL

(* Within the deduplication window no worker stores a story twice          *)
(* (generator.py, _is_duplicate).                                          *)
THEOREM CopiesAreBounded == Spec => []CopiesBounded
<1>1. BriefingInv => CopiesBounded
  BY DEF BriefingInv
<1> QED
  BY <1>1, BriefingInvariant, PTL

(* No worker starts two automatic daily refreshes within one cache window  *)
(* (generator.py, _has_fresh_run).                                         *)
THEOREM AutoRefreshesAreBounded == Spec => []AutoRefreshBounded
<1>1. BriefingInv => AutoRefreshBounded
  BY DEF BriefingInv
<1> QED
  BY <1>1, BriefingInvariant, PTL

(* A closed run counts what it stored and got to all its sources           *)
(* (generator.py, refresh_briefing).                                       *)
THEOREM ClosedRunsAreComplete == Spec => []ClosedRunsComplete
<1>1. BriefingInv => ClosedRunsComplete
  BY DEF BriefingInv
<1> QED
  BY <1>1, BriefingInvariant, PTL

(* Rows are only added, and a closed run stays as it is, however many      *)
(* refreshes overlap (generator.py, refresh_briefing).                     *)
THEOREM ClosedRunsAreFinal == Spec => ClosedRunsFinal
<1>1. BriefingInv /\ [Next]_vars =>
        [/\ IsPrefix(items, items')
         /\ \A i \in DOMAIN runs : runs[i].closed => runs'[i] = runs[i]]_vars
  BY NextInv
<1> QED
  BY <1>1, BriefingInvariant, PTL DEF Spec, ClosedRunsFinal
=============================================================================
