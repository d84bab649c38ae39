---------------------------- MODULE DataSource ----------------------------
(***************************************************************************)
(* DataSource.fetch over the two-layer cache, called by the /data/* routes *)
(* (backend/data_sources/base.py, registry.py, api/routes/data.py).        *)
(*                                                                         *)
(* Each request is a coroutine of the event loop; it can be interleaved    *)
(* only where it awaits: while an upstream attempt runs and while it backs *)
(* off between attempts.  Everything from one await to the next is one     *)
(* action, including the health record the route writes at the end.        *)
(***************************************************************************)
EXTENDS TwoLayerCache

CONSTANTS
    Requests,      \* concurrent HTTP requests
    Timeout,       \* data_fetch_timeout_seconds
    Backoff,       \* the sleep between two attempts
    Retries,       \* attempts after the first
    Configs,       \* settings a start of the service may load
    Housekeeping,  \* bound: when prune_expired and clear may be called
    None           \* no reply yet, no fetch recorded yet

ASSUME DataSourceAssumption ==
    /\ Timeout \in Nat /\ Backoff \in Nat /\ Retries \in Nat
    /\ Housekeeping \subseteq Time
    /\ Configs # {}
    /\ Configs \subseteq [cache : BOOLEAN, fallback : BOOLEAN,
                          enabled : SUBSET Sources]

VARIABLES
    config,   \* data_cache_enabled, data_stale_fallback, is_enabled()
    req,      \* the coroutine of each request
    reply,    \* the last envelope any request returned
    learnt,   \* history: the slots data was obtained for and not cleared away since
    health    \* SourceHealth.last_fetch_at and last_fetch_ok

vars == <<clock, memory, disk, config, req, reply, learnt, health>>

Attempts == Retries + 1

(* The longest a fetch may take, as promised at the top of base.py.        *)
FetchBound == Attempts * Timeout + Retries * Backoff

Idle == [at |-> "idle"]

(* `start` is the `now` fetch takes first; `since` is when the current     *)
(* attempt or back-off began.                                              *)
Pending == [at : {"attempt", "backoff"}, slot : Slots, start : Time,
            since : Time, attempt : 1 .. Attempts]

(* `failed` counts the timeout and exception warnings; kind "stale" is the *)
(* one with the warning "stale, upstream unreachable".                     *)
Envelope == [slot : Slots, kind : {"disabled", "hit", "stale", "fresh", "null"},
             entry : Entry \cup {NoEntry}, failed : 0 .. Attempts, at : Time]

Health == [at : Time, ok : BOOLEAN]

ASSUME NoneAssumption == None \notin Envelope

TypeOK ==
    /\ CacheTypeOK
    /\ config \in Configs
    /\ req \in [Requests -> Pending \cup {Idle}]
    /\ reply \in Envelope \cup {None}
    /\ learnt \subseteq Slots
    /\ health \in [Sources -> Health \cup {None}]

Init ==
    /\ clock = 0
    /\ memory = Empty
    /\ disk = Empty
    /\ config \in Configs
    /\ req = [r \in Requests |-> Idle]
    /\ reply = None
    /\ learnt = {}
    /\ health = [s \in Sources |-> None]

-----------------------------------------------------------------------------
(* The route skips the record when there is no data.                       *)
AnswerUnrecorded(r, slot, kind, entry, failed) ==
    /\ reply' = [slot |-> slot, kind |-> kind, entry |-> entry,
                  failed |-> failed, at |-> clock]
    /\ req' = [req EXCEPT ![r] = Idle]
    /\ health' = IF entry = NoEntry THEN health
                 ELSE [health EXCEPT ![slot[1]] = [at |-> clock, ok |-> TRUE]]

(* The request returns its envelope and the route records the fetch.       *)
Answer(r, slot, kind, entry, failed) ==
    /\ reply' = [slot |-> slot, kind |-> kind, entry |-> entry,
                  failed |-> failed, at |-> clock]
    /\ req' = [req EXCEPT ![r] = Idle]
    /\ health' = [health EXCEPT ![slot[1]] = [at |-> clock, ok |-> entry # NoEntry]]

StartAttempt(r, slot, start, n) ==
    /\ req' = [req EXCEPT ![r] = [at |-> "attempt", slot |-> slot, start |-> start,
                                  since |-> clock, attempt |-> n]]
    /\ UNCHANGED <<reply, health>>

BeginDisabled(r, slot) ==
    /\ slot[1] \notin config.enabled
    /\ Answer(r, slot, "disabled", NoEntry, 0)
    /\ UNCHANGED memory

(* A fresh entry is returned as it stands; a miss goes upstream.           *)
BeginCached(r, slot) ==
    /\ slot[1] \in config.enabled
    /\ config.cache
    /\ \E found \in Get(slot, FALSE) :
          /\ memory' = found.memory
          /\ IF found.entry # NoEntry
             THEN Answer(r, slot, "hit", found.entry, 0)
             ELSE StartAttempt(r, slot, clock, 1)

BeginUncached(r, slot) ==
    /\ slot[1] \in config.enabled
    /\ ~config.cache
    /\ StartAttempt(r, slot, clock, 1)
    /\ UNCHANGED memory

(* fetch(key), up to its first await.  The bound leaves every fetch the    *)
(* time it may need before the modelled clock ends.                        *)
Begin(r, slot) ==
    /\ req[r].at = "idle"
    /\ clock + FetchBound <= MaxTime
    /\ BeginDisabled(r, slot) \/ BeginCached(r, slot) \/ BeginUncached(r, slot)
    /\ UNCHANGED <<clock, disk, config, learnt>>

-----------------------------------------------------------------------------
(* The time to live counts from the end of the fetch.                      *)
EntryOfLate(q, readAt) ==
    [readAt |-> readAt, fetchedAt |-> clock, expiresAt |-> clock + TTL[q.slot[1]]]

(* The entry a successful fetch stores: fetched_at is the start of the     *)
(* fetch, and the time to live counts from there.                          *)
EntryOf(q, readAt) ==
    [readAt |-> readAt, fetchedAt |-> q.start, expiresAt |-> q.start + TTL[q.slot[1]]]

(* The upstream was read at some instant of this attempt.                  *)
Succeed(r, readAt) ==
    LET q == req[r] IN
    /\ q.at = "attempt"
    /\ readAt \in q.since .. clock
    /\ IF config.cache
       THEN \E after \in Set(q.slot, EntryOf(q, readAt)) :
               memory' = after.memory /\ disk' = after.disk
       ELSE UNCHANGED <<memory, disk>>
    /\ Answer(r, q.slot, "fresh", EntryOf(q, readAt), q.attempt - 1)
    /\ learnt' = learnt \cup {q.slot}
    /\ UNCHANGED <<clock, config>>

(* The fallback forgets include_expired.                                   *)
FallBackFreshOnly(r, failed) ==
    LET slot == req[r].slot IN
    /\ \E found \in Get(slot, FALSE) :
          /\ memory' = found.memory
          /\ Answer(r, slot, IF found.entry # NoEntry THEN "stale" ELSE "null",
                    found.entry, failed)
    /\ UNCHANGED <<clock, disk, config, learnt>>

(* The fetch produced no data: serve whatever the cache holds, expired or  *)
(* not, when the fallback is on.                                           *)
FallBack(r, failed) ==
    LET slot == req[r].slot IN
    /\ \/ /\ config.fallback
          /\ \E found \in Get(slot, TRUE) :
                /\ memory' = found.memory
                /\ Answer(r, slot, IF found.entry # NoEntry THEN "stale" ELSE "null",
                          found.entry, failed)
       \/ /\ ~config.fallback
          /\ Answer(r, slot, "null", NoEntry, failed)
          /\ UNCHANGED memory
    /\ UNCHANGED <<clock, disk, config, learnt>>

(* _do_fetch returned None: no retry.                                      *)
NoData(r) ==
    /\ req[r].at = "attempt"
    /\ FallBack(r, req[r].attempt - 1)

(* One attempt too many.                                                   *)
AttemptFailsOffByOne(r) ==
    /\ req[r].at = "attempt"
    /\ IF req[r].attempt <= Attempts
       THEN /\ req' = [req EXCEPT ![r].at = "backoff", ![r].since = clock]
            /\ UNCHANGED <<clock, memory, disk, config, reply, learnt, health>>
       ELSE FallBack(r, req[r].attempt)

(* An attempt raised, or wait_for cancelled it at its deadline.            *)
AttemptFails(r) ==
    /\ req[r].at = "attempt"
    /\ IF req[r].attempt < Attempts
       THEN /\ req' = [req EXCEPT ![r].at = "backoff", ![r].since = clock]
            /\ UNCHANGED <<clock, memory, disk, config, reply, learnt, health>>
       ELSE FallBack(r, req[r].attempt)

Raise(r) == AttemptFails(r)

TimeOut(r) ==
    /\ req[r].at = "attempt"
    /\ clock = req[r].since + Timeout
    /\ AttemptFails(r)

(* The loop never counts its attempts.                                     *)
RetryForever(r) ==
    /\ req[r].at = "backoff"
    /\ clock = req[r].since + Backoff
    /\ StartAttempt(r, req[r].slot, req[r].start, req[r].attempt)
    /\ UNCHANGED <<clock, memory, disk, config, learnt>>

(* asyncio.sleep(2.0) is over.                                             *)
Retry(r) ==
    /\ req[r].at = "backoff"
    /\ clock = req[r].since + Backoff
    /\ StartAttempt(r, req[r].slot, req[r].start, req[r].attempt + 1)
    /\ UNCHANGED <<clock, memory, disk, config, learnt>>

-----------------------------------------------------------------------------
(* The upstream call is not wrapped in wait_for.                           *)
WaitUnbounded(q) == IF q.at = "attempt" THEN MaxTime + 1 ELSE Backoff

(* No timer of a pending request is overdue: the loop runs a timer when it *)
(* is due.                                                                 *)
Wait(q) == IF q.at = "attempt" THEN Timeout ELSE Backoff

Tick ==
    /\ clock < MaxTime
    /\ \A r \in Requests :
          req[r].at # "idle" => clock < req[r].since + Wait(req[r])
    /\ clock' = clock + 1
    /\ UNCHANGED <<memory, disk, config, req, reply, learnt, health>>

(* The process stops at any moment and starts again, perhaps with other    *)
(* settings: the SQLite table survives, and the envelopes already sent.    *)
Restart ==
    /\ config' \in Configs
    /\ memory' = Empty
    /\ req' = [r \in Requests |-> Idle]
    /\ health' = [s \in Sources |-> None]
    /\ UNCHANGED <<clock, disk, reply, learnt>>

HouseKeep ==
    /\ clock \in Housekeeping
    /\ Prune \/ Clear
    /\ learnt' = {s \in learnt : disk'[s] # NoEntry}
    /\ UNCHANGED <<clock, config, req, reply, health>>

Step(r) ==
    \/ \E t \in Time : Succeed(r, t)
    \/ NoData(r)
    \/ Raise(r)
    \/ TimeOut(r)
    \/ Retry(r)

Next ==
    \/ \E r \in Requests, slot \in Slots : Begin(r, slot)
    \/ \E r \in Requests : Step(r)
    \/ Tick
    \/ Restart
    \/ HouseKeep

(* Timers fire and time passes; no request has to be made, and no upstream *)
(* has to answer.                                                          *)
Fairness == WF_vars(Tick) /\ \A r \in Requests : WF_vars(TimeOut(r)) /\ WF_vars(Retry(r))

Spec == Init /\ [][Next]_vars

FairSpec == Spec /\ Fairness

-----------------------------------------------------------------------------
(* Every payload served as a cache hit was read from the upstream less     *)
(* than the source's time to live before it was served, through restarts,  *)
(* evictions, rehydration and overlapping fetches of the same slot.        *)
FreshHitsWithinTTL ==
    reply # None /\ reply.kind = "hit" =>
        /\ reply.entry.readAt <= reply.at
        /\ reply.at < reply.entry.readAt + TTL[reply.slot[1]]

(* However entries get into the memory dict - stored by a fetch or brought *)
(* back from SQLite, a stale one included - its size respects the cap,     *)
(* except that one entry is kept when the cap is 0.                        *)
MemoryWithinCap ==
    Cardinality(Held(memory)) <= IF MemoryMax = 0 THEN 1 ELSE MemoryMax

(* While SQLite works, an answer does not depend on the layer it is read   *)
(* from: what memory holds for a slot is the row on disk.                  *)
LayersAgree ==
    DiskOutcomes = {TRUE} => \A s \in Slots : memory[s] \in {NoEntry, disk[s]}

AlwaysRemembers ==
    /\ DiskOutcomes = {TRUE}
    /\ \A c \in Configs : c.cache /\ c.fallback

(* Once some request has obtained data for a slot, no fetch of that slot   *)
(* that ends later comes back empty, whatever the upstream does, whatever  *)
(* is evicted, and across restarts, until housekeeping removes the row.    *)
NeverForgets ==
    AlwaysRemembers /\ reply # None /\ reply.kind = "null" =>
        reply.slot \notin learnt

(* A fetch lasts at most the time limit of each attempt and the pauses     *)
(* between them.                                                           *)
FetchTimeBounded ==
    \A r \in Requests :
        req[r].at # "idle" => clock - req[r].start <= FetchBound

(* A slow fetch may overwrite the row of a fetch that began after it; the  *)
(* row then goes back in time by at most the longest fetch.                *)
RegressionBounded ==
    [][\A s \in Slots :
          disk[s] # NoEntry /\ disk'[s] # NoEntry =>
              disk'[s].fetchedAt >= disk[s].fetchedAt - FetchBound]_vars

(* The health shown for a source is that of its last fetch to end, so no   *)
(* envelope is newer than it.                                              *)
HealthIsLatest ==
    reply # None /\ health[reply.slot[1]] # None =>
        health[reply.slot[1]].at >= reply.at

(* Every request is answered, whether or not the upstream ever answers.    *)
EveryRequestAnswered ==
    \A r \in Requests : req[r].at # "idle" ~> req[r].at = "idle"

-----------------------------------------------------------------------------
(* What the proofs strengthen the properties with: every entry was read    *)
(* from the upstream after its fetched_at and expires a time to live after *)
(* it, and the dates of a pending request are in order.                    *)
Honest(slot, e) ==
    e # NoEntry =>
        /\ e.fetchedAt <= e.readAt /\ e.readAt <= clock
        /\ e.expiresAt = e.fetchedAt + TTL[slot[1]]

EntriesHonest ==
    \A s \in Slots : Honest(s, memory[s]) /\ Honest(s, disk[s])

PendingInOrder ==
    \A r \in Requests :
        req[r].at # "idle" =>
            /\ req[r].start <= req[r].since /\ req[r].since <= clock
            /\ req[r].at = "backoff" => req[r].attempt < Attempts

FetchInv == TypeOK /\ EntriesHonest /\ PendingInOrder /\ FreshHitsWithinTTL

=============================================================================
