--------------------------- MODULE TwoLayerCache ---------------------------
(***************************************************************************)
(* The cache behind every /data/* endpoint: an in-memory dict in front of  *)
(* the SQLite table data_cache (backend/data_sources/cache.py).            *)
(*                                                                         *)
(* Both layers map a slot (source, key) to at most one entry.  All callers *)
(* are coroutines of the one event loop and no cache operation awaits, so  *)
(* each operation is atomic.  An operation is described by the set of      *)
(* outcomes it may have: eviction breaks ties by insertion order, which is *)
(* left open, and SQLite may fail.                                         *)
(***************************************************************************)
EXTENDS Integers, FiniteSets

CONSTANTS
    Sources,        \* registered data sources
    Keys,           \* URL keys
    TTL,            \* default_ttl_seconds of each source
    MemoryMax,      \* data_memory_cache_max_entries
    MaxTime,        \* bound: the last instant of the modelled clock
    DiskOutcomes,   \* {TRUE}: SQLite always works, {TRUE, FALSE}: it may fail
    NoEntry         \* the absence of an entry

ASSUME CacheAssumption ==
    /\ IsFiniteSet(Sources) /\ IsFiniteSet(Keys)
    /\ TTL \in [Sources -> Nat]
    /\ MemoryMax \in Nat
    /\ MaxTime \in Nat
    /\ DiskOutcomes \subseteq BOOLEAN /\ DiskOutcomes # {}

Slots == Sources \X Keys

Time == 0 .. MaxTime

(* A payload is abstracted to the instant at which the upstream was read.  *)
Entry == [readAt : Time, fetchedAt : Time, expiresAt : Int]

ASSUME NoEntryAssumption == NoEntry \notin Entry

VARIABLES
    clock,    \* datetime.now(), in abstract seconds
    memory,   \* the in-memory layer
    disk      \* the SQLite layer

Layer == [Slots -> Entry \cup {NoEntry}]

CacheTypeOK ==
    /\ clock \in Time
    /\ memory \in Layer
    /\ disk \in Layer

Empty == [s \in Slots |-> NoEntry]

Held(layer) == {s \in Slots : layer[s] # NoEntry}

Expired(e) == e.expiresAt <= clock

Usable(e, includeExpired) == e # NoEntry /\ (includeExpired \/ ~Expired(e))

KeepCount == IF MemoryMax < 2 THEN 1 ELSE MemoryMax \div 2

(* The memories _evict_if_needed may leave: over the cap, the KeepCount    *)
(* entries with the newest fetched_at survive.                             *)
Evictions(m) ==
    IF Cardinality(Held(m)) <= MemoryMax
    THEN {m}
    ELSE {[s \in Slots |-> IF s \in kept THEN m[s] ELSE NoEntry] :
             kept \in {k \in SUBSET Held(m) :
                          /\ Cardinality(k) = KeepCount
                          /\ \A a \in k, b \in Held(m) \ k :
                                m[a].fetchedAt >= m[b].fetchedAt}}

(* A row found on disk goes back into memory.                              *)
RehydrateNoEvict(slot, row) == {[memory EXCEPT ![slot] = row]}

Rehydrate(slot, row) == Evictions([memory EXCEPT ![slot] = row])

(* What get(...) may return, with the memory it leaves: an expired memory  *)
(* entry is popped, a row found on disk is rehydrated.                     *)
Get(slot, includeExpired) ==
    LET held   == memory[slot]
        popped == [memory EXCEPT ![slot] = NoEntry]
        row(ok) == IF ok THEN disk[slot] ELSE NoEntry
        read(ok) ==
            IF Usable(row(ok), includeExpired)
            THEN {[entry |-> row(ok), memory |-> m] :
                     m \in Rehydrate(slot, row(ok))}
            ELSE {[entry |-> NoEntry, memory |-> popped]}
    IN  IF Usable(held, includeExpired)
        THEN {[entry |-> held, memory |-> memory]}
        ELSE UNION {read(ok) : ok \in DiskOutcomes}

(* INSERT OR IGNORE in place of INSERT OR REPLACE.                         *)
SetIgnore(slot, entry) ==
    [memory : Evictions([memory EXCEPT ![slot] = entry]),
     disk   : {IF disk[slot] = NoEntry THEN [disk EXCEPT ![slot] = entry] ELSE disk}]

(* The pairs of layers set(...) may leave: the memory is always written,   *)
(* the SQLite row is best effort.                                          *)
Set(slot, entry) ==
    LET row(ok) == IF ok THEN [disk EXCEPT ![slot] = entry] ELSE disk
    IN  [memory : Evictions([memory EXCEPT ![slot] = entry]),
         disk   : {row(ok) : ok \in DiskOutcomes}]

(* prune_expired(): SQL compares with <, the memory filter with <=.  No    *)
(* production code calls it yet.                                           *)
Prune ==
    /\ \E ok \in DiskOutcomes :
          disk' = [s \in Slots |->
                      IF ok /\ disk[s] # NoEntry /\ disk[s].expiresAt < clock
                      THEN NoEntry ELSE disk[s]]
    /\ memory' = [s \in Slots |->
                      IF memory[s] # NoEntry /\ Expired(memory[s])
                      THEN NoEntry ELSE memory[s]]

(* clear(): wipes both layers; only tests call it.                         *)
Clear ==
    /\ memory' = Empty
    /\ \E ok \in DiskOutcomes : disk' = IF ok THEN Empty ELSE disk
=============================================================================
