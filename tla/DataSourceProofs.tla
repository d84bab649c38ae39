-------------------------- MODULE DataSourceProofs --------------------------
(***************************************************************************)
(* Proofs about the fetch loop and its cache, for any number of sources,   *)
(* keys and requests, any cap, any time limits, and with SQLite failing or *)
(* not: what the layers hold; the cap of the memory layer, what is never   *)
(* forgotten, and the health of a source; how long a fetch may take, and   *)
(* how far back in time a row may go; and that the loop over its two       *)
(* layers implements the log of upstream answers.                          *)
(***************************************************************************)
EXTENDS DataSourceRefinement, FiniteSetTheorems, TLAPS

(* Eviction drops entries and changes none (cache.py, _evict_if_needed).   *)
LEMMA EvictionsDrop ==
    ASSUME NEW m \in Layer, NEW left \in Evictions(m)
    PROVE  /\ left \in Layer
           /\ \A s \in Slots : left[s] = m[s] \/ left[s] = NoEntry
<1>1. CASE left = m
  BY <1>1
<1>2. CASE \E kept \in SUBSET Held(m) :
              left = [s \in Slots |-> IF s \in kept THEN m[s] ELSE NoEntry]
  BY <1>2 DEF Layer
<1> QED
  BY <1>1, <1>2 DEF Evictions

(* A read changes nothing but the memory dict, and what it returns or      *)
(* rehydrates was already in one of the two layers (cache.py, get).        *)
LEMMA GetReturns ==
    ASSUME CacheTypeOK, NEW slot \in Slots, NEW includeExpired \in BOOLEAN,
           NEW found \in Get(slot, includeExpired)
    PROVE  /\ found.memory \in Layer
           /\ found.entry \in {NoEntry, memory[slot], disk[slot]}
           /\ found.entry # NoEntry => Usable(found.entry, includeExpired)
           /\ \A s \in Slots : found.memory[s] \in {NoEntry, memory[s], disk[s]}
<1> DEFINE popped == [memory EXCEPT ![slot] = NoEntry]
<1>1. memory \in Layer /\ disk \in Layer
  BY DEF CacheTypeOK
<1>2. popped \in Layer /\ \A s \in Slots : popped[s] \in {NoEntry, memory[s]}
  BY <1>1 DEF Layer
<1>3. CASE found = [entry |-> memory[slot], memory |-> memory]
           /\ Usable(memory[slot], includeExpired)
  BY <1>1, <1>3
<1>4. CASE found = [entry |-> NoEntry, memory |-> popped]
  BY <1>2, <1>4
<1>5. ASSUME Usable(disk[slot], includeExpired),
             NEW m \in Rehydrate(slot, disk[slot]),
             found = [entry |-> disk[slot], memory |-> m]
      PROVE  /\ found.memory \in Layer
             /\ found.entry \in {NoEntry, memory[slot], disk[slot]}
             /\ found.entry # NoEntry => Usable(found.entry, includeExpired)
             /\ \A s \in Slots : found.memory[s] \in {NoEntry, memory[s], disk[s]}
  <2> DEFINE written == [memory EXCEPT ![slot] = disk[slot]]
  <2>1. written \in Layer /\ \A s \in Slots : written[s] \in {memory[s], disk[s]}
    BY <1>1 DEF Layer
  <2>2. m \in Layer /\ \A s \in Slots : m[s] = written[s] \/ m[s] = NoEntry
    <3>1. m \in Evictions(written)
      BY <1>5 DEF Rehydrate
    <3> QED
      BY <2>1, <3>1, EvictionsDrop
  <2> QED
    BY <1>5, <2>1, <2>2
<1>6. \/ <1>3!1
      \/ found = [entry |-> NoEntry, memory |-> popped]
      \/ /\ Usable(disk[slot], includeExpired)
         /\ \E m \in Rehydrate(slot, disk[slot]) :
               found = [entry |-> disk[slot], memory |-> m]
  <2>1. ~Usable(NoEntry, includeExpired)
    BY DEF Usable
  <2> QED
    BY <2>1 DEF Get
<1> QED
  BY <1>3, <1>4, <1>5, <1>6

(* A write puts the entry in memory unless eviction drops it at once, and  *)
(* on disk unless SQLite fails (cache.py, set).                            *)
LEMMA SetLeaves ==
    ASSUME CacheTypeOK, NEW slot \in Slots, NEW entry \in Entry,
           NEW after \in Set(slot, entry)
    PROVE  /\ after.memory \in Layer /\ after.disk \in Layer
           /\ \A s \in Slots : after.memory[s] \in
                 {NoEntry, [memory EXCEPT ![slot] = entry][s]}
           /\ \/ after.disk = [disk EXCEPT ![slot] = entry]
              \/ after.disk = disk /\ DiskOutcomes # {TRUE}
<1> DEFINE written == [memory EXCEPT ![slot] = entry]
<1>1. written \in Layer /\ [disk EXCEPT ![slot] = entry] \in Layer /\ disk \in Layer
  BY DEF CacheTypeOK, Layer
<1>2. /\ after.memory \in Evictions(written)
      /\ after.disk \in {[disk EXCEPT ![slot] = entry], disk}
      /\ after.disk = disk => \/ [disk EXCEPT ![slot] = entry] = disk
                             \/ DiskOutcomes # {TRUE}
  BY CacheAssumption DEF Set
<1>3. /\ after.memory \in Layer
      /\ \A s \in Slots : after.memory[s] = written[s] \/ after.memory[s] = NoEntry
  BY <1>1, <1>2, EvictionsDrop
<1> QED
  BY <1>1, <1>2, <1>3

-----------------------------------------------------------------------------
(* The first part of a slot, under which the route records a fetch, is a   *)
(* source.                                                                 *)
LEMMA SlotSource ==
    ASSUME NEW slot \in Slots
    PROVE  slot[1] \in Sources
BY DEF Slots

(* Sending an envelope of the right shape keeps the three variables it     *)
(* writes well typed.                                                      *)
LEMMA AnswerTypeOK ==
    ASSUME TypeOK, NEW r \in Requests, NEW slot \in Slots,
           NEW kind \in {"disabled", "hit", "stale", "fresh", "null"},
           NEW entry \in Entry \cup {NoEntry}, NEW failed \in 0 .. Attempts,
           Answer(r, slot, kind, entry, failed)
    PROVE  /\ req' \in [Requests -> Pending \cup {Idle}]
           /\ reply' \in Envelope \cup {None}
           /\ health' \in [Sources -> Health \cup {None}]
<1>1. req' \in [Requests -> Pending \cup {Idle}]
  BY DEF TypeOK, Answer
<1>2. reply' \in Envelope
  BY DEF TypeOK, CacheTypeOK, Answer, Envelope
<1>3. health' \in [Sources -> Health \cup {None}]
  <2>1. [at |-> clock, ok |-> entry # NoEntry] \in Health
    BY DEF TypeOK, CacheTypeOK, Health
  <2> QED
    BY <2>1 DEF TypeOK, Answer
<1> QED
  BY <1>1, <1>2, <1>3

(* An attempt is always one of the first Attempts.                         *)
LEMMA StartAttemptTypeOK ==
    ASSUME TypeOK, NEW r \in Requests, NEW slot \in Slots, NEW start \in Time,
           NEW n \in 1 .. Attempts, StartAttempt(r, slot, start, n)
    PROVE  /\ req' \in [Requests -> Pending \cup {Idle}]
           /\ reply' \in Envelope \cup {None}
           /\ health' \in [Sources -> Health \cup {None}]
<1>1. [at |-> "attempt", slot |-> slot, start |-> start, since |-> clock, attempt |-> n]
         \in Pending
  BY DEF Pending, TypeOK, CacheTypeOK
<1> QED
  BY <1>1 DEF TypeOK, StartAttempt

(* A coroutine that is not idle has all the fields of a pending fetch.     *)
LEMMA PendingRequest ==
    ASSUME TypeOK, NEW r \in Requests, req[r].at # "idle"
    PROVE  req[r] \in Pending
BY DEF TypeOK, Idle

(* There is at least one attempt: retry_count is no negative number.       *)
LEMMA AttemptsNat == Attempts \in Nat /\ Attempts >= 1
BY DataSourceAssumption DEF Attempts

(* Falling back is well typed, whichever way the fetch failed.             *)
LEMMA FallBackTypeOK ==
    ASSUME TypeOK, NEW r \in Requests, req[r].at # "idle",
           NEW failed \in 0 .. Attempts, FallBack(r, failed)
    PROVE  TypeOK'
<1> DEFINE slot == req[r].slot
<1>1. slot \in Slots
  BY PendingRequest DEF Pending
<1>2. CacheTypeOK /\ memory \in Layer /\ disk \in Layer
  BY DEF TypeOK, CacheTypeOK
<1>3. CASE \E found \in Get(slot, TRUE) :
              /\ memory' = found.memory
              /\ Answer(r, slot, IF found.entry # NoEntry THEN "stale" ELSE "null",
                        found.entry, failed)
  <2>1. PICK found \in Get(slot, TRUE) :
              /\ memory' = found.memory
              /\ Answer(r, slot, IF found.entry # NoEntry THEN "stale" ELSE "null",
                        found.entry, failed)
    BY <1>3
  <2>2. found.memory \in Layer /\ found.entry \in {NoEntry, memory[slot], disk[slot]}
    BY <1>1, <1>2, GetReturns
  <2>3. found.entry \in Entry \cup {NoEntry}
    BY <1>1, <1>2, <2>2 DEF Layer
  <2>4. /\ req' \in [Requests -> Pending \cup {Idle}]
        /\ reply' \in Envelope \cup {None}
        /\ health' \in [Sources -> Health \cup {None}]
    BY <1>1, <2>1, <2>3, AnswerTypeOK
  <2> QED
    BY <2>1, <2>2, <2>4 DEF FallBack, TypeOK, CacheTypeOK
<1>4. CASE Answer(r, slot, "null", NoEntry, failed) /\ UNCHANGED memory
  <2>1. /\ req' \in [Requests -> Pending \cup {Idle}]
        /\ reply' \in Envelope \cup {None}
        /\ health' \in [Sources -> Health \cup {None}]
    BY <1>1, <1>4, AnswerTypeOK
  <2> QED
    BY <1>4, <2>1 DEF FallBack, TypeOK, CacheTypeOK
<1> QED
  BY <1>3, <1>4 DEF FallBack

-----------------------------------------------------------------------------
(* The dates are in order and every entry counts its time to live from its *)
(* own fetched_at: the invariant the other theorems rest on.               *)
LEMMA InitFetchInv == Init => FetchInv
<1> SUFFICES ASSUME Init PROVE FetchInv
  OBVIOUS
<1>1. TypeOK
  BY CacheAssumption DEF Init, TypeOK, CacheTypeOK, Layer, Empty, Time, Idle
<1>2. EntriesHonest
  BY DEF Init, EntriesHonest, Empty, Honest
<1>3. PendingInOrder /\ FreshHitsWithinTTL
  BY DEF Init, PendingInOrder, FreshHitsWithinTTL, Idle
<1> QED
  BY <1>1, <1>2, <1>3 DEF FetchInv

(* What the cache may give back is honest, because the layers are.         *)
LEMMA GetHonest ==
    ASSUME FetchInv, NEW slot \in Slots, NEW includeExpired \in BOOLEAN,
           NEW found \in Get(slot, includeExpired)
    PROVE  /\ Honest(slot, found.entry)
           /\ \A s \in Slots : Honest(s, found.memory[s])
<1>1. /\ found.entry \in {NoEntry, memory[slot], disk[slot]}
      /\ \A s \in Slots : found.memory[s] \in {NoEntry, memory[s], disk[s]}
  BY GetReturns DEF FetchInv, TypeOK
<1>2. \A s \in Slots : Honest(s, NoEntry) /\ Honest(s, memory[s]) /\ Honest(s, disk[s])
  BY DEF FetchInv, EntriesHonest, Honest
<1> QED
  BY <1>1, <1>2

(* Starting an attempt at the present instant keeps the dates in order.    *)
LEMMA StartAttemptInOrder ==
    ASSUME FetchInv, NEW r \in Requests, NEW slot \in Slots, NEW start \in Time,
           start <= clock, NEW n \in 1 .. Attempts, StartAttempt(r, slot, start, n),
           clock' = clock
    PROVE  PendingInOrder' /\ FreshHitsWithinTTL'
<1>1. clock \in Time /\ Time \subseteq Int
  BY DEF FetchInv, TypeOK, CacheTypeOK, Time
<1>2. PendingInOrder'
  <2> SUFFICES ASSUME NEW q \in Requests, req'[q].at # "idle"
               PROVE  /\ req'[q].start <= req'[q].since /\ req'[q].since <= clock'
                      /\ req'[q].at = "backoff" => req'[q].attempt < Attempts
    BY DEF PendingInOrder
  <2>1. CASE q = r
    BY <1>1, <2>1 DEF StartAttempt, FetchInv, TypeOK
  <2>2. CASE q # r
    BY <2>2 DEF StartAttempt, FetchInv, TypeOK, PendingInOrder
  <2> QED
    BY <2>1, <2>2
<1>3. FreshHitsWithinTTL'
  BY DEF StartAttempt, FetchInv, FreshHitsWithinTTL
<1> QED
  BY <1>2, <1>3

(* Ending a request disturbs no other.                                     *)
LEMMA AnswerInOrder ==
    ASSUME FetchInv, NEW r \in Requests, NEW slot \in Slots, NEW kind, NEW entry,
           NEW failed, Answer(r, slot, kind, entry, failed), clock' = clock,
           kind = "hit" => entry \in Entry /\ Honest(slot, entry) /\ ~Expired(entry)
    PROVE  PendingInOrder' /\ FreshHitsWithinTTL'
<1>1. PendingInOrder'
  <2> SUFFICES ASSUME NEW q \in Requests, req'[q].at # "idle"
               PROVE  /\ req'[q].start <= req'[q].since /\ req'[q].since <= clock'
                      /\ req'[q].at = "backoff" => req'[q].attempt < Attempts
    BY DEF PendingInOrder
  <2>1. q # r
    BY DEF Answer, FetchInv, TypeOK, Idle
  <2> QED
    BY <2>1 DEF Answer, FetchInv, TypeOK, PendingInOrder
<1>2. FreshHitsWithinTTL'
  <2> SUFFICES ASSUME kind = "hit"
               PROVE  entry.readAt <= clock /\ clock < entry.readAt + TTL[slot[1]]
    BY DEF Answer, FreshHitsWithinTTL
  <2>1. /\ entry \in Entry /\ clock \in Int /\ TTL[slot[1]] \in Int
        /\ entry # NoEntry
    BY SlotSource, CacheAssumption, NoEntryAssumption
       DEF FetchInv, TypeOK, CacheTypeOK, Time
  <2>2. /\ entry.readAt \in Int /\ entry.fetchedAt \in Int /\ entry.expiresAt \in Int
    BY <2>1 DEF Entry, Time
  <2> QED
    BY <2>1, <2>2 DEF Honest, Expired
<1> QED
  BY <1>1, <1>2

-----------------------------------------------------------------------------
(* fetch, up to its first await.                                           *)
LEMMA BeginInv ==
    ASSUME FetchInv, NEW r \in Requests, NEW slot \in Slots, Begin(r, slot)
    PROVE  FetchInv'
<1>1. /\ clock \in Time /\ clock <= clock /\ 1 \in 1 .. Attempts /\ 0 \in 0 .. Attempts
      /\ TypeOK /\ CacheTypeOK /\ memory \in Layer /\ disk \in Layer
  BY AttemptsNat DEF FetchInv, TypeOK, CacheTypeOK, Time
<1>2. clock' = clock /\ disk' = disk /\ config' = config /\ learnt' = learnt
  BY DEF Begin
<1>3. CASE BeginDisabled(r, slot)
  <2>1. /\ req' \in [Requests -> Pending \cup {Idle}]
        /\ reply' \in Envelope \cup {None}
        /\ health' \in [Sources -> Health \cup {None}]
    BY <1>1, <1>3, AnswerTypeOK DEF BeginDisabled
  <2>2. PendingInOrder' /\ FreshHitsWithinTTL'
    BY <1>2, <1>3, AnswerInOrder DEF BeginDisabled
  <2> QED
    BY <1>1, <1>2, <1>3, <2>1, <2>2
       DEF BeginDisabled, FetchInv, TypeOK, CacheTypeOK, EntriesHonest, Honest
<1>4. CASE BeginUncached(r, slot)
  <2>1. /\ req' \in [Requests -> Pending \cup {Idle}]
        /\ reply' \in Envelope \cup {None}
        /\ health' \in [Sources -> Health \cup {None}]
    BY <1>1, <1>4, StartAttemptTypeOK DEF BeginUncached
  <2>2. PendingInOrder' /\ FreshHitsWithinTTL'
    BY <1>1, <1>2, <1>4, StartAttemptInOrder DEF BeginUncached
  <2> QED
    BY <1>1, <1>2, <1>4, <2>1, <2>2
       DEF BeginUncached, FetchInv, TypeOK, CacheTypeOK, EntriesHonest, Honest
<1>5. CASE BeginCached(r, slot)
  <2>1. PICK found \in Get(slot, FALSE) :
          /\ memory' = found.memory
          /\ IF found.entry # NoEntry
             THEN Answer(r, slot, "hit", found.entry, 0)
             ELSE StartAttempt(r, slot, clock, 1)
    BY <1>5 DEF BeginCached
  <2>2. /\ found.memory \in Layer
        /\ found.entry \in {NoEntry, memory[slot], disk[slot]}
        /\ found.entry # NoEntry => ~Expired(found.entry)
    <3>1. found.entry # NoEntry => Usable(found.entry, FALSE)
      BY <1>1, GetReturns
    <3> QED
      BY <1>1, <3>1, GetReturns DEF Usable
  <2>3. Honest(slot, found.entry) /\ \A s \in Slots : Honest(s, found.memory[s])
    BY GetHonest
  <2>4. found.entry \in Entry \cup {NoEntry}
    BY <1>1, <2>2 DEF Layer
  <2>5. /\ req' \in [Requests -> Pending \cup {Idle}]
        /\ reply' \in Envelope \cup {None}
        /\ health' \in [Sources -> Health \cup {None}]
    BY <1>1, <2>1, <2>4, AnswerTypeOK, StartAttemptTypeOK
  <2>6. PendingInOrder' /\ FreshHitsWithinTTL'
    <3>1. CASE found.entry # NoEntry
      <4>1. Answer(r, slot, "hit", found.entry, 0)
        BY <2>1, <3>1
      <4> QED
        BY <1>2, <2>2, <2>3, <2>4, <3>1, <4>1, AnswerInOrder
    <3>2. CASE found.entry = NoEntry
      BY <1>1, <1>2, <2>1, <3>2, StartAttemptInOrder
    <3> QED
      BY <3>1, <3>2
  <2>7. EntriesHonest'
    BY <1>2, <2>1, <2>3 DEF FetchInv, EntriesHonest, Honest
  <2> QED
    BY <1>1, <1>2, <2>1, <2>2, <2>5, <2>6, <2>7 DEF FetchInv, TypeOK, CacheTypeOK
<1> QED
  BY <1>3, <1>4, <1>5 DEF Begin

(* A fetch that ends with data stores an honest entry.                     *)
LEMMA SucceedInv ==
    ASSUME FetchInv, NEW r \in Requests, NEW readAt \in Time, Succeed(r, readAt)
    PROVE  FetchInv'
<1> DEFINE q == req[r]
           slot == q.slot
           entry == EntryOf(q, readAt)
<1>1. /\ clock \in Time /\ Time \subseteq Int /\ TypeOK /\ CacheTypeOK
      /\ memory \in Layer /\ disk \in Layer
  BY DEF FetchInv, TypeOK, CacheTypeOK, Time
<1>2. /\ q \in Pending /\ slot \in Slots /\ q.start \in Time /\ q.since \in Time
      /\ q.attempt \in 1 .. Attempts
  BY <1>1, PendingRequest DEF Succeed, Pending
<1>3. clock' = clock /\ config' = config /\ q.since <= readAt /\ readAt <= clock
      /\ q.start <= q.since
  BY <1>1, <1>2 DEF Succeed, FetchInv, PendingInOrder
<1>4. TTL[slot[1]] \in Nat
  BY <1>2, SlotSource, CacheAssumption
<1>5. entry \in Entry /\ Honest(slot, entry)
  <2>1. q.start \in Int /\ q.start + TTL[slot[1]] \in Int
    BY <1>2, <1>4, CacheAssumption DEF Time
  <2>2. entry \in Entry
    BY <1>2, <2>1 DEF EntryOf, Entry
  <2>3. /\ entry.fetchedAt = q.start /\ entry.readAt = readAt
        /\ entry.expiresAt = q.start + TTL[slot[1]]
    BY DEF EntryOf
  <2>4. q.start <= readAt
    BY <1>2, <1>3, CacheAssumption DEF Time
  <2> HIDE DEF entry, slot, q
  <2> QED
    BY <1>3, <2>2, <2>3, <2>4 DEF Honest
<1>6. Answer(r, slot, "fresh", entry, q.attempt - 1) /\ q.attempt - 1 \in 0 .. Attempts
  BY <1>2, AttemptsNat DEF Succeed
<1>7. /\ req' \in [Requests -> Pending \cup {Idle}]
      /\ reply' \in Envelope \cup {None}
      /\ health' \in [Sources -> Health \cup {None}]
  BY <1>1, <1>2, <1>5, <1>6, AnswerTypeOK
<1>8. PendingInOrder' /\ FreshHitsWithinTTL'
  BY <1>2, <1>3, <1>6, AnswerInOrder
<1>9. memory' \in Layer /\ disk' \in Layer /\ EntriesHonest'
  <2>1. CASE config.cache
    <3>1. PICK after \in Set(slot, entry) : memory' = after.memory /\ disk' = after.disk
      BY <2>1 DEF Succeed
    <3>2. /\ after.memory \in Layer /\ after.disk \in Layer
          /\ \A s \in Slots : after.memory[s] \in
                {NoEntry, [memory EXCEPT ![slot] = entry][s]}
          /\ after.disk \in {[disk EXCEPT ![slot] = entry], disk}
      <4> HIDE DEF entry, slot, q
      <4>1. CacheTypeOK /\ slot \in Slots /\ entry \in Entry /\ after \in Set(slot, entry)
        BY <1>1, <1>2, <1>5, <3>1
      <4>2. /\ after.memory \in Layer /\ after.disk \in Layer
            /\ \A s \in Slots : after.memory[s] \in
                  {NoEntry, [memory EXCEPT ![slot] = entry][s]}
            /\ \/ after.disk = [disk EXCEPT ![slot] = entry]
               \/ after.disk = disk /\ DiskOutcomes # {TRUE}
        BY <4>1, SetLeaves
      <4> QED
        BY <4>2
    <3>3. \A s \in Slots : Honest(s, NoEntry)
                            /\ Honest(s, [memory EXCEPT ![slot] = entry][s])
                            /\ Honest(s, [disk EXCEPT ![slot] = entry][s])
                            /\ Honest(s, disk[s])
      BY <1>1, <1>5 DEF FetchInv, EntriesHonest, Honest, Layer
    <3>4. \A s \in Slots : Honest(s, after.memory[s]) /\ Honest(s, after.disk[s])
      BY <3>2, <3>3
    <3> QED
      BY <1>3, <3>1, <3>2, <3>4 DEF EntriesHonest, Honest
  <2>2. CASE ~config.cache
    BY <1>1, <1>3, <2>2 DEF Succeed, FetchInv, EntriesHonest, Honest
  <2> QED
    BY <2>1, <2>2
<1>10. learnt' \subseteq Slots
  BY <1>1, <1>2 DEF Succeed, TypeOK
<1> QED
  BY <1>1, <1>3, <1>7, <1>8, <1>9, <1>10 DEF FetchInv, TypeOK, CacheTypeOK

(* A fetch that ends without data serves what the cache holds, or nothing. *)
LEMMA FallBackInv ==
    ASSUME FetchInv, NEW r \in Requests, req[r].at # "idle",
           NEW failed \in 0 .. Attempts, FallBack(r, failed)
    PROVE  FetchInv'
<1> DEFINE slot == req[r].slot
<1>1. TypeOK /\ slot \in Slots
  BY PendingRequest DEF FetchInv, Pending
<1>2. TypeOK'
  BY <1>1, FallBackTypeOK
<1>3. clock' = clock /\ disk' = disk
  BY DEF FallBack
<1>4. CASE \E found \in Get(slot, TRUE) :
              /\ memory' = found.memory
              /\ Answer(r, slot, IF found.entry # NoEntry THEN "stale" ELSE "null",
                        found.entry, failed)
  <2>1. PICK found \in Get(slot, TRUE) :
              /\ memory' = found.memory
              /\ Answer(r, slot, IF found.entry # NoEntry THEN "stale" ELSE "null",
                        found.entry, failed)
    BY <1>4
  <2>2. EntriesHonest'
    <3>1. \A s \in Slots : Honest(s, found.memory[s])
      BY <1>1, GetHonest
    <3> QED
      BY <1>3, <2>1, <3>1 DEF FetchInv, EntriesHonest, Honest
  <2>3. PendingInOrder' /\ FreshHitsWithinTTL'
    <3> DEFINE kind == IF found.entry # NoEntry THEN "stale" ELSE "null"
    <3>1. kind # "hit" /\ Answer(r, slot, kind, found.entry, failed)
      BY <2>1
    <3> HIDE DEF kind
    <3> QED
      BY <1>1, <1>3, <3>1, AnswerInOrder
  <2> QED
    BY <1>2, <2>2, <2>3 DEF FetchInv
<1>5. CASE Answer(r, slot, "null", NoEntry, failed) /\ UNCHANGED memory
  <2>1. EntriesHonest'
    BY <1>3, <1>5 DEF FetchInv, EntriesHonest, Honest
  <2>2. PendingInOrder' /\ FreshHitsWithinTTL'
    BY <1>1, <1>3, <1>5, AnswerInOrder
  <2> QED
    BY <1>2, <2>1, <2>2 DEF FetchInv
<1> QED
  BY <1>4, <1>5 DEF FallBack

(* One attempt has failed: back off if one is left, fall back if not.      *)
LEMMA AttemptFailsInv ==
    ASSUME FetchInv, NEW r \in Requests, AttemptFails(r)
    PROVE  FetchInv'
<1>1. /\ TypeOK /\ clock \in Time /\ req[r].at = "attempt" /\ req[r] \in Pending
      /\ req[r].attempt \in 1 .. Attempts /\ req[r].start \in Time /\ req[r].since \in Time
      /\ req[r].start <= req[r].since /\ req[r].since <= clock
  BY PendingRequest
     DEF AttemptFails, FetchInv, TypeOK, CacheTypeOK, Pending, PendingInOrder
<1>2. CASE req[r].attempt < Attempts
  <2>1. /\ req' = [req EXCEPT ![r].at = "backoff", ![r].since = clock]
        /\ UNCHANGED <<clock, memory, disk, config, reply, learnt, health>>
    BY <1>2 DEF AttemptFails
  <2>2. /\ req'[r] = [req[r] EXCEPT !.at = "backoff", !.since = clock]
        /\ \A q \in Requests : q # r => req'[q] = req[q]
        /\ req' = [req EXCEPT ![r] = [req[r] EXCEPT !.at = "backoff", !.since = clock]]
    BY <1>1, <2>1 DEF TypeOK
  <2>3. [req[r] EXCEPT !.at = "backoff", !.since = clock] \in Pending
    BY <1>1 DEF Pending
  <2>4. req' \in [Requests -> Pending \cup {Idle}]
    BY <1>1, <2>2, <2>3 DEF TypeOK
  <2>5. /\ req'[r].at = "backoff" /\ req'[r].since = clock
        /\ req'[r].start = req[r].start /\ req'[r].attempt = req[r].attempt
    BY <1>1, <2>2 DEF Pending
  <2>6. req'[r].start <= req'[r].since /\ req'[r].since <= clock
    BY <1>1, <2>5, CacheAssumption DEF Time
  <2>7. PendingInOrder'
    <3> SUFFICES ASSUME NEW q \in Requests, req'[q].at # "idle"
                 PROVE  /\ req'[q].start <= req'[q].since /\ req'[q].since <= clock'
                        /\ req'[q].at = "backoff" => req'[q].attempt < Attempts
      BY DEF PendingInOrder
    <3>1. CASE q = r
      BY <1>2, <2>1, <2>5, <2>6, <3>1
    <3>2. CASE q # r
      BY <2>1, <2>2, <3>2 DEF FetchInv, PendingInOrder
    <3> QED
      BY <3>1, <3>2
  <2> QED
    BY <2>1, <2>4, <2>7
       DEF FetchInv, TypeOK, CacheTypeOK, EntriesHonest, Honest, FreshHitsWithinTTL
<1>3. CASE ~(req[r].attempt < Attempts)
  BY <1>1, <1>3, FallBackInv DEF AttemptFails
<1> QED
  BY <1>2, <1>3

(* _do_fetch returning None only leads to the fallback.                    *)
LEMMA NoDataInv ==
    ASSUME FetchInv, NEW r \in Requests, NoData(r)
    PROVE  FetchInv'
<1>1. req[r] \in Pending /\ req[r].at = "attempt"
  BY PendingRequest DEF NoData, FetchInv
<1>2. req[r].attempt - 1 \in 0 .. Attempts
  BY <1>1, AttemptsNat DEF Pending
<1> QED
  BY <1>1, <1>2, FallBackInv DEF NoData

(* The attempt after a back-off is one the fetch is still entitled to.     *)
LEMMA RetryInv ==
    ASSUME FetchInv, NEW r \in Requests, Retry(r)
    PROVE  FetchInv'
<1>1. /\ TypeOK /\ clock \in Time /\ req[r].at = "backoff" /\ req[r] \in Pending
      /\ req[r].attempt < Attempts
      /\ req[r].start <= req[r].since /\ req[r].since <= clock
  BY PendingRequest DEF Retry, FetchInv, TypeOK, CacheTypeOK, PendingInOrder
<1>2. /\ req[r].slot \in Slots /\ req[r].start \in Time
      /\ req[r].attempt + 1 \in 1 .. Attempts
  BY <1>1, AttemptsNat DEF Pending
<1>3. req[r].start <= clock
  BY <1>1, CacheAssumption DEF Pending, Time
<1>4. /\ StartAttempt(r, req[r].slot, req[r].start, req[r].attempt + 1)
      /\ UNCHANGED <<clock, memory, disk, config, learnt>>
  BY DEF Retry
<1>5. /\ req' \in [Requests -> Pending \cup {Idle}]
      /\ reply' \in Envelope \cup {None}
      /\ health' \in [Sources -> Health \cup {None}]
  BY <1>1, <1>2, <1>4, StartAttemptTypeOK
<1>6. PendingInOrder' /\ FreshHitsWithinTTL'
  BY <1>2, <1>3, <1>4, StartAttemptInOrder
<1> QED
  BY <1>4, <1>5, <1>6 DEF FetchInv, TypeOK, CacheTypeOK, EntriesHonest, Honest

(* Time makes no entry dishonest and puts no pending fetch out of order.   *)
LEMMA TickInv ==
    ASSUME FetchInv, Tick
    PROVE  FetchInv'
<1>1. clock \in Int /\ clock' \in Int /\ clock' \in Time /\ clock <= clock'
  BY CacheAssumption DEF Tick, FetchInv, TypeOK, CacheTypeOK, Time
<1>2. TypeOK'
  BY <1>1 DEF Tick, FetchInv, TypeOK, CacheTypeOK
<1>3. EntriesHonest'
  <2>1. ASSUME NEW s \in Slots, NEW e \in Entry \cup {NoEntry}, Honest(s, e)
        PROVE  Honest(s, e)'
    BY <1>1, <2>1, CacheAssumption DEF Honest, Entry, Time
  <2> QED
    BY <2>1 DEF Tick, FetchInv, TypeOK, CacheTypeOK, Layer, EntriesHonest, Honest
<1>4. PendingInOrder'
  <2> SUFFICES ASSUME NEW r \in Requests, req'[r].at # "idle"
               PROVE  /\ req'[r].start <= req'[r].since /\ req'[r].since <= clock'
                      /\ req'[r].at = "backoff" => req'[r].attempt < Attempts
    BY DEF PendingInOrder
  <2>1. req' = req /\ req[r] \in Pending
    BY PendingRequest DEF Tick, FetchInv
  <2>2. req[r].since \in Int
    BY <2>1, CacheAssumption DEF Pending, Time
  <2> QED
    <3>1. /\ req[r].start <= req[r].since /\ req[r].since <= clock
          /\ req[r].at = "backoff" => req[r].attempt < Attempts
      BY <2>1 DEF FetchInv, PendingInOrder
    <3>2. req[r].since <= clock'
      BY <1>1, <2>2, <3>1
    <3> QED
      BY <2>1, <3>1, <3>2
<1>5. FreshHitsWithinTTL'
  BY DEF Tick, FetchInv, FreshHitsWithinTTL
<1> QED
  BY <1>2, <1>3, <1>4, <1>5 DEF FetchInv

(* A start of the service keeps the rows on disk, which are honest.        *)
LEMMA RestartInv ==
    ASSUME FetchInv, Restart
    PROVE  FetchInv'
<1>1. Empty \in Layer /\ \A s \in Slots : Empty[s] = NoEntry
  BY DEF Empty, Layer
<1>2. TypeOK'
  BY <1>1 DEF Restart, FetchInv, TypeOK, CacheTypeOK
<1>3. EntriesHonest'
  BY <1>1 DEF Restart, FetchInv, EntriesHonest, Honest
<1>4. PendingInOrder' /\ FreshHitsWithinTTL'
  BY DEF Restart, FetchInv, PendingInOrder, FreshHitsWithinTTL, Idle
<1> QED
  BY <1>2, <1>3, <1>4 DEF FetchInv

(* prune_expired and clear only remove entries.                            *)
LEMMA HouseKeepInv ==
    ASSUME FetchInv, HouseKeep
    PROVE  FetchInv'
<1>1. /\ memory' \in Layer /\ disk' \in Layer
      /\ \A s \in Slots : /\ memory'[s] \in {NoEntry, memory[s]}
                          /\ disk'[s] \in {NoEntry, disk[s]}
  <2>1. memory \in Layer /\ disk \in Layer
    BY DEF FetchInv, TypeOK, CacheTypeOK
  <2>2. CASE Prune
    BY <2>1, <2>2 DEF Prune, Layer
  <2>3. CASE Clear
    BY <2>1, <2>3 DEF Clear, Layer, Empty
  <2> QED
    BY <2>2, <2>3 DEF HouseKeep
<1>2. TypeOK'
  BY <1>1 DEF HouseKeep, FetchInv, TypeOK, CacheTypeOK
<1>3. EntriesHonest'
  BY <1>1 DEF HouseKeep, FetchInv, EntriesHonest, Honest
<1>4. PendingInOrder' /\ FreshHitsWithinTTL'
  BY DEF HouseKeep, FetchInv, PendingInOrder, FreshHitsWithinTTL
<1> QED
  BY <1>2, <1>3, <1>4 DEF FetchInv

(* FetchInv is inductive: one step per action of the fetch loop.           *)
THEOREM FetchInvariant == Spec => []FetchInv
<1>1. FetchInv /\ [Next]_vars => FetchInv'
  <2> SUFFICES ASSUME FetchInv, [Next]_vars PROVE FetchInv'
    OBVIOUS
  <2>1. ASSUME NEW r \in Requests, NEW slot \in Slots, Begin(r, slot) PROVE FetchInv'
    BY <2>1, BeginInv
  <2>2. ASSUME NEW r \in Requests, Step(r) PROVE FetchInv'
    BY <2>2, SucceedInv, NoDataInv, AttemptFailsInv, RetryInv DEF Step, Raise, TimeOut
  <2>3. CASE Tick
    BY <2>3, TickInv
  <2>4. CASE Restart
    BY <2>4, RestartInv
  <2>5. CASE HouseKeep
    BY <2>5, HouseKeepInv
  <2>6. CASE UNCHANGED vars
    BY <2>6 DEF vars, FetchInv, TypeOK, CacheTypeOK, EntriesHonest, Honest,
                PendingInOrder, FreshHitsWithinTTL
  <2> QED
    BY <2>1, <2>2, <2>3, <2>4, <2>5, <2>6 DEF Next
<1> QED
  BY <1>1, InitFetchInv, PTL DEF Spec

(* Types, for every number of sources, keys, requests and attempts: in     *)
(* particular no fetch makes an attempt too many.                          *)
THEOREM TypeCorrect == Spec => []TypeOK
<1>1. FetchInv => TypeOK
  BY DEF FetchInv
<1> QED
  BY <1>1, FetchInvariant, PTL

(* A cache hit served without a warning never carries data older than the  *)
(* source's time to live (base.py, fetch; cache.py, get and set).          *)
THEOREM HitsAreFresh == Spec => []FreshHitsWithinTTL
<1>1. FetchInv => FreshHitsWithinTTL
  BY DEF FetchInv
<1> QED
  BY <1>1, FetchInvariant, PTL

-----------------------------------------------------------------------------
(* A read leaves the layers in agreement: it drops memory entries or       *)
(* copies the row on disk.                                                 *)
LEMMA GetAgrees ==
    ASSUME CacheTypeOK, LayersAgree, NEW slot \in Slots,
           NEW includeExpired \in BOOLEAN, NEW found \in Get(slot, includeExpired),
           memory' = found.memory, disk' = disk
    PROVE  LayersAgree'
<1>1. \A s \in Slots : found.memory[s] \in {NoEntry, memory[s], disk[s]}
  BY GetReturns
<1> QED
  BY <1>1 DEF LayersAgree

(* While SQLite works, set writes one entry to both layers.                *)
LEMMA SucceedAgrees ==
    ASSUME TypeOK, LayersAgree, NEW r \in Requests, NEW readAt \in Time,
           EntryOf(req[r], readAt) \in Entry, Succeed(r, readAt)
    PROVE  LayersAgree'
<1> DEFINE slot == req[r].slot
           entry == EntryOf(req[r], readAt)
<1>1. CASE config.cache
  <2>1. slot \in Slots /\ CacheTypeOK
    BY PendingRequest DEF Succeed, Pending, TypeOK
  <2>2. PICK after \in Set(slot, entry) : memory' = after.memory /\ disk' = after.disk
    BY <1>1 DEF Succeed
  <2> HIDE DEF slot, entry
  <2>3. /\ \A s \in Slots : after.memory[s] \in
              {NoEntry, [memory EXCEPT ![slot] = entry][s]}
        /\ \/ after.disk = [disk EXCEPT ![slot] = entry]
           \/ after.disk = disk /\ DiskOutcomes # {TRUE}
    <3>1. entry \in Entry /\ after \in Set(slot, entry)
      BY <2>2 DEF entry
    <3> QED
      BY <2>1, <3>1, SetLeaves
  <2>4. memory \in [Slots -> Entry \cup {NoEntry}] /\ disk \in [Slots -> Entry \cup {NoEntry}]
    BY DEF TypeOK, CacheTypeOK, Layer
  <2> QED
    BY <2>2, <2>3, <2>4 DEF LayersAgree
<1>2. CASE ~config.cache
  BY <1>2 DEF Succeed, LayersAgree
<1> QED
  BY <1>1, <1>2

(* The fallback writes nothing but the memory, from the row on disk.       *)
LEMMA FallBackAgrees ==
    ASSUME TypeOK, LayersAgree, NEW r \in Requests, req[r].at # "idle", NEW failed,
           FallBack(r, failed)
    PROVE  LayersAgree'
<1>1. req[r].slot \in Slots /\ CacheTypeOK /\ disk' = disk
  BY PendingRequest DEF Pending, TypeOK, FallBack
<1>2. CASE \E found \in Get(req[r].slot, TRUE) : memory' = found.memory
  BY <1>1, <1>2, GetAgrees
<1>3. CASE UNCHANGED memory
  BY <1>1, <1>3 DEF LayersAgree
<1> QED
  BY <1>2, <1>3 DEF FallBack

(* Housekeeping never removes a row whose copy in memory it keeps: what is *)
(* expired for SQL (<) is expired for the memory filter (<=) too.          *)
LEMMA HouseKeepAgrees ==
    ASSUME TypeOK, LayersAgree, HouseKeep
    PROVE  LayersAgree'
<1>1. clock \in Int /\ memory \in Layer /\ disk \in Layer
  BY CacheAssumption DEF TypeOK, CacheTypeOK, Time
<1>2. CASE Prune
  <2> SUFFICES ASSUME DiskOutcomes = {TRUE}, NEW s \in Slots, memory'[s] # NoEntry
               PROVE  memory'[s] = disk'[s]
    BY DEF LayersAgree
  <2>1. memory'[s] = memory[s] /\ ~Expired(memory[s]) /\ memory[s] \in Entry
    BY <1>1, <1>2 DEF Prune, Layer
  <2>2. memory[s] = disk[s]
    BY <2>1, NoEntryAssumption DEF LayersAgree
  <2>3. disk[s].expiresAt \in Int /\ ~(disk[s].expiresAt < clock)
    BY <1>1, <2>1, <2>2 DEF Expired, Entry
  <2>4. disk'[s] = disk[s]
    BY <1>2, <2>3 DEF Prune
  <2> QED
    BY <2>1, <2>2, <2>4
<1>3. CASE Clear
  BY <1>3 DEF Clear, Empty, LayersAgree
<1> QED
  BY <1>2, <1>3 DEF HouseKeep

(* While SQLite works, memory never disagrees with the row on disk, so an  *)
(* answer does not depend on the layer it comes from (cache.py).           *)
THEOREM MemoryMirrorsDisk == Spec => []LayersAgree
<1>1. Init => LayersAgree
  BY DEF Init, LayersAgree, Empty
<1>2. FetchInv /\ LayersAgree /\ [Next]_vars => LayersAgree'
  <2> SUFFICES ASSUME FetchInv, LayersAgree, [Next]_vars PROVE LayersAgree'
    OBVIOUS
  <2>1. TypeOK /\ CacheTypeOK
    BY DEF FetchInv, TypeOK
  <2>2. ASSUME NEW r \in Requests, NEW slot \in Slots, Begin(r, slot) PROVE LayersAgree'
    <3>1. disk' = disk
      BY <2>2 DEF Begin
    <3>2. CASE UNCHANGED memory
      BY <3>1, <3>2 DEF LayersAgree
    <3>3. CASE \E found \in Get(slot, FALSE) : memory' = found.memory
      BY <2>1, <3>1, <3>3, GetAgrees
    <3> QED
      BY <2>2, <3>2, <3>3 DEF Begin, BeginDisabled, BeginCached, BeginUncached
  <2>3. ASSUME NEW r \in Requests, NEW t \in Time, Succeed(r, t) PROVE LayersAgree'
    <3>1. req[r] \in Pending
      BY <2>1, <2>3, PendingRequest DEF Succeed
    <3>2. req[r].start \in Time /\ TTL[req[r].slot[1]] \in Nat
      BY <3>1, SlotSource, CacheAssumption DEF Pending
    <3>3. req[r].start + TTL[req[r].slot[1]] \in Int
      BY <3>2, CacheAssumption DEF Time
    <3>4. EntryOf(req[r], t) \in Entry
      BY <3>2, <3>3 DEF EntryOf, Entry
    <3> QED
      BY <2>1, <2>3, <3>4, SucceedAgrees
  <2>4. ASSUME NEW r \in Requests, NoData(r) PROVE LayersAgree'
    BY <2>1, <2>4, FallBackAgrees DEF NoData
  <2>5. ASSUME NEW r \in Requests, AttemptFails(r) PROVE LayersAgree'
    <3>1. CASE UNCHANGED <<memory, disk>>
      BY <3>1 DEF LayersAgree
    <3>2. CASE FallBack(r, req[r].attempt)
      BY <2>1, <2>5, <3>2, FallBackAgrees DEF AttemptFails
    <3> QED
      BY <2>5, <3>1, <3>2 DEF AttemptFails
  <2>6. ASSUME NEW r \in Requests, Retry(r) PROVE LayersAgree'
    BY <2>6 DEF Retry, LayersAgree
  <2>7. CASE Tick
    BY <2>7 DEF Tick, LayersAgree
  <2>8. CASE Restart
    BY <2>8 DEF Restart, Empty, LayersAgree
  <2>9. CASE HouseKeep
    BY <2>1, <2>9, HouseKeepAgrees
  <2>10. CASE UNCHANGED vars
    BY <2>10 DEF vars, LayersAgree
  <2> QED
    BY <2>2, <2>3, <2>4, <2>5, <2>6, <2>7, <2>8, <2>9, <2>10
       DEF Next, Step, Raise, TimeOut
<1> QED
  BY <1>1, <1>2, FetchInvariant, PTL DEF Spec

-----------------------------------------------------------------------------
(* The cap, what is never forgotten, and the health of a source.           *)

(* There are finitely many slots.                                          *)
LEMMA SlotsFinite == IsFiniteSet(Slots)
BY FS_Product, CacheAssumption DEF Slots

(* A layer with no more slots than another holds no more entries.          *)
LEMMA FewerHeld ==
    ASSUME NEW m, NEW n, Held(n) \subseteq Held(m)
    PROVE  /\ Cardinality(Held(n)) \in Nat /\ Cardinality(Held(m)) \in Nat
           /\ Cardinality(Held(n)) <= Cardinality(Held(m))
<1>1. IsFiniteSet(Held(m)) /\ IsFiniteSet(Held(n))
  BY SlotsFinite, FS_Subset DEF Held
<1> QED
  BY <1>1, FS_Subset, FS_CardinalityType

Cap == IF MemoryMax = 0 THEN 1 ELSE MemoryMax

(* Whatever eviction starts from, what it leaves respects the cap          *)
(* (cache.py, _evict_if_needed).                                           *)
LEMMA EvictionsWithinCap ==
    ASSUME NEW m \in Layer, NEW left \in Evictions(m)
    PROVE  Cardinality(Held(left)) <= Cap
<1>1. MemoryMax \in Nat
  BY CacheAssumption
<1>2. CASE Cardinality(Held(m)) <= MemoryMax
  <2>1. left = m /\ Cardinality(Held(m)) \in Nat
    BY <1>2, FewerHeld DEF Evictions
  <2> QED
    BY <1>1, <1>2, <2>1 DEF Cap
<1>3. CASE ~(Cardinality(Held(m)) <= MemoryMax)
  <2>1. PICK kept \in SUBSET Held(m) :
           /\ Cardinality(kept) = KeepCount
           /\ left = [s \in Slots |-> IF s \in kept THEN m[s] ELSE NoEntry]
    BY <1>3 DEF Evictions
  <2>2. Held(left) = kept
    BY <2>1 DEF Held
  <2>3. KeepCount <= Cap
    BY <1>1 DEF KeepCount, Cap
  <2> QED
    BY <2>1, <2>2, <2>3
<1> QED
  BY <1>2, <1>3

(* A read pops an expired entry, or rehydrates one and evicts.             *)
LEMMA GetWithinCap ==
    ASSUME CacheTypeOK, MemoryWithinCap, NEW slot \in Slots,
           NEW includeExpired \in BOOLEAN, NEW found \in Get(slot, includeExpired)
    PROVE  Cardinality(Held(found.memory)) <= Cap
<1> DEFINE popped == [memory EXCEPT ![slot] = NoEntry]
           written == [memory EXCEPT ![slot] = disk[slot]]
<1>1. memory \in Layer /\ disk \in Layer /\ written \in Layer /\ MemoryMax \in Nat
  BY CacheAssumption DEF CacheTypeOK, Layer
<1>2. Cardinality(Held(memory)) <= Cap /\ Cap \in Nat
  BY <1>1 DEF MemoryWithinCap, Cap
<1>3. Cardinality(Held(popped)) <= Cap
  <2>1. Held(popped) \subseteq Held(memory)
    BY <1>1 DEF Held, Layer
  <2>2. /\ Cardinality(Held(popped)) \in Nat /\ Cardinality(Held(memory)) \in Nat
        /\ Cardinality(Held(popped)) <= Cardinality(Held(memory))
    <3> HIDE DEF popped
    <3> QED
      BY <2>1, FewerHeld
  <2> QED
    BY <1>2, <2>2
<1>4. ASSUME NEW m \in Rehydrate(slot, disk[slot])
      PROVE  Cardinality(Held(m)) <= Cap
  BY <1>1, <1>4, EvictionsWithinCap DEF Rehydrate
<1>5. \/ found.memory = memory \/ found.memory = popped
      \/ found.memory \in Rehydrate(slot, disk[slot])
  <2>1. ~Usable(NoEntry, includeExpired)
    BY DEF Usable
  <2> QED
    BY <2>1 DEF Get
<1> QED
  BY <1>2, <1>3, <1>4, <1>5

(* The fallback changes memory only by its read.                           *)
LEMMA FallBackWithinCap ==
    ASSUME TypeOK, MemoryWithinCap, NEW r \in Requests, req[r].at # "idle", NEW failed,
           FallBack(r, failed)
    PROVE  MemoryWithinCap'
<1>1. req[r].slot \in Slots /\ CacheTypeOK
  BY PendingRequest DEF Pending, TypeOK
<1>2. CASE \E found \in Get(req[r].slot, TRUE) : memory' = found.memory
  BY <1>1, <1>2, GetWithinCap DEF MemoryWithinCap, Cap, Held
<1>3. CASE UNCHANGED memory
  BY <1>3 DEF MemoryWithinCap, Held
<1> QED
  BY <1>2, <1>3 DEF FallBack

(* The memory layer never holds more than its cap, one entry if that is 0, *)
(* whether entries come from fetches or back from SQLite.                  *)
THEOREM CapRespected == Spec => []MemoryWithinCap
<1>1. Cardinality(Held(Empty)) <= Cap
  <2>1. Held(Empty) = {}
    BY DEF Held, Empty
  <2> QED
    BY <2>1, FS_EmptySet, CacheAssumption DEF Cap
<1>2. Init => MemoryWithinCap
  BY <1>1 DEF Init, MemoryWithinCap, Cap
<1>3. FetchInv /\ MemoryWithinCap /\ [Next]_vars => MemoryWithinCap'
  <2> SUFFICES ASSUME FetchInv, MemoryWithinCap, [Next]_vars PROVE MemoryWithinCap'
    OBVIOUS
  <2>1. TypeOK /\ CacheTypeOK /\ memory \in Layer
    BY DEF FetchInv, TypeOK, CacheTypeOK
  <2>2. CASE UNCHANGED memory
    BY <2>2 DEF MemoryWithinCap, Held
  <2>3. ASSUME NEW r \in Requests, NEW slot \in Slots, Begin(r, slot) PROVE MemoryWithinCap'
    <3>1. CASE \E found \in Get(slot, FALSE) : memory' = found.memory
      BY <2>1, <3>1, GetWithinCap DEF MemoryWithinCap, Cap, Held
    <3> QED
      BY <2>2, <2>3, <3>1 DEF Begin, BeginDisabled, BeginCached, BeginUncached
  <2>4. ASSUME NEW r \in Requests, NEW t \in Time, Succeed(r, t) PROVE MemoryWithinCap'
    <3> DEFINE slot == req[r].slot
               entry == EntryOf(req[r], t)
               written == [memory EXCEPT ![slot] = entry]
    <3>1. req[r] \in Pending
      BY <2>1, <2>4, PendingRequest DEF Succeed
    <3>2. req[r].start \in Time /\ TTL[slot[1]] \in Nat
      BY <3>1, SlotSource, CacheAssumption DEF Pending
    <3>3. entry \in Entry
      BY <3>2, CacheAssumption DEF EntryOf, Entry, Time
    <3>4. written \in Layer
      <4> HIDE DEF entry
      <4> QED
        BY <2>1, <3>3 DEF Layer
    <3>5. CASE config.cache
      <4>1. memory' \in Evictions(written)
        BY <2>4, <3>5 DEF Succeed, Set
      <4> HIDE DEF written
      <4> QED
        BY <3>4, <4>1, EvictionsWithinCap DEF MemoryWithinCap, Cap, Held
    <3> QED
      BY <2>2, <2>4, <3>5 DEF Succeed
  <2>5. ASSUME NEW r \in Requests, NoData(r) PROVE MemoryWithinCap'
    BY <2>1, <2>5, FallBackWithinCap DEF NoData
  <2>6. ASSUME NEW r \in Requests, AttemptFails(r) PROVE MemoryWithinCap'
    BY <2>1, <2>2, <2>6, FallBackWithinCap DEF AttemptFails
  <2>7. ASSUME Restart \/ HouseKeep PROVE MemoryWithinCap'
    <3>1. Held(memory') \subseteq Held(memory)
      BY <2>1, <2>7 DEF Restart, HouseKeep, Prune, Clear, Empty, Held, Layer
    <3>2. Cardinality(Held(memory')) <= Cardinality(Held(memory))
          /\ Cardinality(Held(memory')) \in Nat /\ Cardinality(Held(memory)) \in Nat
      BY <3>1, FewerHeld
    <3>3. Cardinality(Held(memory)) <= Cap /\ Cap \in Nat
      BY CacheAssumption DEF MemoryWithinCap, Cap
    <3> QED
      BY <3>2, <3>3 DEF MemoryWithinCap, Cap, Held
  <2> QED
    BY <2>2, <2>3, <2>4, <2>5, <2>6, <2>7
       DEF Next, Step, Raise, TimeOut, Retry, Tick, vars
<1> QED
  BY <1>2, <1>3, FetchInvariant, PTL DEF Spec

-----------------------------------------------------------------------------
(* What was learnt is on disk, if SQLite works and the cache is on.        *)
LearntOnDisk == AlwaysRemembers => \A s \in learnt : disk[s] # NoEntry

(* The fallback finds whatever is on disk.                                 *)
LEMMA GetFinds ==
    ASSUME DiskOutcomes = {TRUE}, NEW slot, NEW found \in Get(slot, TRUE),
           found.entry = NoEntry
    PROVE  disk[slot] = NoEntry
BY DEF Get, Usable

(* A fallback comes back empty only for a slot nothing was learnt for.     *)
LEMMA FallBackRemembers ==
    ASSUME TypeOK, LearntOnDisk, NeverForgets, NEW r \in Requests, NEW failed,
           FallBack(r, failed)
    PROVE  NeverForgets'
<1>0. reply'.slot = req[r].slot /\ learnt' = learnt
  <2>1. PICK kind, entry : Answer(r, req[r].slot, kind, entry, failed)
    BY DEF FallBack
  <2> QED
    BY <2>1 DEF FallBack, Answer
<1> SUFFICES ASSUME AlwaysRemembers, reply'.kind = "null"
             PROVE  req[r].slot \notin learnt
  BY <1>0 DEF NeverForgets, AlwaysRemembers
<1>1. config.fallback /\ DiskOutcomes = {TRUE}
  BY DEF AlwaysRemembers, TypeOK
<1>2. PICK found \in Get(req[r].slot, TRUE) :
         Answer(r, req[r].slot, IF found.entry # NoEntry THEN "stale" ELSE "null",
                found.entry, failed)
  BY <1>1 DEF FallBack
<1>3. found.entry = NoEntry
  BY <1>2 DEF Answer
<1> QED
  BY <1>1, <1>2, <1>3, GetFinds DEF LearntOnDisk

(* Once a fetch of a slot has obtained data, no later fetch of it comes    *)
(* back empty until the row is removed (base.py, fetch; cache.py).         *)
THEOREM NothingForgotten == Spec => []NeverForgets
<1>1. Init => LearntOnDisk /\ NeverForgets
  BY DEF Init, LearntOnDisk, NeverForgets
<1>2. FetchInv /\ LearntOnDisk /\ NeverForgets /\ [Next]_vars => LearntOnDisk' /\ NeverForgets'
  <2> SUFFICES ASSUME FetchInv, LearntOnDisk, NeverForgets, [Next]_vars
               PROVE  LearntOnDisk' /\ NeverForgets'
    OBVIOUS
  <2>1. TypeOK /\ disk \in Layer /\ learnt \subseteq Slots
    BY DEF FetchInv, TypeOK, CacheTypeOK
  <2>2. CASE UNCHANGED <<disk, learnt, reply>>
    BY <2>2 DEF LearntOnDisk, NeverForgets, AlwaysRemembers
  <2>3. ASSUME NEW r \in Requests, NEW slot \in Slots, Begin(r, slot)
        PROVE  LearntOnDisk' /\ NeverForgets'
    <3>1. UNCHANGED <<disk, learnt>>
      BY <2>3 DEF Begin
    <3>2. reply' = reply \/ reply'.kind \in {"disabled", "hit"}
      <4>1. CASE BeginDisabled(r, slot)
        BY <4>1 DEF BeginDisabled, Answer
      <4>2. CASE BeginUncached(r, slot)
        BY <4>2 DEF BeginUncached, StartAttempt
      <4>3. CASE BeginCached(r, slot)
        <5>1. PICK found \in Get(slot, FALSE) :
                 IF found.entry # NoEntry THEN Answer(r, slot, "hit", found.entry, 0)
                 ELSE StartAttempt(r, slot, clock, 1)
          BY <4>3 DEF BeginCached
        <5> QED
          BY <5>1 DEF StartAttempt, Answer
      <4> QED
        BY <2>3, <4>1, <4>2, <4>3 DEF Begin
    <3> QED
      BY <3>1, <3>2 DEF LearntOnDisk, NeverForgets, AlwaysRemembers
  <2>4. ASSUME NEW r \in Requests, NEW t \in Time, Succeed(r, t)
        PROVE  LearntOnDisk' /\ NeverForgets'
    <3> DEFINE slot == req[r].slot
               entry == EntryOf(req[r], t)
    <3>1. req[r] \in Pending /\ slot \in Slots
      BY <2>1, <2>4, PendingRequest DEF Succeed, Pending
    <3>2. NeverForgets'
      BY <2>4 DEF Succeed, Answer, NeverForgets
    <3>3. entry \in Entry
      <4>1. req[r].start \in Time /\ TTL[slot[1]] \in Nat
        BY <3>1, SlotSource, CacheAssumption DEF Pending
      <4> QED
        BY <4>1, CacheAssumption DEF EntryOf, Entry, Time
    <3>4. LearntOnDisk'
      <4> SUFFICES ASSUME AlwaysRemembers, NEW s \in learnt'
                   PROVE  disk'[s] # NoEntry
        BY DEF LearntOnDisk, AlwaysRemembers
      <4>1. config.cache /\ DiskOutcomes = {TRUE}
        BY <2>1 DEF AlwaysRemembers, TypeOK
      <4>2. disk' = [disk EXCEPT ![slot] = entry]
        BY <2>4, <4>1 DEF Succeed, Set
      <4>3. s = slot \/ s \in learnt
        BY <2>4 DEF Succeed
      <4> HIDE DEF entry
      <4> QED
        BY <2>1, <3>1, <3>3, <4>2, <4>3, NoEntryAssumption DEF LearntOnDisk, Layer
    <3> QED
      BY <3>2, <3>4
  <2>5. ASSUME NEW r \in Requests, NEW failed, FallBack(r, failed)
        PROVE  LearntOnDisk' /\ NeverForgets'
    BY <2>1, <2>5, FallBackRemembers DEF FallBack, LearntOnDisk, AlwaysRemembers
  <2>6. ASSUME HouseKeep PROVE LearntOnDisk' /\ NeverForgets'
    <3>1. learnt' = {s \in learnt : disk'[s] # NoEntry} /\ reply' = reply
      BY <2>6 DEF HouseKeep
    <3> QED
      BY <3>1 DEF LearntOnDisk, NeverForgets, AlwaysRemembers
  <2> QED
    BY <2>2, <2>3, <2>4, <2>5, <2>6
       DEF Next, Step, NoData, Raise, TimeOut, AttemptFails, Retry, StartAttempt, Tick,
           Restart, vars
<1> QED
  BY <1>1, <1>2, FetchInvariant, PTL DEF Spec

-----------------------------------------------------------------------------
(* An answer and its health record carry the same time.                    *)
LEMMA AnswerHealth ==
    ASSUME TypeOK, NEW r \in Requests, NEW slot \in Slots, NEW kind, NEW entry, NEW failed,
           Answer(r, slot, kind, entry, failed)
    PROVE  HealthIsLatest'
<1>1. clock \in Int /\ slot[1] \in Sources /\ health \in [Sources -> Health \cup {None}]
  BY SlotSource, CacheAssumption DEF TypeOK, CacheTypeOK, Time
<1>2. reply'.at = clock /\ reply'.slot = slot
      /\ health'[slot[1]] = [at |-> clock, ok |-> entry # NoEntry]
  BY <1>1 DEF Answer
<1> QED
  BY <1>1, <1>2 DEF HealthIsLatest

(* The health shown for a source is never older than the last envelope it  *)
(* was the source of (routes/data.py, registry.py).                        *)
THEOREM HealthKeepsUp == Spec => []HealthIsLatest
<1>1. Init => HealthIsLatest
  BY DEF Init, HealthIsLatest
<1>2. TypeOK /\ HealthIsLatest /\ [Next]_vars => HealthIsLatest'
  <2> SUFFICES ASSUME TypeOK, HealthIsLatest, [Next]_vars PROVE HealthIsLatest'
    OBVIOUS
  <2>1. CASE UNCHANGED <<reply, health>>
    BY <2>1 DEF HealthIsLatest
  <2>2. ASSUME NEW r \in Requests, NEW slot \in Slots, Begin(r, slot)
        PROVE  HealthIsLatest'
    BY <2>1, <2>2, AnswerHealth
       DEF Begin, BeginDisabled, BeginCached, BeginUncached, StartAttempt
  <2>3. ASSUME NEW r \in Requests, req[r].at # "idle"
        PROVE  req[r].slot \in Slots
    BY <2>3, PendingRequest DEF Pending
  <2>4. ASSUME NEW r \in Requests, Step(r)
        PROVE  HealthIsLatest'
    <3>1. req[r].slot \in Slots
      BY <2>3, <2>4 DEF Step, Succeed, NoData, Raise, TimeOut, AttemptFails, Retry
    <3>2. CASE UNCHANGED <<reply, health>>
      BY <2>1, <3>2
    <3>3. ASSUME NEW failed, FallBack(r, failed)
          PROVE  HealthIsLatest'
      BY <3>1, <3>3, AnswerHealth DEF FallBack
    <3>4. ASSUME NEW t \in Time, Succeed(r, t)
          PROVE  HealthIsLatest'
      BY <3>1, <3>4, AnswerHealth DEF Succeed
    <3> QED
      BY <2>4, <3>2, <3>3, <3>4
         DEF Step, NoData, Raise, TimeOut, AttemptFails, Retry, StartAttempt
  <2>5. CASE Restart
    BY <2>5, SlotSource DEF Restart, HealthIsLatest, TypeOK, Envelope
  <2> QED
    BY <2>1, <2>2, <2>4, <2>5 DEF Next, Tick, HouseKeep, vars
<1> QED
  BY <1>1, <1>2, TypeCorrect, PTL DEF Spec

-----------------------------------------------------------------------------
(* How long a fetch may take, and how far back in time a row may go.        *)

Cycle == Timeout + Backoff

(* Until its current attempt or back-off began, a fetch has spent at most  *)
(* one cycle for each attempt before, and no timer is overdue.             *)
OnTime(q) ==
    /\ q.since - q.start <= (q.attempt - 1) * Cycle + (IF q.at = "backoff" THEN Timeout ELSE 0)
    /\ clock <= q.since + Wait(q)

TimeInv == \A r \in Requests : req[r].at # "idle" => OnTime(req[r])

-----------------------------------------------------------------------------
(* The settings are natural numbers, and so is a cycle.                    *)
LEMMA CycleNat == Timeout \in Nat /\ Backoff \in Nat /\ Cycle \in Nat
BY DataSourceAssumption DEF Cycle

(* Multiplication keeps the order of naturals.                             *)
LEMMA TimesMonotone ==
    ASSUME NEW a \in Nat, NEW b \in Nat, NEW c \in Nat, a <= b
    PROVE  a * c <= b * c
<1>1. PICK d \in Nat : b = a + d
  BY b - a \in Nat
<1>2. b * c = a * c + d * c /\ d * c \in Nat /\ a * c \in Nat
  BY <1>1
<1> QED
  BY <1>2

(* One attempt more is one cycle more.                                     *)
LEMMA OneMore ==
    ASSUME NEW n \in Nat
    PROVE  n * Cycle \in Nat /\ (n + 1) * Cycle = n * Cycle + Cycle
BY CycleNat

(* The dates of a pending request are integers, its attempt in range.      *)
LEMMA Dates ==
    ASSUME TypeOK, NEW r \in Requests, req[r].at # "idle"
    PROVE  /\ req[r].start \in Int /\ req[r].since \in Int /\ clock \in Int
           /\ req[r].attempt \in 1 .. Attempts /\ req[r].attempt - 1 \in Nat
           /\ req[r].at \in {"attempt", "backoff"}
<1>1. req[r] \in Pending /\ clock \in Time /\ Attempts \in Nat
  BY PendingRequest, AttemptsNat DEF TypeOK, CacheTypeOK
<1> QED
  BY <1>1, CacheAssumption DEF Pending, Time

(* The other requests are as they were.                                    *)
LEMMA OthersOnTime ==
    ASSUME TypeOK, TimeInv, NEW r \in Requests, NEW new,
           req' = [req EXCEPT ![r] = new], clock' = clock,
           new.at # "idle" => OnTime(new)
    PROVE  TimeInv'
<1> SUFFICES ASSUME NEW s \in Requests, req'[s].at # "idle"
             PROVE  OnTime(req[s])'
  BY DEF TimeInv
<1>1. CASE s = r
  BY <1>1 DEF TypeOK, OnTime, Wait
<1>2. CASE s # r
  BY <1>2 DEF TypeOK, TimeInv, OnTime, Wait
<1> QED
  BY <1>1, <1>2

(* A request that is answered has no timer.                                *)
LEMMA AnswerOnTime ==
    ASSUME TypeOK, TimeInv, NEW r \in Requests, NEW slot, NEW kind, NEW entry, NEW failed,
           Answer(r, slot, kind, entry, failed), clock' = clock
    PROVE  TimeInv'
<1>1. req' = [req EXCEPT ![r] = Idle] /\ Idle.at = "idle"
  BY DEF Answer, Idle
<1> QED
  BY <1>1, OthersOnTime

(* An attempt begins on time if what came before it took no longer than    *)
(* its cycles.                                                             *)
LEMMA StartOnTime ==
    ASSUME TypeOK, TimeInv, NEW r \in Requests, NEW slot, NEW start \in Int,
           NEW n \in Nat, clock - start <= (n - 1) * Cycle,
           StartAttempt(r, slot, start, n), clock' = clock
    PROVE  TimeInv'
<1> DEFINE new == [at |-> "attempt", slot |-> slot, start |-> start,
                   since |-> clock, attempt |-> n]
<1>1. clock \in Int
  BY CacheAssumption DEF TypeOK, CacheTypeOK, Time
<1>2. /\ new.since - new.start <= (new.attempt - 1) * Cycle /\ new.at = "attempt"
      /\ (new.attempt - 1) * Cycle \in Int
  BY <1>1, CycleNat
<1>3. clock <= new.since + Wait(new)
  BY <1>1, CycleNat DEF Wait
<1>4. req' = [req EXCEPT ![r] = new]
  BY DEF StartAttempt
<1>5. OnTime(new)
  <2> HIDE DEF new
  <2> QED
    BY <1>2, <1>3 DEF OnTime
<1> HIDE DEF new
<1> QED
  BY <1>4, <1>5, OthersOnTime

-----------------------------------------------------------------------------
(* A fetch that begins has spent nothing.                                  *)
LEMMA BeginOnTime ==
    ASSUME TypeOK, TimeInv, NEW r \in Requests, NEW slot \in Slots, Begin(r, slot)
    PROVE  TimeInv'
<1>1. clock' = clock /\ clock \in Int /\ 1 \in Nat /\ clock - clock <= (1 - 1) * Cycle
  BY CacheAssumption, CycleNat DEF Begin, TypeOK, CacheTypeOK, Time
<1>2. CASE StartAttempt(r, slot, clock, 1)
  BY <1>1, <1>2, StartOnTime
<1>3. CASE \E kind, entry : Answer(r, slot, kind, entry, 0)
  BY <1>1, <1>3, AnswerOnTime
<1> QED
  BY <1>2, <1>3 DEF Begin, BeginDisabled, BeginCached, BeginUncached

(* The fallback answers the request.                                       *)
LEMMA FallBackOnTime ==
    ASSUME TypeOK, TimeInv, NEW r \in Requests, NEW failed, FallBack(r, failed)
    PROVE  TimeInv'
BY AnswerOnTime DEF FallBack

(* A failed attempt took its time limit at most.                           *)
LEMMA AttemptFailsOnTime ==
    ASSUME TypeOK, TimeInv, NEW r \in Requests, AttemptFails(r)
    PROVE  TimeInv'
<1>1. CASE FallBack(r, req[r].attempt)
  BY <1>1, FallBackOnTime
<1>2. CASE /\ req' = [req EXCEPT ![r].at = "backoff", ![r].since = clock]
           /\ UNCHANGED <<clock, memory, disk, config, reply, learnt, health>>
  <2> DEFINE new == [req[r] EXCEPT !.at = "backoff", !.since = clock]
  <2>1. req[r].at = "attempt" /\ req[r] \in Pending
    BY PendingRequest DEF AttemptFails
  <2>2. /\ new.at = "backoff" /\ new.since = clock
        /\ new.start = req[r].start /\ new.attempt = req[r].attempt
    BY <2>1 DEF Pending
  <2>3. req' = [req EXCEPT ![r] = new]
    BY <1>2 DEF TypeOK
  <2> HIDE DEF new
  <2>4. /\ req[r].since - req[r].start <= (req[r].attempt - 1) * Cycle
        /\ clock <= req[r].since + Timeout
    <3>1. OnTime(req[r])
      BY <2>1 DEF TimeInv
    <3>2. (req[r].attempt - 1) * Cycle \in Nat
      BY <2>1, Dates, OneMore
    <3> QED
      BY <2>1, <3>1, <3>2 DEF OnTime, Wait
  <2>5. OnTime(new)
    <3>1. (req[r].attempt - 1) * Cycle \in Nat
      BY <2>1, Dates, OneMore
    <3>2. clock - req[r].start <= (req[r].attempt - 1) * Cycle + Timeout
      BY <2>1, <2>4, <3>1, Dates, CycleNat
    <3>3. clock <= new.since + Wait(new)
      BY <2>1, <2>2, Dates, CycleNat DEF Wait
    <3> QED
      BY <2>2, <3>2, <3>3 DEF OnTime
  <2> QED
    BY <1>2, <2>3, <2>5, OthersOnTime
<1> QED
  BY <1>1, <1>2 DEF AttemptFails

(* A back-off that ends completes a cycle.                                 *)
LEMMA RetryOnTime ==
    ASSUME TypeOK, TimeInv, NEW r \in Requests, Retry(r)
    PROVE  TimeInv'
<1> DEFINE q == req[r]
<1>1. q.at = "backoff" /\ clock = q.since + Backoff /\ clock' = clock /\ OnTime(q)
  BY DEF Retry, TimeInv
<1>2. /\ q.start \in Int /\ q.since \in Int /\ clock \in Int /\ q.attempt \in 1 .. Attempts
      /\ q.attempt - 1 \in Nat
  BY <1>1, Dates
<1>3. StartAttempt(r, q.slot, q.start, q.attempt + 1)
  BY DEF Retry
<1> HIDE DEF q
<1>4. /\ (q.attempt - 1) * Cycle \in Nat /\ q.attempt \in Nat
      /\ q.attempt * Cycle = (q.attempt - 1) * Cycle + Cycle
  <2>1. q.attempt = (q.attempt - 1) + 1 /\ q.attempt \in Nat
    BY <1>2
  <2> QED
    BY <1>2, <2>1, OneMore
<1>5. q.since - q.start <= (q.attempt - 1) * Cycle + Timeout
  BY <1>1 DEF OnTime
<1>6. clock - q.start <= q.attempt * Cycle
  BY <1>1, <1>2, <1>4, <1>5, CycleNat DEF Cycle
<1>7. q.attempt + 1 \in Nat /\ (q.attempt + 1) - 1 = q.attempt
  BY <1>4
<1> QED
  BY <1>1, <1>2, <1>3, <1>6, <1>7, StartOnTime

(* Time does not pass a timer that is due.                                 *)
LEMMA TickOnTime ==
    ASSUME TypeOK, TimeInv, Tick
    PROVE  TimeInv'
<1> SUFFICES ASSUME NEW r \in Requests, req[r].at # "idle"
             PROVE  OnTime(req[r])'
  BY DEF TimeInv, Tick
<1>1. OnTime(req[r]) /\ clock < req[r].since + Wait(req[r])
      /\ clock' = clock + 1 /\ req' = req
  BY DEF TimeInv, Tick
<1>2. clock \in Int /\ req[r].since \in Int /\ Wait(req[r]) \in Int
  BY Dates, CycleNat DEF Wait
<1>3. clock' <= req[r].since + Wait(req[r])
  BY <1>1, <1>2
<1> QED
  BY <1>1, <1>3 DEF OnTime, Wait

(* Every pending request is on time: its attempts and back-offs so far took *)
(* no longer than their timers allow, and no timer is overdue (base.py, the *)
(* wait_for and sleep of fetch).                                           *)
THEOREM TimersKept == Spec => []TimeInv
<1>1. Init => TimeInv
  BY DEF Init, TimeInv, Idle
<1>2. TypeOK /\ TimeInv /\ [Next]_vars => TimeInv'
  <2> SUFFICES ASSUME TypeOK, TimeInv, [Next]_vars PROVE TimeInv'
    OBVIOUS
  <2>1. ASSUME NEW r \in Requests, NEW slot \in Slots, Begin(r, slot) PROVE TimeInv'
    BY <2>1, BeginOnTime
  <2>2. ASSUME NEW r \in Requests, Step(r) PROVE TimeInv'
    <3>1. ASSUME NEW t \in Time, Succeed(r, t) PROVE TimeInv'
      BY <3>1, AnswerOnTime DEF Succeed
    <3> QED
      BY <2>2, <3>1, FallBackOnTime, AttemptFailsOnTime, RetryOnTime
         DEF Step, NoData, Raise, TimeOut
  <2>3. CASE Tick
    BY <2>3, TickOnTime
  <2>4. CASE Restart
    BY <2>4 DEF Restart, TimeInv, Idle
  <2>5. CASE HouseKeep \/ UNCHANGED vars
    BY <2>5 DEF HouseKeep, vars, TimeInv, OnTime
  <2> QED
    BY <2>1, <2>2, <2>3, <2>4, <2>5 DEF Next
<1> QED
  BY <1>1, <1>2, TypeCorrect, PTL DEF Spec

-----------------------------------------------------------------------------
(* The cycles of the attempts there are, and the last attempt, make up the *)
(* bound.                                                                  *)
LEMMA OnTimeIsBounded ==
    ASSUME TypeOK, TimeInv, PendingInOrder
    PROVE  FetchTimeBounded
<1> SUFFICES ASSUME NEW r \in Requests, req[r].at # "idle"
             PROVE  clock - req[r].start <= FetchBound
  BY DEF FetchTimeBounded
<1> DEFINE q == req[r]
<1>1. /\ q.start \in Int /\ q.since \in Int /\ clock \in Int /\ q.attempt \in 1 .. Attempts
      /\ q.attempt - 1 \in Nat /\ q.at \in {"attempt", "backoff"}
  BY Dates
<1>2. OnTime(q) /\ (q.at = "backoff" => q.attempt < Attempts)
  BY DEF TimeInv, PendingInOrder
<1> HIDE DEF q
<1>3. Retries \in Nat /\ Attempts = Retries + 1 /\ q.attempt \in Nat
  BY <1>1, DataSourceAssumption DEF Attempts
<1>4. FetchBound = Retries * Cycle + Timeout
  BY <1>3, CycleNat DEF FetchBound, Cycle
<1>5. (q.attempt - 1) * Cycle \in Nat /\ Retries * Cycle \in Nat
  BY <1>1, <1>3, OneMore
<1>6. CASE q.at = "attempt"
  <2>1. (q.attempt - 1) * Cycle <= Retries * Cycle
    <3>1. q.attempt - 1 <= Retries
      BY <1>1, <1>3
    <3> QED
      BY <1>1, <1>3, <3>1, CycleNat, TimesMonotone
  <2>2. q.since - q.start <= (q.attempt - 1) * Cycle /\ clock <= q.since + Timeout
    BY <1>2, <1>5, <1>6 DEF OnTime, Wait
  <2> QED
    BY <1>1, <1>4, <1>5, <2>1, <2>2, CycleNat DEF q
<1>7. CASE q.at = "backoff"
  <2>1. q.attempt * Cycle <= Retries * Cycle
    <3>1. q.attempt <= Retries
      BY <1>1, <1>2, <1>3, <1>7
    <3> QED
      BY <1>3, <3>1, CycleNat, TimesMonotone
  <2>2. q.since - q.start <= (q.attempt - 1) * Cycle + Timeout /\ clock <= q.since + Backoff
    BY <1>2, <1>7 DEF OnTime, Wait
  <2>3. q.attempt * Cycle = (q.attempt - 1) * Cycle + Cycle
    <3>1. q.attempt = (q.attempt - 1) + 1
      BY <1>3
    <3> QED
      BY <1>1, <3>1, OneMore
  <2>4. clock - q.start <= q.attempt * Cycle
    BY <1>1, <1>5, <2>2, <2>3, CycleNat DEF Cycle
  <2>5. q.attempt * Cycle \in Nat
    BY <1>5, <2>3, CycleNat
  <2> QED
    BY <1>1, <1>4, <1>5, <2>1, <2>4, <2>5, CycleNat DEF q
<1> QED
  BY <1>1, <1>6, <1>7

(* A fetch lasts at most the time limits of its attempts and the pauses    *)
(* between them, whatever its upstream does (base.py:3, fetch).            *)
THEOREM FetchesEndInTime == Spec => []FetchTimeBounded
<1>1. FetchInv /\ TimeInv => FetchTimeBounded
  BY OnTimeIsBounded DEF FetchInv
<1> QED
  BY <1>1, FetchInvariant, TimersKept, PTL

(* A row is only replaced by what a fetch learnt that began at most        *)
(* FetchBound ago, so it goes back in time by no more (base.py, fetch;     *)
(* cache.py, set).                                                         *)
THEOREM RegressionIsBounded == Spec => RegressionBounded
<1>1. ASSUME FetchInv, FetchTimeBounded, [Next]_vars
      PROVE  [\A s \in Slots :
                 disk[s] # NoEntry /\ disk'[s] # NoEntry =>
                     disk'[s].fetchedAt >= disk[s].fetchedAt - FetchBound]_vars
  <2> SUFFICES ASSUME NEW s \in Slots, disk[s] # NoEntry, disk'[s] # NoEntry
               PROVE  disk'[s].fetchedAt >= disk[s].fetchedAt - FetchBound
    OBVIOUS
  <2>1. /\ clock \in Int /\ disk \in Layer /\ disk[s] \in Entry /\ CacheTypeOK /\ TypeOK
        /\ disk[s].fetchedAt \in Int /\ disk[s].fetchedAt <= clock
    <3>1. clock \in Time /\ disk \in Layer /\ CacheTypeOK /\ TypeOK /\ disk[s] \in Entry
      BY <1>1 DEF FetchInv, TypeOK, CacheTypeOK, Layer
    <3>2. /\ disk[s].fetchedAt \in Int /\ disk[s].readAt \in Int /\ clock \in Int
      BY <3>1, CacheAssumption DEF Entry, Time
    <3>3. disk[s].fetchedAt <= disk[s].readAt /\ disk[s].readAt <= clock
      BY <1>1 DEF FetchInv, EntriesHonest, Honest
    <3> QED
      BY <3>1, <3>2, <3>3
  <2>2. FetchBound \in Nat
    BY DataSourceAssumption, AttemptsNat DEF FetchBound
  <2>3. CASE disk'[s] = disk[s]
    BY <2>1, <2>2, <2>3
  <2>4. ASSUME NEW r \in Requests, NEW t \in Time, Succeed(r, t), disk'[s] # disk[s]
        PROVE  disk'[s].fetchedAt >= disk[s].fetchedAt - FetchBound
    <3> DEFINE entry == EntryOf(req[r], t)
               slot == req[r].slot
    <3>1. /\ req[r].at # "idle" /\ req[r] \in Pending /\ slot \in Slots
          /\ req[r].start \in Int /\ req[r].start \in Time
      BY <2>1, <2>4, PendingRequest, CacheAssumption DEF Succeed, Pending, Time
    <3>2. clock - req[r].start <= FetchBound
      BY <1>1, <3>1 DEF FetchTimeBounded
    <3>3. disk'[s] = entry
      <4>1. PICK after \in Set(slot, entry) : disk' = after.disk
        BY <2>4 DEF Succeed
      <4>2. disk' = [disk EXCEPT ![slot] = entry]
        <5> HIDE DEF slot, entry
        <5>1. after.disk \in {[disk EXCEPT ![slot] = entry], disk}
          BY DEF Set
        <5> QED
          BY <2>4, <4>1, <5>1
      <4> QED
        BY <2>1, <2>4, <3>1, <4>2 DEF Layer
    <3>4. disk'[s].fetchedAt = req[r].start
      BY <3>3 DEF EntryOf
    <3> QED
      BY <2>1, <2>2, <3>1, <3>2, <3>4
  <2>5. ASSUME HouseKeep PROVE disk'[s] = disk[s]
    BY <2>1, <2>5 DEF HouseKeep, Prune, Clear, Empty, Layer
  <2>6. ASSUME NEW r \in Requests, FallBack(r, req[r].attempt) \/ FallBack(r, req[r].attempt - 1)
        PROVE  disk' = disk
    BY <2>6 DEF FallBack
  <2>7. CASE \E r \in Requests, slot \in Slots : Begin(r, slot)
    BY <2>3, <2>7 DEF Begin
  <2>8. CASE \E r \in Requests : NoData(r) \/ AttemptFails(r) \/ Retry(r)
    BY <2>3, <2>6, <2>8 DEF NoData, AttemptFails, Retry
  <2>9. CASE Tick \/ Restart \/ UNCHANGED vars
    BY <2>3, <2>9 DEF Tick, Restart, vars
  <2> QED
    BY <1>1, <2>3, <2>4, <2>5, <2>7, <2>8, <2>9 DEF Next, Step, Raise, TimeOut
<1> QED
  BY <1>1, FetchInvariant, FetchesEndInTime, PTL DEF Spec, RegressionBounded

-----------------------------------------------------------------------------
(* The fetch loop over the two cache layers implements the log of upstream *)
(* answers.                                                                *)

Logged(slot, entry) == entry # NoEntry => <<slot, entry>> \in log

LayersLogged == \A s \in Slots : Logged(s, memory[s]) /\ Logged(s, disk[s])

ReplyLogged == reply # None /\ reply.kind = "fresh" => <<reply.slot, reply.entry>> \in log

(* Everything in either layer, and the last fresh answer, is in the log.   *)
LogInv == LayersLogged /\ ReplyLogged

(* What a step of LogNext has to keep and to show.                         *)
Implements == LogInv' /\ [Promise!Next]_Promise!vars

-----------------------------------------------------------------------------
(* The layers stay in the log when entries are dropped or copied between   *)
(* them.                                                                   *)
LEMMA CopiesLogged ==
    ASSUME LayersLogged, log \subseteq log',
           \A s \in Slots : /\ memory'[s] \in {NoEntry, memory[s], disk[s]}
                            /\ disk'[s] \in {NoEntry, disk[s]}
    PROVE  LayersLogged'
BY DEF LayersLogged, Logged

(* A step that sends nothing leaves the log alone.                         *)
LEMMA SilentLog ==
    ASSUME ReplyLogged, Log, reply' = reply
    PROVE  log' = log /\ ReplyLogged'
BY DEF ReplyLogged, Log

(* A step that neither sends nor takes time, and stores nothing new, is no *)
(* step of the log.                                                        *)
LEMMA SilentStep ==
    ASSUME LogInv, Log, reply' = reply, clock' = clock,
           \A s \in Slots : /\ memory'[s] \in {NoEntry, memory[s], disk[s]}
                            /\ disk'[s] \in {NoEntry, disk[s]}
    PROVE  Implements
<1>1. log' = log /\ ReplyLogged'
  BY SilentLog DEF LogInv
<1>2. LayersLogged'
  BY <1>1, CopiesLogged DEF LogInv
<1> QED
  BY <1>1, <1>2 DEF Implements, LogInv, Promise!vars

(* An envelope with nothing, or with a member of the log, is a step of the *)
(* log.                                                                    *)
LEMMA AnswerStep ==
    ASSUME LogInv, Log, NEW r \in Requests, NEW slot \in Slots,
           NEW kind \in {"disabled", "hit", "stale", "null"}, NEW entry,
           NEW failed \in 0 .. Attempts, Answer(r, slot, kind, entry, failed),
           clock' = clock,
           kind \in {"hit", "stale"} => <<slot, entry>> \in log,
           kind = "hit" => failed = 0 /\ clock < entry.expiresAt,
           kind \in {"disabled", "null"} => entry = NoEntry,
           \A s \in Slots : /\ memory'[s] \in {NoEntry, memory[s], disk[s]}
                            /\ disk'[s] \in {NoEntry, disk[s]}
    PROVE  Implements
<1>1. Promise!Send(slot, kind, entry, failed) /\ reply'.kind = kind /\ kind # "fresh"
  BY DEF Promise!Send, Answer
<1>2. log' = log
  BY <1>1 DEF Log
<1>3. LogInv'
  BY <1>1, <1>2, CopiesLogged DEF LogInv, ReplyLogged
<1>4. CASE kind \in {"disabled", "null"}
  <2>1. Promise!Nothing(slot, kind, failed)
    BY <1>1, <1>2, <1>4 DEF Promise!Nothing
  <2> QED
    BY <1>3, <1>4, <2>1 DEF Implements, Promise!Next
<1>5. CASE kind = "hit"
  <2>1. Promise!Hit(slot, entry)
    BY <1>1, <1>2, <1>5 DEF Promise!Hit
  <2>2. PICK x \in log : x = <<slot, entry>>
    BY <1>5
  <2> QED
    BY <1>3, <1>5, <2>1, <2>2 DEF Implements, Promise!Next
<1>6. CASE kind = "stale"
  <2>1. Promise!Stale(slot, entry, failed)
    BY <1>1, <1>2, <1>6 DEF Promise!Stale
  <2>2. PICK x \in log : x = <<slot, entry>>
    BY <1>6
  <2> QED
    BY <1>3, <1>6, <2>1, <2>2 DEF Implements, Promise!Next
<1> QED
  BY <1>4, <1>5, <1>6

-----------------------------------------------------------------------------
(* fetch, up to its first await: a hit, a refusal, or nothing to be seen.  *)
LEMMA BeginImplements ==
    ASSUME FetchInv, LogInv, Log, NEW r \in Requests, NEW slot \in Slots, Begin(r, slot)
    PROVE  Implements
<1>1. clock' = clock /\ disk' = disk /\ CacheTypeOK /\ 0 \in 0 .. Attempts
  BY AttemptsNat DEF Begin, FetchInv, TypeOK
<1>2. CASE BeginDisabled(r, slot)
  BY <1>1, <1>2, AnswerStep DEF BeginDisabled
<1>3. CASE BeginUncached(r, slot)
  BY <1>1, <1>3, SilentStep DEF BeginUncached, StartAttempt
<1>4. CASE BeginCached(r, slot)
  <2>1. PICK found \in Get(slot, FALSE) :
          /\ memory' = found.memory
          /\ IF found.entry # NoEntry
             THEN Answer(r, slot, "hit", found.entry, 0)
             ELSE StartAttempt(r, slot, clock, 1)
    BY <1>4 DEF BeginCached
  <2>2. /\ found.entry \in {NoEntry, memory[slot], disk[slot]}
        /\ found.entry # NoEntry => Usable(found.entry, FALSE)
        /\ \A s \in Slots : memory'[s] \in {NoEntry, memory[s], disk[s]}
    BY <1>1, <2>1, GetReturns
  <2>3. CASE found.entry = NoEntry
    BY <1>1, <2>1, <2>2, <2>3, SilentStep DEF StartAttempt
  <2>4. CASE found.entry # NoEntry
    <3>1. <<slot, found.entry>> \in log
      BY <2>2, <2>4 DEF LogInv, LayersLogged, Logged
    <3>2. clock < found.entry.expiresAt
      <4>1. found.entry \in Entry /\ clock \in Int
        BY <1>1, <2>2, <2>4 DEF CacheTypeOK, Layer, Time
      <4> QED
        BY <2>2, <2>4, <4>1 DEF Usable, Expired, Entry
    <3> QED
      BY <1>1, <2>1, <2>2, <2>4, <3>1, <3>2, AnswerStep
  <2> QED
    BY <2>3, <2>4
<1> QED
  BY <1>2, <1>3, <1>4 DEF Begin

(* A fetch that ends with data puts them in the log before either layer.   *)
LEMMA SucceedImplements ==
    ASSUME FetchInv, LogInv, Log, NEW r \in Requests, NEW readAt \in Time,
           Succeed(r, readAt)
    PROVE  Implements
<1> DEFINE q == req[r]
           slot == q.slot
           entry == EntryOf(q, readAt)
<1>1. /\ q \in Pending /\ q.at = "attempt" /\ CacheTypeOK /\ clock \in Time
      /\ q.start <= q.since
  BY PendingRequest DEF Succeed, FetchInv, TypeOK, CacheTypeOK, PendingInOrder
<1>2. /\ slot \in Slots /\ q.start \in Time /\ q.since \in Time
      /\ q.attempt - 1 \in 0 .. Attempts
  BY <1>1, AttemptsNat DEF Pending
<1>3. q.start <= readAt /\ readAt <= clock
  BY <1>1, <1>2 DEF Succeed, Time
<1>4. Answer(r, slot, "fresh", entry, q.attempt - 1) /\ clock' = clock
  BY DEF Succeed
<1>5. entry = [readAt |-> readAt, fetchedAt |-> q.start,
               expiresAt |-> q.start + SlotTTL(slot)]
  BY DEF EntryOf, SlotTTL
<1>6. entry \in Entry
  <2>1. TTL[slot[1]] \in Nat /\ q.start \in Int
    BY <1>2, SlotSource, CacheAssumption DEF Time
  <2> QED
    BY <1>2, <1>5, <2>1 DEF Entry, SlotTTL
<1> HIDE DEF entry
<1>7. /\ reply' = [slot |-> slot, kind |-> "fresh", entry |-> entry,
                   failed |-> q.attempt - 1, at |-> clock]
      /\ reply' \in Envelope
  <2>1. reply' = [slot |-> slot, kind |-> "fresh", entry |-> entry,
                  failed |-> q.attempt - 1, at |-> clock]
    BY <1>4 DEF Answer
  <2> QED
    BY <1>1, <1>2, <1>6, <2>1 DEF Envelope
<1>8. log' = log \cup {<<slot, entry>>}
  BY <1>7, NoneAssumption DEF Log
<1>9. Promise!Next
  <2>1. Promise!Learn(slot, q.start, readAt, q.attempt - 1)
    BY <1>3, <1>4, <1>5, <1>7, <1>8 DEF Promise!Learn, Promise!Send
  <2> QED
    BY <1>2, <2>1 DEF Promise!Next, Promise!Time, Time
<1>10. ReplyLogged'
  BY <1>7, <1>8 DEF ReplyLogged
<1>11. LayersLogged'
  <2>1. CASE config.cache
    <3>1. PICK after \in Set(slot, entry) : memory' = after.memory /\ disk' = after.disk
      BY <2>1 DEF Succeed, entry
    <3>2. /\ \A s \in Slots : after.memory[s] \in
                {NoEntry, [memory EXCEPT ![slot] = entry][s]}
          /\ \/ after.disk = [disk EXCEPT ![slot] = entry]
             \/ after.disk = disk /\ DiskOutcomes # {TRUE}
      <4> HIDE DEF slot
      <4>1. slot \in Slots /\ entry \in Entry /\ after \in Set(slot, entry)
        BY <1>2, <1>6, <3>1
      <4> QED
        BY <1>1, <4>1, SetLeaves
    <3>3. memory \in Layer /\ disk \in Layer
      BY <1>1 DEF CacheTypeOK
    <3>4. ASSUME NEW s \in Slots
          PROVE  /\ memory'[s] \in {NoEntry, memory[s]} \/ (s = slot /\ memory'[s] = entry)
                 /\ disk'[s] = disk[s] \/ (s = slot /\ disk'[s] = entry)
      BY <3>1, <3>2, <3>3 DEF Layer
    <3> QED
      BY <1>8, <3>4 DEF LogInv, LayersLogged, Logged
  <2>2. CASE ~config.cache
    BY <1>8, <2>2 DEF Succeed, LogInv, LayersLogged, Logged
  <2> QED
    BY <2>1, <2>2
<1> QED
  BY <1>9, <1>10, <1>11 DEF Implements, LogInv

(* A fetch that ends without serves a member of the log, or nothing.       *)
LEMMA FallBackImplements ==
    ASSUME FetchInv, LogInv, Log, NEW r \in Requests, req[r].at # "idle",
           NEW failed \in 0 .. Attempts, FallBack(r, failed)
    PROVE  Implements
<1> DEFINE slot == req[r].slot
<1>1. slot \in Slots /\ CacheTypeOK /\ clock' = clock /\ disk' = disk
  BY PendingRequest DEF FetchInv, TypeOK, Pending, FallBack
<1>2. CASE \E found \in Get(slot, TRUE) :
              /\ memory' = found.memory
              /\ Answer(r, slot, IF found.entry # NoEntry THEN "stale" ELSE "null",
                        found.entry, failed)
  <2>1. PICK found \in Get(slot, TRUE) :
              /\ memory' = found.memory
              /\ Answer(r, slot, IF found.entry # NoEntry THEN "stale" ELSE "null",
                        found.entry, failed)
    BY <1>2
  <2>2. /\ found.entry \in {NoEntry, memory[slot], disk[slot]}
        /\ \A s \in Slots : memory'[s] \in {NoEntry, memory[s], disk[s]}
    BY <1>1, <2>1, GetReturns
  <2>3. found.entry # NoEntry => <<slot, found.entry>> \in log
    BY <1>1, <2>2 DEF LogInv, LayersLogged, Logged
  <2>4. CASE found.entry # NoEntry
    <3>1. Answer(r, slot, "stale", found.entry, failed)
      BY <2>1, <2>4
    <3> QED
      BY <1>1, <2>2, <2>3, <2>4, <3>1, AnswerStep
  <2>5. CASE found.entry = NoEntry
    <3>1. Answer(r, slot, "null", found.entry, failed)
      BY <2>1, <2>5
    <3> QED
      BY <1>1, <2>2, <2>5, <3>1, AnswerStep
  <2> QED
    BY <2>4, <2>5
<1>3. CASE Answer(r, slot, "null", NoEntry, failed) /\ UNCHANGED memory
  BY <1>1, <1>3, AnswerStep
<1> QED
  BY <1>2, <1>3 DEF FallBack

(* A failed attempt is nothing to be seen, or the fallback.                *)
LEMMA AttemptFailsImplements ==
    ASSUME FetchInv, LogInv, Log, NEW r \in Requests, AttemptFails(r)
    PROVE  Implements
<1>1. req[r].at # "idle" /\ req[r].attempt \in 0 .. Attempts
  BY PendingRequest, AttemptsNat DEF AttemptFails, FetchInv, Pending
<1>2. CASE UNCHANGED <<clock, memory, disk, reply>>
  BY <1>2, SilentStep
<1>3. CASE FallBack(r, req[r].attempt)
  BY <1>1, <1>3, FallBackImplements
<1> QED
  BY <1>2, <1>3 DEF AttemptFails

(* So is an upstream without data.                                         *)
LEMMA NoDataImplements ==
    ASSUME FetchInv, LogInv, Log, NEW r \in Requests, NoData(r)
    PROVE  Implements
<1>1. req[r].at # "idle" /\ req[r].attempt - 1 \in 0 .. Attempts
  BY PendingRequest, AttemptsNat DEF NoData, FetchInv, Pending
<1> QED
  BY <1>1, FallBackImplements DEF NoData

(* A retry is nothing to be seen.                                          *)
LEMMA RetryImplements ==
    ASSUME LogInv, Log, NEW r \in Requests, Retry(r)
    PROVE  Implements
BY SilentStep DEF Retry, StartAttempt

(* Time is the log's time.                                                 *)
LEMMA TickImplements ==
    ASSUME LogInv, Log, Tick
    PROVE  Implements
<1>1. log' = log /\ ReplyLogged'
  BY SilentLog DEF LogInv, Tick
<1>2. LayersLogged'
  BY <1>1, CopiesLogged DEF LogInv, Tick
<1>3. Promise!Tick
  BY <1>1 DEF Promise!Tick, Tick
<1> QED
  BY <1>1, <1>2, <1>3 DEF Implements, LogInv, Promise!Next

(* Restarts and housekeeping only drop entries.                            *)
LEMMA DropsImplement ==
    ASSUME LogInv, Log, Restart \/ HouseKeep
    PROVE  Implements
<1>1. reply' = reply /\ clock' = clock
  BY DEF Restart, HouseKeep
<1>2. \A s \in Slots : /\ memory'[s] \in {NoEntry, memory[s], disk[s]}
                       /\ disk'[s] \in {NoEntry, disk[s]}
  BY DEF Restart, HouseKeep, Prune, Clear, Empty
<1> QED
  BY <1>1, <1>2, SilentStep

-----------------------------------------------------------------------------
(* Every step keeps the invariant and is a step of the log, or none.       *)
LEMMA LogStepImplements ==
    ASSUME FetchInv, LogInv, [LogNext]_LogVars
    PROVE  Implements
<1>1. ASSUME NEW r \in Requests, NEW slot \in Slots, Begin(r, slot), Log
      PROVE  Implements
  BY <1>1, BeginImplements
<1>2. ASSUME NEW r \in Requests, Step(r), Log
      PROVE  Implements
  BY <1>2, SucceedImplements, NoDataImplements, AttemptFailsImplements, RetryImplements
     DEF Step, Raise, TimeOut
<1>3. CASE Tick /\ Log
  BY <1>3, TickImplements
<1>4. CASE (Restart \/ HouseKeep) /\ Log
  BY <1>4, DropsImplement
<1>5. CASE UNCHANGED LogVars
  BY <1>5 DEF LogVars, vars, Implements, LogInv, LayersLogged, Logged, ReplyLogged,
              Promise!vars
<1> QED
  BY <1>1, <1>2, <1>3, <1>4, <1>5 DEF LogNext, Next

(* What the data layer serves was once learnt from that slot's upstream,   *)
(* with its own dates, and what it serves without warning has not expired, *)
(* through caches, evictions, retries, overlaps, restarts and failures of  *)
(* SQLite: every behaviour is one of the log (base.py, fetch; cache.py).   *)
THEOREM FetchLoopImplementsLog == LogSpec => PromiseKept
<1>1. LogInit => LogInv /\ Promise!Init
  BY DEF LogInit, Init, Empty, LogInv, LayersLogged, Logged, ReplyLogged, Promise!Init
<1>2. LogSpec => []FetchInv
  <2>1. LogSpec => Spec
    <3>1. [LogNext]_LogVars => [Next]_vars
      BY DEF LogNext, LogVars
    <3> QED
      BY <3>1, PTL DEF LogSpec, Spec, LogInit
  <2> QED
    BY <2>1, FetchInvariant, PTL
<1>3. FetchInv /\ LogInv /\ [LogNext]_LogVars => LogInv' /\ [Promise!Next]_Promise!vars
  BY LogStepImplements DEF Implements
<1> QED
  BY <1>1, <1>2, <1>3, PTL DEF LogSpec, PromiseKept, Promise!Spec
=============================================================================
