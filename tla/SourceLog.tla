----------------------------- MODULE SourceLog -----------------------------
(***************************************************************************)
(* What the data layer promises its clients, without caches, retries or    *)
(* processes: there is a log of what upstreams have answered, and every    *)
(* envelope carries either a member of the log or no data.  A cache hit    *)
(* without warning is a member that has not expired.                       *)
(***************************************************************************)
EXTENDS Integers

CONSTANTS Slots, TTLOf(_), MaxTime, Attempts, NoEntry, None

VARIABLES clock, log, reply

vars == <<clock, log, reply>>

Time == 0 .. MaxTime

Init ==
    /\ clock = 0
    /\ log = {}
    /\ reply = None

Send(slot, kind, entry, failed) ==
    /\ reply' = [slot |-> slot, kind |-> kind, entry |-> entry,
                 failed |-> failed, at |-> clock]
    /\ UNCHANGED clock

(* A fetch that began at `start` reads its upstream at `readAt` and ends.  *)
Learn(slot, start, readAt, failed) ==
    LET entry == [readAt |-> readAt, fetchedAt |-> start,
                  expiresAt |-> start + TTLOf(slot)]
    IN  /\ start <= readAt /\ readAt <= clock
        /\ log' = log \cup {<<slot, entry>>}
        /\ Send(slot, "fresh", entry, failed)

Hit(slot, entry) ==
    /\ <<slot, entry>> \in log
    /\ clock < entry.expiresAt
    /\ Send(slot, "hit", entry, 0)
    /\ UNCHANGED log

Stale(slot, entry, failed) ==
    /\ <<slot, entry>> \in log
    /\ Send(slot, "stale", entry, failed)
    /\ UNCHANGED log

Nothing(slot, kind, failed) ==
    /\ kind \in {"disabled", "null"}
    /\ Send(slot, kind, NoEntry, failed)
    /\ UNCHANGED log

Tick ==
    /\ clock' = clock + 1
    /\ UNCHANGED <<log, reply>>

Next ==
    \/ Tick
    \/ \E slot \in Slots, failed \in 0 .. Attempts :
          \/ \E start, readAt \in Time : Learn(slot, start, readAt, failed)
          \/ \E x \in log : x[1] = slot /\ (Hit(slot, x[2]) \/ Stale(slot, x[2], failed))
          \/ \E kind \in {"disabled", "null"} : Nothing(slot, kind, failed)

Spec == Init /\ [][Next]_vars
=============================================================================
