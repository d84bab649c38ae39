----------------------------- MODULE Integrations -----------------------------
(***************************************************************************)
(* Slack and Home Assistant (backend/integrations/slack.py, home_assistant.py, *)
(* registry.py, api/routes/integrations.py) and the audit trail of what is *)
(* asked of them.                                                          *)
(*                                                                         *)
(* The calls that change something block the server's event loop until     *)
(* they are answered: they come one at a time, from the POST routes and    *)
(* from /ask.  The GET routes run in threads, and the voice command line,   *)
(* which only knows phrases, is another process.                           *)
(***************************************************************************)
EXTENDS Integers, Sequences, FiniteSets, AuditLog

CONSTANTS
    Loop,        \* the event loop of the server
    Threads,     \* threads of its GET routes
    Cli,         \* the voice command line
    Devices,     \* entities: a domain and a name
    Categories,  \* of the briefing; others may be asked for
    Configs,     \* settings
    None,
    MaxCalls,    \* bound: calls made
    MaxBadWrites \* bound: audit records whose write fails

Workers == {Loop, Cli} \cup Threads

HardBlockDomains ==
    {"lock", "alarm_control_panel", "cover", "camera", "device_tracker", "person"}

ActionDomains == {"light", "switch"}

ASSUME IntegrationsAssumption ==
    /\ Devices \subseteq [domain : {d.domain : d \in Devices}, name : {d.name : d \in Devices}]
    /\ \A c \in Configs :
        c.ha \in BOOLEAN /\ c.slack \in BOOLEAN /\ c.domains \subseteq {d.domain : d \in Devices}
        /\ c.entities \subseteq Devices
    /\ MaxCalls \in Nat /\ MaxBadWrites \in Nat

VARIABLES
    config,    \* the settings of both processes
    day,       \* today
    files,     \* the audit log
    bad,       \* how many writes of it went wrong
    asked,     \* every call made: its place is its request id
    job,       \* what each worker is doing
    wire,      \* calls sent, and not yet dealt with at the other end
    answers,   \* what the other end made of each call, every time it came
    exposed,   \* the devices whose state was answered
    lost,      \* calls with a record that was not written, or that were killed
    latest     \* the last record that was written, of each integration

vars == <<config, day, files, bad, asked, job, wire, answers, exposed, lost, latest>>

log == <<files, bad, lost, latest>>

Ids == 1 .. MaxCalls

Names == {d.name : d \in Devices}

(* What is asked for, by a route or by a phrase.                           *)
Switches == [kind : {"turn_on", "turn_off"}, target : Devices]
Reads == [kind : {"state"}, target : Devices] \cup [kind : {"status", "list"}, target : {None}]
Posts == [kind : {"test"}, target : {None}] \cup [kind : {"briefing"}, target : Categories \cup {None}]
Views == [kind : {"view"}, target : {None}]

Asked == Switches \cup Reads \cup Posts \cup Views

IntegrationOf(call) ==
    IF call \in Posts THEN "slack" ELSE IF call \in Views THEN "none" ELSE "home_assistant"

(* `started` is home_assistant_action_requested, `success` the event that  *)
(* ends a call well.                                                       *)
Event(ids) == [by : ids, outcome : {"started", "success", "error", "blocked"}]

TypeOK ==
    /\ config \in Configs /\ day \in Days /\ bad \in 0 .. MaxBadWrites
    /\ DOMAIN files = Days /\ \A d \in Days : files[d] \in Seq(Lines(Event(DOMAIN asked)))
    /\ asked \in Seq(Asked) /\ Len(asked) <= MaxCalls
    /\ DOMAIN job = Workers
    /\ \A w \in Workers :
        job[w] \in [at : {"idle"}] \cup [at : {"sending", "waiting"}, by : DOMAIN asked]
    /\ wire \subseteq DOMAIN asked /\ lost \subseteq DOMAIN asked
    /\ DOMAIN answers = Ids
    /\ \A i \in Ids : answers[i] \in Seq({"ok", "odd", "missing", "refused"})
    /\ exposed \subseteq Devices
    /\ latest \in [{"slack", "home_assistant", "none"} -> Event(DOMAIN asked) \cup {None}]

ASSUME NamesAssumption == {Torn, Broken, None} \cap Event(Ids) = {}

Idle == [at |-> "idle"]

Init ==
    /\ config \in Configs
    /\ day = 1 /\ files = NoFiles /\ bad = 0
    /\ asked = <<>>
    /\ job = [w \in Workers |-> Idle]
    /\ wire = {}
    /\ answers = [i \in Ids |-> <<>>]
    /\ exposed = {} /\ lost = {}
    /\ latest = [i \in {"slack", "home_assistant", "none"} |-> None]

-----------------------------------------------------------------------------
(* log_integration_event for a call.                                       *)
Audit(call, by, outcome) ==
    LET e == [by |-> by, outcome |-> outcome] IN
    \E how \in WriteOutcomes :
        /\ how = "whole" \/ bad < MaxBadWrites
        /\ files' = Write(files, day, e, how)
        /\ bad' = bad + IF how = "whole" THEN 0 ELSE 1
        /\ IF Recorded(files', e)
           THEN latest' = [latest EXCEPT ![IntegrationOf(call)] = e] /\ UNCHANGED lost
           ELSE lost' = lost \cup {by} /\ UNCHANGED latest

(* is_entity_allowed, without the domains nobody may configure.            *)
AllowedNotBlocked(d, forAction) ==
    /\ d.domain \in config.domains
    /\ forAction => d.domain \in ActionDomains
    /\ config.entities # {} => d \in config.entities

Allowed(d, forAction) ==
    /\ d.domain \notin HardBlockDomains
    /\ d.domain \in config.domains
    /\ forAction => d.domain \in ActionDomains
    /\ config.entities # {} => d \in config.entities

(* _resolve_entity_from_phrase: any match, in the order of a Python set.   *)
Resolved(name) ==
    {d \in config.entities : d.domain \in ActionDomains /\ d.name = name /\ Allowed(d, TRUE)}

Configured(call) == IF call \in Posts THEN config.slack ELSE config.ha

(* A call that keeps the request id of the one before.                     *)
CalledUnnumbered(w, call) ==
    /\ job[w] = Idle /\ Len(asked) < MaxCalls
    /\ asked' = IF asked = <<>> THEN <<call>> ELSE asked

Called(w, call) ==
    /\ job[w] = Idle /\ Len(asked) < MaxCalls
    /\ asked' = Append(asked, call)

Send(w, id) == job' = [job EXCEPT ![w] = [at |-> "sending", by |-> id]]

(* The operations of the two clients up to their HTTP request: what is not *)
(* configured or not allowed ends here, on record.                         *)
Request(w, call) ==
    LET id == Len(asked) + 1
        device == call.kind \in {"turn_on", "turn_off", "state"}
    IN
    /\ Called(w, call)
    /\ \/ /\ ~Configured(call)
          /\ Audit(call, id, "error") /\ UNCHANGED job
       \/ /\ Configured(call)
          /\ device /\ ~Allowed(call.target, call \in Switches)
          /\ Audit(call, id, "blocked") /\ UNCHANGED job
       \/ /\ Configured(call)
          /\ device => Allowed(call.target, call \in Switches)
          /\ IF call \in Switches THEN Audit(call, id, "started") ELSE UNCHANGED log
          /\ Send(w, id)
    /\ UNCHANGED <<config, day, wire, answers, exposed>>

(* POST /integrations/..., on the event loop.                              *)
PostRoute(call) == call \in Switches \cup Posts /\ Request(Loop, call)

(* The phrases of /ask and of the command line.  A device that is not      *)
(* configured or not found is answered at once, with no record.            *)
PhraseSwitch(w, kind, name) ==
    /\ config.ha
    /\ \E d \in Resolved(name) : Request(w, [kind |-> kind, target |-> d])

PhraseStatus(w) == config.ha /\ Request(w, [kind |-> "status", target |-> None])

PhrasePost(w, call) == Request(w, call)

Phrase(w) ==
    \/ \E kind \in {"turn_on", "turn_off"}, n \in Names : PhraseSwitch(w, kind, n)
    \/ PhraseStatus(w)
    \/ \E call \in Posts : PhrasePost(w, call)

(* GET /integrations/home-assistant/...                                    *)
GetRoute(w, call) == call \in Reads /\ Request(w, call)

(* GET /integrations: a record, and the registry.                          *)
View(w) ==
    LET call == [kind |-> "view", target |-> None] IN
    /\ Called(w, call)
    /\ Audit(call, Len(asked) + 1, "success")
    /\ UNCHANGED <<config, day, job, wire, answers, exposed>>

(* The briefing cannot be read: nothing is sent, nothing put on record.    *)
Unreadable(w) ==
    /\ job[w].at = "sending" /\ asked[job[w].by].kind = "briefing"
    /\ job' = [job EXCEPT ![w] = Idle]
    /\ UNCHANGED <<config, day, log, asked, wire, answers, exposed>>

(* httpx sends the request.                                                *)
Post(w) ==
    /\ job[w].at = "sending"
    /\ wire' = wire \cup {job[w].by}
    /\ job' = [job EXCEPT ![w].at = "waiting"]
    /\ UNCHANGED <<config, day, log, asked, answers, exposed>>

(* The other end gets it, however late, and acts on it or does not.        *)
Handle(id) ==
    /\ id \in wire
    /\ wire' = wire \ {id}
    /\ \E a \in {"ok", "refused"} \cup IF asked[id] \in Reads THEN {"odd", "missing"} ELSE {} :
        answers' = [answers EXCEPT ![id] = Append(@, a)]
    /\ UNCHANGED <<config, day, log, asked, job, exposed>>

Answered(w) == job[w].at = "waiting" /\ answers[job[w].by] # <<>>

(* The last record of a call.                                              *)
End(w, outcome) ==
    /\ Audit(asked[job[w].by], job[w].by, outcome)
    /\ job' = [job EXCEPT ![w] = Idle]

(* A good answer: the success is put on record and passed on.              *)
Complete(w) ==
    LET id == job[w].by
        call == asked[id]
    IN
    /\ Answered(w) /\ Last(answers[id]) = "ok"
    /\ End(w, "success")
    /\ exposed' = CASE call.kind = "state" -> exposed \cup {call.target}
                    [] call.kind = "list" -> exposed \cup {d \in Devices : Allowed(d, FALSE)}
                    [] OTHER -> exposed
    /\ UNCHANGED <<config, day, asked, wire, answers>>

(* An answer that is not JSON, or not of the right shape, to a read: no    *)
(* record, but for the success read_state notes before it looks.           *)
Odd(w) ==
    LET call == asked[job[w].by] IN
    /\ Answered(w) /\ Last(answers[job[w].by]) = "odd"
    /\ \/ job' = [job EXCEPT ![w] = Idle] /\ UNCHANGED log
       \/ call.kind = "state" /\ End(w, "success")
    /\ UNCHANGED <<config, day, asked, wire, answers, exposed>>

(* A 404 to a read, which only read_state puts on record.                  *)
Missing(w) ==
    LET call == asked[job[w].by] IN
    /\ Answered(w) /\ Last(answers[job[w].by]) = "missing"
    /\ IF call.kind = "state" THEN End(w, "error")
       ELSE job' = [job EXCEPT ![w] = Idle] /\ UNCHANGED log
    /\ UNCHANGED <<config, day, asked, wire, answers, exposed>>

(* Only time-outs and lost connections are put on record.                  *)
RefusedUnrecorded(w) ==
    /\ Answered(w) /\ Last(answers[job[w].by]) = "refused"
    /\ job' = [job EXCEPT ![w] = Idle]
    /\ UNCHANGED <<config, day, log, asked, wire, answers, exposed>>

(* A status of 400 or more taken for a good one.                           *)
RefusedIsFine(w) ==
    /\ Answered(w) /\ Last(answers[job[w].by]) = "refused"
    /\ End(w, "success")
    /\ UNCHANGED <<config, day, asked, wire, answers, exposed>>

(* A status of 400 or more.                                                *)
Refused(w) ==
    /\ Answered(w) /\ Last(answers[job[w].by]) = "refused"
    /\ End(w, "error")
    /\ UNCHANGED <<config, day, asked, wire, answers, exposed>>

(* A time-out or a lost connection, whatever became of the request.        *)
GiveUp(w) ==
    /\ job[w].at = "waiting"
    /\ End(w, "error")
    /\ UNCHANGED <<config, day, asked, wire, answers, exposed>>

(* The process of a worker ends.                                           *)
Kill(killed) ==
    /\ \E w \in killed : job[w] # Idle
    /\ lost' = lost \cup {job[w].by : w \in {v \in killed : job[v] # Idle}}
    /\ job' = [w \in Workers |-> IF w \in killed THEN Idle ELSE job[w]]
    /\ UNCHANGED <<config, day, files, bad, latest, asked, wire, answers, exposed>>

(* Midnight, UTC.                                                          *)
NextDay ==
    /\ day < LastDay
    /\ day' = day + 1
    /\ UNCHANGED <<config, log, asked, job, wire, answers, exposed>>

Next ==
    \/ NextDay
    \/ \E call \in Asked : PostRoute(call) \/ \E t \in Threads : GetRoute(t, call)
    \/ \E t \in Threads : View(t)
    \/ Phrase(Loop) \/ Phrase(Cli)
    \/ \E w \in Workers :
        \/ Unreadable(w) \/ Post(w) \/ Complete(w) \/ Odd(w) \/ Missing(w) \/ Refused(w)
        \/ GiveUp(w)
    \/ \E id \in Ids : Handle(id)
    \/ Kill({Cli}) \/ Kill({Loop} \cup Threads)

Spec == Init /\ [][Next]_vars

-----------------------------------------------------------------------------
On(id, outcome) == Recorded(files, [by |-> id, outcome |-> outcome])

(* The record that the registry shows as the last event of an integration. *)
LastEvent(integration) ==
    LET about == {id \in DOMAIN asked : IntegrationOf(asked[id]) = integration}
    IN  ReadFiltered(files, Event(about), 1)

(* A device is switched only after the request was put on record, and a    *)
(* success is on record only of what the other end did: the trail neither  *)
(* misses nor makes up a change, whatever is killed or late, and no call   *)
(* is carried out twice, since nothing is sent again after a time-out      *)
(* (_service_call, send_test, send_briefing, _http_post, _post).           *)
TrailTellsWhatHappened ==
    \A id \in DOMAIN asked :
        /\ asked[id] \in Switches /\ answers[id] # <<>> => On(id, "started") \/ id \in lost
        /\ asked[id] \in Switches \cup Posts /\ On(id, "success") => "ok" \in ToSet(answers[id])
        /\ Len(answers[id]) <= 1

(* A call that was sent to change something ends with exactly one record   *)
(* of how it ended, unless its process was killed or the record could not  *)
(* be written: no exit of _http_post or _post goes unrecorded.             *)
EndsOnRecord ==
    \A id \in DOMAIN asked :
        asked[id] \in Switches \cup Posts =>
            /\ ~(On(id, "success") /\ On(id, "error"))
            /\ (id \in wire \/ answers[id] # <<>>) =>
                \/ On(id, "success") \/ On(id, "error") \/ id \in lost
                \/ \E w \in Workers : job[w] # Idle /\ job[w].by = id

(* Nothing in a hard-blocked domain or outside the operator's lists is     *)
(* ever switched or shown, on whichever way it was asked for: by a route,  *)
(* by a phrase, or in the list of everything (is_entity_allowed).          *)
OnlyWhatIsAllowed ==
    LET switched == {asked[id].target :
                        id \in {i \in DOMAIN asked : asked[i] \in Switches /\ answers[i] # <<>>}}
        listed(d) == d.domain \in config.domains /\ (config.entities = {} \/ d \in config.entities)
    IN
    /\ \A d \in switched \cup exposed : listed(d) /\ d.domain \notin HardBlockDomains
    /\ \A d \in switched : d.domain \in {"light", "switch"}

(* What the registry shows as the last event of an integration is the last *)
(* record that was written of it, across midnight, other integrations'     *)
(* records and lines that were cut off (_last_event_for, _read_filtered).  *)
RegistryShowsLatest ==
    \A i \in {"slack", "home_assistant"} :
        LastEvent(i) = IF latest[i] = None THEN <<>> ELSE <<latest[i]>>
=============================================================================
