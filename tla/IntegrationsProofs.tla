-------------------------- MODULE IntegrationsProofs --------------------------
(***************************************************************************)
(* What is asked of Slack and Home Assistant, what they make of it, and    *)
(* what is put on record: proofs for any devices, settings, threads, days, *)
(* numbers of calls and of failed writes.                                  *)
(***************************************************************************)
EXTENDS Integrations, AuditLogProofs

Outcomes == {"started", "success", "error", "blocked"}

Job == [at : {"idle"}] \cup [at : {"sending", "waiting"}, by : Ids]

Subjects == {"slack", "home_assistant", "none"}

Typed ==
    /\ config \in Configs /\ day \in Days /\ bad \in 0 .. MaxBadWrites
    /\ files \in Logs(Event(Ids)) /\ CutsUnread(files)
    /\ asked \in Seq(Asked) /\ Len(asked) <= MaxCalls
    /\ job \in [Workers -> Job]
    /\ wire \subseteq Ids /\ lost \subseteq Ids
    /\ answers \in [Ids -> Seq({"ok", "odd", "missing", "refused"})]
    /\ exposed \subseteq Devices
    /\ latest \in [Subjects -> Event(Ids) \cup {None}]

(* A worker is at a call, and no two are at one.                           *)
Open(id) == \E w \in Workers : job[w] # Idle /\ job[w].by = id

Apart ==
    \A v, w \in Workers : job[v] # Idle /\ job[w] # Idle /\ job[v].by = job[w].by => v = w

Sending(id) == \E w \in Workers : job[w].at = "sending" /\ job[w].by = id

(* A call was sent.                                                        *)
Out(id) == id \in wire \/ answers[id] # <<>>

(* Nothing is known of a call before it is made.                           *)
Known(id) ==
    (\E o \in Outcomes : On(id, o)) \/ id \in lost \/ Out(id) \/ Open(id) => id \in DOMAIN asked

(* A call is sent once, so it is answered once.                            *)
SentOnce(id) ==
    /\ Len(answers[id]) <= 1
    /\ id \in wire \/ Sending(id) => answers[id] = <<>>
    /\ Sending(id) => id \notin wire
    /\ "odd" \in ToSet(answers[id]) \/ "missing" \in ToSet(answers[id]) => asked[id] \in Reads

(* A call that changes something has no last record while a worker is at   *)
(* it, and one afterwards if it was sent.                                  *)
Trail(id) ==
    id \in DOMAIN asked /\ asked[id] \in Switches \cup Posts =>
        /\ On(id, "success") => "ok" \in ToSet(answers[id])
        /\ ~(On(id, "success") /\ On(id, "error"))
        /\ Open(id) => ~On(id, "success") /\ ~On(id, "error")
        /\ Out(id) => On(id, "success") \/ On(id, "error") \/ id \in lost \/ Open(id)

(* What is sent, or about to be, was allowed, and a switch put on record.  *)
Permitted(id) ==
    id \in DOMAIN asked /\ (Out(id) \/ Open(id)) =>
        /\ asked[id] \in Switches =>
             (On(id, "started") \/ id \in lost) /\ Allowed(asked[id].target, TRUE)
        /\ asked[id].kind = "state" => Allowed(asked[id].target, FALSE)

CallTrue(id) == Known(id) /\ SentOnce(id) /\ Trail(id) /\ Permitted(id)

CallsTrue == \A id \in Ids : CallTrue(id)

Shown == \A d \in exposed : Allowed(d, FALSE)

LatestKnown == \A x \in Subjects : latest[x] = None \/ latest[x].by \in DOMAIN asked

TrailInv == Typed /\ Apart /\ CallsTrue /\ Shown /\ LatestKnown

-----------------------------------------------------------------------------
(* The kinds of calls are apart.                                           *)
LEMMA Kinds ==
    \A c \in Asked :
        /\ c \in Switches <=> c.kind \in {"turn_on", "turn_off"}
        /\ c \in Posts <=> c.kind \in {"test", "briefing"}
        /\ c \in Reads <=> c.kind \in {"state", "status", "list"}
        /\ c.kind \in {"turn_on", "turn_off", "state"} => c.target \in Devices
BY DEF Asked, Switches, Posts, Reads, Views

(* A record is written, or lost, and nothing else comes to the log.        *)
LEMMA AuditGrows ==
    ASSUME Typed, NEW call, NEW id \in Ids, NEW outcome \in Outcomes,
           Audit(call, id, outcome)
    PROVE  /\ files' \in Logs(Event(Ids)) /\ CutsUnread(files') /\ bad' \in 0 .. MaxBadWrites
           /\ lost \subseteq lost' /\ lost' \subseteq lost \cup {id}
           /\ latest' \in [Subjects -> Event(Ids) \cup {None}]
           /\ \A x \in Subjects : latest'[x] = latest[x] \/ latest'[x].by = id
           /\ \A i \in Ids, o \in Outcomes :
                /\ On(i, o) => On(i, o)'
                /\ On(i, o)' => On(i, o) \/ (i = id /\ o = outcome)
           /\ On(id, outcome)' \/ id \in lost'
<1>1. PICK e : e = [by |-> id, outcome |-> outcome]
  OBVIOUS
<1>2. PICK how \in WriteOutcomes :
        /\ how = "whole" \/ bad < MaxBadWrites
        /\ files' = Write(files, day, e, how)
        /\ bad' = bad + IF how = "whole" THEN 0 ELSE 1
        /\ IF Recorded(files', e)
           THEN latest' = [latest EXCEPT ![IntegrationOf(call)] = e] /\ UNCHANGED lost
           ELSE lost' = lost \cup {id} /\ UNCHANGED latest
  BY <1>1 DEF Audit
<1>3. e \in Event(Ids) /\ e.by = id
  BY <1>1 DEF Event, Outcomes
<1>4. how \in QuoteOutcomes
  BY DEF QuoteOutcomes
<1>5. /\ files' \in Logs(Event(Ids)) /\ CutsUnread(files')
      /\ \A x : x \notin Unread =>
           /\ Recorded(files, x) => Recorded(files', x)
           /\ Recorded(files', x) => Recorded(files, x) \/ x = e
  BY <1>2, <1>3, <1>4, WriteRecords DEF Typed
<1>6. bad' \in 0 .. MaxBadWrites
  BY <1>2, IntegrationsAssumption DEF Typed
<1>7. IntegrationOf(call) \in Subjects
  BY DEF IntegrationOf, Subjects
<1>8. /\ latest' \in [Subjects -> Event(Ids) \cup {None}]
      /\ \A x \in Subjects : latest'[x] = latest[x] \/ latest'[x].by = id
  BY <1>2, <1>3, <1>7 DEF Typed
<1>9. ASSUME NEW i \in Ids, NEW o \in Outcomes
      PROVE  /\ On(i, o) => On(i, o)'
             /\ On(i, o)' => On(i, o) \/ (i = id /\ o = outcome)
  <2>1. PICK x : x = [by |-> i, outcome |-> o]
    OBVIOUS
  <2>2. x \in Event(Ids)
    BY <2>1 DEF Event, Outcomes
  <2>3. x \notin Unread
    BY <2>2, NamesAssumption DEF Unread
  <2>4. x = e => i = id /\ o = outcome
    BY <1>1, <2>1
  <2> QED
    BY <1>5, <2>1, <2>3, <2>4 DEF On
<1>10. On(id, outcome)' \/ id \in lost'
  BY <1>1, <1>2 DEF On
<1>11. lost \subseteq lost' /\ lost' \subseteq lost \cup {id}
  BY <1>2
<1> QED
  BY <1>5, <1>6, <1>8, <1>9, <1>10, <1>11

(* The records there are afterwards: those of before, and the new one.     *)
LEMMA RecordsGrow ==
    ASSUME Typed, NEW call, NEW id \in Ids, NEW outcome \in Outcomes,
           Audit(call, id, outcome)
    PROVE  \A i \in Ids, o \in Outcomes : On(i, o)' => On(i, o) \/ (i = id /\ o = outcome)
<1>1. /\ files' \in Logs(Event(Ids)) /\ CutsUnread(files') /\ bad' \in 0 .. MaxBadWrites
      /\ lost \subseteq lost' /\ lost' \subseteq lost \cup {id}
      /\ latest' \in [Subjects -> Event(Ids) \cup {None}]
      /\ \A x \in Subjects : latest'[x] = latest[x] \/ latest'[x].by = id
      /\ \A i \in Ids, o \in Outcomes :
           /\ On(i, o) => On(i, o)'
           /\ On(i, o)' => On(i, o) \/ (i = id /\ o = outcome)
      /\ On(id, outcome)' \/ id \in lost'
  BY ONLY Typed, id \in Ids, outcome \in Outcomes, Audit(call, id, outcome), AuditGrows, ZenonT(90)
<1> QED
  BY ONLY <1>1, ZenonT(40)

(* A step that is about one call.                                          *)
LEMMA OneCallInv ==
    ASSUME TrailInv, NEW id \in Ids, Typed', Apart', CallTrue(id)', Shown', LatestKnown',
           config' = config,
           \A i \in Ids \ {id} :
             /\ answers'[i] = answers[i]
             /\ i \in wire' <=> i \in wire
             /\ i \in lost' <=> i \in lost
             /\ i \in DOMAIN asked' <=> i \in DOMAIN asked
             /\ i \in DOMAIN asked => asked'[i] = asked[i],
           \A i \in Ids \ {id} : \A o \in Outcomes : On(i, o)' <=> On(i, o),
           \A v \in Workers :
             \/ job'[v] = job[v]
             \/ (job[v] # Idle => job[v].by = id) /\ (job'[v] # Idle => job'[v].by = id)
    PROVE  TrailInv'
<1> SUFFICES ASSUME NEW i \in Ids \ {id} PROVE CallTrue(i)'
  BY DEF TrailInv, CallsTrue
<1>1. CallTrue(i)
  BY DEF TrailInv, CallsTrue
<1>2. Open(i)' <=> Open(i)
  BY DEF Open
<1>3. Sending(i)' <=> Sending(i)
  BY DEF Sending, Idle
<1>4. Out(i)' <=> Out(i)
  BY DEF Out
<1>5. \A o \in Outcomes : On(i, o)' <=> On(i, o)
  OBVIOUS
<1>6. Known(i)'
  BY <1>1, <1>2, <1>4, <1>5 DEF CallTrue, Known
<1>7. answers'[i] # <<>> => i \in DOMAIN asked /\ asked'[i] = asked[i]
  BY <1>1 DEF CallTrue, Known, Out
<1>8. SentOnce(i)'
  <2>1. answers[i] = <<>> => "odd" \notin ToSet(answers[i]) /\ "missing" \notin ToSet(answers[i])
    BY DEF ToSet
  <2> QED
    BY <1>1, <1>3, <1>7, <2>1 DEF CallTrue, SentOnce
<1>9. Trail(i)'
  BY <1>1, <1>2, <1>4, <1>5 DEF CallTrue, Trail, Outcomes
<1>10. Permitted(i)'
  BY <1>1, <1>2, <1>4, <1>5 DEF CallTrue, Permitted, Outcomes, Allowed
<1> QED
  BY <1>6, <1>8, <1>9, <1>10 DEF CallTrue

(* A new call is known of nowhere.                                         *)
LEMMA NewCall ==
    ASSUME TrailInv, NEW w \in Workers, NEW call \in Asked, Called(w, call),
           NEW id, id = Len(asked) + 1
    PROVE  /\ id \in Ids /\ job[w] = Idle
           /\ asked' \in Seq(Asked) /\ Len(asked') <= MaxCalls
           /\ id \in DOMAIN asked' /\ asked'[id] = call
           /\ \A i \in DOMAIN asked : i # id /\ i \in DOMAIN asked' /\ asked'[i] = asked[i]
           /\ \A i \in DOMAIN asked' \ {id} : i \in DOMAIN asked
           /\ ~Open(id) /\ id \notin lost /\ id \notin wire /\ answers[id] = <<>>
           /\ \A o \in Outcomes : ~On(id, o)
<1>1. /\ job[w] = Idle /\ Len(asked) < MaxCalls /\ asked' = Append(asked, call)
      /\ asked \in Seq(Asked) /\ Len(asked) \in Nat /\ DOMAIN asked = 1 .. Len(asked)
  BY DEF Called, TrailInv, Typed
<1>2. /\ asked' \in Seq(Asked) /\ Len(asked') = id /\ DOMAIN asked' = 1 .. id
      /\ asked'[id] = call /\ \A i \in 1 .. Len(asked) : asked'[i] = asked[i]
  BY <1>1, AppendProperties
<1>3. id \in Ids /\ id \notin DOMAIN asked /\ id <= MaxCalls
  BY <1>1, IntegrationsAssumption DEF Ids
<1>4. Known(id)
  BY <1>3 DEF TrailInv, CallsTrue, CallTrue
<1>5. ~Open(id) /\ id \notin lost /\ id \notin wire /\ answers[id] = <<>> /\ \A o \in Outcomes : ~On(id, o)
  BY <1>3, <1>4 DEF Known, Out
<1>6. \A i \in DOMAIN asked' \ {id} : i \in DOMAIN asked
  BY <1>1, <1>2
<1>7. \A i \in DOMAIN asked : i # id /\ i \in DOMAIN asked' /\ asked'[i] = asked[i]
  BY <1>1, <1>2
<1> QED
  BY <1>1, <1>2, <1>3, <1>5, <1>6, <1>7

(* A call that is no more than a record: refused at once, or a view.       *)
LEMMA RecordedCallInv ==
    ASSUME TrailInv, NEW w \in Workers, NEW call \in Asked, Called(w, call),
           NEW o \in Outcomes, Audit(call, Len(asked) + 1, o),
           call \in Switches \cup Posts => o # "success",
           UNCHANGED <<config, day, job, wire, answers, exposed>>
    PROVE  TrailInv'
<1>1. PICK id : id = Len(asked) + 1
  OBVIOUS
<1>2. /\ id \in Ids
      /\ asked' \in Seq(Asked) /\ Len(asked') <= MaxCalls
      /\ id \in DOMAIN asked' /\ asked'[id] = call
      /\ \A i \in DOMAIN asked : i # id /\ i \in DOMAIN asked' /\ asked'[i] = asked[i]
      /\ \A i \in DOMAIN asked' \ {id} : i \in DOMAIN asked
      /\ ~Open(id) /\ id \notin lost /\ id \notin wire /\ answers[id] = <<>>
      /\ \A x \in Outcomes : ~On(id, x)
  BY <1>1, NewCall
<1>3. /\ files' \in Logs(Event(Ids)) /\ CutsUnread(files') /\ bad' \in 0 .. MaxBadWrites
      /\ lost \subseteq lost' /\ lost' \subseteq lost \cup {id}
      /\ latest' \in [Subjects -> Event(Ids) \cup {None}]
      /\ \A x \in Subjects : latest'[x] = latest[x] \/ latest'[x].by = id
      /\ \A i \in Ids, x \in Outcomes :
           /\ On(i, x) => On(i, x)'
           /\ On(i, x)' => On(i, x) \/ (i = id /\ x = o)
  <2>1. Audit(call, id, o)
    BY <1>1 DEF Audit
  <2>2. Typed /\ id \in Ids /\ o \in Outcomes
    BY <1>2 DEF TrailInv
  <2> QED
    BY ONLY <2>1, <2>2, AuditGrows
<1>4. UNCHANGED <<config, day, job, wire, answers, exposed>>
  OBVIOUS
<1>5. Typed'
  BY <1>2, <1>3, <1>4 DEF TrailInv, Typed
<1>6. Apart' /\ Shown'
  BY <1>4 DEF TrailInv, Apart, Shown, Allowed
<1>7. LatestKnown'
  BY <1>2, <1>3 DEF TrailInv, LatestKnown
<1>8. CallTrue(id)'
  <2>1. ~Open(id)' /\ ~Out(id)'
    BY <1>2, <1>4 DEF Open, Out
  <2>2. ~Sending(id)'
    BY <1>2, <1>4 DEF Open, Sending, Idle
  <2>3. Known(id)'
    BY <1>2 DEF Known
  <2>4. SentOnce(id)'
    BY <1>2, <1>4, <2>2 DEF SentOnce, ToSet
  <2>5. Trail(id)'
    <3>1. "success" \in Outcomes /\ "error" \in Outcomes
      BY DEF Outcomes
    <3>2. On(id, "success")' => call \notin Switches \cup Posts
      BY <1>2, <1>3, <3>1
    <3> QED
      BY <1>2, <2>1, <3>2 DEF Trail
  <2>6. Permitted(id)'
    BY <2>1 DEF Permitted
  <2> QED
    BY <2>3, <2>4, <2>5, <2>6 DEF CallTrue
<1>9. \A i \in Ids \ {id} :
        /\ answers'[i] = answers[i]
        /\ i \in wire' <=> i \in wire
        /\ i \in lost' <=> i \in lost
        /\ i \in DOMAIN asked' <=> i \in DOMAIN asked
        /\ i \in DOMAIN asked => asked'[i] = asked[i]
  BY <1>2, <1>3, <1>4
<1>10. \A i \in Ids \ {id} : \A x \in Outcomes : On(i, x)' <=> On(i, x)
  BY <1>3
<1> QED
  BY <1>2, <1>4, <1>5, <1>6, <1>7, <1>8, <1>9, <1>10, OneCallInv

(* A call that was configured and allowed, about to be sent.               *)
LEMMA SentCallInv ==
    ASSUME TrailInv, NEW w \in Workers, NEW call \in Asked, Called(w, call),
           call.kind \in {"turn_on", "turn_off", "state"} => Allowed(call.target, call \in Switches),
           IF call \in Switches THEN Audit(call, Len(asked) + 1, "started") ELSE UNCHANGED log,
           Send(w, Len(asked) + 1),
           UNCHANGED <<config, day, wire, answers, exposed>>
    PROVE  TrailInv'
<1>1. PICK id : id = Len(asked) + 1
  OBVIOUS
<1>2. /\ id \in Ids /\ job[w] = Idle
      /\ asked' \in Seq(Asked) /\ Len(asked') <= MaxCalls
      /\ id \in DOMAIN asked' /\ asked'[id] = call
      /\ \A i \in DOMAIN asked : i # id /\ i \in DOMAIN asked' /\ asked'[i] = asked[i]
      /\ \A i \in DOMAIN asked' \ {id} : i \in DOMAIN asked
      /\ ~Open(id) /\ id \notin lost /\ id \notin wire /\ answers[id] = <<>>
      /\ \A x \in Outcomes : ~On(id, x)
  BY <1>1, NewCall
<1>3. /\ files' \in Logs(Event(Ids)) /\ CutsUnread(files') /\ bad' \in 0 .. MaxBadWrites
      /\ lost \subseteq lost' /\ lost' \subseteq lost \cup {id}
      /\ latest' \in [Subjects -> Event(Ids) \cup {None}]
      /\ \A x \in Subjects : latest'[x] = latest[x] \/ latest'[x].by = id
      /\ \A i \in Ids, x \in Outcomes :
           /\ On(i, x) => On(i, x)'
           /\ On(i, x)' => On(i, x) \/ (i = id /\ x = "started")
      /\ call \in Switches => On(id, "started")' \/ id \in lost'
  <2>1. CASE call \in Switches
    <3>1. Typed /\ id \in Ids /\ "started" \in Outcomes
      BY <1>2 DEF TrailInv, Outcomes
    <3>2. Audit(call, id, "started")
      BY <1>1, <2>1 DEF Audit
    <3> QED
      BY ONLY <3>1, <3>2, AuditGrows, ZenonT(90)
  <2>2. CASE call \notin Switches
    BY <2>2 DEF log, TrailInv, Typed, On
  <2> QED
    BY <2>1, <2>2
<1>4. PICK j : j = [at |-> "sending", by |-> id]
  OBVIOUS
<1>5. job' = [job EXCEPT ![w] = j] /\ UNCHANGED <<config, day, wire, answers, exposed>>
  BY <1>1, <1>4 DEF Send
<1>6. j \in Job /\ j.at = "sending" /\ j.by = id /\ j # Idle
  BY <1>2, <1>4 DEF Job, Idle
<1>7. job \in [Workers -> Job] /\ job'[w] = j /\ \A v \in Workers \ {w} : job'[v] = job[v]
  BY <1>5 DEF TrailInv, Typed
<1>8. Typed'
  <2>1. job' \in [Workers -> Job]
    BY <1>5, <1>6, <1>7
  <2> QED
    BY <1>2, <1>3, <1>5, <2>1 DEF TrailInv, Typed
<1>9. Apart'
  <2> SUFFICES ASSUME NEW v \in Workers, NEW u \in Workers, job'[v] # Idle, job'[u] # Idle,
                      job'[v].by = job'[u].by
               PROVE  v = u
    BY DEF Apart
  <2>1. CASE v = w /\ u # w
    BY <1>2, <1>6, <1>7, <2>1 DEF Open
  <2>2. CASE v # w /\ u = w
    BY <1>2, <1>6, <1>7, <2>2 DEF Open
  <2>3. CASE v # w /\ u # w
    BY <1>7, <2>3 DEF TrailInv, Apart
  <2> QED
    BY <2>1, <2>2, <2>3
<1>10. Shown'
  BY <1>5 DEF TrailInv, Shown, Allowed
<1>11. LatestKnown'
  BY <1>2, <1>3 DEF TrailInv, LatestKnown
<1>12. CallTrue(id)'
  <2>1. Known(id)'
    BY <1>2 DEF Known
  <2>2. SentOnce(id)'
    BY <1>2, <1>5 DEF SentOnce, ToSet
  <2>3. Trail(id)'
    <3>1. "success" \in Outcomes /\ "error" \in Outcomes
      BY DEF Outcomes
    <3>2. ~On(id, "success")' /\ ~On(id, "error")'
      BY <1>2, <1>3, <3>1
    <3>3. ~Out(id)'
      BY <1>2, <1>5 DEF Out
    <3> QED
      BY <3>2, <3>3 DEF Trail
  <2>4. Permitted(id)'
    <3>1. call \in Switches => call.kind \in {"turn_on", "turn_off"}
      BY Kinds
    <3>2. call.kind = "state" => call \notin Switches
      BY Kinds
    <3>3. /\ call \in Switches => Allowed(call.target, TRUE)
          /\ call.kind = "state" => Allowed(call.target, FALSE)
      <4>1. CASE call \in Switches
        <5>1. (call \in Switches) = TRUE
          BY <4>1
        <5> QED
          BY <3>1, <3>2, <4>1, <5>1
      <4>2. CASE call \notin Switches
        <5>1. (call \in Switches) = FALSE
          BY <4>2
        <5> QED
          BY <4>2, <5>1
      <4> QED
        BY <4>1, <4>2
    <3>4. /\ call \in Switches => Allowed(call.target, TRUE)'
          /\ call.kind = "state" => Allowed(call.target, FALSE)'
      BY <1>5, <3>3 DEF Allowed
    <3> QED
      BY <1>2, <1>3, <3>4 DEF Permitted
  <2> QED
    BY <2>1, <2>2, <2>3, <2>4 DEF CallTrue
<1>13. \A i \in Ids \ {id} :
        /\ answers'[i] = answers[i]
        /\ i \in wire' <=> i \in wire
        /\ i \in lost' <=> i \in lost
        /\ i \in DOMAIN asked' <=> i \in DOMAIN asked
        /\ i \in DOMAIN asked => asked'[i] = asked[i]
  BY <1>2, <1>3, <1>5
<1>14. \A i \in Ids \ {id} : \A x \in Outcomes : On(i, x)' <=> On(i, x)
  BY <1>3
<1>15. \A v \in Workers :
         \/ job'[v] = job[v]
         \/ (job[v] # Idle => job[v].by = id) /\ (job'[v] # Idle => job'[v].by = id)
  BY <1>2, <1>6, <1>7
<1> QED
  BY <1>2, <1>5, <1>8, <1>9, <1>10, <1>11, <1>12, <1>13, <1>14, <1>15, OneCallInv

(* A request, however it was made.                                         *)
LEMMA RequestInv ==
    ASSUME TrailInv, NEW w \in Workers, NEW call \in Asked, Request(w, call)
    PROVE  TrailInv'
<1>1. Called(w, call) /\ UNCHANGED <<config, day, wire, answers, exposed>>
  BY DEF Request
<1>2. ASSUME NEW o \in {"error", "blocked"}, Audit(call, Len(asked) + 1, o), UNCHANGED job
      PROVE  TrailInv'
  <2>1. o \in Outcomes /\ o # "success"
    BY DEF Outcomes
  <2>2. UNCHANGED <<config, day, job, wire, answers, exposed>>
    BY <1>1, <1>2
  <2> QED
    BY <1>1, <1>2, <2>1, <2>2, RecordedCallInv
<1>3. CASE Audit(call, Len(asked) + 1, "error") /\ UNCHANGED job
  BY <1>2, <1>3
<1>4. CASE Audit(call, Len(asked) + 1, "blocked") /\ UNCHANGED job
  BY <1>2, <1>4
<1>5. CASE /\ call.kind \in {"turn_on", "turn_off", "state"} => Allowed(call.target, call \in Switches)
           /\ IF call \in Switches THEN Audit(call, Len(asked) + 1, "started") ELSE UNCHANGED log
           /\ Send(w, Len(asked) + 1)
  BY <1>1, <1>5, SentCallInv
<1> QED
  BY <1>3, <1>4, <1>5 DEF Request

(* What is known of a worker's call.                                       *)
LEMMA AtCall ==
    ASSUME TrailInv, NEW w \in Workers, NEW id, id = job[w].by, job[w] # Idle
    PROVE  /\ id \in Ids /\ id \in DOMAIN asked /\ asked[id] \in Asked
           /\ job[w].at \in {"sending", "waiting"} /\ job[w] = [at |-> job[w].at, by |-> id]
           /\ CallTrue(id) /\ Open(id) /\ answers[id] \in Seq({"ok", "odd", "missing", "refused"})
           /\ \A v \in Workers \ {w} : job[v] # Idle => job[v].by # id
<1>1. job[w] \in Job
  BY DEF TrailInv, Typed
<1>2. id \in Ids /\ job[w].at \in {"sending", "waiting"} /\ job[w] = [at |-> job[w].at, by |-> id]
  BY <1>1 DEF Job, Idle
<1>3. CallTrue(id) /\ Open(id)
  BY <1>2 DEF TrailInv, CallsTrue, Open
<1>4. id \in DOMAIN asked
  BY <1>3 DEF CallTrue, Known
<1>5. asked[id] \in Asked
  BY <1>4 DEF TrailInv, Typed
<1>6. \A v \in Workers \ {w} : job[v] # Idle => job[v].by # id
  BY DEF TrailInv, Apart
<1> QED
  BY <1>2, <1>3, <1>4, <1>5, <1>6 DEF TrailInv, Typed

(* An answer that came is one of those there are.                          *)
LEMMA LastAnswer ==
    ASSUME TrailInv, NEW w \in Workers, NEW id, id = job[w].by, Answered(w)
    PROVE  job[w] # Idle /\ Out(id) /\ Last(answers[id]) \in ToSet(answers[id])
<1>1. job[w].at = "waiting" /\ answers[id] # <<>> /\ job[w] # Idle
  BY DEF Answered, Idle
<1>2. answers[id] \in Seq({"ok", "odd", "missing", "refused"})
  BY <1>1, AtCall
<1>3. Len(answers[id]) \in DOMAIN answers[id]
  BY <1>1, <1>2, EmptySeq
<1> QED
  BY <1>1, <1>3 DEF Out, Last, ToSet

(* A worker leaves its call: with its last record, or with none when there *)
(* is none to write.                                                       *)
LEMMA LeaveInv ==
    ASSUME TrailInv, NEW w \in Workers, NEW id, id = job[w].by, job[w] # Idle,
           job' = [job EXCEPT ![w] = Idle],
           UNCHANGED <<config, day, asked, wire, answers>>,
           \/ UNCHANGED log /\ (asked[id] \in Switches \cup Posts => ~Out(id))
           \/ \E o \in {"success", "error"} :
                /\ Audit(asked[id], id, o)
                /\ asked[id] \in Switches \cup Posts /\ o = "success" => "ok" \in ToSet(answers[id]),
           exposed' \subseteq Devices, \A d \in exposed' : Allowed(d, FALSE)
    PROVE  TrailInv'
<1>1. /\ id \in Ids /\ id \in DOMAIN asked /\ asked[id] \in Asked
      /\ CallTrue(id) /\ Open(id)
      /\ \A v \in Workers \ {w} : job[v] # Idle => job[v].by # id
  BY AtCall
<1>2. job'[w] = Idle /\ \A v \in Workers \ {w} : job'[v] = job[v]
  BY DEF TrailInv, Typed
<1>3. /\ files' \in Logs(Event(Ids)) /\ CutsUnread(files') /\ bad' \in 0 .. MaxBadWrites
      /\ lost \subseteq lost' /\ lost' \subseteq lost \cup {id}
      /\ latest' \in [Subjects -> Event(Ids) \cup {None}]
      /\ \A x \in Subjects : latest'[x] = latest[x] \/ latest'[x].by = id
      /\ \A i \in Ids, x \in Outcomes :
           /\ On(i, x) => On(i, x)'
           /\ On(i, x)' => On(i, x) \/ i = id
      /\ asked[id] \in Switches \cup Posts =>
           /\ Out(id) => On(id, "success")' \/ On(id, "error")' \/ id \in lost'
           /\ ~(On(id, "success")' /\ On(id, "error")')
           /\ On(id, "success")' => "ok" \in ToSet(answers[id])
  <2>1. {"success", "error"} \subseteq Outcomes
    BY DEF Outcomes
  <2>2. asked[id] \in Switches \cup Posts => ~On(id, "success") /\ ~On(id, "error")
    BY <1>1 DEF CallTrue, Trail
  <2>3. CASE UNCHANGED log /\ (asked[id] \in Switches \cup Posts => ~Out(id))
    <3>1. \A i, x : On(i, x)' <=> On(i, x)
      BY <2>3 DEF log, On
    <3>2. files' = files /\ bad' = bad /\ lost' = lost /\ latest' = latest
      BY <2>3 DEF log
    <3>3. /\ files' \in Logs(Event(Ids)) /\ CutsUnread(files') /\ bad' \in 0 .. MaxBadWrites
          /\ latest' \in [Subjects -> Event(Ids) \cup {None}]
      BY <3>2 DEF TrailInv, Typed
    <3> QED
      BY <2>2, <2>3, <3>1, <3>2, <3>3
  <2>4. CASE \E o \in {"success", "error"} :
               /\ Audit(asked[id], id, o)
               /\ asked[id] \in Switches \cup Posts /\ o = "success" => "ok" \in ToSet(answers[id])
    <3>1. PICK o \in {"success", "error"} :
               /\ Audit(asked[id], id, o)
               /\ asked[id] \in Switches \cup Posts /\ o = "success" => "ok" \in ToSet(answers[id])
      BY <2>4
    <3>2. PICK call : call = asked[id]
      OBVIOUS
    <3>3. Audit(call, id, o)
      BY <3>1, <3>2 DEF Audit
    <3>4. /\ files' \in Logs(Event(Ids)) /\ CutsUnread(files') /\ bad' \in 0 .. MaxBadWrites
          /\ lost \subseteq lost' /\ lost' \subseteq lost \cup {id}
          /\ latest' \in [Subjects -> Event(Ids) \cup {None}]
          /\ \A x \in Subjects : latest'[x] = latest[x] \/ latest'[x].by = id
          /\ \A i \in Ids, x \in Outcomes :
               /\ On(i, x) => On(i, x)'
               /\ On(i, x)' => On(i, x) \/ (i = id /\ x = o)
          /\ On(id, o)' \/ id \in lost'
      <4>1. Typed /\ id \in Ids /\ o \in Outcomes
        BY <1>1 DEF TrailInv, Outcomes
      <4> QED
        BY ONLY <3>3, <4>1, AuditGrows
    <3>5. /\ On(id, "success")' => On(id, "success") \/ o = "success"
          /\ On(id, "error")' => On(id, "error") \/ o = "error"
      BY <1>1, <2>1, <3>4
    <3>6. asked[id] \in Switches \cup Posts =>
            /\ On(id, "success")' \/ On(id, "error")' \/ id \in lost'
            /\ ~(On(id, "success")' /\ On(id, "error")')
            /\ On(id, "success")' => "ok" \in ToSet(answers[id])
      <4>1. CASE o = "success"
        BY <2>2, <3>1, <3>4, <3>5, <4>1
      <4>2. CASE o = "error"
        BY <2>2, <3>1, <3>4, <3>5, <4>2
      <4> QED
        BY <3>1, <4>1, <4>2
    <3>7. \A i \in Ids, x \in Outcomes :
            /\ On(i, x) => On(i, x)'
            /\ On(i, x)' => On(i, x) \/ i = id
      BY <3>4
    <3> QED
      BY <3>4, <3>6, <3>7
  <2> QED
    BY <2>3, <2>4
<1>4. config' = config /\ day' = day /\ asked' = asked /\ wire' = wire /\ answers' = answers
  OBVIOUS
<1>5. Typed'
  <2>1. job' \in [Workers -> Job]
    <3>1. Idle \in Job
      BY DEF Idle, Job
    <3> QED
      BY <3>1 DEF TrailInv, Typed
  <2>2. lost' \subseteq Ids
    BY <1>1, <1>3 DEF TrailInv, Typed
  <2> QED
    BY <1>3, <1>4, <2>1, <2>2 DEF TrailInv, Typed
<1>6. Apart'
  BY <1>2 DEF TrailInv, Apart
<1>7. Shown'
  BY <1>4 DEF Shown, Allowed
<1>8. LatestKnown'
  BY <1>1, <1>3, <1>4 DEF TrailInv, LatestKnown
<1>9. CallTrue(id)'
  <2>1. Out(id)' <=> Out(id)
    BY <1>4 DEF Out
  <2>2. ~Open(id)' /\ ~Sending(id)'
    BY <1>1, <1>2 DEF Open, Sending, Idle
  <2>3. Known(id)'
    BY <1>1, <1>4 DEF Known
  <2>4. SentOnce(id)'
    BY <1>1, <1>4, <2>2 DEF CallTrue, SentOnce
  <2>5. Trail(id)'
    BY <1>3, <1>4, <2>1, <2>2 DEF Trail
  <2>6. Permitted(id)'
    <3>1. "started" \in Outcomes
      BY DEF Outcomes
    <3> QED
      BY <1>1, <1>3, <1>4, <2>1, <2>2, <3>1 DEF CallTrue, Permitted, Allowed
  <2> QED
    BY <2>3, <2>4, <2>5, <2>6 DEF CallTrue
<1>10. \A i \in Ids \ {id} :
         /\ answers'[i] = answers[i]
         /\ i \in wire' <=> i \in wire
         /\ i \in lost' <=> i \in lost
         /\ i \in DOMAIN asked' <=> i \in DOMAIN asked
         /\ i \in DOMAIN asked => asked'[i] = asked[i]
  BY <1>3, <1>4
<1>11. \A i \in Ids \ {id} : \A x \in Outcomes : On(i, x)' <=> On(i, x)
  BY <1>3
<1>12. \A v \in Workers :
         \/ job'[v] = job[v]
         \/ (job[v] # Idle => job[v].by = id) /\ (job'[v] # Idle => job'[v].by = id)
  BY <1>2
<1> QED
  BY <1>1, <1>4, <1>5, <1>6, <1>7, <1>8, <1>9, <1>10, <1>11, <1>12, OneCallInv

(* The exits of a call: a good answer, an odd one, a missing one, a        *)
(* refusal, and none in time; and a briefing that cannot be read.          *)
LEMMA ExitInv ==
    ASSUME TrailInv, NEW w \in Workers,
           \/ Complete(w) \/ Odd(w) \/ Missing(w) \/ Refused(w) \/ GiveUp(w) \/ Unreadable(w)
    PROVE  TrailInv'
<1>1. PICK id : id = job[w].by
  OBVIOUS
<1>2. job[w] # Idle /\ UNCHANGED <<config, day, asked, wire, answers>>
  <2>1. CASE Complete(w)
    BY <2>1 DEF Complete, Answered, Idle
  <2>2. CASE Odd(w)
    BY <2>2 DEF Odd, Answered, Idle
  <2>3. CASE Missing(w)
    BY <2>3 DEF Missing, Answered, Idle
  <2>4. CASE Refused(w) \/ GiveUp(w)
    BY <2>4 DEF Refused, GiveUp, Answered, Idle
  <2>5. CASE Unreadable(w)
    BY <2>5 DEF Unreadable, Idle
  <2> QED
    BY <2>1, <2>2, <2>3, <2>4, <2>5
<1>3. id \in Ids /\ id \in DOMAIN asked /\ asked[id] \in Asked /\ CallTrue(id) /\ Open(id)
  BY <1>1, <1>2, AtCall
<1>4. exposed \subseteq Devices /\ \A d \in exposed : Allowed(d, FALSE)
  BY DEF TrailInv, Typed, Shown
<1>5. ASSUME NEW o \in {"success", "error"}, End(w, o),
             asked[id] \in Switches \cup Posts /\ o = "success" => "ok" \in ToSet(answers[id]),
             exposed' \subseteq Devices, \A d \in exposed' : Allowed(d, FALSE)
      PROVE  TrailInv'
  <2>1. Audit(asked[id], id, o) /\ job' = [job EXCEPT ![w] = Idle]
    BY <1>1, <1>5 DEF End, Audit
  <2> QED
    BY <1>1, <1>2, <1>5, <2>1, LeaveInv
<1>6. ASSUME job' = [job EXCEPT ![w] = Idle], UNCHANGED log, UNCHANGED exposed,
             asked[id] \in Switches \cup Posts => ~Out(id)
      PROVE  TrailInv'
  <2>1. exposed' \subseteq Devices /\ \A d \in exposed' : Allowed(d, FALSE)
    BY <1>4, <1>6
  <2> QED
    BY <1>1, <1>2, <1>6, <2>1, LeaveInv
<1>7. CASE Complete(w)
  <2>1. End(w, "success") /\ Answered(w) /\ Last(answers[id]) = "ok"
    BY <1>1, <1>7 DEF Complete
  <2>2. "ok" \in ToSet(answers[id])
    BY <1>1, <2>1, LastAnswer
  <2>3. asked[id].kind = "state" => Allowed(asked[id].target, FALSE) /\ asked[id].target \in Devices
    BY <1>3, Kinds DEF CallTrue, Permitted
  <2>4. exposed' \subseteq Devices /\ \A d \in exposed' : Allowed(d, FALSE)
    <3>1. exposed' = CASE asked[id].kind = "state" -> exposed \cup {asked[id].target}
                       [] asked[id].kind = "list" -> exposed \cup {d \in Devices : Allowed(d, FALSE)}
                       [] OTHER -> exposed
      BY <1>1, <1>7 DEF Complete
    <3>2. CASE asked[id].kind = "state"
      BY <1>4, <2>3, <3>1, <3>2
    <3>3. CASE asked[id].kind = "list"
      BY <1>4, <3>1, <3>3
    <3>4. CASE asked[id].kind \notin {"state", "list"}
      BY <1>4, <3>1, <3>4
    <3> QED
      BY <3>2, <3>3, <3>4
  <2> QED
    BY <1>5, <2>1, <2>2, <2>4
<1>8. CASE Odd(w) \/ Missing(w)
  <2>1. Answered(w) /\ Last(answers[id]) \in {"odd", "missing"} /\ UNCHANGED exposed
    BY <1>1, <1>8 DEF Odd, Missing
  <2>2. asked[id] \in Reads
    <3>1. Last(answers[id]) \in ToSet(answers[id])
      BY <1>1, <2>1, LastAnswer
    <3> QED
      BY <1>3, <2>1, <3>1 DEF CallTrue, SentOnce
  <2>3. asked[id] \notin Switches \cup Posts
    BY <1>3, <2>2, Kinds
  <2>4. \/ End(w, "success") \/ End(w, "error")
        \/ job' = [job EXCEPT ![w] = Idle] /\ UNCHANGED log
    BY <1>8 DEF Odd, Missing
  <2>5. exposed' \subseteq Devices /\ \A d \in exposed' : Allowed(d, FALSE)
    BY <1>4, <2>1
  <2> QED
    BY <1>5, <1>6, <2>1, <2>3, <2>4, <2>5
<1>9. CASE Refused(w) \/ GiveUp(w)
  <2>1. End(w, "error") /\ UNCHANGED exposed
    BY <1>9 DEF Refused, GiveUp
  <2>2. exposed' \subseteq Devices /\ \A d \in exposed' : Allowed(d, FALSE)
    BY <1>4, <2>1
  <2> QED
    BY <1>5, <2>1, <2>2
<1>10. CASE Unreadable(w)
  <2>1. job[w].at = "sending" /\ job' = [job EXCEPT ![w] = Idle] /\ UNCHANGED log /\ UNCHANGED exposed
    BY <1>10 DEF Unreadable
  <2>2. ~Out(id)
    BY <1>1, <1>3, <2>1 DEF CallTrue, SentOnce, Sending, Out
  <2> QED
    BY <1>6, <2>1, <2>2
<1> QED
  BY <1>7, <1>8, <1>9, <1>10

(* httpx sends a request: it was not sent before.                          *)
LEMMA PostInv ==
    ASSUME TrailInv, NEW w \in Workers, Post(w)
    PROVE  TrailInv'
<1>1. PICK id : id = job[w].by
  OBVIOUS
<1>2. /\ job[w].at = "sending" /\ job[w] # Idle
      /\ wire' = wire \cup {id}
      /\ job' = [job EXCEPT ![w].at = "waiting"]
      /\ UNCHANGED <<config, day, files, bad, lost, latest, asked, answers, exposed>>
  BY <1>1 DEF Post, Idle, log
<1>3. /\ id \in Ids /\ id \in DOMAIN asked /\ job[w] = [at |-> job[w].at, by |-> id]
      /\ CallTrue(id) /\ Open(id)
      /\ \A v \in Workers \ {w} : job[v] # Idle => job[v].by # id
  BY <1>1, <1>2, AtCall
<1>4. PICK j : j = [at |-> "waiting", by |-> id]
  OBVIOUS
<1>5. j \in Job /\ j.at = "waiting" /\ j.by = id /\ j # Idle
  BY <1>3, <1>4 DEF Job, Idle
<1>6. /\ job' \in [Workers -> Job] /\ job'[w] = j
      /\ \A v \in Workers \ {w} : job'[v] = job[v]
  <2>1. job \in [Workers -> Job]
    BY DEF TrailInv, Typed
  <2>2. [job[w] EXCEPT !.at = "waiting"] = j
    BY <1>3, <1>4
  <2> QED
    BY <1>2, <1>5, <2>1, <2>2
<1>7. Typed'
  BY <1>2, <1>3, <1>6 DEF TrailInv, Typed
<1>8. Apart'
  BY <1>3, <1>5, <1>6 DEF TrailInv, Apart
<1>9. Shown' /\ LatestKnown'
  BY <1>2 DEF TrailInv, Shown, LatestKnown, Allowed
<1>10. \A i, o : On(i, o)' <=> On(i, o)
  BY <1>2 DEF On
<1>11. CallTrue(id)'
  <2>1. Open(id)'
    BY <1>5, <1>6 DEF Open
  <2>2. Sending(id)
    BY <1>1, <1>2 DEF Sending
  <2>3. ~Sending(id)'
    BY <1>3, <1>5, <1>6 DEF Sending, Idle
  <2>4. answers[id] = <<>>
    BY <1>3, <2>2 DEF CallTrue, SentOnce
  <2>5. Known(id)'
    BY <1>2, <1>3 DEF Known
  <2>6. SentOnce(id)'
    BY <1>2, <1>3, <2>3, <2>4 DEF CallTrue, SentOnce
  <2>7. Trail(id)'
    BY <1>2, <1>3, <1>10, <2>1 DEF CallTrue, Trail
  <2>8. Permitted(id)'
    BY <1>2, <1>3, <1>10 DEF CallTrue, Permitted, Allowed
  <2> QED
    BY <2>5, <2>6, <2>7, <2>8 DEF CallTrue
<1>12. \A i \in Ids \ {id} :
         /\ answers'[i] = answers[i]
         /\ i \in wire' <=> i \in wire
         /\ i \in lost' <=> i \in lost
         /\ i \in DOMAIN asked' <=> i \in DOMAIN asked
         /\ i \in DOMAIN asked => asked'[i] = asked[i]
  BY <1>2
<1>13. \A v \in Workers :
         \/ job'[v] = job[v]
         \/ (job[v] # Idle => job[v].by = id) /\ (job'[v] # Idle => job'[v].by = id)
  BY <1>1, <1>5, <1>6
<1> QED
  BY <1>2, <1>3, <1>7, <1>8, <1>9, <1>10, <1>11, <1>12, <1>13, OneCallInv

(* The other end answers, once.                                            *)
LEMMA HandleInv ==
    ASSUME TrailInv, NEW id \in Ids, Handle(id)
    PROVE  TrailInv'
<1>1. /\ id \in wire /\ wire' = wire \ {id}
      /\ UNCHANGED <<config, day, files, bad, lost, latest, asked, job, exposed>>
  BY DEF Handle, log
<1>2. CallTrue(id)
  BY DEF TrailInv, CallsTrue
<1>3. answers[id] = <<>> /\ ~Sending(id) /\ Out(id) /\ id \in DOMAIN asked
  BY <1>1, <1>2 DEF CallTrue, SentOnce, Known, Out
<1>4. PICK a \in {"ok", "refused"} \cup IF asked[id] \in Reads THEN {"odd", "missing"} ELSE {} :
        answers' = [answers EXCEPT ![id] = Append(@, a)]
  BY DEF Handle
<1>5. answers \in [Ids -> Seq({"ok", "odd", "missing", "refused"})]
  BY DEF TrailInv, Typed
<1>6. answers'[id] = <<a>> /\ \A i \in Ids \ {id} : answers'[i] = answers[i]
  BY <1>3, <1>4, <1>5
<1>7. answers' \in [Ids -> Seq({"ok", "odd", "missing", "refused"})]
  BY <1>4, <1>5, <1>6
<1>8. Len(answers'[id]) = 1 /\ ToSet(answers'[id]) = {a}
  BY <1>6 DEF ToSet
<1>9. Typed'
  BY <1>1, <1>7 DEF TrailInv, Typed
<1>10. Apart' /\ Shown' /\ LatestKnown'
  BY <1>1 DEF TrailInv, Apart, Shown, LatestKnown, Allowed
<1>11. \A i, o : On(i, o)' <=> On(i, o)
  BY <1>1 DEF On
<1>12. CallTrue(id)'
  <2>1. (Open(id)' <=> Open(id)) /\ (Sending(id)' <=> Sending(id))
    BY <1>1 DEF Open, Sending
  <2>2. Known(id)'
    BY <1>1, <1>3 DEF Known
  <2>3. SentOnce(id)'
    <3>1. a \in {"odd", "missing"} => asked[id] \in Reads
      BY <1>4
    <3> QED
      BY <1>1, <1>3, <1>8, <2>1, <3>1 DEF SentOnce
  <2>4. Trail(id)'
    <3>1. "ok" \notin ToSet(answers[id])
      BY <1>3 DEF ToSet
    <3> QED
      BY <1>1, <1>2, <1>3, <1>11, <2>1, <3>1 DEF CallTrue, Trail
  <2>5. Permitted(id)'
    BY <1>1, <1>2, <1>3, <1>11 DEF CallTrue, Permitted, Allowed
  <2> QED
    BY <2>2, <2>3, <2>4, <2>5 DEF CallTrue
<1>13. \A i \in Ids \ {id} :
         /\ answers'[i] = answers[i]
         /\ i \in wire' <=> i \in wire
         /\ i \in lost' <=> i \in lost
         /\ i \in DOMAIN asked' <=> i \in DOMAIN asked
         /\ i \in DOMAIN asked => asked'[i] = asked[i]
  BY <1>1, <1>6
<1> QED
  BY <1>1, <1>9, <1>10, <1>11, <1>12, <1>13, OneCallInv

(* A process ends: its calls are lost.                                     *)
LEMMA KillInv ==
    ASSUME TrailInv, NEW killed \in SUBSET Workers, Kill(killed)
    PROVE  TrailInv'
<1>1. /\ lost' = lost \cup {job[w].by : w \in {v \in killed : job[v] # Idle}}
      /\ job' = [w \in Workers |-> IF w \in killed THEN Idle ELSE job[w]]
      /\ UNCHANGED <<config, day, files, bad, latest, asked, wire, answers, exposed>>
  BY DEF Kill
<1>2. \A w \in Workers : job'[w] = Idle \/ job'[w] = job[w]
  BY <1>1
<1>3. \A i : i \in lost' => i \in lost \/ (i \in Ids /\ Open(i))
  <2> SUFFICES ASSUME NEW w \in killed, job[w] # Idle
               PROVE  job[w].by \in Ids /\ Open(job[w].by)
    BY <1>1
  <2>1. PICK id : id = job[w].by
    OBVIOUS
  <2>2. id \in Ids /\ Open(id)
    BY <2>1, AtCall
  <2> QED
    BY <2>1, <2>2
<1>4. \A i \in Ids : Open(i) => Open(i)' \/ i \in lost'
  <2> SUFFICES ASSUME NEW i \in Ids, NEW w \in Workers, job[w] # Idle, job[w].by = i
               PROVE  Open(i)' \/ i \in lost'
    BY DEF Open
  <2>1. CASE w \in killed
    BY <1>1, <2>1
  <2>2. CASE w \notin killed
    BY <1>1, <2>2 DEF Open
  <2> QED
    BY <2>1, <2>2
<1>5. \A i \in Ids : (Open(i)' => Open(i)) /\ (Sending(i)' => Sending(i))
  BY <1>2 DEF Open, Sending, Idle
<1>6. Typed'
  <2>1. job' \in [Workers -> Job]
    BY <1>1 DEF TrailInv, Typed, Job, Idle
  <2>2. lost' \subseteq Ids
    BY <1>3 DEF TrailInv, Typed
  <2> QED
    BY <1>1, <2>1, <2>2 DEF TrailInv, Typed
<1>7. Apart'
  BY <1>2 DEF TrailInv, Apart
<1>8. Shown' /\ LatestKnown'
  BY <1>1 DEF TrailInv, Shown, LatestKnown, Allowed
<1>9. \A i, o : On(i, o)' <=> On(i, o)
  BY <1>1 DEF On
<1>10. CallsTrue'
  <2> SUFFICES ASSUME NEW i \in Ids PROVE CallTrue(i)'
    BY DEF CallsTrue
  <2>1. CallTrue(i)
    BY DEF TrailInv, CallsTrue
  <2>2. Out(i)' <=> Out(i)
    BY <1>1 DEF Out
  <2>3. lost \subseteq lost'
    BY <1>1
  <2>4. Known(i)'
    BY <1>1, <1>3, <1>5, <1>9, <2>1, <2>2 DEF CallTrue, Known
  <2>5. SentOnce(i)'
    BY <1>1, <1>5, <2>1 DEF CallTrue, SentOnce
  <2>6. Trail(i)'
    BY <1>1, <1>4, <1>5, <1>9, <2>1, <2>2, <2>3 DEF CallTrue, Trail
  <2>7. Permitted(i)'
    BY <1>1, <1>5, <1>9, <2>1, <2>2, <2>3 DEF CallTrue, Permitted, Allowed
  <2> QED
    BY <2>4, <2>5, <2>6, <2>7 DEF CallTrue
<1> QED
  BY <1>6, <1>7, <1>8, <1>10 DEF TrailInv

(* A step that touches no call.                                            *)
LEMMA QuietInv ==
    ASSUME TrailInv, UNCHANGED <<config, files, bad, lost, latest, asked, job, wire, answers, exposed>>,
           day' \in Days
    PROVE  TrailInv'
<1>1. \A i, o : On(i, o)' <=> On(i, o)
  BY DEF On
<1>2. Typed' /\ Apart' /\ Shown' /\ LatestKnown'
  BY DEF TrailInv, Typed, Apart, Shown, LatestKnown, Allowed
<1>3. CallsTrue'
  <2> SUFFICES ASSUME NEW i \in Ids PROVE CallTrue(i)'
    BY DEF CallsTrue
  <2>1. CallTrue(i)
    BY DEF TrailInv, CallsTrue
  <2>2. (Open(i)' <=> Open(i)) /\ (Sending(i)' <=> Sending(i)) /\ (Out(i)' <=> Out(i))
    BY DEF Open, Sending, Out
  <2>3. Known(i)' /\ SentOnce(i)'
    BY <1>1, <2>1, <2>2 DEF CallTrue, Known, SentOnce
  <2>4. Trail(i)' /\ Permitted(i)'
    BY <1>1, <2>1, <2>2 DEF CallTrue, Trail, Permitted, Allowed
  <2> QED
    BY <2>3, <2>4 DEF CallTrue
<1> QED
  BY <1>2, <1>3 DEF TrailInv

(* At first nothing was asked.                                             *)
LEMMA InitInv ==
    ASSUME Init
    PROVE  TrailInv
<1>1. /\ config \in Configs /\ day = 1 /\ files = NoFiles /\ bad = 0 /\ asked = <<>>
      /\ job = [w \in Workers |-> Idle] /\ wire = {}
      /\ answers = [i \in Ids |-> <<>>] /\ exposed = {} /\ lost = {}
      /\ latest = [i \in Subjects |-> None]
  BY DEF Init, Subjects
<1>2. files \in Logs(Event(Ids)) /\ CutsUnread(files) /\ \A e : ~Recorded(files, e)
  BY <1>1, NoFilesRead
<1>3. day \in Days
  BY <1>1, AuditLogAssumption DEF Days
<1>4. Idle \in Job
  BY DEF Idle, Job
<1>5. Typed
  <2>1. answers \in [Ids -> Seq({"ok", "odd", "missing", "refused"})]
    BY <1>1
  <2>2. asked \in Seq(Asked) /\ Len(asked) <= MaxCalls /\ bad \in 0 .. MaxBadWrites
    BY <1>1, IntegrationsAssumption
  <2> QED
    BY <1>1, <1>2, <1>3, <1>4, <2>1, <2>2 DEF Typed
<1>6. Apart /\ Shown /\ LatestKnown
  BY <1>1 DEF Apart, Shown, LatestKnown
<1>7. CallsTrue
  <2> SUFFICES ASSUME NEW i \in Ids PROVE CallTrue(i)
    BY DEF CallsTrue
  <2>1. ~Open(i) /\ ~Sending(i) /\ ~Out(i) /\ (\A o : ~On(i, o)) /\ i \notin lost
    BY <1>1, <1>2 DEF Open, Sending, Out, On, Idle
  <2>2. answers[i] = <<>> /\ i \notin DOMAIN asked /\ ToSet(answers[i]) = {} /\ Len(answers[i]) = 0
    BY <1>1 DEF ToSet
  <2> QED
    BY <1>1, <2>1, <2>2 DEF CallTrue, Known, SentOnce, Trail, Permitted
<1> QED
  BY <1>5, <1>6, <1>7 DEF TrailInv

(* A view of the registry is a record and no more.                         *)
LEMMA ViewInv ==
    ASSUME TrailInv, NEW w \in Workers, View(w)
    PROVE  TrailInv'
<1>1. PICK call : call = [kind |-> "view", target |-> None]
  OBVIOUS
<1>2. call \in Asked /\ call \notin Switches \cup Posts
  BY <1>1 DEF Asked, Views, Switches, Posts
<1>3. Called(w, call)
  BY <1>1 DEF View
<1>4. Audit(call, Len(asked) + 1, "success")
  BY <1>1 DEF View
<1>5. "success" \in Outcomes /\ UNCHANGED <<config, day, job, wire, answers, exposed>>
  BY DEF View, Outcomes
<1> QED
  BY <1>2, <1>3, <1>4, <1>5, RecordedCallInv

(* A phrase comes down to a request.                                       *)
LEMMA PhraseInv ==
    ASSUME TrailInv, NEW w \in Workers, Phrase(w)
    PROVE  TrailInv'
<1>1. ASSUME NEW kind \in {"turn_on", "turn_off"}, NEW n \in Names, PhraseSwitch(w, kind, n)
      PROVE  TrailInv'
  <2>1. PICK d \in Resolved(n) : Request(w, [kind |-> kind, target |-> d])
    BY <1>1 DEF PhraseSwitch
  <2>2. d \in Devices
    BY IntegrationsAssumption DEF Resolved, TrailInv, Typed
  <2>3. PICK call : call = [kind |-> kind, target |-> d]
    OBVIOUS
  <2>4. call \in Asked /\ Request(w, call)
    BY <2>1, <2>2, <2>3 DEF Asked, Switches
  <2> QED
    BY <2>4, RequestInv
<1>2. CASE PhraseStatus(w)
  <2>1. PICK call : call = [kind |-> "status", target |-> None]
    OBVIOUS
  <2>2. call \in Asked /\ Request(w, call)
    BY <1>2, <2>1 DEF PhraseStatus, Asked, Reads
  <2> QED
    BY <2>2, RequestInv
<1>3. CASE \E call \in Posts : PhrasePost(w, call)
  BY <1>3, RequestInv DEF PhrasePost, Asked
<1> QED
  BY <1>1, <1>2, <1>3 DEF Phrase

(* What is on record of the calls, and what was made of them, fit together *)
(* always.                                                                 *)
THEOREM IntegrationsInvariant == Spec => []TrailInv
<1>1. Loop \in Workers /\ Cli \in Workers /\ Threads \subseteq Workers
  BY DEF Workers
<1>2. TrailInv /\ [Next]_vars => TrailInv'
  <2> SUFFICES ASSUME TrailInv, [Next]_vars PROVE TrailInv'
    OBVIOUS
  <2>1. CASE NextDay
    <3>1. day' \in Days
      BY <2>1, AuditLogAssumption DEF NextDay, Days, TrailInv, Typed
    <3>2. UNCHANGED <<config, files, bad, lost, latest, asked, job, wire, answers, exposed>>
      BY <2>1 DEF NextDay, log
    <3> QED
      BY <3>1, <3>2, QuietInv
  <2>2. ASSUME NEW call \in Asked, PostRoute(call) \/ \E t \in Threads : GetRoute(t, call)
        PROVE  TrailInv'
    BY <1>1, <2>2, RequestInv DEF PostRoute, GetRoute
  <2>3. CASE \E t \in Threads : View(t)
    BY <1>1, <2>3, ViewInv
  <2>4. CASE Phrase(Loop) \/ Phrase(Cli)
    BY <1>1, <2>4, PhraseInv
  <2>5. CASE \E w \in Workers :
               \/ Unreadable(w) \/ Post(w) \/ Complete(w) \/ Odd(w) \/ Missing(w) \/ Refused(w)
               \/ GiveUp(w)
    BY <2>5, ExitInv, PostInv
  <2>6. CASE \E id \in Ids : Handle(id)
    BY <2>6, HandleInv
  <2>7. CASE Kill({Cli}) \/ Kill({Loop} \cup Threads)
    <3>1. {Cli} \in SUBSET Workers /\ {Loop} \cup Threads \in SUBSET Workers
      BY <1>1
    <3> QED
      BY <2>7, <3>1, KillInv
  <2>8. CASE UNCHANGED vars
    <3>1. UNCHANGED <<config, files, bad, lost, latest, asked, job, wire, answers, exposed>>
      BY <2>8 DEF vars
    <3>2. day' \in Days
      BY <2>8 DEF vars, TrailInv, Typed
    <3> QED
      BY <3>1, <3>2, QuietInv
  <2> QED
    BY <2>1, <2>2, <2>3, <2>4, <2>5, <2>6, <2>7, <2>8 DEF Next
<1> QED
  BY <1>2, InitInv, PTL DEF Spec

(* Records, calls, jobs and answers are what they are said to be; in       *)
(* particular no record, answer or job is of a call that was not made.     *)
THEOREM IntegrationsTypeOK == Spec => []TypeOK
<1>1. TrailInv => TypeOK
  <2> SUFFICES ASSUME TrailInv PROVE TypeOK
    OBVIOUS
  <2>1. \A i \in Ids : Known(i)
    BY DEF TrailInv, CallsTrue, CallTrue
  <2>2. ASSUME NEW d \in Days
        PROVE  files[d] \in Seq(Lines(Event(DOMAIN asked)))
    <3>1. files[d] \in Seq(Lines(Event(Ids)))
      BY DEF TrailInv, Typed, Logs
    <3>2. ASSUME NEW i \in DOMAIN files[d]
          PROVE  files[d][i] \in Lines(Event(DOMAIN asked))
      <4>1. files[d][i] \in Lines(Event(Ids))
        BY <3>1
      <4>2. CASE files[d][i].text \in {Torn, Broken}
        BY <4>1, <4>2 DEF Lines
      <4>3. CASE files[d][i].text \in Event(Ids)
        <5>1. PICK e \in Event(Ids) : e = files[d][i].text
          BY <4>3
        <5>2. e = [by |-> e.by, outcome |-> e.outcome] /\ e.by \in Ids /\ e.outcome \in Outcomes
          BY DEF Event, Outcomes
        <5>3. On(e.by, e.outcome)
          BY <5>1, <5>2 DEF On, Recorded
        <5>4. e.by \in DOMAIN asked
          BY <2>1, <5>2, <5>3 DEF Known
        <5>5. e \in Event(DOMAIN asked)
          BY <5>4 DEF Event
        <5> QED
          BY <4>1, <5>1, <5>5 DEF Lines
      <4> QED
        BY <4>1, <4>2, <4>3 DEF Lines
    <3>3. files[d] = [i \in 1 .. Len(files[d]) |-> files[d][i]] /\ Len(files[d]) \in Nat
          /\ DOMAIN files[d] = 1 .. Len(files[d])
      BY <3>1
    <3> QED
      BY <3>2, <3>3, IsASeq
  <2>3. DOMAIN files = Days /\ DOMAIN job = Workers /\ DOMAIN answers = Ids
        /\ \A i \in Ids : answers[i] \in Seq({"ok", "odd", "missing", "refused"})
    BY DEF TrailInv, Typed, Logs
  <2>4. ASSUME NEW w \in Workers
        PROVE  job[w] \in [at : {"idle"}] \cup [at : {"sending", "waiting"}, by : DOMAIN asked]
    <3>1. job[w] \in Job
      BY DEF TrailInv, Typed
    <3>2. CASE job[w] = Idle
      BY <3>2 DEF Idle
    <3>3. CASE job[w] # Idle
      <4>1. PICK id : id = job[w].by
        OBVIOUS
      <4>2. id \in DOMAIN asked
        BY <3>3, <4>1, AtCall
      <4> QED
        BY <3>1, <3>3, <4>1, <4>2 DEF Job, Idle
    <3> QED
      BY <3>2, <3>3
  <2>5. wire \subseteq DOMAIN asked /\ lost \subseteq DOMAIN asked
    BY <2>1 DEF TrailInv, Typed, Known, Out
  <2>6. latest \in [Subjects -> Event(DOMAIN asked) \cup {None}]
    <3>1. latest \in [Subjects -> Event(Ids) \cup {None}]
      BY DEF TrailInv, Typed
    <3>2. ASSUME NEW x \in Subjects PROVE latest[x] \in Event(DOMAIN asked) \cup {None}
      <4>1. latest[x] = None \/ latest[x].by \in DOMAIN asked
        BY DEF TrailInv, LatestKnown
      <4>2. latest[x] \in Event(Ids) \cup {None}
        BY <3>1
      <4> QED
        BY <4>1, <4>2 DEF Event
    <3> QED
      BY <3>1, <3>2
  <2>7. /\ config \in Configs /\ day \in Days /\ bad \in 0 .. MaxBadWrites
        /\ asked \in Seq(Asked) /\ Len(asked) <= MaxCalls /\ exposed \subseteq Devices
    BY DEF TrailInv, Typed
  <2> QED
    BY <2>2, <2>3, <2>4, <2>5, <2>6, <2>7 DEF TypeOK, Subjects
<1> QED
  BY <1>1, IntegrationsInvariant, PTL

(* The trail neither misses nor makes up a change, and no call is carried  *)
(* out twice, whatever is killed, late or not written (_service_call,      *)
(* send_test, send_briefing, _http_post, _post).                           *)
THEOREM TrailIsTrue == Spec => []TrailTellsWhatHappened
<1>1. TrailInv => TrailTellsWhatHappened
  <2> SUFFICES ASSUME TrailInv, NEW id \in DOMAIN asked
               PROVE  /\ asked[id] \in Switches /\ answers[id] # <<>> => On(id, "started") \/ id \in lost
                      /\ asked[id] \in Switches \cup Posts /\ On(id, "success") =>
                           "ok" \in ToSet(answers[id])
                      /\ Len(answers[id]) <= 1
    BY DEF TrailTellsWhatHappened
  <2>1. id \in Ids
    BY IntegrationsAssumption DEF TrailInv, Typed, Ids
  <2>2. CallTrue(id)
    BY <2>1 DEF TrailInv, CallsTrue
  <2> QED
    BY <2>2 DEF CallTrue, SentOnce, Trail, Permitted, Out
<1> QED
  BY <1>1, IntegrationsInvariant, PTL

(* A call that was sent to change something ends with exactly one record   *)
(* of how it ended, unless its process was killed or the record could not  *)
(* be written (_http_post, _post).                                         *)
THEOREM CallsEndOnRecord == Spec => []EndsOnRecord
<1>1. TrailInv => EndsOnRecord
  <2> SUFFICES ASSUME TrailInv, NEW id \in DOMAIN asked, asked[id] \in Switches \cup Posts
               PROVE  /\ ~(On(id, "success") /\ On(id, "error"))
                      /\ (id \in wire \/ answers[id] # <<>>) =>
                           \/ On(id, "success") \/ On(id, "error") \/ id \in lost
                           \/ \E w \in Workers : job[w] # Idle /\ job[w].by = id
    BY DEF EndsOnRecord
  <2>1. id \in Ids
    BY IntegrationsAssumption DEF TrailInv, Typed, Ids
  <2>2. CallTrue(id)
    BY <2>1 DEF TrailInv, CallsTrue
  <2> QED
    BY <2>2 DEF CallTrue, Trail, Out, Open
<1> QED
  BY <1>1, IntegrationsInvariant, PTL

(* Nothing hard-blocked or outside the operator's lists is ever switched   *)
(* or shown, whichever way it was asked for (is_entity_allowed).           *)
THEOREM AllowlistHolds == Spec => []OnlyWhatIsAllowed
<1>1. TrailInv => OnlyWhatIsAllowed
  <2> SUFFICES ASSUME TrailInv PROVE OnlyWhatIsAllowed
    OBVIOUS
  <2> DEFINE switched == {asked[id].target :
                            id \in {i \in DOMAIN asked : asked[i] \in Switches /\ answers[i] # <<>>}}
  <2>1. ASSUME NEW d \in switched
        PROVE  Allowed(d, TRUE)
    <3>1. PICK id \in DOMAIN asked : asked[id] \in Switches /\ answers[id] # <<>> /\ d = asked[id].target
      BY <2>1
    <3>2. id \in Ids
      BY <3>1, IntegrationsAssumption DEF TrailInv, Typed, Ids
    <3>3. CallTrue(id)
      BY <3>2 DEF TrailInv, CallsTrue
    <3> QED
      BY <3>1, <3>3 DEF CallTrue, Permitted, Out
  <2>2. \A d \in exposed : Allowed(d, FALSE)
    BY DEF TrailInv, Shown
  <2> HIDE DEF switched
  <2>3. \A d \in switched \cup exposed :
          /\ d.domain \in config.domains /\ (config.entities = {} \/ d \in config.entities)
          /\ d.domain \notin HardBlockDomains
    BY <2>1, <2>2 DEF Allowed
  <2>4. \A d \in switched : d.domain \in {"light", "switch"}
    BY <2>1 DEF Allowed, ActionDomains
  <2> QED
    BY <2>3, <2>4 DEF OnlyWhatIsAllowed, switched
<1> QED
  BY <1>1, IntegrationsInvariant, PTL

-----------------------------------------------------------------------------
(* The registry: the newest record in the files is the last one written.   *)
About(i) == {id \in DOMAIN asked : IntegrationOf(asked[id]) = i}

(* No file is written ahead of its day.                                    *)
NothingAhead == \A d \in Days : d > day => files[d] = <<>>

(* A call that a worker is at has not ended, reads included.               *)
OpenUnended == \A id \in Ids : Open(id) => ~On(id, "success") /\ ~On(id, "error")

NewestIsLatest(i) ==
    LET found == Found(files, Event(About(i))) IN
    IF latest[i] = None THEN found = {}
    ELSE \E p \in found : TextAt(files, p) = latest[i] /\ \A q \in found : ~Newer(q, p)

RegistryInv ==
    NothingAhead /\ OpenUnended /\ \A i \in {"slack", "home_assistant"} : NewestIsLatest(i)

(* A record about a call is about one integration.                         *)
LEMMA EventsAbout ==
    ASSUME NEW ids
    PROVE  \A e : e \in Event(ids) <=> e \in Event({e.by}) /\ e.by \in ids
BY DEF Event

(* What is found stays, and so does what is shown.                         *)
LEMMA SameNewest ==
    ASSUME NEW i, NewestIsLatest(i), latest'[i] = latest[i],
           Found(files', Event(About(i)')) = Found(files, Event(About(i))),
           \A p \in Found(files, Event(About(i))) : TextAt(files', p) = TextAt(files, p)
    PROVE  NewestIsLatest(i)'
<1>1. CASE latest[i] = None
  BY <1>1 DEF NewestIsLatest
<1>2. CASE latest[i] # None
  <2>1. PICK p \in Found(files, Event(About(i))) :
          /\ TextAt(files, p) = latest[i]
          /\ \A q \in Found(files, Event(About(i))) : ~Newer(q, p)
    BY <1>2 DEF NewestIsLatest
  <2> QED
    BY <1>2, <2>1 DEF NewestIsLatest
<1> QED
  BY <1>1, <1>2

(* A call that has no record adds nothing to what is found.                *)
LEMMA FoundAbout ==
    ASSUME Typed, NEW i, NEW id \in Ids, asked' \in Seq(Asked), Len(asked') <= MaxCalls,
           \A j \in Ids \ {id} :
             /\ j \in DOMAIN asked' <=> j \in DOMAIN asked
             /\ j \in DOMAIN asked => asked'[j] = asked[j],
           id \in DOMAIN asked', id \in DOMAIN asked => asked'[id] = asked[id],
           id \notin DOMAIN asked => \A o \in Outcomes : ~On(id, o)
    PROVE  /\ Found(files, Event(About(i)')) = Found(files, Event(About(i)))
           /\ Event(About(i)') \cap Unread = {}
<1>1. DOMAIN asked \subseteq Ids /\ DOMAIN asked' \subseteq Ids
  BY IntegrationsAssumption DEF Typed, Ids
<1>2. \A j \in Ids \ {id} : j \in About(i)' <=> j \in About(i)
  BY <1>1 DEF About
<1>3. id \in DOMAIN asked => (id \in About(i)' <=> id \in About(i))
  BY DEF About
<1>4. About(i)' \subseteq Ids /\ About(i) \subseteq Ids
  BY <1>1 DEF About
<1>5. Event(About(i)') \cap Unread = {}
  BY <1>4, NamesAssumption DEF Event, Unread
<1>6. ASSUME NEW p \in Places(files)
      PROVE  TextAt(files, p) \in Event(About(i)') <=> TextAt(files, p) \in Event(About(i))
  <2>1. PICK e : e = TextAt(files, p)
    OBVIOUS
  <2>2. CASE e \in Event({id}) /\ id \notin DOMAIN asked
    <3>1. e = [by |-> id, outcome |-> e.outcome] /\ e.outcome \in Outcomes
      BY <2>2 DEF Event, Outcomes
    <3>2. Recorded(files, e)
      BY <2>1, PlacesAre DEF TextAt, Recorded
    <3> QED
      BY <2>2, <3>1, <3>2 DEF On
  <2>3. CASE e \notin Event({id}) \/ id \in DOMAIN asked
    <3>1. e.by \in Ids => (e.by \in About(i)' <=> e.by \in About(i)) \/ (e.by = id /\ e \notin Event({id}))
      BY <1>2, <1>3, <2>3
    <3> QED
      BY <1>4, <2>1, <3>1, EventsAbout
  <2> QED
    BY <2>2, <2>3
<1>7. Found(files, Event(About(i)')) = Found(files, Event(About(i)))
  BY <1>6 DEF Found
<1> QED
  BY <1>5, <1>7

(* A step of one call: a record of it that was not there, or none.         *)
LEMMA RegistryStep ==
    ASSUME Typed, RegistryInv, NEW id \in Ids, NEW call,
           asked' \in Seq(Asked), Len(asked') <= MaxCalls, day' = day,
           \A j \in Ids \ {id} :
             /\ j \in DOMAIN asked' <=> j \in DOMAIN asked
             /\ j \in DOMAIN asked => asked'[j] = asked[j],
           id \in DOMAIN asked', asked'[id] = call, id \in DOMAIN asked => asked[id] = call,
           id \notin DOMAIN asked => \A o \in Outcomes : ~On(id, o),
           \/ UNCHANGED <<files, latest>>
           \/ \E o \in Outcomes : Audit(call, id, o) /\ ~On(id, o),
           \A j \in Ids \ {id} : Open(j)' => Open(j),
           Open(id)' => ~On(id, "success")' /\ ~On(id, "error")'
    PROVE  RegistryInv'
<1>1. \A i : /\ Found(files, Event(About(i)')) = Found(files, Event(About(i)))
            /\ Event(About(i)') \cap Unread = {}
  BY FoundAbout
<1>2. {"success", "error"} \subseteq Outcomes
  BY DEF Outcomes
<1>3. CASE UNCHANGED <<files, latest>>
  <2>1. NothingAhead'
    BY <1>3 DEF RegistryInv, NothingAhead
  <2>2. OpenUnended'
    BY <1>3 DEF RegistryInv, OpenUnended, On
  <2>3. ASSUME NEW i \in {"slack", "home_assistant"} PROVE NewestIsLatest(i)'
    <3>1. NewestIsLatest(i) /\ latest'[i] = latest[i] /\ files' = files
      BY <1>3 DEF RegistryInv
    <3>2. Found(files', Event(About(i)')) = Found(files, Event(About(i)))
      BY <1>1, <3>1
    <3>3. \A p : TextAt(files', p) = TextAt(files, p)
      BY <3>1
    <3> QED
      BY <3>1, <3>2, <3>3, SameNewest
  <2> QED
    BY <2>1, <2>2, <2>3 DEF RegistryInv
<1>4. ASSUME NEW o \in Outcomes, Audit(call, id, o), ~On(id, o)
      PROVE  RegistryInv'
  <2>1. PICK e : e = [by |-> id, outcome |-> o]
    OBVIOUS
  <2>2. PICK how \in WriteOutcomes :
          /\ files' = Write(files, day, e, how)
          /\ IF Recorded(files', e)
             THEN latest' = [latest EXCEPT ![IntegrationOf(call)] = e]
             ELSE UNCHANGED latest
    BY <1>4, <2>1 DEF Audit
  <2>3. e \in Event(Ids) /\ e.by = id /\ e # None /\ e \notin Unread /\ how \in QuoteOutcomes
    BY <2>1, NamesAssumption DEF Event, Outcomes, Unread, QuoteOutcomes
  <2>4. ~Recorded(files, e)
    BY <1>4, <2>1 DEF On
  <2>5. /\ \A d \in Days : d > day => files'[d] = <<>>
        /\ Recorded(files', e) =>
             \E p \in Places(files') :
                 TextAt(files', p) = e /\ \A q \in Places(files') : ~Newer(q, p)
        /\ \A wanted :
             /\ wanted \cap Unread = {}
             /\ e \in wanted => ~Recorded(files', e)
             => /\ Found(files', wanted) = Found(files, wanted)
                /\ \A p \in Found(files, wanted) : TextAt(files', p) = TextAt(files, p)
    <3>1. /\ files \in Logs(Event(Ids)) /\ CutsUnread(files) /\ day \in Days
          /\ \A d \in Days : d > day => files[d] = <<>>
      BY DEF Typed, RegistryInv, NothingAhead
    <3> QED
      BY ONLY <2>2, <2>3, <2>4, <3>1, WriteAtEnd
  <2>6. NothingAhead'
    BY <2>5 DEF NothingAhead
  <2>7. OpenUnended'
    <3>1. \A j \in Ids \ {id} : On(j, "success")' => On(j, "success")
      BY ONLY Typed, id \in Ids, <1>2, <1>4, AuditGrows
    <3>2. \A j \in Ids \ {id} : On(j, "error")' => On(j, "error")
      BY ONLY Typed, id \in Ids, <1>2, <1>4, AuditGrows
    <3> QED
      BY <3>1, <3>2 DEF RegistryInv, OpenUnended
  <2>8. ASSUME NEW i \in {"slack", "home_assistant"} PROVE NewestIsLatest(i)'
    <3>1. i \in Subjects /\ latest \in [Subjects -> Event(Ids) \cup {None}]
          /\ IntegrationOf(call) \in Subjects /\ NewestIsLatest(i)
      BY DEF Subjects, Typed, IntegrationOf, RegistryInv
    <3>2. CASE Recorded(files', e) /\ i = IntegrationOf(call)
      <4>1. PICK p \in Places(files') :
              TextAt(files', p) = e /\ \A q \in Places(files') : ~Newer(q, p)
        BY <2>5, <3>2
      <4>2. id \in About(i)'
        BY <3>2 DEF About
      <4>3. e \in Event(About(i)')
        BY <2>1, <4>2 DEF Event, Outcomes
      <4>4. p \in Found(files', Event(About(i)'))
            /\ \A q \in Found(files', Event(About(i)')) : ~Newer(q, p)
        BY <4>1, <4>3 DEF Found
      <4>5. latest'[i] = e
        BY <2>2, <3>1, <3>2
      <4> QED
        BY <2>3, <4>1, <4>4, <4>5 DEF NewestIsLatest
    <3>3. CASE ~Recorded(files', e) \/ i # IntegrationOf(call)
      <4>1. i # IntegrationOf(call) => e \notin Event(About(i)')
        BY <2>3 DEF Event, About
      <4>2. /\ Found(files', Event(About(i)')) = Found(files, Event(About(i)'))
            /\ \A p \in Found(files, Event(About(i)')) : TextAt(files', p) = TextAt(files, p)
        BY <1>1, <2>5, <3>3, <4>1
      <4>3. latest'[i] = latest[i]
        BY <2>2, <3>1, <3>3
      <4> QED
        BY <1>1, <3>1, <4>2, <4>3, SameNewest
    <3> QED
      BY <3>2, <3>3
  <2> QED
    BY <2>6, <2>7, <2>8 DEF RegistryInv
<1> QED
  BY <1>3, <1>4

(* A step that writes no record.                                           *)
LEMMA RegistryQuiet ==
    ASSUME Typed, RegistryInv, UNCHANGED <<files, latest, asked>>,
           day' \in Days, day' >= day, \A j \in Ids : Open(j)' => Open(j)
    PROVE  RegistryInv'
<1>1. day \in Int /\ day' \in Int /\ \A d \in Days : d \in Int
  BY DEF Typed, Days
<1>2. NothingAhead'
  <2> SUFFICES ASSUME NEW d \in Days, d > day' PROVE files'[d] = <<>>
    BY DEF NothingAhead
  <2>1. d > day
    BY <1>1
  <2> QED
    BY <2>1 DEF RegistryInv, NothingAhead
<1>3. OpenUnended'
  BY DEF RegistryInv, OpenUnended, On
<1>4. \A i \in {"slack", "home_assistant"} : NewestIsLatest(i)'
  BY DEF RegistryInv, NewestIsLatest, About
<1> QED
  BY <1>2, <1>3, <1>4 DEF RegistryInv

(* A request, however it was made.                                         *)
LEMMA RequestRegistry ==
    ASSUME TrailInv, RegistryInv, NEW w \in Workers, NEW call \in Asked, Called(w, call),
           day' = day,
           \/ UNCHANGED job /\ \E o \in Outcomes : Audit(call, Len(asked) + 1, o)
           \/ /\ Send(w, Len(asked) + 1)
              /\ UNCHANGED log \/ Audit(call, Len(asked) + 1, "started")
    PROVE  RegistryInv'
<1>1. PICK id : id = Len(asked) + 1
  OBVIOUS
<1>2. /\ id \in Ids /\ asked' \in Seq(Asked) /\ Len(asked') <= MaxCalls
      /\ id \in DOMAIN asked' /\ asked'[id] = call
      /\ \A i \in DOMAIN asked : i # id /\ i \in DOMAIN asked' /\ asked'[i] = asked[i]
      /\ \A i \in DOMAIN asked' \ {id} : i \in DOMAIN asked
      /\ ~Open(id) /\ \A x \in Outcomes : ~On(id, x)
  BY <1>1, NewCall
<1>3. {"success", "error", "started"} \subseteq Outcomes /\ Typed
  BY DEF Outcomes, TrailInv
<1>4. CASE UNCHANGED job /\ \E o \in Outcomes : Audit(call, Len(asked) + 1, o)
  <2>1. \E o \in Outcomes : Audit(call, id, o) /\ ~On(id, o)
    BY <1>1, <1>2, <1>4
  <2>2. \A j \in Ids : Open(j)' => Open(j)
    BY <1>4 DEF Open
  <2> QED
    BY <1>2, <1>3, <2>1, <2>2, RegistryStep
<1>5. CASE /\ Send(w, Len(asked) + 1)
           /\ UNCHANGED log \/ Audit(call, Len(asked) + 1, "started")
  <2>1. job' = [job EXCEPT ![w] = [at |-> "sending", by |-> id]]
    BY <1>1, <1>5 DEF Send
  <2>2. job \in [Workers -> Job]
    BY <1>3 DEF Typed
  <2>3. \A j \in Ids \ {id} : Open(j)' => Open(j)
    BY <2>1, <2>2 DEF Open
  <2>4. CASE UNCHANGED log
    <3>1. UNCHANGED <<files, latest>>
      BY <2>4 DEF log
    <3>2. ~On(id, "success")' /\ ~On(id, "error")'
      BY <1>2, <1>3, <3>1 DEF On
    <3> QED
      BY <1>2, <1>3, <2>3, <3>1, <3>2, RegistryStep
  <2>5. CASE Audit(call, Len(asked) + 1, "started")
    <3>1. Audit(call, id, "started")
      BY <1>1, <2>5
    <3>2. ~On(id, "success")' /\ ~On(id, "error")'
      <4>1. \A o \in Outcomes : On(id, o)' => On(id, o) \/ o = "started"
        <5>1. "started" \in Outcomes /\ id \in Ids /\ Typed
          BY <1>2, <1>3
        <5>2. \A i \in Ids, o \in Outcomes : On(i, o)' => On(i, o) \/ (i = id /\ o = "started")
          BY ONLY <5>1, <3>1, RecordsGrow
        <5> QED
          BY ONLY <5>1, <5>2, Zenon
      <4> QED
        BY <1>2, <1>3, <4>1
    <3>3. \E o \in Outcomes : Audit(call, id, o) /\ ~On(id, o)
      BY <1>2, <1>3, <3>1
    <3> QED
      BY <1>2, <1>3, <2>3, <3>2, <3>3, RegistryStep
  <2> QED
    BY <1>5, <2>4, <2>5
<1> QED
  BY <1>4, <1>5

(* A worker leaves its call, with its last record or without.              *)
LEMMA LeaveRegistry ==
    ASSUME TrailInv, RegistryInv, NEW w \in Workers, job[w] # Idle,
           job' = [job EXCEPT ![w] = Idle], UNCHANGED <<day, asked>>,
           UNCHANGED log \/ \E o \in {"success", "error"} : End(w, o)
    PROVE  RegistryInv'
<1>1. PICK id : id = job[w].by
  OBVIOUS
<1>2. /\ id \in Ids /\ id \in DOMAIN asked /\ asked[id] \in Asked /\ Open(id)
      /\ \A v \in Workers \ {w} : job[v] # Idle => job[v].by # id
  BY <1>1, AtCall
<1>3. job'[w] = Idle /\ \A v \in Workers \ {w} : job'[v] = job[v]
  BY DEF TrailInv, Typed
<1>4. ~Open(id)' /\ \A j \in Ids : Open(j)' => Open(j)
  BY <1>2, <1>3 DEF Open
<1>5. \/ UNCHANGED <<files, latest>>
      \/ \E o \in Outcomes : Audit(asked[id], id, o) /\ ~On(id, o)
  <2>1. CASE UNCHANGED log
    BY <2>1 DEF log
  <2>2. ASSUME NEW o \in {"success", "error"}, End(w, o)
        PROVE  o \in Outcomes /\ Audit(asked[id], id, o) /\ ~On(id, o)
    BY <1>1, <1>2, <2>2 DEF End, Outcomes, RegistryInv, OpenUnended
  <2> QED
    BY <2>1, <2>2
<1>6. Typed /\ asked' \in Seq(Asked) /\ Len(asked') <= MaxCalls
  BY DEF TrailInv, Typed
<1>7. PICK call : call = asked[id]
  OBVIOUS
<1> QED
  BY <1>2, <1>4, <1>5, <1>6, <1>7, RegistryStep

(* Each step of a worker at its call.                                      *)
LEMMA WorkerRegistry ==
    ASSUME TrailInv, RegistryInv, NEW w \in Workers,
           \/ Unreadable(w) \/ Post(w) \/ Complete(w) \/ Odd(w) \/ Missing(w) \/ Refused(w)
           \/ GiveUp(w)
    PROVE  RegistryInv'
<1>1. CASE Post(w)
  <2>1. /\ job[w] # Idle /\ job' = [job EXCEPT ![w].at = "waiting"]
        /\ UNCHANGED <<day, files, latest, asked>>
    BY <1>1 DEF Post, log, Idle
  <2>2. job \in [Workers -> Job] /\ Typed /\ day \in Days
    BY DEF TrailInv, Typed
  <2>3. \A v \in Workers : job'[v].by = job[v].by /\ (v # w => job'[v] = job[v])
    <3>1. job[w] = [at |-> job[w].at, by |-> job[w].by]
      BY <2>1, AtCall
    <3> QED
      BY <2>1, <2>2, <3>1
  <2>4. \A j \in Ids : Open(j)' => Open(j)
    BY <2>1, <2>3 DEF Open
  <2>5. day' \in Days /\ day' >= day
    BY <2>1, <2>2 DEF Days
  <2> QED
    BY <2>1, <2>2, <2>4, <2>5, RegistryQuiet
<1>2. CASE ~Post(w)
  <2>1. /\ job[w] # Idle /\ UNCHANGED <<day, asked>>
        /\ job' = [job EXCEPT ![w] = Idle]
        /\ UNCHANGED log \/ \E o \in {"success", "error"} : End(w, o)
    <3>1. CASE Complete(w)
      BY <3>1 DEF Complete, Answered, Idle, End
    <3>2. CASE Odd(w)
      BY <3>2 DEF Odd, Answered, Idle, End
    <3>3. CASE Missing(w)
      BY <3>3 DEF Missing, Answered, Idle, End
    <3>4. CASE Refused(w) \/ GiveUp(w)
      BY <3>4 DEF Refused, GiveUp, Answered, Idle, End
    <3>5. CASE Unreadable(w)
      BY <3>5 DEF Unreadable, Idle
    <3> QED
      BY <1>2, <3>1, <3>2, <3>3, <3>4, <3>5
  <2> QED
    BY <2>1, LeaveRegistry
<1> QED
  BY <1>1, <1>2

(* A phrase, a route, or a view of the registry.                           *)
LEMMA CallRegistry ==
    ASSUME TrailInv, RegistryInv, NEW w \in Workers,
           \/ \E call \in Asked : Request(w, call)
           \/ View(w) \/ Phrase(w)
    PROVE  RegistryInv'
<1>1. {"success", "error", "started", "blocked"} \subseteq Outcomes
  BY DEF Outcomes
<1>2. ASSUME NEW call \in Asked, Request(w, call) PROVE RegistryInv'
  <2>1. Called(w, call) /\ day' = day
    BY <1>2 DEF Request
  <2>2. \/ UNCHANGED job /\ \E o \in Outcomes : Audit(call, Len(asked) + 1, o)
        \/ /\ Send(w, Len(asked) + 1)
           /\ UNCHANGED log \/ Audit(call, Len(asked) + 1, "started")
    BY <1>1, <1>2 DEF Request
  <2> QED
    BY <2>1, <2>2, RequestRegistry
<1>3. CASE View(w)
  <2>1. PICK call : call = [kind |-> "view", target |-> None]
    OBVIOUS
  <2>2. call \in Asked /\ Called(w, call) /\ UNCHANGED <<day, job>>
        /\ Audit(call, Len(asked) + 1, "success")
    BY <1>3, <2>1 DEF View, Asked, Views
  <2> QED
    BY <1>1, <2>2, RequestRegistry
<1>4. ASSUME NEW kind \in {"turn_on", "turn_off"}, NEW n \in Names, PhraseSwitch(w, kind, n)
      PROVE  RegistryInv'
  <2>1. PICK d \in Resolved(n) : Request(w, [kind |-> kind, target |-> d])
    BY <1>4 DEF PhraseSwitch
  <2>2. d \in Devices
    BY IntegrationsAssumption DEF Resolved, TrailInv, Typed
  <2>3. PICK call : call = [kind |-> kind, target |-> d]
    OBVIOUS
  <2>4. call \in Asked /\ Request(w, call)
    BY <2>1, <2>2, <2>3 DEF Asked, Switches
  <2> QED
    BY <1>2, <2>4
<1>5. CASE PhraseStatus(w)
  <2>1. PICK call : call = [kind |-> "status", target |-> None]
    OBVIOUS
  <2>2. call \in Asked /\ Request(w, call)
    BY <1>5, <2>1 DEF PhraseStatus, Asked, Reads
  <2> QED
    BY <1>2, <2>2
<1>6. CASE \E call \in Posts : PhrasePost(w, call)
  BY <1>2, <1>6 DEF PhrasePost, Asked
<1> QED
  BY <1>2, <1>3, <1>4, <1>5, <1>6 DEF Phrase

(* At first there is no record of anything.                                *)
LEMMA RegistryInit ==
    ASSUME Init
    PROVE  RegistryInv
<1>1. files = NoFiles /\ asked = <<>> /\ latest = [i \in Subjects |-> None]
      /\ job = [w \in Workers |-> Idle]
  BY DEF Init, Subjects
<1>2. Places(files) = {}
  BY <1>1 DEF Places, NoFiles
<1>3. NothingAhead
  BY <1>1 DEF NothingAhead, NoFiles
<1>4. OpenUnended
  BY <1>1 DEF OpenUnended, Open
<1>5. \A i \in {"slack", "home_assistant"} : NewestIsLatest(i)
  BY <1>1, <1>2 DEF NewestIsLatest, Found, Subjects
<1> QED
  BY <1>3, <1>4, <1>5 DEF RegistryInv

(* What the registry shows as the last event of an integration is the last *)
(* record that was written of it, across midnight, other integrations'     *)
(* records and lines that were cut off (_last_event_for, _read_filtered).  *)
THEOREM RegistryIsLatest == Spec => []RegistryShowsLatest
<1>1. Loop \in Workers /\ Cli \in Workers /\ Threads \subseteq Workers
  BY DEF Workers
<1>2. TrailInv /\ RegistryInv /\ [Next]_vars => RegistryInv'
  <2> SUFFICES ASSUME TrailInv, RegistryInv, [Next]_vars PROVE RegistryInv'
    OBVIOUS
  <2>1. Typed /\ day \in Days
    BY DEF TrailInv, Typed
  <2>2. ASSUME UNCHANGED <<files, latest, asked>>, day' \in {day, day + 1} \cap Days,
               \A j \in Ids : Open(j)' => Open(j)
        PROVE  RegistryInv'
    <3>1. day' \in Days /\ day' >= day
      BY <2>1, <2>2 DEF Days
    <3> QED
      BY <2>1, <2>2, <3>1, RegistryQuiet
  <2>3. CASE NextDay
    <3>1. day' \in {day, day + 1} \cap Days
      BY <2>1, <2>3, AuditLogAssumption DEF NextDay, Days
    <3>2. UNCHANGED <<files, latest, asked, job>>
      BY <2>3 DEF NextDay, log
    <3> QED
      BY <2>2, <3>1, <3>2 DEF Open
  <2>4. CASE \E call \in Asked : PostRoute(call) \/ \E t \in Threads : GetRoute(t, call)
    BY <1>1, <2>4, CallRegistry DEF PostRoute, GetRoute
  <2>5. CASE (\E t \in Threads : View(t)) \/ Phrase(Loop) \/ Phrase(Cli)
    BY <1>1, <2>5, CallRegistry
  <2>6. CASE \E w \in Workers :
               \/ Unreadable(w) \/ Post(w) \/ Complete(w) \/ Odd(w) \/ Missing(w) \/ Refused(w)
               \/ GiveUp(w)
    BY <2>6, WorkerRegistry
  <2>7. CASE \E id \in Ids : Handle(id)
    <3>1. UNCHANGED <<day, files, latest, asked, job>>
      BY <2>7 DEF Handle, log
    <3> QED
      BY <2>1, <2>2, <3>1 DEF Open
  <2>8. ASSUME NEW killed \in {{Cli}, {Loop} \cup Threads}, Kill(killed)
        PROVE  RegistryInv'
    <3>1. /\ job' = [w \in Workers |-> IF w \in killed THEN Idle ELSE job[w]]
          /\ UNCHANGED <<day, files, latest, asked>>
      BY <2>8 DEF Kill
    <3>2. \A j \in Ids : Open(j)' => Open(j)
      BY <3>1 DEF Open
    <3> QED
      BY <2>1, <2>2, <3>1, <3>2
  <2>9. CASE UNCHANGED vars
    BY <2>1, <2>2, <2>9 DEF vars, Open
  <2> QED
    BY <2>3, <2>4, <2>5, <2>6, <2>7, <2>8, <2>9 DEF Next
<1>3. TrailInv /\ RegistryInv => RegistryShowsLatest
  <2> SUFFICES ASSUME TrailInv, RegistryInv, NEW i \in {"slack", "home_assistant"}
               PROVE  LastEvent(i) = IF latest[i] = None THEN <<>> ELSE <<latest[i]>>
    BY DEF RegistryShowsLatest
  <2>1. files \in Logs(Event(Ids)) /\ NewestIsLatest(i)
    BY DEF TrailInv, Typed, RegistryInv
  <2>2. PICK wanted : wanted = Event(About(i))
    OBVIOUS
  <2>3. LastEvent(i) = ReadFiltered(files, wanted, 1)
    BY <2>2 DEF LastEvent, About
  <2>4. /\ Found(files, wanted) = {} => ReadFiltered(files, wanted, 1) = <<>>
        /\ \A p \in Found(files, wanted) :
             (\A q \in Found(files, wanted) : ~Newer(q, p)) =>
                 ReadFiltered(files, wanted, 1) = <<TextAt(files, p)>>
    BY <2>1, ReadsNewest
  <2>5. CASE latest[i] = None
    BY <2>1, <2>2, <2>3, <2>4, <2>5 DEF NewestIsLatest
  <2>6. CASE latest[i] # None
    <3>1. PICK p \in Found(files, wanted) :
            TextAt(files, p) = latest[i] /\ \A q \in Found(files, wanted) : ~Newer(q, p)
      BY <2>1, <2>2, <2>6 DEF NewestIsLatest
    <3> QED
      BY <2>3, <2>4, <2>6, <3>1
  <2> QED
    BY <2>5, <2>6
<1>4. Init => RegistryInv
  BY RegistryInit
<1>5. Spec => []TrailInv
  BY IntegrationsInvariant
<1> QED
  BY <1>2, <1>3, <1>4, <1>5, PTL DEF Spec
=============================================================================
