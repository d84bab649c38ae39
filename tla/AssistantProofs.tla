--------------------------- MODULE AssistantProofs ---------------------------
(***************************************************************************)
(* Whose questions are answered and what a logout forgets: proofs for any  *)
(* browsers, requests, settings of the server, caps and lifetimes; and how *)
(* one question is routed, answered and put on record.                     *)
(***************************************************************************)
EXTENDS Assistant, Conversation, SequenceTheorems, FiniteSetTheorems, TLAPS

Renders == [at : {"page"}, by : Browsers, key : Keys \cup {None}, csrf : Tokens \cup {None}]

Asks == [at : {"ask", "voice"}, by : Browsers \cup {None}, key : Keys \cup {None},
         sent : Secrets \cup {None}, question : Questions]

Jars == [session : Cookies \cup {None}, csrf : CsrfCookies \cup {None}]

Pages == [csrf : Tokens, shown : Seq(Questions)]

Pending(r) == request[r].at \in {"ask", "voice"}

Buckets == [Keys -> {h \in Seq(Questions) : Len(h) <= Cap}]

Typed ==
    /\ now \in Time /\ asked \in 0 .. MaxAsks /\ left \subseteq Cookies
    /\ config \in Configs
    /\ jar \in [Browsers -> Jars]
    /\ page \in [Browsers -> Pages \cup {None}]
    /\ store \in Buckets
    /\ request \in [Requests -> {Idle} \cup Renders \cup Asks]

(* A question is in one place at most: it waits for its answer, is in one  *)
(* bucket, or was forgotten by a logout.                                   *)
OnePlace ==
    /\ old \subseteq 1 .. asked
    /\ \A k \in Keys : ToSet(store[k]) \subseteq (1 .. asked) \ old
    /\ \A j, k \in Keys : j # k => ToSet(store[j]) \cap ToSet(store[k]) = {}
    /\ \A r \in Requests : Pending(r) =>
        /\ request[r].question \in (1 .. asked) \ old
        /\ \A k \in Keys : request[r].question \notin ToSet(store[k])
        /\ \A s \in Requests \ {r} : Pending(s) => request[s].question # request[r].question

AssistantInv == Typed /\ OnePlace /\ AdmittedByThisServer

-----------------------------------------------------------------------------
(* The questions in a history are those at its positions.                  *)
LEMMA HistoryElements ==
    ASSUME NEW h \in Seq(Questions)
    PROVE  ToSet(h) \subseteq Questions
BY DEF ToSet

(* A bucket takes a question, drops its oldest when it is full, and stays  *)
(* within its cap (chat_history.py, append).                               *)
LEMMA RememberBounds ==
    ASSUME store \in Buckets, NEW k \in Keys, NEW q \in Questions
    PROVE  /\ Remember(k, q) \in Buckets
           /\ \A j \in Keys \ {k} : Remember(k, q)[j] = store[j]
           /\ ToSet(Remember(k, q)[k]) \subseteq ToSet(store[k]) \cup {q}
<1> DEFINE h == store[k]
           all == Append(h, q)
<1>1. h \in Seq(Questions) /\ Len(h) <= Cap /\ Cap \in Nat \ {0}
  BY AssistantAssumption DEF Buckets
<1>2. all \in Seq(Questions) /\ Len(all) = Len(h) + 1
      /\ \A i \in 1 .. Len(all) : all[i] = IF i = Len(h) + 1 THEN q ELSE h[i]
  BY <1>1, AppendProperties
<1>3. ToSet(all) \subseteq ToSet(h) \cup {q}
  BY <1>1, <1>2 DEF ToSet
<1>4. Tail(all) \in Seq(Questions) /\ Len(Tail(all)) = Len(h)
      /\ \A i \in 1 .. Len(h) : Tail(all)[i] = all[i + 1]
  BY <1>1, <1>2, HeadTailProperties
<1>5. ToSet(Tail(all)) \subseteq ToSet(all)
  BY <1>1, <1>2, <1>4 DEF ToSet
<1>6. Remember(k, q) = [store EXCEPT ![k] = IF Len(all) > Cap THEN Tail(all) ELSE all]
  BY DEF Remember
<1>7. ASSUME NEW t \in Seq(Questions), Len(t) <= Cap, ToSet(t) \subseteq ToSet(h) \cup {q},
             Remember(k, q) = [store EXCEPT ![k] = t]
      PROVE  /\ Remember(k, q) \in Buckets
             /\ \A j \in Keys \ {k} : Remember(k, q)[j] = store[j]
             /\ ToSet(Remember(k, q)[k]) \subseteq ToSet(h) \cup {q}
  BY <1>7 DEF Buckets
<1> HIDE DEF all
<1>8. CASE Len(all) > Cap
  BY <1>1, <1>3, <1>4, <1>5, <1>6, <1>7, <1>8
<1>9. CASE ~(Len(all) > Cap)
  <2>1. Len(all) <= Cap /\ Remember(k, q) = [store EXCEPT ![k] = all]
    <3>1. Len(all) \in Nat
      BY <1>1, <1>2
    <3> QED
      BY <1>1, <1>6, <1>9, <3>1
  <2> QED
    BY <1>2, <1>3, <1>7, <2>1
<1> QED
  BY <1>8, <1>9

(* A server starts with empty buckets and nothing pending.                 *)
LEMMA InitInv == Init => AssistantInv
<1> SUFFICES ASSUME Init PROVE AssistantInv
  OBVIOUS
<1>1. Typed
  BY AssistantAssumption DEF Init, Typed, Time, Jars, Buckets
<1>2. OnePlace /\ AdmittedByThisServer
  BY DEF Init, OnePlace, AdmittedByThisServer, Pending, Idle, ToSet
<1> QED
  BY <1>1, <1>2 DEF AssistantInv

(* A question that is asked is new, and waits.                             *)
LEMMA SubmitInv ==
    ASSUME AssistantInv, NEW r \in Requests, NEW q \in Asks, asked < MaxAsks,
           asked' = asked + 1, request' = [request EXCEPT ![r] = q], q.question = asked + 1,
           config.auth => /\ q.at \in config.protected => q.sent = config.secret
                          /\ q.key # None => q.by # None /\ q.key.signed = q.sent,
           UNCHANGED <<now, config, jar, page, store, left, old>>
    PROVE  AssistantInv'
<1>1. Typed'
  BY AssistantAssumption DEF AssistantInv, Typed
<1>2. /\ \A s \in Requests \ {r} : request'[s] = request[s]
      /\ request'[r] = q /\ asked \in Nat
  BY DEF AssistantInv, Typed
<1>3. OnePlace'
  <2>1. 1 .. asked \subseteq 1 .. asked' /\ q.question \in 1 .. asked' /\ q.question \notin 1 .. asked
    BY <1>2
  <2>2. \A s \in Requests \ {r} : Pending(s)' => Pending(s) /\ request'[s] = request[s]
    BY <1>2 DEF Pending
  <2>3. /\ old' \subseteq 1 .. asked'
        /\ \A k \in Keys : ToSet(store'[k]) \subseteq (1 .. asked') \ old'
        /\ \A j, k \in Keys : j # k => ToSet(store'[j]) \cap ToSet(store'[k]) = {}
    BY <2>1 DEF AssistantInv, OnePlace
  <2>4. ASSUME NEW s \in Requests, Pending(s)'
        PROVE  /\ request'[s].question \in (1 .. asked') \ old'
               /\ \A k \in Keys : request'[s].question \notin ToSet(store'[k])
    <3>1. CASE s = r
      BY <1>2, <2>1, <3>1 DEF AssistantInv, OnePlace
    <3>2. CASE s # r
      BY <2>1, <2>2, <2>4, <3>2 DEF AssistantInv, OnePlace
    <3> QED
      BY <3>1, <3>2
  <2>5. ASSUME NEW s \in Requests, NEW t \in Requests \ {s}, Pending(s)', Pending(t)'
        PROVE  request'[t].question # request'[s].question
    <3>1. CASE s # r /\ t # r
      BY <2>2, <2>5, <3>1 DEF AssistantInv, OnePlace
    <3>2. CASE s = r \/ t = r
      BY <1>2, <2>1, <2>2, <2>5, <3>2 DEF AssistantInv, OnePlace
    <3> QED
      BY <3>1, <3>2
  <2> QED
    BY <2>3, <2>4, <2>5 DEF OnePlace
<1>4. AdmittedByThisServer'
  BY <1>2 DEF AssistantInv, AdmittedByThisServer
<1> QED
  BY <1>1, <1>3, <1>4 DEF AssistantInv

(* Questions are only taken with the settings of the running server.       *)
LEMMA AskInv ==
    ASSUME AssistantInv, NEW b \in Browsers, NEW r \in Requests,
           NEW kind \in {"ask", "voice"}, Submit(b, r, kind)
    PROVE  AssistantInv'
<1> DEFINE c == jar[b].session
           q == [at |-> kind, by |-> b, key |-> SessionKey(b), question |-> asked + 1,
                 sent |-> IF c = None THEN None ELSE c.signed]
<1>1. /\ asked < MaxAsks /\ asked' = asked + 1 /\ request' = [request EXCEPT ![r] = q]
      /\ Admitted(kind, c)
      /\ UNCHANGED <<now, config, jar, page, store, left, old>>
  BY DEF Submit
<1>2. c \in Cookies \cup {None}
  BY DEF AssistantInv, Typed, Jars
<1>3. q \in Asks
  <2>1. SessionKey(b) \in Keys \cup {None}
    BY <1>2 DEF SessionKey, Keys
  <2>2. (IF c = None THEN None ELSE c.signed) \in Secrets \cup {None}
    BY <1>2 DEF Cookies
  <2>3. asked + 1 \in Questions
    BY <1>1, AssistantAssumption DEF AssistantInv, Typed, Questions
  <2> QED
    BY <2>1, <2>2, <2>3 DEF Asks
<1>4. config.auth => /\ q.at \in config.protected => q.sent = config.secret
                     /\ q.key # None => q.by # None /\ q.key.signed = q.sent
  BY <1>1, NoneAssumption DEF Admitted, ValidSession, SessionKey
<1> QED
  BY <1>1, <1>3, <1>4, SubmitInv

(* A client with a key belongs to no browser and to no session.            *)
LEMMA ClientInv ==
    ASSUME AssistantInv, NEW r \in Requests, NEW kind \in {"ask", "voice"},
           NEW sent \in Secrets \ {NoSecret}, ClientSubmits(r, kind, sent)
    PROVE  AssistantInv'
<1> DEFINE q == [at |-> kind, by |-> None, key |-> IF config.auth THEN None ELSE Address,
                 question |-> asked + 1, sent |-> sent]
<1>1. /\ asked < MaxAsks /\ asked' = asked + 1 /\ request' = [request EXCEPT ![r] = q]
      /\ KeyAdmitted(kind, sent)
      /\ UNCHANGED <<now, config, jar, page, store, left, old>>
  BY DEF ClientSubmits
<1>2. asked + 1 \in Questions
  BY <1>1, AssistantAssumption DEF AssistantInv, Typed, Questions
<1>3. q \in Asks
  BY <1>2 DEF Asks, Keys
<1>4. config.auth => /\ q.at \in config.protected => q.sent = config.secret
                     /\ q.key # None => q.by # None /\ q.key.signed = q.sent
  BY <1>1 DEF KeyAdmitted
<1> QED
  BY <1>1, <1>3, <1>4, SubmitInv

(* An answer goes into one bucket or into none, and its request is over.   *)
LEMMA AnswerInv ==
    ASSUME AssistantInv, NEW r \in Requests, Answer(r) \/ Fail(r)
    PROVE  AssistantInv'
<1> DEFINE q == request[r]
<1>1. /\ Pending(r) /\ request' = [request EXCEPT ![r] = Idle]
      /\ UNCHANGED <<now, config, jar, page, asked, left, old>>
      /\ store' = store \/ (q.key # None /\ store' = Remember(q.key, q.question))
  BY DEF Answer, Fail, Pending
<1>2. q \in Asks
  BY <1>1 DEF AssistantInv, Typed, Pending, Idle, Renders
<1>3. /\ store' \in Buckets
      /\ \/ store' = store
         \/ \E k \in Keys :
              /\ \A j \in Keys \ {k} : store'[j] = store[j]
              /\ ToSet(store'[k]) \subseteq ToSet(store[k]) \cup {q.question}
  <2>1. CASE store' = store
    BY <2>1 DEF AssistantInv, Typed
  <2>2. CASE q.key # None /\ store' = Remember(q.key, q.question)
    <3>1. q.key \in Keys /\ q.question \in Questions
      BY <1>2, <2>2 DEF Asks
    <3> QED
      BY <2>2, <3>1, RememberBounds DEF AssistantInv, Typed
  <2> QED
    BY <1>1, <2>1, <2>2
<1>4. Typed'
  BY <1>1, <1>3 DEF AssistantInv, Typed
<1>5. \A s \in Requests : Pending(s)' => s # r /\ Pending(s) /\ request'[s] = request[s]
  BY <1>1 DEF AssistantInv, Typed, Pending, Idle
<1>6. OnePlace'
  <2>1. /\ q.question \in (1 .. asked) \ old
        /\ \A k \in Keys : q.question \notin ToSet(store[k])
        /\ \A s \in Requests : Pending(s)' => request'[s].question # q.question
    BY <1>1, <1>5 DEF AssistantInv, OnePlace
  <2>2. CASE store' = store
    BY <1>1, <1>5, <2>2 DEF AssistantInv, OnePlace
  <2>3. ASSUME NEW k \in Keys, \A j \in Keys \ {k} : store'[j] = store[j],
               ToSet(store'[k]) \subseteq ToSet(store[k]) \cup {q.question}
        PROVE  OnePlace'
    BY <1>1, <1>5, <2>1, <2>3 DEF AssistantInv, OnePlace
  <2> QED
    BY <1>3, <2>2, <2>3
<1>7. AdmittedByThisServer'
  BY <1>1, <1>5 DEF AssistantInv, AdmittedByThisServer, Pending
<1> QED
  BY <1>4, <1>6, <1>7 DEF AssistantInv

(* A logout forgets a bucket as a whole.                                   *)
LEMMA LogoutInv ==
    ASSUME AssistantInv, NEW b \in Browsers, Logout(b)
    PROVE  AssistantInv'
<1> DEFINE k == jar[b].session
<1>1. /\ old' = old \cup Forgotten(k) /\ left' = left \cup ({k} \ {None})
      /\ store' = IF k = None THEN store ELSE [store EXCEPT ![k] = <<>>]
      /\ jar' = [jar EXCEPT ![b].session = None]
      /\ UNCHANGED <<now, config, page, request, asked>>
  BY DEF Logout
<1>2. k \in Cookies \cup {None}
  BY DEF AssistantInv, Typed, Jars
<1>3. Typed'
  <2>1. jar' \in [Browsers -> Jars]
    BY <1>1 DEF AssistantInv, Typed, Jars
  <2>2. store' \in Buckets
    BY <1>1, <1>2, AssistantAssumption DEF AssistantInv, Typed, Buckets, Keys
  <2> QED
    BY <1>1, <1>2, <2>1, <2>2 DEF AssistantInv, Typed
<1>4. OnePlace'
  <2>1. CASE k = None
    BY <1>1, <2>1 DEF AssistantInv, OnePlace, Forgotten, Pending
  <2>2. CASE k # None
    <3>1. /\ k \in Keys /\ old' = old \cup ToSet(store[k])
          /\ store'[k] = <<>> /\ \A j \in Keys \ {k} : store'[j] = store[j]
      BY <1>1, <1>2, <2>2 DEF Forgotten, AssistantInv, Typed, Buckets, Keys
    <3>2. ToSet(<<>>) = {}
      BY DEF ToSet
    <3>3. \A s \in Requests : Pending(s)' = Pending(s) /\ request'[s] = request[s]
      BY <1>1 DEF Pending
    <3>4. old' \subseteq 1 .. asked'
      BY <1>1, <3>1 DEF AssistantInv, OnePlace
    <3>5. ASSUME NEW j \in Keys
          PROVE  ToSet(store'[j]) \subseteq (1 .. asked') \ old'
      BY <1>1, <3>1, <3>2 DEF AssistantInv, OnePlace
    <3>6. \A i, j \in Keys : i # j => ToSet(store'[i]) \cap ToSet(store'[j]) = {}
      BY <3>1, <3>2 DEF AssistantInv, OnePlace
    <3>7. \A j \in Keys : ToSet(store'[j]) \subseteq ToSet(store[j])
      BY <3>1, <3>2
    <3>8. ASSUME NEW s \in Requests, Pending(s)
          PROVE  /\ request[s].question \in (1 .. asked) \ old'
                 /\ \A j \in Keys : request[s].question \notin ToSet(store'[j])
                 /\ \A t \in Requests \ {s} : Pending(t) => request[t].question # request[s].question
      BY <3>1, <3>7, <3>8, SMTT(40) DEF AssistantInv, OnePlace
    <3> QED
      BY <1>1, <3>3, <3>4, <3>5, <3>6, <3>8 DEF OnePlace
  <2> QED
    BY <2>1, <2>2
<1>5. AdmittedByThisServer'
  BY <1>1 DEF AssistantInv, AdmittedByThisServer
<1> QED
  BY <1>3, <1>4, <1>5 DEF AssistantInv

(* What leaves the questions and the settings alone.                       *)
LEMMA PageInv ==
    ASSUME AssistantInv, NEW r \in Requests, NEW q \in {Idle} \cup Renders,
           ~Pending(r), request' = [request EXCEPT ![r] = q], page' \in [Browsers -> Pages \cup {None}],
           jar' \in [Browsers -> Jars],
           UNCHANGED <<now, config, store, asked, left, old>>
    PROVE  AssistantInv'
<1>1. \A s \in Requests : Pending(s)' => s # r /\ Pending(s) /\ request'[s] = request[s]
  BY DEF AssistantInv, Typed, Pending, Idle, Renders
<1>2. Typed'
  BY DEF AssistantInv, Typed
<1>3. OnePlace'
  BY <1>1 DEF AssistantInv, OnePlace
<1>4. AdmittedByThisServer'
  BY <1>1 DEF AssistantInv, AdmittedByThisServer, Pending
<1> QED
  BY <1>2, <1>3, <1>4 DEF AssistantInv

(* A page that is asked for.                                               *)
LEMMA OpenInv ==
    ASSUME AssistantInv, NEW b \in Browsers, NEW r \in Requests, Open(b, r) \/ AskNothing(b, r)
    PROVE  AssistantInv'
<1> DEFINE q == [at |-> "page", by |-> b, key |-> SessionKey(b),
                 csrf |-> IF jar[b].csrf = None THEN None ELSE jar[b].csrf.token]
<1>1. /\ request[r] = Idle /\ request' = [request EXCEPT ![r] = q]
      /\ UNCHANGED <<now, config, jar, page, store, asked, left, old>>
  BY DEF Open, AskNothing
<1>2. jar[b].session \in Cookies \cup {None} /\ jar[b].csrf \in CsrfCookies \cup {None}
  BY DEF AssistantInv, Typed, Jars
<1>3. q \in Renders
  BY <1>2 DEF Renders, SessionKey, Keys, CsrfCookies
<1>4. ~Pending(r)
  BY <1>1 DEF Pending, Idle
<1> QED
  BY <1>1, <1>3, <1>4, PageInv DEF AssistantInv, Typed

(* A page that is rendered shows a bucket and carries a token.             *)
LEMMA RenderInv ==
    ASSUME AssistantInv, NEW r \in Requests, Render(r)
    PROVE  AssistantInv'
<1> DEFINE q == request[r]
           fresh == [by |-> r, at |-> now]
           seen == [csrf |-> IF q.csrf = None THEN fresh ELSE q.csrf,
                    shown |-> IF q.key = None THEN <<>> ELSE store[q.key]]
           cookie == [token |-> fresh, exp |-> now + TTL]
<1>1. /\ q.at = "page" /\ page' = [page EXCEPT ![q.by] = seen]
      /\ jar' = IF q.csrf = None THEN [jar EXCEPT ![q.by].csrf = cookie] ELSE jar
      /\ request' = [request EXCEPT ![r] = Idle]
      /\ UNCHANGED <<now, config, store, asked, left, old>>
  BY DEF Render
<1>2. q \in Renders
  BY <1>1 DEF AssistantInv, Typed, Idle, Asks
<1>3. fresh \in Tokens /\ now + TTL \in 0 .. MaxTime + TTL
  BY AssistantAssumption DEF AssistantInv, Typed, Tokens, Time
<1>4. seen \in Pages
  <2>1. (IF q.key = None THEN <<>> ELSE store[q.key]) \in Seq(Questions)
    BY <1>2 DEF Renders, AssistantInv, Typed, Buckets
  <2> QED
    BY <1>2, <1>3, <2>1 DEF Renders, Pages
<1>5. cookie \in CsrfCookies
  BY <1>3 DEF CsrfCookies
<1>6. jar' \in [Browsers -> Jars]
  <2> HIDE DEF cookie
  <2> QED
    BY <1>1, <1>5 DEF AssistantInv, Typed, Jars
<1>7. ~Pending(r)
  BY <1>1 DEF Pending
<1>8. page' \in [Browsers -> Pages \cup {None}]
  BY <1>1, <1>4 DEF AssistantInv, Typed
<1> QED
  BY <1>1, <1>6, <1>7, <1>8, PageInv

(* What happens to cookies and to the clock.                               *)
LEMMA CookiesInv ==
    ASSUME AssistantInv, Tick \/ \E b \in Browsers : Login(b) \/ DropCookies(b)
    PROVE  AssistantInv'
<1>1. UNCHANGED <<config, page, store, request, asked, old>>
  BY DEF Tick, Login, DropCookies
<1>2. now' \in Time /\ left' \subseteq Cookies
  BY AssistantAssumption DEF AssistantInv, Typed, Tick, Login, DropCookies, Time
<1>3. jar' \in [Browsers -> Jars]
  <2>1. CASE Tick
    BY <2>1 DEF Tick, AssistantInv, Typed
  <2>2. ASSUME NEW b \in Browsers, Login(b)
        PROVE  jar' \in [Browsers -> Jars]
    <3>1. PICK c : c = [exp |-> now + TTL, signed |-> config.secret]
      OBVIOUS
    <3>2. c \in Cookies
      BY <2>2, <3>1, AssistantAssumption
         DEF Login, Cookies, Secrets, AssistantInv, Typed, Time
    <3>3. jar' = [jar EXCEPT ![b].session = c]
      BY <2>2, <3>1 DEF Login
    <3> QED
      BY <3>2, <3>3 DEF AssistantInv, Typed, Jars
  <2>3. ASSUME NEW b \in Browsers, DropCookies(b)
        PROVE  jar' \in [Browsers -> Jars]
    <3>1. PICK s \in Cookies \cup {None}, t \in CsrfCookies \cup {None} :
             jar' = [jar EXCEPT ![b] = [session |-> s, csrf |-> t]]
      BY <2>3 DEF DropCookies, AssistantInv, Typed, Jars
    <3> QED
      BY <3>1 DEF AssistantInv, Typed, Jars
  <2> QED
    BY <2>1, <2>2, <2>3
<1>4. Typed' /\ OnePlace' /\ AdmittedByThisServer'
  BY <1>1, <1>2, <1>3 DEF AssistantInv, Typed, OnePlace, AdmittedByThisServer, Pending
<1> QED
  BY <1>4 DEF AssistantInv

(* A restart drops the buckets and whatever was pending.                   *)
LEMMA RestartInv ==
    ASSUME AssistantInv, Restart
    PROVE  AssistantInv'
<1>1. Typed'
  BY AssistantAssumption DEF Restart, AssistantInv, Typed, Buckets
<1>2. OnePlace' /\ AdmittedByThisServer'
  BY DEF Restart, AssistantInv, OnePlace, AdmittedByThisServer, Pending, Idle, ToSet
<1> QED
  BY <1>1, <1>2 DEF AssistantInv

(* The invariant the properties of the page follow from.                   *)
THEOREM AssistantInvariant == Spec => []AssistantInv
<1>1. AssistantInv /\ [Next]_vars => AssistantInv'
  <2> SUFFICES ASSUME AssistantInv, [Next]_vars PROVE AssistantInv'
    OBVIOUS
  <2>1. CASE UNCHANGED vars
    BY <2>1 DEF vars, AssistantInv, Typed, OnePlace, AdmittedByThisServer, Pending
  <2>2. CASE Tick \/ Restart \/ \E b \in Browsers : Login(b) \/ Logout(b) \/ DropCookies(b)
    BY <2>2, CookiesInv, RestartInv, LogoutInv
  <2>3. ASSUME NEW b \in Browsers, NEW r \in Requests,
               Open(b, r) \/ Ask(b, r) \/ VoiceTrigger(b, r) \/ AskNothing(b, r)
        PROVE  AssistantInv'
    BY <2>3, OpenInv, AskInv DEF Ask, VoiceTrigger
  <2>4. ASSUME NEW r \in Requests, Render(r) \/ Answer(r) \/ Fail(r)
        PROVE  AssistantInv'
    BY <2>4, RenderInv, AnswerInv
  <2> QED
    BY <2>1, <2>2, <2>3, <2>4, ClientInv DEF Next
<1> QED
  BY <1>1, InitInv, PTL DEF Spec

(* Type correctness; no bucket holds more than its cap                     *)
(* (chat_history.py, append).                                              *)
THEOREM AssistantTypeOK == Spec => []TypeOK
<1>1. AssistantInv => TypeOK
  <2> SUFFICES ASSUME AssistantInv PROVE TypeOK
    OBVIOUS
  <2>1. old \subseteq Questions
    BY AssistantAssumption DEF AssistantInv, Typed, OnePlace, Questions
  <2>2. jar \in [Browsers -> [session : Cookies \cup {None}, csrf : CsrfCookies \cup {None}]]
    BY DEF AssistantInv, Typed, Jars
  <2>3. \A b \in Browsers :
          page[b] # None => page[b].csrf \in Tokens /\ page[b].shown \in Seq(Questions)
    BY DEF AssistantInv, Typed, Pages
  <2>4. DOMAIN store = Keys /\ \A k \in Keys : store[k] \in Seq(Questions) /\ Len(store[k]) <= Cap
    BY DEF AssistantInv, Typed, Buckets
  <2>5. \A r \in Requests : request[r] \in {Idle} \cup Renders \cup Asks
    BY DEF AssistantInv, Typed
  <2> QED
    BY <2>1, <2>2, <2>3, <2>4, <2>5 DEF AssistantInv, Typed, TypeOK, Renders, Asks
<1> QED
  BY <1>1, AssistantInvariant, PTL

(* Whoever is being answered was admitted by the running server, and a     *)
(* question goes into the bucket of the session it came with               *)
(* (auth.py, _request_has_valid_credentials; assistant.py, _session_key).  *)
THEOREM AnsweredAreAdmitted == Spec => []AdmittedByThisServer
<1>1. AssistantInv => AdmittedByThisServer
  BY DEF AssistantInv
<1> QED
  BY <1>1, AssistantInvariant, PTL

(* What was answered before a logout is in no bucket ever after            *)
(* (api/routes/auth.py, post_logout).                                      *)
THEOREM LogoutForgets == Spec => []LogoutForgetsAnswered
<1>1. AssistantInv => LogoutForgetsAnswered
  BY DEF AssistantInv, OnePlace, LogoutForgetsAnswered
<1> QED
  BY <1>1, AssistantInvariant, PTL

-----------------------------------------------------------------------------
(* What a page being rendered was sent is the token of its browser's       *)
(* cookie, or there is none.                                               *)
RendersMatch ==
    \A r \in Requests : request[r].at = "page" =>
        LET c == jar[request[r].by].csrf IN
        c # None => request[r].csrf = c.token

(* With one request at a time the page a browser has open and its CSRF     *)
(* cookie never disagree, whatever expires and restarts in between         *)
(* (assistant.py, _csrf_for_render and _attach_csrf_cookie).               *)
THEOREM FormsMatchCookies ==
    ASSUME \A r, s \in Requests : r = s
    PROVE  Spec => []FormMatchesCookie
<1> DEFINE Match == FormMatchesCookie /\ RendersMatch
<1>1. Init => Match
  BY DEF Init, FormMatchesCookie, RendersMatch, Idle
<1>2. AssistantInv /\ Match /\ [Next]_vars => Match'
  <2> SUFFICES ASSUME AssistantInv, Match, [Next]_vars PROVE Match'
    OBVIOUS
  <2>0. /\ jar \in [Browsers -> Jars] /\ page \in [Browsers -> Pages \cup {None}]
        /\ request \in [Requests -> {Idle} \cup Renders \cup Asks]
    BY DEF AssistantInv, Typed
  <2>1. CASE UNCHANGED <<jar, page, request>>
    BY <2>1 DEF FormMatchesCookie, RendersMatch
  <2>2. CASE /\ UNCHANGED page
             /\ \A b \in Browsers : jar'[b].csrf \in {jar[b].csrf, None}
             /\ \A r \in Requests : request'[r].at = "page" => request'[r] = request[r]
    <3>1. \A r \in Requests : request[r].at = "page" => request[r].by \in Browsers
      BY <2>0 DEF Renders, Idle, Asks
    <3> QED
      BY <2>2, <3>1 DEF FormMatchesCookie, RendersMatch
  <2>3. ASSUME NEW b \in Browsers, NEW r \in Requests, Open(b, r) \/ AskNothing(b, r)
        PROVE  Match'
    <3>1. /\ UNCHANGED <<jar, page>>
          /\ request'[r].by = b
          /\ request'[r].csrf = IF jar[b].csrf = None THEN None ELSE jar[b].csrf.token
      BY <2>0, <2>3 DEF Open, AskNothing
    <3> QED
      BY <3>1 DEF FormMatchesCookie, RendersMatch
  <2>4. ASSUME NEW r \in Requests, Render(r)
        PROVE  Match'
    <3> DEFINE q == request[r]
               fresh == [by |-> r, at |-> now]
    <3>1. q \in Renders
      BY <2>0, <2>4 DEF Render, Idle, Asks
    <3>2. /\ page'[q.by].csrf = IF q.csrf = None THEN fresh ELSE q.csrf
          /\ \A b \in Browsers \ {q.by} : page'[b] = page[b] /\ jar'[b] = jar[b]
          /\ q.csrf = None => jar'[q.by].csrf.token = fresh
          /\ q.csrf # None => jar' = jar
          /\ request'[r] = Idle
      BY <2>0, <2>4, <3>1 DEF Render, Renders, Jars
    <3>3. q.csrf # None /\ jar[q.by].csrf # None => q.csrf = jar[q.by].csrf.token
      BY <2>4 DEF RendersMatch, Render
    <3>4. FormMatchesCookie'
      BY <3>1, <3>2, <3>3 DEF FormMatchesCookie, Renders
    <3>5. RendersMatch'
      BY <3>2 DEF RendersMatch, Idle
    <3> QED
      BY <3>4, <3>5
  <2>5. CASE \E b \in Browsers : Login(b) \/ Logout(b) \/ DropCookies(b)
    BY <2>0, <2>2, <2>5 DEF Login, Logout, DropCookies, Jars
  <2>6. ASSUME NEW b \in Browsers, NEW r \in Requests, NEW kind \in {"ask", "voice"},
               Submit(b, r, kind)
        PROVE  Match'
    BY <2>0, <2>2, <2>6 DEF Submit
  <2>7. ASSUME NEW r \in Requests,
               \/ Answer(r) \/ Fail(r)
               \/ \E kind \in {"ask", "voice"}, sent \in Secrets \ {NoSecret} :
                    ClientSubmits(r, kind, sent)
        PROVE  Match'
    BY <2>0, <2>2, <2>7 DEF Answer, Fail, ClientSubmits, Idle
  <2>8. CASE Restart
    BY <2>2, <2>8 DEF Restart, Idle
  <2>9. CASE Tick \/ UNCHANGED vars
    BY <2>1, <2>9 DEF Tick, vars
  <2> QED
    BY <2>3, <2>4, <2>5, <2>6, <2>7, <2>8, <2>9 DEF Next, Ask, VoiceTrigger
<1> QED
  BY <1>1, <1>2, AssistantInvariant, PTL DEF Spec

-----------------------------------------------------------------------------
(* One query through process_query: proofs for any phrases, any sensitive  *)
(* words and any task numbers.                                             *)

(* A set of positions that is not empty has a first.                       *)
LEMMA FirstOfSome ==
    ASSUME NEW n \in Nat, NEW S, S \subseteq 1 .. n, S # {}
    PROVE  \E i \in S : \A j \in S : i <= j
<1> DEFINE Below(i) == {j \in S : j <= i}
           T == {Below(i) : i \in S}
<1>1. T \subseteq FiniteSubsetsOf(S)
  <2>1. IsFiniteSet(S)
    <3>1. IsFiniteSet(1 .. n)
      BY FS_Interval
    <3> QED
      BY <3>1, FS_Subset
  <2>2. \A i \in S : IsFiniteSet(Below(i))
    BY <2>1, FS_Subset
  <2> QED
    BY <2>2 DEF FiniteSubsetsOf
<1>2. T # {}
  OBVIOUS
<1>3. IsWellFoundedOn(StrictSubsetOrdering(S), FiniteSubsetsOf(S))
  BY FS_StrictSubsetOrderingWellFounded
<1> HIDE DEF T
<1>4. PICK t \in T : \A u \in T : ~(<<u, t>> \in StrictSubsetOrdering(S))
  BY <1>1, <1>2, <1>3, WFMin
<1>5. PICK i \in S : t = Below(i)
  BY <1>4 DEF T
<1>6. ASSUME NEW j \in S, ~(i <= j)
      PROVE  FALSE
  <2>1. Below(j) \in T
    BY DEF T
  <2>2. Below(j) \subseteq Below(i) /\ i \in Below(i) \ Below(j)
    <3>1. i \in Int /\ j \in Int /\ \A k \in S : k \in Int
      OBVIOUS
    <3>2. j <= i /\ i <= i
      BY <1>6, <3>1
    <3>3. ASSUME NEW k \in S, k <= j
          PROVE  k <= i
      BY <3>1, <3>2, <3>3
    <3> QED
      BY <1>6, <3>2, <3>3
  <2>3. <<Below(j), t>> \in StrictSubsetOrdering(S)
    BY <1>5, <2>2 DEF StrictSubsetOrdering
  <2> QED
    BY <1>4, <2>1, <2>3
<1> QED
  BY <1>6

-----------------------------------------------------------------------------
IsSequence(s) == \E S : s \in Seq(S)

(* A tuple is a sequence of its elements.                                  *)
LEMMA TuplesAreSequences ==
    /\ \A a, b : IsSequence(<<a, b>>)
    /\ \A a, b, c : IsSequence(<<a, b, c>>)
    /\ \A a, b, c, d : IsSequence(<<a, b, c, d>>)
    /\ \A a, b, c, d, e : IsSequence(<<a, b, c, d, e>>)
    /\ \A a, b, c, d, e, f : IsSequence(<<a, b, c, d, e, f>>)
    /\ \A a, b, c, d, e, f, g : IsSequence(<<a, b, c, d, e, f, g>>)
    /\ \A a, b, c, d, e, f, g, h : IsSequence(<<a, b, c, d, e, f, g, h>>)
<1>1. ASSUME NEW a, NEW b
      PROVE  IsSequence(<<a, b>>)
  <2>1. <<a, b>> \in Seq({a, b})
    OBVIOUS
  <2> QED
    BY <2>1 DEF IsSequence
<1>2. ASSUME NEW a, NEW b, NEW c
      PROVE  IsSequence(<<a, b, c>>)
  <2>1. <<a, b, c>> \in Seq({a, b, c})
    OBVIOUS
  <2> QED
    BY <2>1 DEF IsSequence
<1>3. ASSUME NEW a, NEW b, NEW c, NEW d
      PROVE  IsSequence(<<a, b, c, d>>)
  <2>1. <<a, b, c, d>> \in Seq({a, b, c, d})
    OBVIOUS
  <2> QED
    BY <2>1 DEF IsSequence
<1>4. ASSUME NEW a, NEW b, NEW c, NEW d, NEW e
      PROVE  IsSequence(<<a, b, c, d, e>>)
  <2>1. <<a, b, c, d, e>> \in Seq({a, b, c, d, e})
    OBVIOUS
  <2> QED
    BY <2>1 DEF IsSequence
<1>5. ASSUME NEW a, NEW b, NEW c, NEW d, NEW e, NEW f
      PROVE  IsSequence(<<a, b, c, d, e, f>>)
  <2>1. <<a, b, c, d, e, f>> \in Seq({a, b, c, d, e, f})
    OBVIOUS
  <2> QED
    BY <2>1 DEF IsSequence
<1>6. ASSUME NEW a, NEW b, NEW c, NEW d, NEW e, NEW f, NEW g
      PROVE  IsSequence(<<a, b, c, d, e, f, g>>)
  <2>1. <<a, b, c, d, e, f, g>> \in Seq({a, b, c, d, e, f, g})
    OBVIOUS
  <2> QED
    BY <2>1 DEF IsSequence
<1>7. ASSUME NEW a, NEW b, NEW c, NEW d, NEW e, NEW f, NEW g, NEW h
      PROVE  IsSequence(<<a, b, c, d, e, f, g, h>>)
  <2>1. <<a, b, c, d, e, f, g, h>> \in Seq({a, b, c, d, e, f, g, h})
    OBVIOUS
  <2> QED
    BY <2>1 DEF IsSequence
<1> QED
  BY <1>1, <1>2, <1>3, <1>4, <1>5, <1>6, <1>7

(* The intents of each part of the table.                                  *)
StoreNames ==
    {"save_memory", "list_memory", "save_note", "list_notes", "complete_task", "add_task",
     "list_tasks"}

IntegrationNames ==
    {"slack_send_test", "slack_send_briefing", "ha_status", "ha_turn_on", "ha_turn_off"}

BriefingNames ==
    {"immigration_briefing", "weather_briefing", "ai_briefing", "developer_briefing",
     "tech_briefing", "world_briefing", "daily_briefing"}

CommandNames ==
    {"time", "uptime", "cpu_temp", "disk", "memory_usage", "hostname", "system"}

BuiltinNames == {"greeting", "help"}

NamesIn(table) == {table[i].name : i \in DOMAIN table}

(* What the parts of the table name: memory, notes and tasks               *)
(* (intent_router.py, INTENTS).                                            *)
LEMMA StoreTable == NamesIn(StoreIntents) = StoreNames /\ IsSequence(StoreIntents)
<1>1. DOMAIN StoreIntents = 1 .. 7
  BY DEF StoreIntents
<1>2. /\ StoreIntents[1].name = "save_memory"
      /\ StoreIntents[2].name = "list_memory"
      /\ StoreIntents[3].name = "save_note"
      /\ StoreIntents[4].name = "list_notes"
      /\ StoreIntents[5].name = "complete_task"
      /\ StoreIntents[6].name = "add_task"
      /\ StoreIntents[7].name = "list_tasks"
  BY DEF StoreIntents, Intent
<1>3. IsSequence(StoreIntents)
  BY TuplesAreSequences, Zenon DEF StoreIntents
<1>4. NamesIn(StoreIntents) = StoreNames
  <2>1. \A i : i \in 1 .. 7 <=> i \in {1, 2, 3, 4, 5, 6, 7}
    OBVIOUS
  <2> QED
    BY <1>1, <1>2, <2>1 DEF NamesIn, StoreNames
<1> QED
  BY <1>3, <1>4

(* The intents of Slack and Home Assistant.                                *)
LEMMA IntegrationTable == NamesIn(IntegrationIntents) = IntegrationNames /\ IsSequence(IntegrationIntents)
<1>1. DOMAIN IntegrationIntents = 1 .. 5
  BY DEF IntegrationIntents
<1>2. /\ IntegrationIntents[1].name = "slack_send_test"
      /\ IntegrationIntents[2].name = "slack_send_briefing"
      /\ IntegrationIntents[3].name = "ha_status"
      /\ IntegrationIntents[4].name = "ha_turn_on"
      /\ IntegrationIntents[5].name = "ha_turn_off"
  BY DEF IntegrationIntents, Intent
<1>3. IsSequence(IntegrationIntents)
  BY TuplesAreSequences, Zenon DEF IntegrationIntents
<1>4. NamesIn(IntegrationIntents) = IntegrationNames
  <2>1. \A i : i \in 1 .. 5 <=> i \in {1, 2, 3, 4, 5}
    OBVIOUS
  <2> QED
    BY <1>1, <1>2, <2>1 DEF NamesIn, IntegrationNames
<1> QED
  BY <1>3, <1>4

(* The intents of the briefings.                                           *)
LEMMA BriefingTable == NamesIn(BriefingIntents) = BriefingNames /\ IsSequence(BriefingIntents)
<1>1. DOMAIN BriefingIntents = 1 .. 7
  BY DEF BriefingIntents
<1>2. /\ BriefingIntents[1].name = "immigration_briefing"
      /\ BriefingIntents[2].name = "weather_briefing"
      /\ BriefingIntents[3].name = "ai_briefing"
      /\ BriefingIntents[4].name = "developer_briefing"
      /\ BriefingIntents[5].name = "tech_briefing"
      /\ BriefingIntents[6].name = "world_briefing"
      /\ BriefingIntents[7].name = "daily_briefing"
  BY DEF BriefingIntents, Intent
<1>3. IsSequence(BriefingIntents)
  BY TuplesAreSequences, Zenon DEF BriefingIntents
<1>4. NamesIn(BriefingIntents) = BriefingNames
  <2>1. \A i : i \in 1 .. 7 <=> i \in {1, 2, 3, 4, 5, 6, 7}
    OBVIOUS
  <2> QED
    BY <1>1, <1>2, <2>1 DEF NamesIn, BriefingNames
<1> QED
  BY <1>3, <1>4

(* The intents that are commands.                                          *)
LEMMA CommandTable == NamesIn(SystemIntents) = CommandNames /\ IsSequence(SystemIntents)
<1>1. DOMAIN SystemIntents = 1 .. 7
  BY DEF SystemIntents
<1>2. /\ SystemIntents[1].name = "time"
      /\ SystemIntents[2].name = "uptime"
      /\ SystemIntents[3].name = "cpu_temp"
      /\ SystemIntents[4].name = "disk"
      /\ SystemIntents[5].name = "memory_usage"
      /\ SystemIntents[6].name = "hostname"
      /\ SystemIntents[7].name = "system"
  BY DEF SystemIntents, Intent
<1>3. IsSequence(SystemIntents)
  BY TuplesAreSequences, Zenon DEF SystemIntents
<1>4. NamesIn(SystemIntents) = CommandNames
  <2>1. \A i : i \in 1 .. 7 <=> i \in {1, 2, 3, 4, 5, 6, 7}
    OBVIOUS
  <2> QED
    BY <1>1, <1>2, <2>1 DEF NamesIn, CommandNames
<1> QED
  BY <1>3, <1>4

(* The greeting and the help.                                              *)
LEMMA BuiltinTable == NamesIn(BuiltinIntents) = BuiltinNames /\ IsSequence(BuiltinIntents)
<1>1. DOMAIN BuiltinIntents = 1 .. 2
  BY DEF BuiltinIntents
<1>2. /\ BuiltinIntents[1].name = "greeting"
      /\ BuiltinIntents[2].name = "help"
  BY DEF BuiltinIntents, Intent
<1>3. IsSequence(BuiltinIntents)
  BY TuplesAreSequences, Zenon DEF BuiltinIntents
<1>4. NamesIn(BuiltinIntents) = BuiltinNames
  <2>1. \A i : i \in 1 .. 2 <=> i \in {1, 2}
    OBVIOUS
  <2> QED
    BY <1>1, <1>2, <2>1 DEF NamesIn, BuiltinNames
<1> QED
  BY <1>3, <1>4

(* Two parts together name what each of them names.                        *)
LEMMA NamesOfBoth ==
    ASSUME NEW s, NEW t, IsSequence(s), IsSequence(t)
    PROVE  IsSequence(s \o t) /\ NamesIn(s \o t) = NamesIn(s) \cup NamesIn(t)
<1>1. PICK S, T : s \in Seq(S) /\ t \in Seq(T)
  BY DEF IsSequence
<1>2. s \in Seq(S \cup T) /\ t \in Seq(S \cup T)
  BY <1>1, SeqMonotonic
<1>3. s \o t \in Seq(S \cup T) /\ Range(s \o t) = Range(s) \cup Range(t)
  BY <1>2, ConcatProperties, RangeConcatenation
<1>4. \A table : NamesIn(table) = {entry.name : entry \in Range(table)}
  BY DEF NamesIn, Range
<1> QED
  BY <1>3, <1>4 DEF IsSequence

(* The intents there are, and which of them are commands.                  *)
LEMMA AllNames ==
    /\ IsSequence(INTENTS)
    /\ Names = StoreNames \cup IntegrationNames \cup BriefingNames \cup CommandNames
                  \cup BuiltinNames
    /\ SystemNames = CommandNames
    /\ {BriefingIntents[i].name : i \in DOMAIN BriefingIntents} = BriefingNames
<1>1. /\ IsSequence(StoreIntents \o IntegrationIntents)
      /\ NamesIn(StoreIntents \o IntegrationIntents) = StoreNames \cup IntegrationNames
  BY StoreTable, IntegrationTable, NamesOfBoth
<1>2. /\ IsSequence(StoreIntents \o IntegrationIntents \o BriefingIntents)
      /\ NamesIn(StoreIntents \o IntegrationIntents \o BriefingIntents)
           = StoreNames \cup IntegrationNames \cup BriefingNames
  BY <1>1, BriefingTable, NamesOfBoth
<1>3. /\ IsSequence(StoreIntents \o IntegrationIntents \o BriefingIntents \o SystemIntents)
      /\ NamesIn(StoreIntents \o IntegrationIntents \o BriefingIntents \o SystemIntents)
           = StoreNames \cup IntegrationNames \cup BriefingNames \cup CommandNames
  BY <1>2, CommandTable, NamesOfBoth
<1>4. IsSequence(INTENTS) /\ NamesIn(INTENTS) = StoreNames \cup IntegrationNames \cup BriefingNames
                                               \cup CommandNames \cup BuiltinNames
  BY <1>3, BuiltinTable, NamesOfBoth DEF INTENTS
<1> QED
  BY <1>4, CommandTable, BriefingTable DEF Names, NamesIn, SystemNames

(* A query goes to an intent of the table or is not understood             *)
(* (intent_router.py, route).                                              *)
LEMMA RouteFinds ==
    ASSUME NEW text
    PROVE  Route(text) \in Names \cup {"fallback"}
<1>1. DOMAIN INTENTS = 1 .. Len(INTENTS) /\ Len(INTENTS) \in Nat
  BY AllNames DEF IsSequence
<1>2. CASE MatchingIntents(text) = {}
  BY <1>2 DEF Route
<1>3. CASE MatchingIntents(text) # {}
  <2>1. MatchingIntents(text) \subseteq 1 .. Len(INTENTS)
    BY <1>1 DEF MatchingIntents
  <2>2. \E i \in MatchingIntents(text) : \A j \in MatchingIntents(text) : i <= j
    BY <1>1, <1>3, <2>1, FirstOfSome
  <2>3. PICK i \in MatchingIntents(text) : Route(text) = INTENTS[i].name
    BY <1>3, <2>2 DEF Route
  <2> QED
    BY <1>1, <2>1, <2>3 DEF Names
<1> QED
  BY <1>2, <1>3

(* A command is allowed with an argument of its list ...                   *)
LEMMA AllowedWith ==
    ASSUME NEW c, NEW argument, c \in DOMAIN AllowedArguments, argument \in AllowedArguments[c]
    PROVE  Allowed(<<c, argument>>)
BY DEF Allowed

(* ... and alone.                                                          *)
LEMMA AllowedAlone ==
    ASSUME NEW c \in DOMAIN AllowedArguments
    PROVE  Allowed(<<c>>)
BY DEF Allowed

(* The entries of the allowlist that the commands need.                    *)
LEMMA ArgumentsOfCommands ==
    /\ {"date", "uptime", "hostname", "vcgencmd", "df", "free", "uname"} \subseteq DOMAIN AllowedArguments
    /\ "measure_temp" \in AllowedArguments["vcgencmd"]
    /\ "-h" \in AllowedArguments["df"]
    /\ "-h" \in AllowedArguments["free"]
    /\ "-a" \in AllowedArguments["uname"]
BY DEF AllowedArguments

(* The router has no command that the allowlist refuses                    *)
(* (core/command_runner.py, security/allowlist.py).                        *)
LEMMA CommandsAllowed ==
    ASSUME NEW intent \in SystemNames
    PROVE  Allowed(Command(intent))
<1>1. intent \in CommandNames
  BY AllNames
<1>2. CASE intent \in {"time", "uptime", "hostname"}
  <2>1. \E c \in {"date", "uptime", "hostname"} : Command(intent) = <<c>>
    BY <1>2 DEF Command
  <2> QED
    BY <2>1, AllowedAlone, ArgumentsOfCommands
<1>3. CASE intent = "cpu_temp"
  BY <1>3, AllowedWith, ArgumentsOfCommands DEF Command
<1>4. CASE intent = "disk"
  BY <1>4, AllowedWith, ArgumentsOfCommands DEF Command
<1>5. CASE intent = "memory_usage"
  BY <1>5, AllowedWith, ArgumentsOfCommands DEF Command
<1>6. CASE intent = "system"
  BY <1>6, AllowedWith, ArgumentsOfCommands DEF Command
<1> QED
  BY <1>1, <1>2, <1>3, <1>4, <1>5, <1>6 DEF CommandNames

-----------------------------------------------------------------------------
(* A text that begins with p agrees with p there, and goes on after it.    *)
LEMMA PrefixAgrees ==
    ASSUME NEW A, NEW p, IsSequence(p), NEW q \in Seq(A), IsPrefix(p, q)
    PROVE  /\ Len(p) \in 0 .. Len(q)
           /\ \A k \in 1 .. Len(p) : p[k] = q[k]
           /\ q = p \o SubSeq(q, Len(p) + 1, Len(q))
<1>0. PICK B : p \in Seq(B)
  BY DEF IsSequence
<1>1. Len(p) \in 0 .. Len(q) /\ Len(q) \in Nat /\ p = SubSeq(q, 1, Len(p))
  BY <1>0, SubSeqFull, LenProperties DEF IsPrefix
<1>2. \A k \in 1 .. Len(p) : p[k] = q[k]
  <2>1. \A k \in 1 .. Len(p) : q[k] \in A
    BY <1>1
  <2>2. \A k \in 1 .. Len(p) : SubSeq(q, 1, Len(p))[k] = q[1 + k - 1]
    BY <1>1, <2>1, SubSeqProperties
  <2> QED
    BY <1>1, <2>2
<1>3. SubSeq(q, 1, Len(p)) \o SubSeq(q, Len(p) + 1, Len(q)) = SubSeq(q, 1, Len(q))
  <2>1. /\ 1 \in 1 .. Len(q) + 1 /\ Len(p) \in 1 - 1 .. Len(q) /\ Len(q) \in Len(p) .. Len(q)
    BY <1>1
  <2> QED
    BY <2>1, ConcatAdjacentSubSeq
<1> QED
  BY <1>1, <1>2, <1>3, SubSeqFull

(* The lengths of two texts add up.                                        *)
LEMMA LengthsAdd ==
    ASSUME NEW p, NEW t, IsSequence(p), IsSequence(t)
    PROVE  Len(p \o t) = Len(p) + Len(t) /\ Len(p) \in Nat /\ Len(t) \in Nat
<1>1. PICK A, B : p \in Seq(A) /\ t \in Seq(B)
  BY DEF IsSequence
<1>2. p \in Seq(A \cup B) /\ t \in Seq(A \cup B)
  BY <1>1, SeqMonotonic
<1> QED
  BY <1>2, ConcatProperties, LenProperties

(* p and q cannot both begin a text, unless q is not the longer.           *)
Yields(p, q) ==
    \/ Len(q) <= Len(p)
    \/ \E k \in 1 .. Len(p) : k <= Len(q) /\ p[k] # q[k]

(* The first prefix of a list that begins a text is the longest to do so.  *)
LongestFirst(prefixes) ==
    \A i, j \in DOMAIN prefixes : i < j => Yields(prefixes[i], prefixes[j])

(* A list of four prefixes, pair by pair.                                  *)
LEMMA FourInOrder ==
    ASSUME NEW a, NEW b, NEW c, NEW d, IsSequence(a), IsSequence(b), IsSequence(c), IsSequence(d),
           Yields(a, b), Yields(a, c), Yields(a, d), Yields(b, c), Yields(b, d), Yields(c, d)
    PROVE  /\ LongestFirst(<<a, b, c, d>>)
           /\ DOMAIN <<a, b, c, d>> = 1 .. 4
           /\ \A i \in 1 .. 4 : IsSequence(<<a, b, c, d>>[i])
<1> DEFINE t == <<a, b, c, d>>
<1>1. DOMAIN t = 1 .. 4 /\ t[1] = a /\ t[2] = b /\ t[3] = c /\ t[4] = d
  OBVIOUS
<1>2. \A i : i \in 1 .. 4 <=> i \in {1, 2, 3, 4}
  OBVIOUS
<1> HIDE DEF t
<1>3. ASSUME NEW i \in {1, 2, 3, 4}, NEW j \in {1, 2, 3, 4}, i < j
      PROVE  Yields(t[i], t[j])
  <2>1. CASE i = 1
    BY <1>1, <1>3, <2>1
  <2>2. CASE i = 2
    BY <1>1, <1>3, <2>2
  <2>3. CASE i = 3
    BY <1>1, <1>3, <2>3
  <2> QED
    BY <1>3, <2>1, <2>2, <2>3
<1>4. LongestFirst(t)
  BY <1>1, <1>2, <1>3 DEF LongestFirst
<1>5. \A i \in 1 .. 4 : IsSequence(t[i])
  BY <1>1, <1>2
<1> QED
  BY <1>1, <1>4, <1>5 DEF t

(* The prefixes of a memory are in such an order, though not sorted by     *)
(* length (memory.py).                                                     *)
LEMMA RememberInOrder ==
    /\ LongestFirst(RememberPrefixes)
    /\ DOMAIN RememberPrefixes = 1 .. 4
    /\ \A i \in 1 .. 4 : IsSequence(RememberPrefixes[i])
<1>1. PICK a : a = <<"remember", "_", "that", "_">>
  OBVIOUS
<1>2. PICK b : b = <<"remember", "_", "to", "_", "remember", "_", "that", "_">>
  OBVIOUS
<1>3. PICK c : c = <<"please", "_", "remember", "_", "that", "_">>
  OBVIOUS
<1>4. PICK d : d = <<"remember", "_">>
  OBVIOUS
<1>5. IsSequence(a) /\ IsSequence(b) /\ IsSequence(c) /\ IsSequence(d)
  BY <1>1, <1>2, <1>3, <1>4, TuplesAreSequences, Zenon
<1>6. /\ Len(a) = 4 /\ a[1] = "remember" /\ a[3] = "that"
      /\ Len(b) = 8 /\ b[1] = "remember" /\ b[3] = "to"
      /\ Len(c) = 6 /\ c[1] = "please"
      /\ Len(d) = 2
  BY <1>1, <1>2, <1>3, <1>4
<1>7. Yields(a, b) /\ Yields(a, c) /\ Yields(a, d) /\ Yields(b, c) /\ Yields(b, d) /\ Yields(c, d)
  BY <1>6 DEF Yields
<1>8. RememberPrefixes = <<a, b, c, d>>
  BY <1>1, <1>2, <1>3, <1>4 DEF RememberPrefixes
<1> QED
  BY <1>5, <1>7, <1>8, FourInOrder
(* The prefixes of a note.                                                 *)
LEMMA NoteInOrder ==
    /\ LongestFirst(NotePrefixes)
    /\ DOMAIN NotePrefixes = 1 .. 4
    /\ \A i \in 1 .. 4 : IsSequence(NotePrefixes[i])
<1>1. PICK a : a = <<"save", "_", "note", "_">>
  OBVIOUS
<1>2. PICK b : b = <<"take", "_", "a", "_", "note", "_">>
  OBVIOUS
<1>3. PICK c : c = <<"note", ":", "_">>
  OBVIOUS
<1>4. PICK d : d = <<"add", "_", "note", "_">>
  OBVIOUS
<1>5. IsSequence(a) /\ IsSequence(b) /\ IsSequence(c) /\ IsSequence(d)
  BY <1>1, <1>2, <1>3, <1>4, TuplesAreSequences, Zenon
<1>6. /\ Len(a) = 4 /\ a[1] = "save"
      /\ Len(b) = 6 /\ b[1] = "take"
      /\ Len(c) = 3 /\ c[1] = "note"
      /\ Len(d) = 4 /\ d[1] = "add"
  BY <1>1, <1>2, <1>3, <1>4
<1>7. Yields(a, b) /\ Yields(a, c) /\ Yields(a, d) /\ Yields(b, c) /\ Yields(b, d) /\ Yields(c, d)
  BY <1>6 DEF Yields
<1>8. NotePrefixes = <<a, b, c, d>>
  BY <1>1, <1>2, <1>3, <1>4 DEF NotePrefixes
<1> QED
  BY <1>5, <1>7, <1>8, FourInOrder

(* The prefixes of a task.                                                 *)
LEMMA TaskInOrder ==
    /\ LongestFirst(TaskPrefixes)
    /\ DOMAIN TaskPrefixes = 1 .. 4
    /\ \A i \in 1 .. 4 : IsSequence(TaskPrefixes[i])
<1>1. PICK a : a = <<"add", "_", "task", "_">>
  OBVIOUS
<1>2. PICK b : b = <<"new", "_", "task", "_">>
  OBVIOUS
<1>3. PICK c : c = <<"create", "_", "task", "_">>
  OBVIOUS
<1>4. PICK d : d = <<"task", ":", "_">>
  OBVIOUS
<1>5. IsSequence(a) /\ IsSequence(b) /\ IsSequence(c) /\ IsSequence(d)
  BY <1>1, <1>2, <1>3, <1>4, TuplesAreSequences, Zenon
<1>6. /\ Len(a) = 4 /\ a[1] = "add"
      /\ Len(b) = 4 /\ b[1] = "new"
      /\ Len(c) = 4 /\ c[1] = "create"
      /\ Len(d) = 3 /\ d[1] = "task"
  BY <1>1, <1>2, <1>3, <1>4
<1>7. Yields(a, b) /\ Yields(a, c) /\ Yields(a, d) /\ Yields(b, c) /\ Yields(b, d) /\ Yields(c, d)
  BY <1>6 DEF Yields
<1>8. TaskPrefixes = <<a, b, c, d>>
  BY <1>1, <1>2, <1>3, <1>4 DEF TaskPrefixes
<1> QED
  BY <1>5, <1>7, <1>8, FourInOrder

(* The text is what follows the longest of the prefixes that begin q.      *)
Cuts(prefixes, q, text) ==
    LET used == {p \in ToSet(prefixes) : q = p \o text}
    IN  /\ used # {}
        /\ \A p \in used, other \in ToSet(prefixes) :
             IsPrefix(other, q) => Len(other) <= Len(p)

(* What _strip_prefix returns, unless it is empty.                         *)
LEMMA StripsPrefix ==
    ASSUME NEW A, NEW q \in Seq(A), NEW prefixes, NEW n \in Nat, LongestFirst(prefixes),
           DOMAIN prefixes = 1 .. n, \A i \in 1 .. n : IsSequence(prefixes[i]),
           NEW text, text = StripPrefix(q, prefixes), text # <<>>
    PROVE  Cuts(prefixes, q, text)
<1> DEFINE found == {i \in DOMAIN prefixes : IsPrefix(prefixes[i], q)}
           used == {p \in ToSet(prefixes) : q = p \o text}
<1>1. ToSet(prefixes) = {prefixes[i] : i \in 1 .. n}
  BY DEF ToSet
<1>2. \A p \in ToSet(prefixes) : IsSequence(p)
  BY <1>1
<1>3. found # {} /\ found \subseteq 1 .. n
  BY DEF StripPrefix
<1>4. PICK f \in found : /\ \A j \in found : f <= j
                         /\ text = SubSeq(q, Len(prefixes[f]) + 1, Len(q))
  <2>1. \E f \in found : \A j \in found : f <= j
    <3> HIDE DEF found
    <3> QED
      BY <1>3, FirstOfSome
  <2> QED
    BY <1>3, <2>1 DEF StripPrefix
<1>5. f \in 1 .. n /\ prefixes[f] \in ToSet(prefixes) /\ IsPrefix(prefixes[f], q)
  BY <1>1, <1>4
<1>6. q = prefixes[f] \o text
  BY <1>2, <1>4, <1>5, PrefixAgrees
<1>7. IsSequence(text)
  <2>1. Len(prefixes[f]) \in Nat /\ Len(q) \in Nat
    BY <1>2, <1>5, PrefixAgrees
  <2>2. \A i \in Len(prefixes[f]) + 1 .. Len(q) : q[i] \in A
    BY <2>1
  <2>3. SubSeq(q, Len(prefixes[f]) + 1, Len(q)) \in Seq(A)
    BY <2>1, <2>2, SubSeqProperties
  <2> QED
    BY <1>4, <2>3 DEF IsSequence
<1>8. \A p \in used : Len(p) = Len(prefixes[f])
  BY <1>2, <1>5, <1>6, <1>7, LengthsAdd
<1>9. ASSUME NEW p \in used, NEW other \in ToSet(prefixes), IsPrefix(other, q)
      PROVE  Len(other) <= Len(p)
  <2>1. PICK j \in 1 .. n : other = prefixes[j]
    BY <1>1
  <2>2. j \in found /\ (f = j \/ f < j)
    <3>1. j \in found
      BY <1>9, <2>1
    <3>2. f <= j
      BY <1>4, <3>1
    <3>3. f \in Nat /\ j \in Nat
      BY <1>5
    <3> QED
      BY <3>1, <3>2, <3>3
  <2>3. /\ Len(other) \in Nat /\ Len(prefixes[f]) \in Nat
        /\ \A k \in 1 .. Len(other) : other[k] = q[k]
        /\ \A k \in 1 .. Len(prefixes[f]) : prefixes[f][k] = q[k]
    BY <1>2, <1>5, <1>9, PrefixAgrees
  <2>4. CASE f = j
    BY <1>8, <2>1, <2>3, <2>4
  <2>5. CASE f < j
    <3>1. Yields(prefixes[f], other)
      BY <1>5, <2>1, <2>5 DEF LongestFirst
    <3>2. Len(other) <= Len(prefixes[f])
      BY <2>3, <3>1 DEF Yields
    <3> QED
      BY <1>8, <3>2
  <2> QED
    BY <2>2, <2>4, <2>5
<1>10. used # {}
  BY <1>5, <1>6
<1> QED
  BY <1>9, <1>10 DEF Cuts
-----------------------------------------------------------------------------
(* The intents with a handler of their own.                                *)
Handled == Names \ SystemNames

TextOps == {"save_memory", "save_note", "add_task"}

(* No handler runs a command, and what one stores is the stripped query,   *)
(* neither empty nor, in a memory or a note, sensitive (orchestration.py). *)
LEMMA HandlersDo ==
    ASSUME NEW intent \in Handled
    PROVE  /\ Did(intent).op \in Operations \ {"run"}
           /\ Did(intent).op \in TextOps =>
                /\ Did(intent).arg = StripPrefix(query, PrefixesOf(Did(intent).op))
                /\ Did(intent).arg # <<>>
                /\ Did(intent).op # "add_task" => ~Sensitive(Did(intent).arg)
<1>1. intent \in StoreNames \cup IntegrationNames \cup BriefingNames \cup BuiltinNames
  BY AllNames DEF Handled
<1>2. CASE intent \in TextOps
  <2>1. CASE intent = "save_memory"
    BY <2>1 DEF Did, Save, Nothing, Operations, TextOps, PrefixesOf
  <2>2. CASE intent = "save_note"
    BY <2>2 DEF Did, Save, Nothing, Operations, TextOps, PrefixesOf
  <2>3. CASE intent = "add_task"
    BY <2>3 DEF Did, AddTask, Nothing, Operations, TextOps, PrefixesOf
  <2> QED
    BY <1>2, <2>1, <2>2, <2>3 DEF TextOps
<1>3. CASE intent \in {"list_memory", "list_notes", "list_tasks", "ha_status"}
  BY <1>3 DEF Did, Operations, TextOps
<1>4. CASE intent = "complete_task"
  BY <1>4 DEF Did, CompleteTask, Nothing, Operations, TextOps
<1>5. CASE intent \in {"slack_send_test", "slack_send_briefing"}
  BY <1>5 DEF Did, Operations, TextOps
<1>6. CASE intent \in {"ha_turn_on", "ha_turn_off"}
  BY <1>6 DEF Did, Turn, Nothing, Operations, TextOps
<1>7. CASE intent \in BriefingNames
  BY <1>7, AllNames DEF Did, Operations, TextOps, BriefingNames
<1>8. CASE intent \in BuiltinNames
  BY <1>8, AllNames DEF Did, Nothing, Operations, TextOps, BuiltinNames, BriefingNames
<1> QED
  BY <1>1, <1>2, <1>3, <1>4, <1>5, <1>6, <1>7, <1>8 DEF StoreNames, IntegrationNames, TextOps

Asked == Record("request", "received")

(* The trail of a query before anything is done about it.                  *)
Opens(t) == (t = <<>> /\ (quoted => lost)) \/ (t = <<Asked>> /\ quoted)

(* The trail once it has ended with one of these records.                  *)
Ends(records) ==
    \E t \in {<<>>, <<Asked>>} :
        /\ Opens(t)
        /\ (trail = t /\ lost) \/ \E r \in records : trail = Append(t, r)

(* An answered query, by who answered it, with the records there must be.  *)
Replied ==
    \/ routed \in Handled /\ reply = Reply(routed, "local", Did(routed)) /\ Opens(trail)
    \/ /\ routed \in SystemNames /\ reply = Reply(routed, "local", Ran(Command(routed)))
       /\ Ends({Record("command", "allowed"), Record("command", "error")})
    \/ routed = "fallback" /\ reply = Reply("fallback", "local", Nothing) /\ Opens(trail)
    \/ /\ routed = "fallback" /\ reply = Reply("llm_fallback", "local_llm", Nothing)
       /\ Ends({Record("llm", "success")})
    \/ /\ routed = "fallback" /\ reply = Reply("llm_unavailable", "local", Nothing)
       /\ Ends({Record("llm", "error")})

(* What holds of a query at each step.                                     *)
QueryInv ==
    /\ query \in Seq(Pieces) /\ phrases \in 0 .. MaxPhrases
    /\ quoted \in BOOLEAN /\ lost \in BOOLEAN
    /\ \/ step = "typing" /\ routed = "none" /\ reply = NoReply
          /\ trail = <<>> /\ ~quoted /\ ~lost
       \/ step \in {"asked", "failed"} /\ routed \in Names \cup {"fallback"} /\ reply = NoReply
          /\ Opens(trail)
       \/ step = "running" /\ routed \in SystemNames /\ reply = NoReply /\ Opens(trail)
       \/ step = "model" /\ routed = "fallback" /\ reply = NoReply /\ Opens(trail)
       \/ step = "done" /\ Replied

(* A query starts empty.                                                   *)
LEMMA QueryInitInv == QueryInit => QueryInv
<1> SUFFICES ASSUME QueryInit PROVE QueryInv
  OBVIOUS
<1>1. query \in Seq(Pieces) /\ phrases \in 0 .. MaxPhrases
  BY ConversationAssumption DEF QueryInit
<1> QED
  BY <1>1 DEF QueryInit, QueryInv

(* A query is a text however it is put together.                           *)
LEMMA TypingInv ==
    ASSUME QueryInv, Punctuate \/ \E p \in Vocabulary : Say(p)
    PROVE  QueryInv'
<1>1. step = "typing" /\ UNCHANGED <<step, routed, reply, quoted, trail, lost>>
  BY DEF Punctuate, Say
<1>2. phrases' \in 0 .. MaxPhrases
  <2>1. phrases \in 0 .. MaxPhrases /\ MaxPhrases \in Nat
    BY ConversationAssumption DEF QueryInv
  <2>2. phrases' = phrases \/ (phrases < MaxPhrases /\ phrases' = phrases + 1)
    BY DEF Punctuate, Say
  <2> QED
    BY <2>1, <2>2
<1>3. query \in Seq(Pieces) /\ <<"_">> \in Seq(Pieces) /\ "?" \in Pieces
  <2>1. "_" \in Pieces /\ "?" \in Pieces
    BY DEF Pieces
  <2> QED
    <3>1. \A x \in Pieces : <<x>> \in Seq(Pieces)
      OBVIOUS
    <3> QED
      BY <2>1, <3>1 DEF QueryInv
<1>4. query' \in Seq(Pieces)
  <2>1. CASE Punctuate
    BY <1>3, <2>1, AppendProperties DEF Punctuate
  <2>2. ASSUME NEW p \in Vocabulary, Say(p)
        PROVE  query' \in Seq(Pieces)
    <3>1. p \in Seq(Pieces)
      BY ConversationAssumption
    <3>2. query \o <<"_">> \in Seq(Pieces)
      BY <1>3, ConcatProperties
    <3>3. query \o <<"_">> \o p \in Seq(Pieces)
      BY <3>1, <3>2, ConcatProperties
    <3> QED
      BY <2>2, <3>1, <3>3 DEF Say
  <2> QED
    BY <2>1, <2>2
<1> QED
  BY <1>1, <1>2, <1>4 DEF QueryInv

(* A query is on record before it is routed.                               *)
LEMMA AcceptInv ==
    ASSUME QueryInv, NEW quote \in BOOLEAN, Accept(quote)
    PROVE  QueryInv'
<1>1. /\ step' = "asked" /\ routed' = Route(query) /\ quoted' = quote
      /\ UNCHANGED <<query, phrases, reply>> /\ step = "typing"
  BY DEF Accept, said
<1>2. reply = NoReply /\ trail = <<>> /\ ~lost
  BY <1>1 DEF QueryInv
<1>3. Opens(trail)' /\ lost' \in BOOLEAN
  <2>1. CASE quote
    <3>1. (trail' = Append(trail, Asked) /\ lost' = lost) \/ (lost' = TRUE /\ trail' = trail)
      BY <2>1 DEF Accept, Audit, Asked
    <3>2. Append(<<>>, Asked) = <<Asked>>
      OBVIOUS
    <3> QED
      BY <1>1, <1>2, <2>1, <3>1, <3>2 DEF Opens, QueryInv
  <2>2. CASE ~quote
    <3>1. trail' = trail /\ lost' = lost /\ ~quoted'
      BY <1>1, <2>2 DEF Accept
    <3> QED
      BY <1>2, <3>1 DEF Opens, QueryInv
  <2> QED
    BY <2>1, <2>2
<1>4. routed' \in Names \cup {"fallback"}
  BY <1>1, RouteFinds
<1> QED
  BY <1>1, <1>2, <1>3, <1>4 DEF QueryInv

(* A record written at the end ends the trail, or is the one that is lost. *)
LEMMA AuditEnds ==
    ASSUME Opens(trail), NEW records, NEW r \in records, Audit(r), UNCHANGED quoted,
           lost \in BOOLEAN
    PROVE  Ends(records)' /\ lost' \in BOOLEAN
<1>1. trail \in {<<>>, <<Asked>>}
  BY DEF Opens
<1>2. lost => lost'
  BY DEF Audit
<1>3. (trail' = Append(trail, r) /\ lost' = lost) \/ (trail' = trail /\ lost' = TRUE)
  BY DEF Audit
<1>4. ASSUME NEW t \in {<<>>, <<Asked>>}, t = trail
      PROVE  Opens(t)'
  BY <1>2, <1>4 DEF Opens
<1> QED
  BY <1>1, <1>3, <1>4 DEF Ends

(* What a handler does depends on the query alone.                         *)
LEMMA SameDid ==
    ASSUME UNCHANGED query, NEW intent
    PROVE  Did(intent)' = Did(intent)
BY DEF Did, CompleteTask, Turn

(* What is done with a query once the router has seen it.                  *)
LEMMA HandlingInv ==
    ASSUME QueryInv, Handle \/ HandlerRaises \/ Run \/ NotUnderstood \/ AskModel
    PROVE  QueryInv'
<1>1. /\ step = "asked" /\ UNCHANGED <<query, phrases, routed, quoted>>
  BY DEF Handle, HandlerRaises, Run, NotUnderstood, AskModel, Respond, Raise, said
<1>2. /\ routed \in Names \cup {"fallback"} /\ reply = NoReply /\ Opens(trail)
      /\ query \in Seq(Pieces) /\ phrases \in 0 .. MaxPhrases /\ quoted \in BOOLEAN /\ lost \in BOOLEAN
  BY <1>1 DEF QueryInv
<1>3. UNCHANGED <<trail, lost>> => Opens(trail)'
  BY <1>1, <1>2 DEF Opens
<1>4. CASE Handle
  <2>1. UNCHANGED <<trail, lost>> /\ step' = "done"
        /\ reply' = Reply(routed, "local", Did(routed)) /\ routed \in Handled
    BY <1>4 DEF Handle, Respond, Handled
  <2>2. Did(routed)' = Did(routed)
    BY <1>1, SameDid
  <2>3. Replied'
    BY <1>1, <1>3, <2>1, <2>2 DEF Replied
  <2> QED
    BY <1>1, <1>2, <2>1, <2>3 DEF QueryInv
<1>5. CASE HandlerRaises
  <2>1. UNCHANGED <<trail, lost, reply>> /\ step' = "failed"
    BY <1>5 DEF HandlerRaises, Raise
  <2> QED
    BY <1>1, <1>2, <1>3, <2>1 DEF QueryInv
<1>6. CASE Run
  <2>1. Allowed(Command(routed)) /\ routed \in SystemNames
    BY <1>6, CommandsAllowed DEF Run
  <2>2. UNCHANGED <<trail, lost, reply>> /\ step' = "running"
    BY <1>6, <2>1 DEF Run
  <2> QED
    BY <1>1, <1>2, <1>3, <2>1, <2>2 DEF QueryInv
<1>7. CASE NotUnderstood
  <2>1. UNCHANGED <<trail, lost>> /\ step' = "done" /\ routed = "fallback"
        /\ reply' = Reply("fallback", "local", Nothing)
    BY <1>7 DEF NotUnderstood, Respond
  <2>2. Replied'
    BY <1>1, <1>3, <2>1 DEF Replied
  <2> QED
    BY <1>1, <1>2, <2>1, <2>2 DEF QueryInv
<1>8. CASE AskModel
  <2>1. UNCHANGED <<trail, lost, reply>> /\ step' = "model" /\ routed = "fallback"
    BY <1>8 DEF AskModel
  <2> QED
    BY <1>1, <1>2, <1>3, <2>1 DEF QueryInv
<1> QED
  BY <1>4, <1>5, <1>6, <1>7, <1>8

(* How a command and the local model end.                                  *)
LEMMA EndingInv ==
    ASSUME QueryInv,
           CommandEnds \/ CommandStops \/ CommandRaises \/ ModelAnswers \/ ModelFails \/ ModelRaises
    PROVE  QueryInv'
<1>1. /\ step \in {"running", "model"} /\ UNCHANGED <<query, phrases, routed, quoted>>
  BY DEF CommandEnds, CommandStops, CommandRaises, ModelAnswers, ModelFails, ModelRaises, Respond,
         Raise, said
<1>2. /\ reply = NoReply /\ Opens(trail)
      /\ query \in Seq(Pieces) /\ phrases \in 0 .. MaxPhrases /\ quoted \in BOOLEAN /\ lost \in BOOLEAN
      /\ step = "running" => routed \in SystemNames
      /\ step = "model" => routed = "fallback"
  BY <1>1 DEF QueryInv
<1>3. CASE CommandRaises \/ ModelRaises
  <2>1. UNCHANGED <<trail, lost, reply>> /\ step' = "failed"
    BY <1>3 DEF CommandRaises, ModelRaises, Raise
  <2>2. Opens(trail)'
    BY <1>1, <1>2, <2>1 DEF Opens
  <2>3. routed \in Names \cup {"fallback"}
    BY <1>1, <1>2, AllNames
  <2> QED
    BY <1>1, <1>2, <2>1, <2>2, <2>3 DEF QueryInv
<1>4. CASE CommandEnds \/ CommandStops
  <2> DEFINE records == {Record("command", "allowed"), Record("command", "error")}
  <2>1. /\ \E r \in records : Audit(r)
        /\ step = "running" /\ step' = "done" /\ reply' = Reply(routed, "local", Ran(Command(routed)))
    BY <1>4 DEF CommandEnds, CommandStops, Respond
  <2>2. Ends(records)' /\ lost' \in BOOLEAN
    BY <1>1, <1>2, <2>1, AuditEnds
  <2>3. Replied'
    BY <1>1, <1>2, <2>1, <2>2 DEF Replied
  <2> QED
    BY <1>1, <1>2, <2>1, <2>2, <2>3 DEF QueryInv
<1>5. CASE ModelAnswers
  <2>1. /\ Audit(Record("llm", "success"))
        /\ step = "model" /\ step' = "done" /\ reply' = Reply("llm_fallback", "local_llm", Nothing)
    BY <1>5 DEF ModelAnswers, Respond
  <2>2. Ends({Record("llm", "success")})' /\ lost' \in BOOLEAN
    BY <1>1, <1>2, <2>1, AuditEnds
  <2>3. Replied'
    BY <1>1, <1>2, <2>1, <2>2 DEF Replied
  <2> QED
    BY <1>1, <1>2, <2>1, <2>2, <2>3 DEF QueryInv
<1>6. CASE ModelFails
  <2>1. /\ Audit(Record("llm", "error"))
        /\ step = "model" /\ step' = "done" /\ reply' = Reply("llm_unavailable", "local", Nothing)
    BY <1>6 DEF ModelFails, Respond
  <2>2. Ends({Record("llm", "error")})' /\ lost' \in BOOLEAN
    BY <1>1, <1>2, <2>1, AuditEnds
  <2>3. Replied'
    BY <1>1, <1>2, <2>1, <2>2 DEF Replied
  <2> QED
    BY <1>1, <1>2, <2>1, <2>2, <2>3 DEF QueryInv
<1> QED
  BY <1>3, <1>4, <1>5, <1>6

(* The invariant the properties of a query follow from.                    *)
THEOREM QueryInvariant == QuerySpec => []QueryInv
<1>1. QueryInv /\ [QueryNext]_queryVars => QueryInv'
  <2> SUFFICES ASSUME QueryInv, [QueryNext]_queryVars PROVE QueryInv'
    OBVIOUS
  <2>1. CASE UNCHANGED queryVars
    <3>1. UNCHANGED <<query, phrases, step, routed, reply, quoted, trail, lost>>
      BY <2>1 DEF queryVars
    <3>2. Did(routed)' = Did(routed)
      BY <3>1, SameDid
    <3> QED
      BY <3>1, <3>2 DEF QueryInv, Replied, Opens, Ends
  <2> QED
    BY <2>1, TypingInv, AcceptInv, HandlingInv, EndingInv DEF QueryNext
<1> QED
  BY <1>1, QueryInitInv, PTL DEF QuerySpec

(* A second record after a first.                                          *)
LEMMA AppendToOne ==
    ASSUME NEW x, NEW y
    PROVE  Append(<<x>>, y) = <<x, y>>
<1> DEFINE s == Append(<<x>>, y)
           t == <<x, y>>
<1>1. <<x>> \in Seq({x, y}) /\ Len(<<x>>) = 1 /\ <<x>>[1] = x
  OBVIOUS
<1>2. s \in Seq({x, y}) /\ Len(s) = 2 /\ s[1] = x /\ s[2] = y
  BY <1>1, AppendProperties
<1>3. t \in Seq({x, y}) /\ Len(t) = 2 /\ t[1] = x /\ t[2] = y
  OBVIOUS
<1> HIDE DEF s, t
<1>4. \A i \in 1 .. 2 : s[i] = t[i]
  BY <1>2, <1>3
<1>5. s = t
  BY <1>2, <1>3, <1>4, SeqEqual
<1> QED
  BY <1>5 DEF s, t

(* The records a query can leave.                                          *)
LEMMA RecordTypes ==
    /\ Asked \in Records /\ Asked.of = "request"
    /\ \A o \in {"allowed", "rejected", "error"} :
        Record("command", o) \in Records /\ Record("command", o).of = "command"
    /\ \A o \in {"success", "error"} :
        Record("llm", o) \in Records /\ Record("llm", o).of = "llm"
BY DEF Asked, Record, Records

(* The trail of a query before anything was done about it.                 *)
LEMMA OpeningTyped ==
    ASSUME NEW t, Opens(t)
    PROVE  t \in Seq(Records)
<1>1. <<>> \in Seq(Records) /\ \A r \in Records : <<r>> \in Seq(Records)
  OBVIOUS
<1> QED
  BY <1>1, RecordTypes DEF Opens

(* The trail of a query that was answered.                                 *)
LEMMA EndTyped ==
    ASSUME NEW records \in SUBSET Records, Ends(records)
    PROVE  trail \in Seq(Records)
BY OpeningTyped, AppendProperties DEF Ends

(* Type correctness; an answer is labelled as the local model's if and     *)
(* only if the model gave it (orchestration.py, process_query).            *)
THEOREM QueryTypes == QuerySpec => []QueryTypeOK
<1>1. QueryInv => QueryTypeOK
  <2> SUFFICES ASSUME QueryInv PROVE QueryTypeOK
    OBVIOUS
  <2>1. /\ query \in Seq(Pieces) /\ phrases \in 0 .. MaxPhrases
        /\ step \in {"typing", "asked", "running", "model", "done", "failed"}
        /\ quoted \in BOOLEAN /\ lost \in BOOLEAN
    BY DEF QueryInv
  <2>2. SystemNames \subseteq Names /\ Handled \subseteq Names
    BY AllNames DEF Handled
  <2>3. routed \in Names \cup {"none", "fallback"}
    BY <2>2 DEF QueryInv, Replied
  <2>4. trail \in Seq(Records)
    <3>1. CASE trail = <<>> \/ Opens(trail)
      BY <3>1, OpeningTyped, EmptySeq
    <3>2. CASE \/ Ends({Record("command", "allowed"), Record("command", "error")})
               \/ Ends({Record("llm", "success")}) \/ Ends({Record("llm", "error")})
      BY <3>2, EndTyped, RecordTypes
    <3> QED
      BY <3>1, <3>2 DEF QueryInv, Replied
  <2>5. /\ reply.intent \in Names \cup {"none", "fallback", "llm_fallback", "llm_unavailable"}
        /\ reply.source \in {"none", "local", "local_llm"}
        /\ reply.source = "local_llm" <=> reply.intent = "llm_fallback"
        /\ reply.did.op \in Operations
    <3>1. "llm_fallback" \notin Names
      BY AllNames DEF StoreNames, IntegrationNames, BriefingNames, CommandNames, BuiltinNames
    <3>2. "run" \in Operations /\ "nothing" \in Operations
      BY DEF Operations
    <3>3. CASE reply = NoReply
      BY <3>2, <3>3 DEF NoReply, Reply, Nothing
    <3>4. CASE routed \in Handled /\ reply = Reply(routed, "local", Did(routed))
      BY <2>2, <3>1, <3>4, HandlersDo DEF Reply
    <3>5. CASE routed \in SystemNames /\ reply = Reply(routed, "local", Ran(Command(routed)))
      BY <2>2, <3>1, <3>2, <3>5 DEF Reply, Ran
    <3>6. CASE \/ reply = Reply("fallback", "local", Nothing)
               \/ reply = Reply("llm_fallback", "local_llm", Nothing)
               \/ reply = Reply("llm_unavailable", "local", Nothing)
      BY <3>2, <3>6 DEF Reply, Nothing
    <3> QED
      BY <3>3, <3>4, <3>5, <3>6 DEF QueryInv, Replied
  <2> QED
    BY <2>1, <2>3, <2>4, <2>5 DEF QueryTypeOK
<1> QED
  BY <1>1, QueryInvariant, PTL

(* What is stored is the end of what was said, after the whole of the      *)
(* longest prefix that fits, and no memory or note is sensitive            *)
(* (_strip_prefix, save_memory, save_note, add_task_from_query).           *)
THEOREM TextsAreSaid == QuerySpec => []TextIsWhatWasSaid
<1>1. QueryInv => TextIsWhatWasSaid
  <2> SUFFICES ASSUME QueryInv, reply.did.op \in TextOps PROVE TextIsWhatWasSaid
    BY DEF TextIsWhatWasSaid, TextOps
  <2> DEFINE did == reply.did
             prefixes == PrefixesOf(did.op)
  <2>1. did.op \notin {"nothing", "run"}
    BY DEF TextOps
  <2>2. routed \in Handled /\ did = Did(routed)
    BY <2>1 DEF QueryInv, Replied, NoReply, Reply, Nothing, Ran
  <2>3. /\ did.arg = StripPrefix(query, prefixes) /\ did.arg # <<>>
        /\ did.op # "add_task" => ~Sensitive(did.arg)
    BY <2>2, HandlersDo
  <2>4. /\ LongestFirst(prefixes) /\ DOMAIN prefixes = 1 .. 4
        /\ \A i \in 1 .. 4 : IsSequence(prefixes[i])
    BY RememberInOrder, NoteInOrder, TaskInOrder DEF PrefixesOf, TextOps
  <2>5. query \in Seq(Pieces)
    BY DEF QueryInv
  <2> HIDE DEF did, prefixes
  <2>6. Cuts(prefixes, query, did.arg)
    BY <2>3, <2>4, <2>5, StripsPrefix
  <2> QED
    BY <2>3, <2>6 DEF TextIsWhatWasSaid, Cuts, did, prefixes
<1> QED
  BY <1>1, QueryInvariant, PTL

(* The reply and the trail agree, whatever the query and its phrases are   *)
(* and whatever goes wrong: a record is missing only where one was lost,   *)
(* and no command the router knows is refused (ask, run_command,           *)
(* _try_local_llm).                                                        *)
THEOREM QueriesOnRecord == QuerySpec => []RepliesOnRecord
<1>1. QueryInv => RepliesOnRecord
  <2> SUFFICES ASSUME QueryInv PROVE RepliesOnRecord
    OBVIOUS
  <2> DEFINE calls == IF quoted /\ trail # <<>> /\ Head(trail).of = "request" THEN Tail(trail)
                      ELSE trail
             shown == CASE reply.did.op = "run" ->
                               {<<Record("command", o)>> : o \in {"allowed", "error"}}
                        [] reply.intent = "llm_fallback" -> {<<Record("llm", "success")>>}
                        [] reply.intent = "llm_unavailable" -> {<<Record("llm", "error")>>}
                        [] OTHER -> {<<>>}
             quiet == /\ quoted /\ ~lost => calls # trail
                      /\ \A i \in DOMAIN calls : calls[i].of # "request"
  <2>1. ASSUME Opens(trail)
        PROVE  quiet /\ calls = <<>>
    <3>1. CASE trail = <<>> /\ (quoted => lost)
      BY <3>1
    <3>2. CASE trail = <<Asked>> /\ quoted
      <4>1. trail # <<>> /\ Head(trail) = Asked /\ Tail(trail) = <<>>
        BY <3>2
      <4> QED
        BY <3>2, <4>1, RecordTypes
    <3> QED
      BY <2>1, <3>1, <3>2 DEF Opens
  <2>2. ASSUME NEW records, Ends(records), \A r \in records : r.of # "request"
        PROVE  quiet /\ ((calls = <<>> /\ lost) \/ \E r \in records : calls = <<r>>)
    <3>1. CASE Opens(trail) /\ lost
      BY <2>1, <3>1
    <3>2. ASSUME NEW t \in {<<>>, <<Asked>>}, Opens(t), NEW r \in records, trail = Append(t, r)
          PROVE  quiet /\ calls = <<r>>
      <4>1. CASE t = <<>> /\ (quoted => lost)
        <5>1. trail = <<r>> /\ trail # <<>> /\ Head(trail) = r
          BY <3>2, <4>1
        <5> QED
          BY <2>2, <4>1, <5>1
      <4>2. CASE t = <<Asked>> /\ quoted
        <5>1. trail = <<Asked, r>>
          BY <3>2, <4>2, AppendToOne
        <5>2. trail # <<>> /\ Head(trail) = Asked /\ Tail(trail) = <<r>>
          BY <5>1
        <5>3. calls = <<r>>
          BY <4>2, <5>2, RecordTypes
        <5> QED
          BY <2>2, <5>1, <5>3
      <4> QED
        BY <3>2, <4>1, <4>2 DEF Opens
    <3> QED
      BY <2>2, <3>1, <3>2 DEF Ends
  <2> HIDE DEF calls
  <2>3. step # "typing" => quiet
    <3>1. CASE step \in {"asked", "running", "model", "failed"}
      BY <2>1, <3>1 DEF QueryInv
    <3>2. CASE step = "done"
      BY <2>1, <2>2, <3>2, RecordTypes DEF QueryInv, Replied
    <3> QED
      BY <3>1, <3>2 DEF QueryInv
  <2>4. \A i \in DOMAIN calls : calls[i].of # "request"
    <3>1. CASE step = "typing"
      BY <3>1 DEF QueryInv, calls
    <3> QED
      BY <2>3, <3>1
  <2>5. step \in {"asked", "running", "model"} => calls = <<>>
    BY <2>1 DEF QueryInv
  <2>6. step = "done" /\ routed \in SystemNames => reply.did = Ran(Command(routed))
    BY AllNames DEF QueryInv, Replied, Handled, Reply, CommandNames
  <2>7. step = "done" => calls \in shown \cup IF lost THEN {<<>>} ELSE {}
    <3> HAVE step = "done"
    <3>0. {"llm_fallback", "llm_unavailable"} \cap Names = {} /\ SystemNames \subseteq Names
      BY AllNames DEF StoreNames, IntegrationNames, BriefingNames, CommandNames, BuiltinNames
    <3>1. CASE routed \in Handled /\ reply = Reply(routed, "local", Did(routed)) /\ Opens(trail)
      <4>1. reply.did.op # "run" /\ reply.intent \notin {"llm_fallback", "llm_unavailable"}
        BY <3>0, <3>1, HandlersDo DEF Reply, Handled
      <4> QED
        BY <2>1, <3>1, <4>1
    <3>2. CASE /\ routed \in SystemNames /\ reply = Reply(routed, "local", Ran(Command(routed)))
               /\ Ends({Record("command", "allowed"), Record("command", "error")})
      <4>1. reply.did.op = "run" /\ reply.intent \notin {"llm_fallback", "llm_unavailable"}
        BY <3>0, <3>2 DEF Reply, Ran
      <4> QED
        BY <2>2, <3>2, <4>1, RecordTypes
    <3>3. CASE reply = Reply("fallback", "local", Nothing) /\ Opens(trail)
      BY <2>1, <3>3 DEF Reply, Nothing
    <3>4. CASE reply = Reply("llm_fallback", "local_llm", Nothing) /\ Ends({Record("llm", "success")})
      BY <2>2, <3>4, RecordTypes DEF Reply, Nothing
    <3>5. CASE reply = Reply("llm_unavailable", "local", Nothing) /\ Ends({Record("llm", "error")})
      BY <2>2, <3>5, RecordTypes DEF Reply, Nothing
    <3> QED
      BY <3>1, <3>2, <3>3, <3>4, <3>5 DEF QueryInv, Replied
  <2> QED
    BY <2>3, <2>4, <2>5, <2>6, <2>7 DEF RepliesOnRecord, calls
<1> QED
  BY <1>1, QueryInvariant, PTL
=============================================================================
