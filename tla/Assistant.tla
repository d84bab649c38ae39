------------------------------ MODULE Assistant ------------------------------
(***************************************************************************)
(* The /assistant page: sessions, forms and the chat history               *)
(* (backend/api/routes/assistant.py, core/chat_history.py, security/auth.py *)
(* and api/routes/auth.py).                                                *)
(*                                                                         *)
(* POST /assistant/ask runs on the event loop and is suspended while the   *)
(* query is processed; GET /assistant and POST /logout run in thread-pool  *)
(* threads meanwhile.  A request keeps the cookies it was sent with.       *)
(***************************************************************************)
EXTENDS Integers, Sequences, FiniteSets, SequencesExt

CONSTANTS
    Browsers,    \* each with a cookie jar; all at the same address
    Requests,    \* requests the server may be handling at once
    Configs,     \* settings the server may be started with
    NoSecret,    \* a missing or placeholder API_SECRET_KEY
    None,        \* no cookie, no page
    Address,     \* the bucket key of the browsers' address
    Cap,         \* MAX_EXCHANGES
    TTL,         \* session_ttl_minutes
    MaxTime,     \* bound: the last instant of the modelled clock
    MaxAsks      \* bound: questions asked

Time == 0 .. MaxTime

Secrets == {c.secret : c \in Configs}

(* `protected` holds the AUTH_PROTECT_* flags that are on.                 *)
ASSUME AssistantAssumption ==
    /\ Configs \subseteq [auth : BOOLEAN, voice : BOOLEAN, secret : Secrets,
                          protected : SUBSET {"ask", "voice", "dashboard"}]
    /\ Cap \in Nat \ {0} /\ TTL \in Nat \ {0} /\ MaxTime \in Nat /\ MaxAsks \in Nat

VARIABLES
    now,       \* the clock, in seconds
    config,    \* the settings of the running server
    jar,       \* the session and CSRF cookies of each browser
    page,      \* the /assistant page each browser has open
    store,     \* _store: the exchanges of each bucket
    request,   \* the requests being handled
    asked,     \* how many questions were asked: they are numbered
    left,      \* the cookies logged out, and not given out since
    old        \* the questions answered before the last logout of their bucket

vars == <<now, config, jar, page, store, request, asked, left, old>>

(* create_session_cookie signs nothing but the second the session ends in. *)
Cookies == [exp : 0 .. MaxTime + TTL, signed : Secrets \ {NoSecret}]

(* A CSRF token is random: nothing but the issue it came from names it.    *)
Tokens == [by : Requests, at : Time]

CsrfCookies == [token : Tokens, exp : 0 .. MaxTime + TTL]

Keys == Cookies \cup {Address}

Questions == 1 .. MaxAsks

ASSUME NoneAssumption == None \notin Browsers \cup Tokens

Idle == [at |-> "idle"]

TypeOK ==
    /\ now \in Time /\ asked \in 0 .. MaxAsks /\ old \subseteq Questions /\ left \subseteq Cookies
    /\ config \in Configs
    /\ jar \in [Browsers -> [session : Cookies \cup {None}, csrf : CsrfCookies \cup {None}]]
    /\ \A b \in Browsers :
        page[b] # None => page[b].csrf \in Tokens /\ page[b].shown \in Seq(Questions)
    /\ DOMAIN store = Keys
    /\ \A k \in Keys : store[k] \in Seq(Questions) /\ Len(store[k]) <= Cap
    /\ \A r \in Requests :
        \/ request[r] = Idle
        \/ request[r] \in [at : {"page"}, by : Browsers, key : Keys \cup {None},
                           csrf : Tokens \cup {None}]
        \/ request[r] \in [at : {"ask", "voice"}, by : Browsers \cup {None}, key : Keys \cup {None},
                           sent : Secrets \cup {None}, question : Questions]

Init ==
    /\ now = 0 /\ asked = 0 /\ old = {} /\ left = {}
    /\ config \in Configs
    /\ jar = [b \in Browsers |-> [session |-> None, csrf |-> None]]
    /\ page = [b \in Browsers |-> None]
    /\ store = [k \in Keys |-> <<>>]
    /\ request = [r \in Requests |-> Idle]

-----------------------------------------------------------------------------
(* validate_session_cookie without its signature check.                    *)
ValidUnsigned(c) == c # None /\ config.secret # NoSecret /\ c.exp > now

ValidSession(c) ==
    /\ c # None
    /\ config.secret # NoSecret
    /\ c.signed = config.secret
    /\ c.exp > now

(* The dependencies of the routes, and is_dashboard_authenticated.         *)
Admitted(flag, c) == config.auth /\ flag \in config.protected => ValidSession(c)

(* verify_api_key, for a client that sends a key in a header.              *)
KeyAdmitted(flag, sent) ==
    config.auth /\ flag \in config.protected => config.secret # NoSecret /\ sent = config.secret

(* _session_key; None is the empty key, which has no bucket.               *)
SessionKey(b) == IF config.auth THEN jar[b].session ELSE Address

(* verify_csrf_for_api, for a form.                                        *)
CsrfOK(b) ==
    config.auth => jar[b].csrf # None /\ jar[b].csrf.token = page[b].csrf

Forgotten(k) == IF k = None THEN {} ELSE ToSet(store[k])

-----------------------------------------------------------------------------
(* POST /login with the right key; any other attempt changes nothing.      *)
Login(b) ==
    /\ config.auth /\ config.secret # NoSecret
    /\ LET c == [exp |-> now + TTL, signed |-> config.secret]
       IN  jar' = [jar EXCEPT ![b].session = c] /\ left' = left \ {c}
    /\ UNCHANGED <<now, config, page, store, request, asked, old>>

LogoutKeepsChat(b) ==
    /\ old' = old \cup Forgotten(jar[b].session)
    /\ left' = left \cup ({jar[b].session} \ {None})
    /\ jar' = [jar EXCEPT ![b].session = None]
    /\ UNCHANGED <<now, config, page, store, request, asked>>

(* POST /logout asks for no session and no token: it drops what it is sent. *)
Logout(b) ==
    LET k == jar[b].session IN
    /\ old' = old \cup Forgotten(k)
    /\ left' = left \cup ({k} \ {None})
    /\ store' = IF k = None THEN store ELSE [store EXCEPT ![k] = <<>>]
    /\ jar' = [jar EXCEPT ![b].session = None]
    /\ UNCHANGED <<now, config, page, request, asked>>

(* GET /assistant passes its check with the cookies of this moment.        *)
Open(b, r) ==
    /\ request[r] = Idle
    /\ Admitted("dashboard", jar[b].session)
    /\ request' = [request EXCEPT ![r] =
        [at |-> "page", by |-> b, key |-> SessionKey(b),
         csrf |-> IF jar[b].csrf = None THEN None ELSE jar[b].csrf.token]]
    /\ UNCHANGED <<now, config, jar, page, store, asked, left, old>>

(* Every page gets a new token, the browser only its first.               *)
RenderNewToken(r) ==
    LET q == request[r]
        fresh == [by |-> r, at |-> now]
    IN
    /\ q.at = "page"
    /\ page' = [page EXCEPT ![q.by] =
        [csrf |-> fresh, shown |-> IF q.key = None THEN <<>> ELSE store[q.key]]]
    /\ jar' = IF q.csrf = None
              THEN [jar EXCEPT ![q.by].csrf = [token |-> fresh, exp |-> now + TTL]]
              ELSE jar
    /\ request' = [request EXCEPT ![r] = Idle]
    /\ UNCHANGED <<now, config, store, asked, left, old>>

(* It renders: a browser that sent no CSRF cookie gets one.                *)
Render(r) ==
    LET q == request[r]
        fresh == [by |-> r, at |-> now]
    IN
    /\ q.at = "page"
    /\ page' = [page EXCEPT ![q.by] =
        [csrf |-> IF q.csrf = None THEN fresh ELSE q.csrf,
         shown |-> IF q.key = None THEN <<>> ELSE store[q.key]]]
    /\ jar' = IF q.csrf = None
              THEN [jar EXCEPT ![q.by].csrf = [token |-> fresh, exp |-> now + TTL]]
              ELSE jar
    /\ request' = [request EXCEPT ![r] = Idle]
    /\ UNCHANGED <<now, config, store, asked, left, old>>

(* POST /assistant/ask, up to the await.                                   *)
Submit(b, r, kind) ==
    /\ request[r] = Idle /\ page[b] # None /\ asked < MaxAsks
    /\ Admitted(kind, jar[b].session)
    /\ CsrfOK(b)
    /\ kind = "voice" => config.voice
    /\ asked' = asked + 1
    /\ request' = [request EXCEPT ![r] =
        [at |-> kind, by |-> b, key |-> SessionKey(b), question |-> asked + 1,
         sent |-> IF jar[b].session = None THEN None ELSE jar[b].session.signed]]
    /\ UNCHANGED <<now, config, jar, page, store, left, old>>

(* The typed question and POST /assistant/voice-trigger.                   *)
Ask(b, r) == Submit(b, r, "ask")

VoiceTrigger(b, r) == Submit(b, r, "voice")

(* A client with a key, no cookies and no form token sends the same.       *)
ClientSubmits(r, kind, sent) ==
    /\ request[r] = Idle /\ asked < MaxAsks
    /\ KeyAdmitted(kind, sent)
    /\ kind = "voice" => config.voice
    /\ asked' = asked + 1
    /\ request' = [request EXCEPT ![r] =
        [at |-> kind, by |-> None, key |-> IF config.auth THEN None ELSE Address,
         question |-> asked + 1, sent |-> sent]]
    /\ UNCHANGED <<now, config, jar, page, store, left, old>>

(* An empty question only renders the page again, with no further check.   *)
AskNothing(b, r) ==
    /\ request[r] = Idle /\ page[b] # None
    /\ Admitted("ask", jar[b].session)
    /\ CsrfOK(b)
    /\ request' = [request EXCEPT ![r] =
        [at |-> "page", by |-> b, key |-> SessionKey(b),
         csrf |-> IF jar[b].csrf = None THEN None ELSE jar[b].csrf.token]]
    /\ UNCHANGED <<now, config, jar, page, store, asked, left, old>>

(* The bound checked before the exchange is appended.                      *)
RememberOneMore(k, q) ==
    LET all == Append(store[k], q)
    IN  [store EXCEPT ![k] = IF Len(store[k]) > Cap THEN Tail(all) ELSE all]

(* chat_history.append; a deque of bounded length drops its first element. *)
Remember(k, q) ==
    LET all == Append(store[k], q)
    IN  [store EXCEPT ![k] = IF Len(all) > Cap THEN Tail(all) ELSE all]

Answer(r) ==
    LET q == request[r] IN
    /\ q.at \in {"ask", "voice"}
    /\ store' = IF q.key = None THEN store ELSE Remember(q.key, q.question)
    /\ request' = [request EXCEPT ![r] = Idle]
    /\ UNCHANGED <<now, config, jar, page, asked, left, old>>

(* A handler raises: 500, nothing is kept.                                 *)
Fail(r) ==
    /\ request[r].at \in {"ask", "voice"}
    /\ request' = [request EXCEPT ![r] = Idle]
    /\ UNCHANGED <<now, config, jar, page, store, asked, left, old>>

Tick ==
    /\ now < MaxTime
    /\ now' = now + 1
    /\ UNCHANGED <<config, jar, page, store, request, asked, left, old>>

(* A browser drops the cookies whose max_age has passed.                   *)
DropCookies(b) ==
    LET dead(c) == c # None /\ c.exp <= now
    IN
    /\ dead(jar[b].session) \/ dead(jar[b].csrf)
    /\ jar' = [jar EXCEPT ![b] =
        [session |-> IF dead(@.session) THEN None ELSE @.session,
         csrf |-> IF dead(@.csrf) THEN None ELSE @.csrf]]
    /\ UNCHANGED <<now, config, page, store, request, asked, left, old>>

(* The process ends, maybe with other settings after; the cookies stay.    *)
Restart ==
    /\ config' \in Configs
    /\ store' = [k \in Keys |-> <<>>]
    /\ request' = [r \in Requests |-> Idle]
    /\ UNCHANGED <<now, jar, page, asked, left, old>>

Next ==
    \/ Tick \/ Restart
    \/ \E b \in Browsers : Login(b) \/ Logout(b) \/ DropCookies(b)
    \/ \E b \in Browsers, r \in Requests :
        Open(b, r) \/ Ask(b, r) \/ VoiceTrigger(b, r) \/ AskNothing(b, r)
    \/ \E r \in Requests :
        \/ Render(r) \/ Answer(r) \/ Fail(r)
        \/ \E kind \in {"ask", "voice"}, sent \in Secrets \ {NoSecret} :
            ClientSubmits(r, kind, sent)

Spec == Init /\ [][Next]_vars

-----------------------------------------------------------------------------
(* A request being answered was admitted by a cookie the running server    *)
(* itself would sign or by the key it runs with: rotating the secret ends  *)
(* every session, though the cookies outlive the restart, and a question   *)
(* goes into the bucket of the session it came with or into none           *)
(* (_session_key, _request_has_valid_credentials).                         *)
AdmittedByThisServer ==
    \A r \in Requests :
        LET q == request[r] IN
        q.at \in {"ask", "voice"} /\ config.auth =>
            /\ q.at \in config.protected => q.sent = config.secret
            /\ q.key # None => q.by # None /\ q.key.signed = q.sent

(* What was answered before a logout is gone for good: whatever finds its  *)
(* way back into the bucket, or into the bucket of a later session with    *)
(* the same cookie, was answered after it (post_logout).                   *)
LogoutForgetsAnswered == \A k \in Keys : ToSet(store[k]) \cap old = {}

(* With one request at a time, the form of the page a browser has open is  *)
(* accepted for as long as the browser has a CSRF cookie: page and cookie  *)
(* never disagree (_csrf_for_render, _attach_csrf_cookie).                 *)
FormMatchesCookie ==
    \A b \in Browsers :
        page[b] # None /\ jar[b].csrf # None => page[b].csrf = jar[b].csrf.token

-----------------------------------------------------------------------------
(* docs/phase-11-roadmap.md:38 and chat_history.py:7 say the history is    *)
(* cleared on logout.  A question that waits for its answer at the logout  *)
(* brings the bucket back.                                                 *)
ClearedOnLogout == \A k \in left : store[k] = <<>>
=============================================================================
