---------------------------- MODULE Conversation ----------------------------
(***************************************************************************)
(* One query through process_query (backend/core/orchestration.py): the    *)
(* router, the handler or command it chooses, or the local model, and  *)
(* the audit records of the three.                                         *)
(*                                                                         *)
(* A handler is known here by the call it makes into another part, `did`;  *)
(* what the call does to the tables, to Home Assistant or to a briefing,   *)
(* and puts on record, is the business of those parts.                     *)
(***************************************************************************)
EXTENDS Router

CONSTANTS
    Vocabulary,    \* the phrases a query is put together from
    MaxPhrases     \* bound: phrases of a query

Pieces == {"_", "?"} \cup UNION {ToSet(p) : p \in Vocabulary}

ASSUME ConversationAssumption == Vocabulary \subseteq Seq(Pieces) /\ MaxPhrases \in Nat

VARIABLES
    query,     \* what the user said
    phrases,   \* how many phrases that is
    step,      \* how far it has got
    routed,    \* the intent that takes it
    reply,     \* the intent, the source and the call the handler made
    quoted,    \* whether the query is to be put on record
    trail,     \* the audit records, in order
    lost       \* whether one of them could not be written; bound: one

queryVars == <<query, phrases, step, routed, reply, quoted, trail, lost>>

said == <<query, phrases>>

Nothing == [op |-> "nothing", arg |-> <<>>]

Reply(intent, source, did) == [intent |-> intent, source |-> source, did |-> did]

NoReply == Reply("none", "none", Nothing)

Names == {INTENTS[i].name : i \in DOMAIN INTENTS}

Operations ==
    {"nothing", "save_memory", "save_note", "add_task", "complete_task", "read", "run",
     "slack", "turn", "briefing"}

Record(of, outcome) == [of |-> of, outcome |-> outcome]

Records ==
    {Record("request", "received")}
        \cup [of : {"command"}, outcome : {"allowed", "rejected", "error"}]
        \cup [of : {"llm"}, outcome : {"success", "error"}]

(* "failed" is an exception nobody catches, which is a status of 500.      *)
QueryTypeOK ==
    /\ query \in Seq(Pieces) /\ phrases \in 0 .. MaxPhrases
    /\ step \in {"typing", "asked", "running", "model", "done", "failed"}
    /\ routed \in Names \cup {"none", "fallback"}
    /\ reply.intent \in Names \cup {"none", "fallback", "llm_fallback", "llm_unavailable"}
    /\ reply.source \in {"none", "local", "local_llm"}
    /\ reply.source = "local_llm" <=> reply.intent = "llm_fallback"
    /\ reply.did.op \in Operations
    /\ quoted \in BOOLEAN /\ lost \in BOOLEAN
    /\ trail \in Seq(Records)

QueryInit ==
    /\ query = <<>> /\ phrases = 0
    /\ step = "typing" /\ routed = "none"
    /\ reply = NoReply
    /\ quoted = FALSE /\ trail = <<>> /\ lost = FALSE

-----------------------------------------------------------------------------
Say(p) ==
    /\ step = "typing" /\ phrases < MaxPhrases
    /\ query' = IF query = <<>> THEN p ELSE query \o <<"_">> \o p
    /\ phrases' = phrases + 1
    /\ UNCHANGED <<step, routed, reply, quoted, trail, lost>>

Punctuate ==
    /\ step = "typing" /\ query # <<>> /\ ~Contains(query, "?")
    /\ query' = Append(query, "?")
    /\ UNCHANGED <<phrases, step, routed, reply, quoted, trail, lost>>

(* An append to the audit log, whose failure is only logged.               *)
Audit(record) ==
    \/ trail' = Append(trail, record) /\ UNCHANGED lost
    \/ ~lost /\ lost' = TRUE /\ UNCHANGED trail

(* /ask and the page put the query on record, a voice session only when    *)
(* VOICE_LOG_TRANSCRIPTS says so; then the router looks at it.             *)
Accept(quote) ==
    /\ step = "typing" /\ query # <<>>
    /\ quoted' = quote
    /\ IF quote THEN Audit(Record("request", "received")) ELSE UNCHANGED <<trail, lost>>
    /\ \E intent \in {Route(query)} : routed' = intent
    /\ step' = "asked"
    /\ UNCHANGED <<said, reply>>

(* save_memory and save_note refuse an empty and a sensitive text.         *)
Save(op, text) ==
    IF text = <<>> \/ Sensitive(text) THEN Nothing ELSE [op |-> op, arg |-> text]

(* add_task refuses only an empty one.                                     *)
AddTask(text) == IF text = <<>> THEN Nothing ELSE [op |-> "add_task", arg |-> text]

CompleteTask(numbers) ==
    IF numbers = {} THEN Nothing
    ELSE [op |-> "complete_task",
          arg |-> <<query[CHOOSE i \in numbers : \A j \in numbers : i <= j]>>]

Turn(direction) ==
    LET device == RestAfter(query, <<"turn", "_", direction, "_">>)
    IN  IF device = <<>> THEN Nothing
        ELSE [op |-> "turn", arg |-> <<direction>> \o device]

(* The handler of each intent.                                             *)
Did(intent) ==
    CASE intent = "save_memory" -> Save("save_memory", StripPrefix(query, RememberPrefixes))
      [] intent = "save_note" -> Save("save_note", StripPrefix(query, NotePrefixes))
      [] intent = "add_task" -> AddTask(StripPrefix(query, TaskPrefixes))
      [] intent = "complete_task" -> CompleteTask(TaskNumbers(query))
      [] intent = "slack_send_test" -> [op |-> "slack", arg |-> <<"test">>]
      [] intent = "slack_send_briefing" -> [op |-> "slack", arg |-> <<DetectCategory(query)>>]
      [] intent = "ha_turn_on" -> Turn("on")
      [] intent = "ha_turn_off" -> Turn("off")
      [] intent \in {"list_memory", "list_notes", "list_tasks", "ha_status"} ->
            [op |-> "read", arg |-> <<intent>>]
      [] intent \in {BriefingIntents[i].name : i \in DOMAIN BriefingIntents} ->
            [op |-> "briefing", arg |-> <<intent>>]
      [] intent \in {"greeting", "help"} -> Nothing

Respond(intent, source, did) ==
    /\ reply' = Reply(intent, source, did)
    /\ step' = "done"
    /\ UNCHANGED <<said, routed, quoted>>

(* An exception that nobody catches.                                       *)
Raise ==
    /\ step' = "failed"
    /\ UNCHANGED <<said, routed, reply, quoted, trail, lost>>

(* The router has an intent, which has a handler.                          *)
Handle ==
    /\ step = "asked" /\ routed \in Names \ SystemNames
    /\ Respond(routed, "local", Did(routed))
    /\ UNCHANGED <<trail, lost>>

(* The handlers on the tables do not expect these to fail.                 *)
HandlerRaises ==
    /\ step = "asked" /\ routed \in Names \ SystemNames
    /\ LET did == Did(routed) IN
        \/ did.op \in {"save_memory", "save_note", "add_task", "complete_task", "briefing"}
        \/ did.op = "read" /\ did.arg # <<"ha_status">>
    /\ Raise

Ran(command) == [op |-> "run", arg |-> command]

(* run_command: what the allowlist refuses is not run.                     *)
Run ==
    LET allowed == Allowed(Command(routed)) IN
    /\ step = "asked" /\ routed \in SystemNames
    /\ step' = IF allowed THEN "running" ELSE "done"
    /\ reply' = IF allowed THEN reply ELSE Reply(routed, "local", Nothing)
    /\ IF allowed THEN UNCHANGED <<trail, lost>> ELSE Audit(Record("command", "rejected"))
    /\ UNCHANGED <<said, routed, quoted>>

CommandEnds ==
    /\ step = "running"
    /\ Audit(Record("command", "allowed"))
    /\ Respond(routed, "local", Ran(Command(routed)))

(* The answer alone says that the command was stopped.                     *)
CommandStopsUnrecorded ==
    /\ step = "running"
    /\ Respond(routed, "local", Ran(Command(routed)))
    /\ UNCHANGED <<trail, lost>>

(* TimeoutExpired, when it is killed, or FileNotFoundError.                *)
CommandStops ==
    /\ step = "running"
    /\ Audit(Record("command", "error"))
    /\ Respond(routed, "local", Ran(Command(routed)))

(* It may not be executed, or prints what is not UTF-8.                    *)
CommandRaises == step = "running" /\ Raise

(* No intent, and ENABLE_LOCAL_LLM is off.                                 *)
NotUnderstood ==
    /\ step = "asked" /\ routed = "fallback"
    /\ Respond("fallback", "local", Nothing)
    /\ UNCHANGED <<trail, lost>>

AskModel ==
    /\ step = "asked" /\ routed = "fallback"
    /\ step' = "model"
    /\ UNCHANGED <<said, routed, reply, quoted, trail, lost>>

(* Whatever the model says is shown, and never read.                       *)
ModelAnswers ==
    /\ step = "model"
    /\ Audit(Record("llm", "success"))
    /\ Respond("llm_fallback", "local_llm", Nothing)

(* Labelled as the model's words.                                          *)
ModelFailsUnnoticed ==
    /\ step = "model"
    /\ Audit(Record("llm", "error"))
    /\ Respond("llm_unavailable", "local_llm", Nothing)

(* LocalLLMTimeout and LocalLLMUnavailable: no answer in time, no          *)
(* connection, a status of 400 or more, no JSON of the right shape, no text. *)
ModelFails ==
    /\ step = "model"
    /\ Audit(Record("llm", "error"))
    /\ Respond("llm_unavailable", "local", Nothing)

(* An address that is no URL.                                              *)
ModelRaises == step = "model" /\ Raise

QueryNext ==
    \/ \E p \in Vocabulary : Say(p)
    \/ Punctuate \/ (\E quote \in BOOLEAN : Accept(quote))
    \/ Handle \/ HandlerRaises \/ Run \/ CommandEnds \/ CommandStops \/ CommandRaises
    \/ NotUnderstood \/ AskModel \/ ModelAnswers \/ ModelFails \/ ModelRaises

QuerySpec == QueryInit /\ [][QueryNext]_queryVars

-----------------------------------------------------------------------------
PrefixesOf(op) ==
    CASE op = "save_memory" -> RememberPrefixes
      [] op = "save_note" -> NotePrefixes
      [] op = "add_task" -> TaskPrefixes

(* What is stored is the end of what was said, after the whole of the      *)
(* prefix and nothing of it, and no memory or note is sensitive            *)
(* (_strip_prefix, save_memory, save_note, add_task_from_query).           *)
TextIsWhatWasSaid ==
    reply.did.op \in {"save_memory", "save_note", "add_task"} =>
        LET prefixes == ToSet(PrefixesOf(reply.did.op))
            used == {p \in prefixes : query = p \o reply.did.arg}
        IN  /\ used # {}
            /\ \A p \in used, other \in prefixes : IsPrefix(other, query) => Len(other) <= Len(p)
            /\ reply.did.op # "add_task" => ~Sensitive(reply.did.arg)

(* The reply and the trail agree: a query is on record before anything is  *)
(* done about it, a command whose output is shown has one record, of how   *)
(* it ended, the model's words and its failures each have theirs, and no   *)
(* other reply has any; and no command an intent stands for is refused,    *)
(* though the router and the allowlist each have a list of their own       *)
(* (ask, run_command, _try_local_llm).                                     *)
RepliesOnRecord ==
    LET calls == IF quoted /\ trail # <<>> /\ Head(trail).of = "request" THEN Tail(trail) ELSE trail
        shown == CASE reply.did.op = "run" ->
                            {<<Record("command", o)>> : o \in {"allowed", "error"}}
                   [] reply.intent = "llm_fallback" -> {<<Record("llm", "success")>>}
                   [] reply.intent = "llm_unavailable" -> {<<Record("llm", "error")>>}
                   [] OTHER -> {<<>>}
    IN
    /\ step # "typing" /\ quoted /\ ~lost => calls # trail
    /\ \A i \in DOMAIN calls : calls[i].of # "request"
    /\ step \in {"asked", "running", "model"} => calls = <<>>
    /\ step = "done" => calls \in shown \cup IF lost THEN {<<>>} ELSE {}
    /\ step = "done" /\ routed \in SystemNames => reply.did = Ran(Command(routed))

(* The triggers of README.md:75-97, but for those that end in an ellipsis  *)
(* or a number.                                                            *)
ReadmeTriggers ==
    [greeting |-> {<<"hello">>, <<"hi">>, <<"hey">>},
     help |-> {<<"help">>, <<"what", "_", "can", "_", "you", "_", "do">>},
     time |-> {<<"time">>, <<"date">>, <<"what", "_", "day">>},
     uptime |-> {<<"up", "time">>, <<"how", "_", "long">>},
     cpu_temp |-> {<<"temp", "erature">>, <<"how", "_", "hot">>},
     disk |-> {<<"disk">>, <<"storage">>, <<"space">>},
     memory_usage |-> {<<"ram">>, <<"free", "_", "memory">>, <<"memory", "_", "usage">>},
     hostname |-> {<<"hostname">>, <<"device", "_", "name">>},
     system |-> {<<"kernel">>, <<"os", "_", "version">>},
     list_memory |-> {<<"what", "_", "do", "_", "you", "_", "remember">>, <<"show", "_", "memory">>},
     list_notes |-> {<<"show", "_", "note", "s">>, <<"my", "_", "note", "s">>},
     list_tasks |-> {<<"show", "_", "task", "s">>, <<"my", "_", "task", "s">>},
     daily_briefing |-> {<<"d", "ai", "ly", "_", "briefing">>,
                         <<"what", "'s", "_", "happening", "_", "to", "day">>},
     world_briefing |-> {<<"world", "_", "news">>},
     ai_briefing |-> {<<"ai", "_", "news">>},
     tech_briefing |-> {<<"tech", "_", "news">>},
     developer_briefing |-> {<<"hacker", "_", "news">>, <<"developer", "_", "news">>},
     weather_briefing |-> {<<"boston", "_", "weather">>},
     immigration_briefing |-> {<<"f1", "_", "opt">>, <<"immigration", "_", "up", "date", "s">>}]

(* Three triggers of the table do not reach their intents: "uptime" holds  *)
(* time's keyword "time", "what do you remember", padded, save_memory's    *)
(* "remember ", and "space" is no keyword.                                 *)
Misrouted ==
    {<<"up", "time">>, <<"what", "_", "do", "_", "you", "_", "remember">>, <<"space">>}

Reaches(intent, trigger) ==
    step = "done" /\ query = trigger => reply.intent = intent

(* No keyword of one intent takes a trigger away from another, the         *)
(* misrouted ones apart, with or without a question mark, but for "hi?"    *)
(* (INTENTS, route).                                                       *)
TriggersReachIntents ==
    \A intent \in DOMAIN ReadmeTriggers :
        \A t \in ReadmeTriggers[intent] \ Misrouted :
            Reaches(intent, t) /\ (t # <<"hi">> => Reaches(intent, Append(t, "?")))
=============================================================================
