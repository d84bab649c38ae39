------------------------------- MODULE Router -------------------------------
(***************************************************************************)
(* The deterministic router and the parsers of its handlers                *)
(* (backend/core/intent_router.py, memory.py, tasks.py,                    *)
(* integrations/slack.py, security/allowlist.py, sensitive_data.py).       *)
(*                                                                         *)
(* A text is the sequence of its pieces, in lower case, "_" being a blank. *)
(* A word that holds another keyword is several pieces: "up", "time".      *)
(***************************************************************************)
EXTENDS Integers, Sequences, FiniteSets, SequencesExt

CONSTANTS
    Digits,            \* the pieces that are task numbers
    SensitivePhrases   \* what is_sensitive looks for

(* Python's `phrase in text`.                                              *)
Holds(text, phrase) ==
    \E i \in 0 .. Len(text) - Len(phrase) :
        SubSeq(text, i + 1, i + Len(phrase)) = phrase

HoldsAny(text, phrases) == \E p \in phrases : Holds(text, p)

-----------------------------------------------------------------------------
Intent(name, keywords) == [name |-> name, keywords |-> keywords]

(* The shortest first.                                                     *)
RememberPrefixesSorted ==
    << <<"remember", "_">>, <<"remember", "_", "that", "_">>,
       <<"please", "_", "remember", "_", "that", "_">>,
       <<"remember", "_", "to", "_", "remember", "_", "that", "_">> >>

RememberPrefixes ==
    << <<"remember", "_", "that", "_">>,
       <<"remember", "_", "to", "_", "remember", "_", "that", "_">>,
       <<"please", "_", "remember", "_", "that", "_">>,
       <<"remember", "_">> >>

NotePrefixes ==
    << <<"save", "_", "note", "_">>, <<"take", "_", "a", "_", "note", "_">>,
       <<"note", ":", "_">>, <<"add", "_", "note", "_">> >>

TaskPrefixes ==
    << <<"add", "_", "task", "_">>, <<"new", "_", "task", "_">>,
       <<"create", "_", "task", "_">>, <<"task", ":", "_">> >>

StoreIntents ==
    << Intent("save_memory", ToSet(RememberPrefixes)),
       Intent("list_memory",
           {<<"what", "_", "do", "_", "you", "_", "remember">>,
            <<"what", "_", "did", "_", "i", "_", "ask", "_", "you", "_", "to", "_", "remember">>,
            <<"show", "_", "memory">>, <<"list", "_", "memory">>,
            <<"what", "_", "do", "_", "i", "_", "remember">>}),
       Intent("save_note", ToSet(NotePrefixes)),
       Intent("list_notes",
           {<<"show", "_", "note", "s">>, <<"list", "_", "note", "s">>, <<"my", "_", "note", "s">>}),
       Intent("complete_task",
           {<<"mark", "_", "task", "_">>, <<"complete", "_", "task", "_">>,
            <<"finish", "_", "task", "_">>, <<"task", "_", "done">>}),
       Intent("add_task", ToSet(TaskPrefixes)),
       Intent("list_tasks",
           {<<"show", "_", "task", "s">>, <<"list", "_", "task", "s">>,
            <<"my", "_", "task", "s">>, <<"open", "_", "task", "s">>}) >>

ToSlack == <<"_", "to", "_", "slack">>

IntegrationIntents ==
    << Intent("slack_send_test",
           {<<"send", "_", "test", "_", "slack">>, <<"test", "_", "slack">>, <<"slack", "_", "test">>}),
       Intent("slack_send_briefing",
           {<<"send">> \o p \o ToSlack : p \in
               {<<>>, <<"_", "to", "day", "'s", "_", "briefing">>,
                <<"_", "to", "day", "s", "_", "briefing">>,
                <<"_", "d", "ai", "ly", "_", "briefing">>, <<"_", "briefing">>,
                <<"_", "ai", "_", "briefing">>, <<"_", "world", "_", "news">>,
                <<"_", "tech", "_", "news">>, <<"_", "developer", "_", "news">>,
                <<"_", "hacker", "_", "news">>, <<"_", "weather">>, <<"_", "immigration">>}}),
       Intent("ha_status",
           {<<"home", "_", "assistant", "_", "status">>,
            <<"is", "_", "home", "_", "assistant", "_", "up">>, <<"ha", "_", "status">>}),
       Intent("ha_turn_on", {<<"turn", "_", "on", "_">>}),
       Intent("ha_turn_off", {<<"turn", "_", "off", "_">>}) >>

BriefingIntents ==
    << Intent("immigration_briefing",
           {<<"immigration", "_", "up", "date">>, <<"immigration", "_", "news">>,
            <<"f1", "_", "opt">>, <<"f-1", "_", "opt">>, <<"uscis">>, <<"opt", "_", "up", "date">>}),
       Intent("weather_briefing",
           {<<"boston", "_", "weather">>, <<"weather", "_", "briefing">>,
            <<"weather", "_", "to", "day">>, <<"weather">>}),
       Intent("ai_briefing",
           {<<"ai", "_", "news">>, <<"ai", "_", "briefing">>, <<"ml", "_", "news">>,
            <<"machine", "_", "learning", "_", "news">>}),
       Intent("developer_briefing",
           {<<"developer", "_", "news">>, <<"hacker", "_", "news">>, <<"dev", "_", "news">>,
            <<"engineering", "_", "news">>}),
       Intent("tech_briefing",
           {<<"tech", "_", "news">>, <<"tech", "nology", "_", "news">>, <<"tech", "_", "briefing">>}),
       Intent("world_briefing",
           {<<"world", "_", "news">>, <<"world", "_", "briefing">>, <<"global", "_", "news">>}),
       Intent("daily_briefing",
           {<<"d", "ai", "ly", "_", "briefing">>,
            <<"what", "'s", "_", "happening", "_", "to", "day">>,
            <<"what", "_", "is", "_", "happening", "_", "to", "day">>,
            <<"to", "day", "'s", "_", "briefing">>, <<"morning", "_", "briefing">>}) >>

SystemIntents ==
    << Intent("time",
           {<<"time">>, <<"date">>, <<"what", "_", "day">>, <<"what", "'s", "_", "to", "day">>}),
       Intent("uptime",
           {<<"up", "time">>, <<"how", "_", "long">>, <<"been", "_", "running">>,
            <<"been", "_", "up">>}),
       Intent("cpu_temp",
           {<<"temp", "erature">>, <<"cpu", "_", "temp">>, <<"how", "_", "hot">>, <<"thermal">>}),
       Intent("disk",
           {<<"disk">>, <<"storage">>, <<"space", "_", "left">>, <<"free", "_", "space">>}),
       Intent("memory_usage",
           {<<"ram">>, <<"free", "_", "memory">>, <<"memory", "_", "usage">>, <<"free", "_", "ram">>}),
       Intent("hostname",
           {<<"hostname">>, <<"device", "_", "name">>, <<"machine", "_", "name">>}),
       Intent("system",
           {<<"system", "_", "info">>, <<"kernel">>, <<"os", "_", "version">>, <<"uname">>}) >>

BuiltinIntents ==
    << Intent("greeting",
           {<<"hello">>, <<"hi", "_">>, <<"hey">>, <<"good", "_", "morning">>,
            <<"good", "_", "evening">>}),
       Intent("help",
           {<<"help">>, <<"what", "_", "can", "_", "you", "_", "do">>, <<"commands">>,
            <<"capabilities">>}) >>

(* The system intents tried before the briefings.                          *)
IntentsSystemFirst ==
    StoreIntents \o IntegrationIntents \o SystemIntents \o BriefingIntents \o BuiltinIntents

(* Order matters: the first intent with a keyword in the query wins.       *)
INTENTS ==
    StoreIntents \o IntegrationIntents \o BriefingIntents \o SystemIntents \o BuiltinIntents

(* The query padded with a blank is what the keywords are looked for in.   *)
MatchingIntents(query) ==
    {i \in DOMAIN INTENTS : HoldsAny(Append(query, "_"), INTENTS[i].keywords)}

Route(query) ==
    LET found == MatchingIntents(query)
    IN  IF found = {} THEN "fallback"
        ELSE INTENTS[CHOOSE i \in found : \A j \in found : i <= j].name

-----------------------------------------------------------------------------
(* _strip_prefix: the first prefix the query starts with is cut; "" if none. *)
StripPrefix(query, prefixes) ==
    LET found == {i \in DOMAIN prefixes : IsPrefix(prefixes[i], query)}
        first == CHOOSE i \in found : \A j \in found : i <= j
    IN  IF found = {} THEN <<>> ELSE SubSeq(query, Len(prefixes[first]) + 1, Len(query))

(* What follows the first such phrase; "" if there is none.                *)
RestAfter(query, phrase) ==
    LET starts == {i \in DOMAIN query : IsPrefix(phrase, SubSeq(query, i, Len(query)))}
        first == CHOOSE i \in starts : \A j \in starts : i <= j
    IN  IF starts = {} THEN <<>> ELSE SubSeq(query, first + Len(phrase), Len(query))

(* _TASK_NUMBER_RE: the first "task", blanks, "#", blanks, number.         *)
TaskNumbers(query) ==
    {i \in DOMAIN query :
        /\ query[i] \in Digits
        /\ \E t \in 1 .. i - 1 :
            /\ query[t] = "task"
            /\ SelectSeq(SubSeq(query, t + 1, i - 1), LAMBDA p : p # "_") \in {<<>>, <<"#">>}}

Sensitive(text) == HoldsAny(text, SensitivePhrases)

(* _detect_category: None is the daily briefing.                           *)
CategoryKeywords ==
    << <<<<"ai">>, "ai_news">>, <<<<"ml">>, "ai_news">>,
       <<<<"machine", "_", "learning">>, "ai_news">>, <<<<"world">>, "world_news">>,
       <<<<"tech">>, "tech_news">>, <<<<"developer">>, "developer_news">>,
       <<<<"hacker">>, "developer_news">>, <<<<"weather">>, "boston_weather">>,
       <<<<"immigration">>, "immigration_updates">>, <<<<"uscis">>, "immigration_updates">>,
       <<<<"f-1">>, "immigration_updates">>, <<<<"f1", "_">>, "immigration_updates">>,
       <<<<"opt">>, "immigration_updates">> >>

DetectCategory(query) ==
    LET found == {i \in DOMAIN CategoryKeywords : Holds(query, CategoryKeywords[i][1])}
    IN  IF found = {} THEN "daily"
        ELSE CategoryKeywords[CHOOSE i \in found : \A j \in found : i <= j][2]

-----------------------------------------------------------------------------
(* The command of each system intent, with its arguments.                  *)
Command(intent) ==
    CASE intent = "time" -> <<"date">>
      [] intent = "uptime" -> <<"uptime">>
      [] intent = "cpu_temp" -> <<"vcgencmd", "measure_temp">>
      [] intent = "disk" -> <<"df", "-h">>
      [] intent = "memory_usage" -> <<"free", "-h">>
      [] intent = "hostname" -> <<"hostname">>
      [] intent = "system" -> <<"uname", "-a">>

SystemNames == {SystemIntents[i].name : i \in DOMAIN SystemIntents}

(* An entry that was forgotten.                                            *)
AllowedNoTemp ==
    [uptime |-> {}, date |-> {}, hostname |-> {}, uname |-> {"-r"},
     df |-> {"-h"}, free |-> {"-m"}, ip |-> {"addr"}]

(* ALLOWED_COMMANDS: max_args is 0 or 1.                                   *)
AllowedArguments ==
    [uptime |-> {}, date |-> {}, hostname |-> {}, uname |-> {"-a", "-r", "-m", "-s"},
     df |-> {"-h"}, free |-> {"-h", "-m"},
     vcgencmd |-> {"measure_temp", "get_throttled", "measure_clock arm"}, ip |-> {"addr"}]

(* AllowlistValidator.validate.                                            *)
Allowed(command) ==
    /\ command[1] \in DOMAIN AllowedArguments
    /\ Len(command) <= 2
    /\ Len(command) = 2 => command[2] \in AllowedArguments[command[1]]
=============================================================================
