--------------------------- MODULE MCConversation ---------------------------
(***************************************************************************)
(* Queries of one or two phrases: every keyword of every intent, the words *)
(* of the README's examples, and words nobody knows.                       *)
(***************************************************************************)
EXTENDS Conversation

Keywords == UNION {INTENTS[i].keywords : i \in DOMAIN INTENTS}

Trimmed(p) == IF Last(p) = "_" THEN Front(p) ELSE p

KnownWords == {Trimmed(k) : k \in Keywords}

OtherWords ==
    {<<"milk">>, <<"1">>, <<"#", "2">>, <<"space">>, <<"done">>, <<"a", "_", "joke">>,
     <<"to", "_", "call", "_", "home">>, <<"my", "_", "password", "_", "is", "_", "x">>,
     <<"desk", "_", "light">>, <<"immigration", "_", "up", "date", "s">>}

AllWords == KnownWords \cup OtherWords

Secrets == {<<"my", "_", "password", "_", "is">>, <<"password", "_", "is", "_">>}

TaskNumbersSaid == {"1", "2"}
=============================================================================
