\* Every query of two phrases is routed, handled or left to the model.
SPECIFICATION QuerySpec
CONSTANTS
    Digits <- TaskNumbersSaid
    SensitivePhrases <- Secrets
    Vocabulary <- AllWords
    MaxPhrases = 2
INVARIANTS
    QueryTypeOK
    TextIsWhatWasSaid
    RepliesOnRecord
    TriggersReachIntents
\* A query that was answered is the end.
CHECK_DEADLOCK FALSE
