\* The files of overlapping sessions and speakers, everything going wrong.
SPECIFICATION Spec
CONSTANTS
    LoopSessions = {s1, s2}
    CliSessions = {c}
    TestSpeakers = {t}
    Faults = {"engine", "timeout", "kill"}
    None = None
    MaxRounds = 1
INVARIANTS
    TypeOK
    
    
SYMMETRY LoopSymmetry
\* All uses made: nothing is left to do.
CHECK_DEADLOCK FALSE
