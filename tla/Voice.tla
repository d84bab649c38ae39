-------------------------------- MODULE Voice --------------------------------
(***************************************************************************)
(* Push-to-talk sessions and the files they leave (backend/voice/session.py, *)
(* recorder.py, stt.py, tts.py, and their callers).                        *)
(*                                                                         *)
(* The sessions of the server share its event loop and hold it but for the *)
(* await of the answer.  POST /voice/test-tts speaks from a thread of the  *)
(* server, and the command line runs a session in a process of its own:    *)
(* those overlap with everything.                                          *)
(***************************************************************************)
EXTENDS Integers, FiniteSets

CONSTANTS
    LoopSessions,   \* sessions on the server's event loop
    CliSessions,    \* sessions of voice.cli, each a process
    TestSpeakers,   \* threads of POST /voice/test-tts
    Faults,         \* what may go wrong: "engine", "timeout", "kill"
    None,
    MaxRounds       \* bound: uses of each of them

Actors == LoopSessions \cup CliSessions \cup TestSpeakers

ASSUME VoiceAssumption ==
    /\ LoopSessions \cap CliSessions = {} /\ TestSpeakers \cap (LoopSessions \cup CliSessions) = {}
    /\ Faults \subseteq {"engine", "timeout", "kill"}
    /\ MaxRounds \in Nat

VARIABLES
    save,       \* VOICE_SAVE_AUDIO
    piper,      \* VOICE_TTS_ENGINE is piper
    round,      \* how often each actor was used: names a use and its files
    step,       \* where each actor is
    path,       \* those whose audio_path is assigned
    wavs,       \* the recordings on the disk
    ttsOut,     \* the use whose speech is in tts_out.wav, or None
    heard,      \* what each use played: pairs of uses
    ended       \* how each use ended

vars == <<save, piper, round, step, path, wavs, ttsOut, heard, ended>>

files == <<wavs, ttsOut>>

Uses == Actors \X (1 .. MaxRounds)

ASSUME NoneAssumption == None \notin Uses

Use(a) == <<a, round[a]>>

Steps == {"idle", "starting", "recording", "transcribing", "thinking", "speaking", "checking",
          "playing", "unlinking", "cleaning"}

TypeOK ==
    /\ save \in BOOLEAN /\ piper \in BOOLEAN
    /\ round \in [Actors -> 0 .. MaxRounds]
    /\ step \in [Actors -> Steps]
    /\ Cardinality({a \in LoopSessions : step[a] \notin {"idle", "thinking"}}) <= 1
    /\ path \subseteq Actors \ TestSpeakers
    /\ wavs \subseteq Uses /\ ttsOut \in Uses \cup {None}
    /\ heard \subseteq Uses \X Uses
    /\ ended \in [Uses -> {"no", "completed", "failed", "unrecorded", "cut", "killed"}]

Init ==
    /\ save \in BOOLEAN /\ piper \in BOOLEAN
    /\ round = [a \in Actors |-> 0]
    /\ step = [a \in Actors |-> "idle"]
    /\ path = {}
    /\ wavs = {} /\ ttsOut = None
    /\ heard = {}
    /\ ended = [u \in Uses |-> "no"]

-----------------------------------------------------------------------------
(* Speech engines called from worker threads.                              *)
LoopFreeAnyway(a) == a \in Actors

(* Nothing else runs on the event loop while a session is between awaits.  *)
LoopFree(a) ==
    a \in LoopSessions => \A b \in LoopSessions \ {a} : step[b] \in {"idle", "thinking"}

At(a, s) == step[a] = s /\ LoopFree(a)

GoTo(a, s) == step' = [step EXCEPT ![a] = s]

Failure(a) == IF a \in path \cup TestSpeakers THEN "failed" ELSE "unrecorded"

(* The recording is left to the operator.                                  *)
RaiseKeepsAudio(a, how) ==
    /\ GoTo(a, "idle")
    /\ path' = path \ {a}
    /\ ended' = [ended EXCEPT ![Use(a)] = how]
    /\ UNCHANGED <<save, piper, round, wavs, heard>>

(* The except clause knows a recording only by audio_path.                 *)
Raise(a, how) ==
    /\ GoTo(a, "idle")
    /\ path' = path \ {a}
    /\ wavs' = IF a \in path /\ ~save THEN wavs \ {Use(a)} ELSE wavs
    /\ ended' = [ended EXCEPT ![Use(a)] = how]
    /\ UNCHANGED <<save, piper, round, heard>>

(* run_session_once, or post_test_tts, with voice enabled.                 *)
Begin(a) ==
    /\ At(a, "idle") /\ round[a] < MaxRounds
    /\ round' = [round EXCEPT ![a] = @ + 1]
    /\ GoTo(a, IF a \in TestSpeakers THEN "speaking" ELSE "starting")
    /\ UNCHANGED <<save, piper, path, files, heard, ended>>

(* The recorder opens its file ...                                         *)
StartRecording(a) ==
    /\ At(a, "starting")
    /\ wavs' = wavs \cup {Use(a)}
    /\ GoTo(a, "recording")
    /\ UNCHANGED <<save, piper, round, path, ttsOut, heard, ended>>

(* ... and returns its path when it is done.                               *)
RecordingEnds(a) ==
    /\ At(a, "recording")
    /\ path' = path \cup {a}
    /\ GoTo(a, "transcribing")
    /\ UNCHANGED <<save, piper, round, files, heard, ended>>

(* A text is answered; silence only gets an excuse.                        *)
Transcribe(a) ==
    /\ At(a, "transcribing")
    /\ \E next \in {"thinking", "speaking"} : GoTo(a, next)
    /\ UNCHANGED <<save, piper, round, path, files, heard, ended>>

Answer(a) ==
    /\ At(a, "thinking")
    /\ GoTo(a, "speaking")
    /\ UNCHANGED <<save, piper, round, path, files, heard, ended>>

(* An engine is missing or fails, a program times out, a handler raises.   *)
EngineFails(a) ==
    /\ "engine" \in Faults
    /\ \E s \in {"starting", "recording", "transcribing", "thinking", "speaking"} : At(a, s)
    /\ Raise(a, Failure(a))
    /\ UNCHANGED ttsOut

(* What is played is heard, unless the program fails: the exit status of   *)
(* espeak-ng and of the player is not looked at.                           *)
Heard(pairs) ==
    \/ heard' = heard \cup pairs
    \/ "engine" \in Faults /\ heard' = heard

(* MockTTS and EspeakTTS say the text themselves.                          *)
Speak(a) ==
    /\ At(a, "speaking") /\ ~piper
    /\ Heard({<<Use(a), Use(a)>>})
    /\ GoTo(a, "cleaning")
    /\ UNCHANGED <<save, piper, round, path, files, ended>>

(* Piper writes tts_out.wav, or fails: its exit status is not looked at.   *)
Synthesize(a) ==
    /\ At(a, "speaking") /\ piper
    /\ ttsOut' = Use(a) \/ ("engine" \in Faults /\ UNCHANGED ttsOut)
    /\ GoTo(a, "checking")
    /\ UNCHANGED <<save, piper, round, path, wavs, heard, ended>>

(* Piper is killed after 60 s, maybe with its output begun.                *)
SynthesisTimesOut(a) ==
    /\ "timeout" \in Faults
    /\ At(a, "speaking") /\ piper
    /\ ttsOut' \in {ttsOut, Use(a)}
    /\ Raise(a, "cut")

(* Only the file's existence says that there is something to play.         *)
CheckOutput(a) ==
    /\ At(a, "checking")
    /\ ttsOut # None
    /\ GoTo(a, "playing")
    /\ UNCHANGED <<save, piper, round, path, files, heard, ended>>

NoOutput(a) ==
    /\ At(a, "checking")
    /\ ttsOut = None
    /\ Raise(a, Failure(a))
    /\ UNCHANGED ttsOut

(* Whatever the file holds by now.                                         *)
Play(a) ==
    /\ At(a, "playing")
    /\ Heard(IF ttsOut = None THEN {} ELSE {<<Use(a), ttsOut>>})
    /\ GoTo(a, "unlinking")
    /\ UNCHANGED <<save, piper, round, path, files, ended>>

Unlink(a) ==
    /\ At(a, "unlinking")
    /\ ttsOut' = None
    /\ GoTo(a, "cleaning")
    /\ UNCHANGED <<save, piper, round, path, wavs, heard, ended>>

(* The file removed on success only.                                       *)
PlayerFailsKeepsFile(a) ==
    /\ "engine" \in Faults
    /\ At(a, "playing")
    /\ UNCHANGED ttsOut
    /\ Raise(a, Failure(a))

(* The player is missing or takes too long: the file goes all the same.    *)
PlayerFails(a) ==
    /\ "engine" \in Faults
    /\ At(a, "playing")
    /\ ttsOut' = None
    /\ Raise(a, Failure(a))

Finish(a) ==
    /\ At(a, "cleaning")
    /\ wavs' = IF save THEN wavs ELSE wavs \ {Use(a)}
    /\ path' = path \ {a}
    /\ ended' = [ended EXCEPT ![Use(a)] = "completed"]
    /\ GoTo(a, "idle")
    /\ UNCHANGED <<save, piper, round, ttsOut, heard>>

(* A process ends with all that runs in it; nobody looks for its files.    *)
KillAll(gone) ==
    /\ "kill" \in Faults
    /\ \E a \in gone : step[a] # "idle"
    /\ step' = [a \in Actors |-> IF a \in gone THEN "idle" ELSE step[a]]
    /\ path' = path \ gone
    /\ ended' = [u \in Uses |->
        IF u[1] \in gone /\ u = Use(u[1]) /\ step[u[1]] # "idle" THEN "killed" ELSE ended[u]]
    /\ UNCHANGED <<save, piper, round, files, heard>>

Kill == KillAll(LoopSessions \cup TestSpeakers) \/ \E a \in CliSessions : KillAll({a})

Next ==
    \/ Kill
    \/ \E a \in Actors :
        \/ Begin(a) \/ StartRecording(a) \/ RecordingEnds(a) \/ Transcribe(a) \/ Answer(a)
        \/ EngineFails(a) \/ Speak(a) \/ Synthesize(a) \/ SynthesisTimesOut(a) \/ CheckOutput(a)
        \/ NoOutput(a) \/ Play(a) \/ Unlink(a) \/ PlayerFails(a) \/ Finish(a)

Spec == Init /\ [][Next]_vars

-----------------------------------------------------------------------------
(* A recording outlives its session only if it is to be saved, if the      *)
(* recorder itself failed, or if the process was killed: whatever fails    *)
(* after the recording, and whoever else records meanwhile, it is removed  *)
(* (run_session_once).                                                     *)
RecordingsRemoved ==
    \A u \in wavs : ~save => ended[u] \in {"no", "killed", "unrecorded"}

(* Nobody in the room of the server hears another's answer, though all     *)
(* share one file and nothing but its existence is looked at: the sessions *)
(* of the event loop are apart, whatever the command line and the test     *)
(* speakers do meanwhile, unless a piper or the process was stopped        *)
(* half-way and left its file (PiperTTS.speak).                            *)
OwnVoice ==
    \A p \in heard :
        /\ p[1] # p[2]
        /\ {p[1][1], p[2][1]} \subseteq LoopSessions
        => ended[p[2]] \in {"cut", "killed"}
=============================================================================
