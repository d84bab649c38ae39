----------------------------- MODULE VoiceProofs -----------------------------
(***************************************************************************)
(* What voice sessions leave and what is heard: proofs for any number of   *)
(* sessions of the server, command lines, test speakers and uses of each,  *)
(* whatever may go wrong.                                                  *)
(***************************************************************************)
EXTENDS Voice, FiniteSetTheorems, TLAPS

Active(a) == step[a] # "idle"

(* The event loop is held by one session at most.                          *)
LoopHeldOnce ==
    \A a, b \in LoopSessions :
        step[a] \notin {"idle", "thinking"} /\ step[b] \notin {"idle", "thinking"} => a = b

(* How a use ended is settled once, when it is over.                       *)
EndedLast ==
    \A u \in Uses : ended[u] # "no" =>
        /\ u[2] <= round[u[1]]
        /\ u = Use(u[1]) => ~Active(u[1])

Counted == \A a \in Actors : Active(a) => round[a] \in 1 .. MaxRounds

(* From the transcription on a session knows its recording; test speakers  *)
(* have none.                                                              *)
PathKnown ==
    \A a \in Actors :
        /\ Active(a) /\ step[a] \notin {"starting", "recording"} => a \in path \cup TestSpeakers
        /\ a \in TestSpeakers => step[a] \notin {"starting", "recording", "transcribing", "thinking"}

WavsOfSessions == \A u \in wavs : u[1] \notin TestSpeakers

(* What a session of the loop left in tts_out.wav is its own until it has  *)
(* removed it, unless it was stopped half-way.                             *)
OutputOwned ==
    ttsOut # None /\ ttsOut[1] \in LoopSessions =>
        \/ ended[ttsOut] \in {"cut", "killed"}
        \/ ttsOut = Use(ttsOut[1]) /\ step[ttsOut[1]] \in {"checking", "playing", "unlinking"}

Typed ==
    /\ save \in BOOLEAN /\ piper \in BOOLEAN
    /\ round \in [Actors -> 0 .. MaxRounds]
    /\ step \in [Actors -> Steps]
    /\ path \subseteq Actors \ TestSpeakers
    /\ wavs \subseteq Uses /\ ttsOut \in Uses \cup {None}
    /\ heard \subseteq Uses \X Uses
    /\ ended \in [Uses -> {"no", "completed", "failed", "unrecorded", "cut", "killed"}]

VoiceInv ==
    /\ Typed /\ LoopHeldOnce /\ Counted /\ EndedLast /\ PathKnown /\ WavsOfSessions
    /\ OutputOwned /\ RecordingsRemoved /\ OwnVoice

-----------------------------------------------------------------------------
(* The use an active actor is at has not ended.                            *)
LEMMA UseOpen ==
    ASSUME VoiceInv, NEW a \in Actors, Active(a)
    PROVE  Use(a) \in Uses /\ ended[Use(a)] = "no" /\ round[a] \in 1 .. MaxRounds
<1>1. round[a] \in 1 .. MaxRounds
  BY DEF VoiceInv, Counted
<1>2. Use(a) \in Uses /\ Use(a)[1] = a
  BY <1>1 DEF Use, Uses
<1> QED
  BY <1>1, <1>2 DEF VoiceInv, EndedLast

(* Before any session nothing is recorded, held or heard.                  *)
LEMMA InitInv == Init => VoiceInv
<1> SUFFICES ASSUME Init PROVE VoiceInv
  OBVIOUS
<1>1. Typed
  BY VoiceAssumption DEF Init, Typed, Steps
<1>2. LoopHeldOnce /\ Counted /\ EndedLast /\ PathKnown
  BY DEF Init, LoopHeldOnce, Counted, EndedLast, PathKnown, Active, Actors
<1>3. WavsOfSessions /\ OutputOwned /\ RecordingsRemoved /\ OwnVoice
  BY DEF Init, WavsOfSessions, OutputOwned, RecordingsRemoved, OwnVoice
<1> QED
  BY <1>1, <1>2, <1>3 DEF VoiceInv

(* An error, or the time limit of a synthesis: the use is over.            *)
LEMMA RaiseInv ==
    ASSUME VoiceInv, NEW a \in Actors, NEW how \in {"failed", "unrecorded", "cut"},
           Active(a), Raise(a, how),
           how = "unrecorded" \/ a \in path \cup TestSpeakers,
           ttsOut' \in {ttsOut, Use(a), None},
           ttsOut' = Use(a) /\ a \in LoopSessions => how = "cut"
    PROVE  VoiceInv'
<1>1. Use(a) \in Uses /\ ended[Use(a)] = "no" /\ round[a] \in 1 .. MaxRounds
  BY UseOpen
<1>2. step' = [step EXCEPT ![a] = "idle"] /\ ended' = [ended EXCEPT ![Use(a)] = how]
      /\ path' = path \ {a} /\ UNCHANGED <<save, piper, round, heard>>
      /\ \A b \in Actors : Use(b)' = Use(b)
  BY DEF Raise, GoTo, Use
<1>3. wavs' \subseteq wavs /\ (~save /\ a \in path => Use(a) \notin wavs')
  BY DEF Raise
<1>4. Typed'
  BY <1>1, <1>2, <1>3 DEF VoiceInv, Typed, Steps
<1>5. LoopHeldOnce' /\ Counted' /\ PathKnown' /\ WavsOfSessions'
  BY <1>2, <1>3 DEF VoiceInv, Typed, LoopHeldOnce, Counted, PathKnown, WavsOfSessions, Active, Actors
<1>6. EndedLast'
  BY <1>1, <1>2 DEF VoiceInv, Typed, EndedLast, Active, Use, Uses
<1>7. OutputOwned'
  <2> SUFFICES ASSUME ttsOut' # None, ttsOut'[1] \in LoopSessions, ttsOut' # Use(a)
               PROVE  \/ ended'[ttsOut'] \in {"cut", "killed"}
                      \/ /\ ttsOut' = Use(ttsOut'[1])
                         /\ step'[ttsOut'[1]] \in {"checking", "playing", "unlinking"}
    BY <1>1, <1>2 DEF OutputOwned, VoiceInv, Typed, Use
  <2>1. ttsOut' = ttsOut /\ ttsOut \in Uses /\ ended'[ttsOut] = ended[ttsOut]
    BY <1>2 DEF VoiceInv, Typed
  <2>2. ttsOut = Use(ttsOut[1]) => ttsOut[1] # a
    BY <2>1
  <2> QED
    BY <1>2, <2>1, <2>2 DEF VoiceInv, OutputOwned, Typed, Actors
<1>8. RecordingsRemoved'
  <2> SUFFICES ASSUME NEW u \in wavs', ~save
               PROVE  ended'[u] \in {"no", "killed", "unrecorded"}
    BY <1>2 DEF RecordingsRemoved
  <2>1. u \in wavs /\ u \in Uses
    BY <1>3 DEF VoiceInv, Typed
  <2>2. CASE u # Use(a)
    BY <1>2, <2>1, <2>2 DEF VoiceInv, RecordingsRemoved, Typed
  <2>3. CASE u = Use(a) /\ how = "unrecorded"
    BY <1>2, <2>1, <2>3 DEF VoiceInv, Typed
  <2>4. CASE u = Use(a) /\ a \in path
    BY <1>3, <2>4
  <2>5. CASE u = Use(a) /\ a \in TestSpeakers
    BY <2>1, <2>5 DEF VoiceInv, WavsOfSessions, Use
  <2> QED
    BY <2>2, <2>3, <2>4, <2>5
<1>9. OwnVoice'
  BY <1>1, <1>2 DEF VoiceInv, OwnVoice, Typed
<1> QED
  BY <1>4, <1>5, <1>6, <1>7, <1>8, <1>9 DEF VoiceInv

(* A step from one place to the next that leaves what was heard and how    *)
(* uses ended alone.                                                       *)
LEMMA MoveInv ==
    ASSUME VoiceInv, NEW a \in Actors, NEW s \in Steps \ {"idle"}, Active(a), GoTo(a, s),
           LoopFree(a), UNCHANGED <<save, piper, round, ended>>,
           s \notin {"starting", "recording"} => a \in path' \cup TestSpeakers,
           a \in TestSpeakers => s \notin {"starting", "recording", "transcribing", "thinking"},
           path \subseteq path', path' \subseteq path \cup ({a} \ TestSpeakers),
           wavs' = wavs \/ (wavs' = wavs \cup {Use(a)} /\ a \notin TestSpeakers),
           heard' \subseteq Uses \X Uses, OwnVoice', OutputOwned', ttsOut' \in Uses \cup {None}
    PROVE  VoiceInv'
<1>1. Use(a) \in Uses /\ ended[Use(a)] = "no" /\ round[a] \in 1 .. MaxRounds
  BY UseOpen
<1>2. step' = [step EXCEPT ![a] = s] /\ \A b \in Actors : Use(b)' = Use(b)
  BY DEF GoTo, Use
<1>3. Typed'
  BY <1>1, <1>2 DEF VoiceInv, Typed
<1>4. LoopHeldOnce'
  BY <1>2 DEF VoiceInv, Typed, LoopHeldOnce, LoopFree, Actors
<1>5. Counted' /\ EndedLast'
  BY <1>1, <1>2 DEF VoiceInv, Typed, Counted, EndedLast, Active, Uses
<1>6. PathKnown'
  BY <1>2 DEF VoiceInv, Typed, PathKnown, Active
<1>7. WavsOfSessions' /\ RecordingsRemoved'
  <2>1. Use(a)[1] = a
    BY DEF Use
  <2> QED
    BY <1>1, <1>2, <2>1 DEF VoiceInv, WavsOfSessions, RecordingsRemoved
<1> QED
  BY <1>3, <1>4, <1>5, <1>6, <1>7 DEF VoiceInv

(* A new use opens; those before it stay as they ended.                    *)
LEMMA BeginInv ==
    ASSUME VoiceInv, NEW a \in Actors, Begin(a)
    PROVE  VoiceInv'
<1>1. /\ step[a] = "idle" /\ LoopFree(a) /\ round[a] \in Nat /\ round[a] < MaxRounds
      /\ round' = [round EXCEPT ![a] = round[a] + 1]
      /\ step' = [step EXCEPT ![a] = IF a \in TestSpeakers THEN "speaking" ELSE "starting"]
      /\ UNCHANGED <<save, piper, path, wavs, ttsOut, heard, ended>>
  BY DEF Begin, At, GoTo, files, VoiceInv, Typed
<1>2. Typed'
  BY <1>1, VoiceAssumption DEF VoiceInv, Typed, Steps
<1>3. LoopHeldOnce'
  BY <1>1 DEF VoiceInv, Typed, LoopHeldOnce, LoopFree, Actors
<1>4. Counted' /\ PathKnown'
  BY <1>1, VoiceAssumption DEF VoiceInv, Typed, Counted, PathKnown, Active
<1>5. EndedLast'
  <2> SUFFICES ASSUME NEW u \in Uses, ended[u] # "no"
               PROVE  u[2] <= round'[u[1]] /\ (u = Use(u[1])' => ~(Active(u[1])'))
    BY <1>1 DEF EndedLast
  <2>1. u[1] \in Actors /\ u[2] \in 1 .. MaxRounds /\ u = <<u[1], u[2]>>
    BY DEF Uses
  <2>2. u[2] <= round[u[1]] /\ (u = Use(u[1]) => ~Active(u[1])) /\ round[u[1]] \in Nat
    BY <2>1 DEF VoiceInv, EndedLast, Typed
  <2>3. CASE u[1] = a
    BY <1>1, <2>1, <2>2, <2>3 DEF VoiceInv, Typed, Use
  <2>4. CASE u[1] # a
    BY <1>1, <2>1, <2>2, <2>4 DEF VoiceInv, Typed, Use, Active
  <2> QED
    BY <2>3, <2>4
<1>6. OutputOwned'
  BY <1>1 DEF VoiceInv, Typed, OutputOwned, Use, Actors
<1>7. WavsOfSessions' /\ RecordingsRemoved' /\ OwnVoice'
  BY <1>1 DEF VoiceInv, WavsOfSessions, RecordingsRemoved, OwnVoice
<1> QED
  BY <1>2, <1>3, <1>4, <1>5, <1>6, <1>7 DEF VoiceInv

(* Nothing about the speech file changes before there is one.              *)
LEMMA OutputKept ==
    ASSUME VoiceInv, NEW a \in Actors, NEW s, step[a] \notin {"checking", "playing", "unlinking"}
                                             \/ s \in {"checking", "playing", "unlinking"},
           GoTo(a, s), UNCHANGED <<round, ended, ttsOut>>
    PROVE  OutputOwned'
BY DEF VoiceInv, Typed, OutputOwned, GoTo, Use, Actors

(* The steps up to the answer.                                             *)
LEMMA RecordInv ==
    ASSUME VoiceInv, NEW a \in Actors,
           StartRecording(a) \/ RecordingEnds(a) \/ Transcribe(a) \/ Answer(a)
    PROVE  VoiceInv'
<1>1. OwnVoice' /\ heard' \subseteq Uses \X Uses /\ ttsOut' \in Uses \cup {None}
  BY DEF StartRecording, RecordingEnds, Transcribe, Answer, files, VoiceInv, OwnVoice, Typed
<1>2. a \notin TestSpeakers
  BY DEF StartRecording, RecordingEnds, Transcribe, Answer, At, VoiceInv, PathKnown
<1>3. CASE StartRecording(a)
  <2>1. OutputOwned'
    BY <1>3, OutputKept DEF StartRecording, At
  <2> QED
    BY <1>1, <1>2, <1>3, <2>1, MoveInv DEF StartRecording, At, Active, Steps
<1>4. CASE RecordingEnds(a)
  <2>1. OutputOwned'
    BY <1>4, OutputKept DEF RecordingEnds, At, files
  <2> QED
    BY <1>1, <1>2, <1>4, <2>1, MoveInv DEF RecordingEnds, At, Active, Steps, files
<1>5. CASE Transcribe(a) \/ Answer(a)
  <2>1. PICK s \in {"thinking", "speaking"} : GoTo(a, s)
    BY <1>5 DEF Transcribe, Answer
  <2>2. OutputOwned'
    BY <1>5, <2>1, OutputKept DEF Transcribe, Answer, At, files
  <2>3. a \in path
    BY <1>2, <1>5 DEF Transcribe, Answer, At, VoiceInv, PathKnown, Active
  <2> QED
    BY <1>1, <1>2, <1>5, <2>1, <2>2, <2>3, MoveInv
       DEF Transcribe, Answer, At, Active, Steps, files
<1> QED
  BY <1>3, <1>4, <1>5

(* The failures of the engines, and of the player.                         *)
LEMMA FailuresInv ==
    ASSUME VoiceInv, NEW a \in Actors,
           EngineFails(a) \/ SynthesisTimesOut(a) \/ NoOutput(a) \/ PlayerFails(a)
    PROVE  VoiceInv'
<1>1. Active(a)
  BY DEF EngineFails, SynthesisTimesOut, NoOutput, PlayerFails, At, Active
<1>2. /\ Failure(a) \in {"failed", "unrecorded"}
      /\ Failure(a) = "unrecorded" \/ a \in path \cup TestSpeakers
  BY DEF Failure
<1>3. Use(a) # None
  BY UseOpen, NoneAssumption, <1>1
<1>4. CASE EngineFails(a)
  <2>1. a \in LoopSessions => ttsOut' # Use(a)
    <3>1. step[a] \notin {"checking", "playing", "unlinking"} /\ ttsOut' = ttsOut
      BY <1>4 DEF EngineFails, At
    <3>2. Use(a)[1] = a
      BY DEF Use
    <3> QED
      BY <1>1, <1>3, <3>1, <3>2, UseOpen DEF VoiceInv, OutputOwned
  <2> QED
    BY <1>1, <1>2, <1>4, <2>1, RaiseInv DEF EngineFails
<1>5. CASE SynthesisTimesOut(a)
  <2>1. a \in path \cup TestSpeakers
    BY <1>5 DEF SynthesisTimesOut, At, VoiceInv, PathKnown, Active
  <2> QED
    BY <1>1, <1>5, <2>1, RaiseInv DEF SynthesisTimesOut
<1>6. CASE NoOutput(a) \/ PlayerFails(a)
  <2>1. ttsOut' = None /\ Raise(a, Failure(a))
    BY <1>6 DEF NoOutput, PlayerFails
  <2> QED
    BY <1>1, <1>2, <1>3, <2>1, RaiseInv
<1> QED
  BY <1>4, <1>5, <1>6

(* The loop's sessions are heard in their own voice.                       *)
LEMMA SpeakInv ==
    ASSUME VoiceInv, NEW a \in Actors,
           Speak(a) \/ Synthesize(a) \/ CheckOutput(a) \/ Play(a) \/ Unlink(a)
    PROVE  VoiceInv'
<1>1. /\ Active(a) /\ LoopFree(a) /\ UNCHANGED <<save, piper, round, path, wavs, ended>>
      /\ step[a] \in {"speaking", "checking", "playing", "unlinking"}
  BY DEF Speak, Synthesize, CheckOutput, Play, Unlink, At, Active, files
<1>2. Use(a) \in Uses /\ ended[Use(a)] = "no" /\ Use(a)[1] = a /\ Use(a)' = Use(a)
  BY <1>1, UseOpen DEF Use
<1>3. a \in path \cup TestSpeakers
  BY <1>1 DEF VoiceInv, PathKnown
<1>4. CASE Speak(a)
  <2>1. OutputOwned' /\ ttsOut' \in Uses \cup {None}
    BY <1>1, <1>4, OutputKept DEF Speak, At, files, VoiceInv, Typed
  <2>2. heard' \subseteq Uses \X Uses /\ OwnVoice'
    BY <1>1, <1>2, <1>4 DEF Speak, Heard, VoiceInv, Typed, OwnVoice
  <2> QED
    BY <1>1, <1>3, <1>4, <2>1, <2>2, MoveInv DEF Speak, Steps
<1>5. CASE Synthesize(a)
  <2>1. GoTo(a, "checking") /\ ttsOut' \in {ttsOut, Use(a)} /\ heard' = heard
    BY <1>5 DEF Synthesize
  <2>2. OutputOwned'
    BY <1>1, <1>2, <2>1 DEF GoTo, VoiceInv, Typed, OutputOwned, Use, Actors
  <2>3. OwnVoice' /\ heard' \subseteq Uses \X Uses /\ ttsOut' \in Uses \cup {None}
    BY <1>1, <1>2, <2>1 DEF VoiceInv, Typed, OwnVoice
  <2> QED
    BY <1>1, <1>3, <2>1, <2>2, <2>3, MoveInv DEF Steps
<1>6. CASE CheckOutput(a)
  <2>1. OutputOwned' /\ ttsOut' \in Uses \cup {None}
    BY <1>1, <1>6, OutputKept DEF CheckOutput, At, files, VoiceInv, Typed
  <2>2. heard' \subseteq Uses \X Uses /\ OwnVoice'
    BY <1>1, <1>6 DEF CheckOutput, VoiceInv, Typed, OwnVoice
  <2> QED
    BY <1>1, <1>3, <1>6, <2>1, <2>2, MoveInv DEF CheckOutput, Steps
<1>7. CASE Play(a)
  <2>1. GoTo(a, "unlinking") /\ ttsOut' = ttsOut /\ step[a] = "playing"
        /\ heard' \subseteq heard \cup (IF ttsOut = None THEN {} ELSE {<<Use(a), ttsOut>>})
    BY <1>7 DEF Play, Heard, At, files
  <2>2. OutputOwned' /\ ttsOut' \in Uses \cup {None}
    BY <1>1, <2>1, OutputKept DEF VoiceInv, Typed
  <2>3. heard' \subseteq Uses \X Uses
    BY <1>2, <2>1 DEF VoiceInv, Typed
  <2>4. ASSUME ttsOut # None, ttsOut[1] \in LoopSessions, a \in LoopSessions, ttsOut # Use(a)
        PROVE  ended[ttsOut] \in {"cut", "killed"}
    <3>1. ttsOut[1] # a => step[ttsOut[1]] \in {"idle", "thinking"}
      BY <1>1, <2>1, <2>4 DEF VoiceInv, LoopHeldOnce
    <3> QED
      BY <2>4, <3>1 DEF VoiceInv, OutputOwned
  <2>5. OwnVoice'
    BY <1>1, <1>2, <2>1, <2>4 DEF VoiceInv, OwnVoice
  <2> QED
    BY <1>1, <1>3, <2>1, <2>2, <2>3, <2>5, MoveInv DEF Steps
<1>8. CASE Unlink(a)
  <2>1. OutputOwned' /\ ttsOut' \in Uses \cup {None}
    BY <1>8 DEF Unlink, OutputOwned
  <2>2. heard' \subseteq Uses \X Uses /\ OwnVoice'
    BY <1>1, <1>8 DEF Unlink, VoiceInv, Typed, OwnVoice
  <2> QED
    BY <1>1, <1>3, <1>8, <2>1, <2>2, MoveInv DEF Unlink, Steps
<1> QED
  BY <1>4, <1>5, <1>6, <1>7, <1>8

(* A session that went well removes its recording and is over.            *)
LEMMA FinishInv ==
    ASSUME VoiceInv, NEW a \in Actors, Finish(a)
    PROVE  VoiceInv'
<1>1. /\ Active(a) /\ step[a] = "cleaning"
      /\ step' = [step EXCEPT ![a] = "idle"] /\ ended' = [ended EXCEPT ![Use(a)] = "completed"]
      /\ path' = path \ {a} /\ UNCHANGED <<save, piper, round, ttsOut, heard>>
      /\ wavs' = IF save THEN wavs ELSE wavs \ {Use(a)}
      /\ \A b \in Actors : Use(b)' = Use(b)
  BY DEF Finish, At, GoTo, Active, Use
<1>2. Use(a) \in Uses /\ ended[Use(a)] = "no" /\ Use(a)[1] = a
  BY <1>1, UseOpen DEF Use
<1>3. Typed'
  BY <1>1, <1>2 DEF VoiceInv, Typed, Steps
<1>4. LoopHeldOnce' /\ Counted' /\ PathKnown' /\ WavsOfSessions'
  BY <1>1 DEF VoiceInv, Typed, LoopHeldOnce, Counted, PathKnown, WavsOfSessions, Active, Actors
<1>5. EndedLast'
  BY <1>1, <1>2 DEF VoiceInv, Typed, EndedLast, Active, Use, Uses
<1>6. OutputOwned'
  BY <1>1, <1>2 DEF VoiceInv, Typed, OutputOwned, Use, Actors
<1>7. RecordingsRemoved' /\ OwnVoice'
  BY <1>1, <1>2 DEF VoiceInv, Typed, RecordingsRemoved, OwnVoice
<1> QED
  BY <1>3, <1>4, <1>5, <1>6, <1>7 DEF VoiceInv

(* The end of a process ends the uses that were open in it.                *)
LEMMA KillInv ==
    ASSUME VoiceInv, NEW gone \in SUBSET Actors, KillAll(gone)
    PROVE  VoiceInv'
<1>1. /\ step' = [a \in Actors |-> IF a \in gone THEN "idle" ELSE step[a]]
      /\ path' = path \ gone /\ UNCHANGED <<save, piper, round, wavs, ttsOut, heard>>
      /\ ended' = [u \in Uses |-> IF u[1] \in gone /\ u = Use(u[1]) /\ step[u[1]] # "idle"
                                  THEN "killed" ELSE ended[u]]
  BY DEF KillAll, files
<1>2. \A u \in Uses : ended'[u] = ended[u] \/ (ended'[u] = "killed" /\ u = Use(u[1])
                                               /\ u[1] \in gone /\ ended[u] = "no")
  BY <1>1, UseOpen DEF Active
<1>3. Typed'
  BY <1>1 DEF VoiceInv, Typed, Steps
<1>4. LoopHeldOnce' /\ Counted' /\ PathKnown' /\ WavsOfSessions'
  BY <1>1 DEF VoiceInv, Typed, LoopHeldOnce, Counted, PathKnown, WavsOfSessions, Active, Actors
<1>5. EndedLast'
  <2> SUFFICES ASSUME NEW u \in Uses, ended'[u] # "no"
               PROVE  u[2] <= round[u[1]] /\ (u = Use(u[1]) => step'[u[1]] = "idle")
    BY <1>1 DEF EndedLast, Active, Use
  <2>1. u[1] \in Actors /\ u[2] \in 1 .. MaxRounds
    BY DEF Uses
  <2>2. CASE ended[u] # "no"
    BY <1>1, <2>1, <2>2 DEF VoiceInv, EndedLast, Active
  <2>3. CASE ended[u] = "no"
    <3>1. u = Use(u[1]) /\ u[1] \in gone
      BY <1>2, <2>3
    <3>2. u[2] = round[u[1]] /\ round[u[1]] \in Nat
      BY <2>1, <3>1 DEF Use, VoiceInv, Typed
    <3> QED
      BY <1>1, <2>1, <3>1, <3>2
  <2> QED
    BY <2>2, <2>3
<1>6. OutputOwned'
  <2> SUFFICES ASSUME ttsOut # None, ttsOut[1] \in LoopSessions,
                      ended'[ttsOut] \notin {"cut", "killed"}
               PROVE  /\ ttsOut = Use(ttsOut[1])
                      /\ step'[ttsOut[1]] \in {"checking", "playing", "unlinking"}
    BY <1>1 DEF OutputOwned, Use
  <2>1. ttsOut \in Uses /\ ttsOut[1] \in Actors
    BY DEF VoiceInv, Typed, Actors
  <2>2. /\ ttsOut = Use(ttsOut[1])
        /\ step[ttsOut[1]] \in {"checking", "playing", "unlinking"}
    BY <1>2, <2>1 DEF VoiceInv, OutputOwned
  <2>3. ttsOut[1] \notin gone
    BY <1>1, <2>1, <2>2
  <2> QED
    BY <1>1, <2>1, <2>2, <2>3
<1>7. RecordingsRemoved' /\ OwnVoice'
  BY <1>1, <1>2 DEF VoiceInv, Typed, RecordingsRemoved, OwnVoice
<1> QED
  BY <1>3, <1>4, <1>5, <1>6, <1>7 DEF VoiceInv

(* The invariant every property of the sessions follows from.              *)
THEOREM VoiceInvariant == Spec => []VoiceInv
<1>1. VoiceInv /\ [Next]_vars => VoiceInv'
  <2> SUFFICES ASSUME VoiceInv, [Next]_vars PROVE VoiceInv'
    OBVIOUS
  <2>1. CASE UNCHANGED vars
    BY <2>1 DEF vars, VoiceInv, Typed, LoopHeldOnce, Counted, EndedLast, PathKnown,
                WavsOfSessions, OutputOwned, RecordingsRemoved, OwnVoice, Active, Use
  <2>2. CASE Kill
    <3>1. PICK gone \in SUBSET Actors : KillAll(gone)
      BY <2>2 DEF Kill, Actors
    <3> QED
      BY <3>1, KillInv
  <2>3. ASSUME NEW a \in Actors,
               \/ Begin(a) \/ StartRecording(a) \/ RecordingEnds(a) \/ Transcribe(a) \/ Answer(a)
               \/ EngineFails(a) \/ Speak(a) \/ Synthesize(a) \/ SynthesisTimesOut(a) \/ CheckOutput(a)
               \/ NoOutput(a) \/ Play(a) \/ Unlink(a) \/ PlayerFails(a) \/ Finish(a)
        PROVE  VoiceInv'
    BY <2>3, BeginInv, RecordInv, FailuresInv, SpeakInv, FinishInv
  <2> QED
    BY <2>1, <2>2, <2>3 DEF Next
<1> QED
  BY <1>1, InitInv, PTL DEF Spec

(* Type correctness; of the sessions on the event loop at most one is      *)
(* between awaits (session.py, run_session_once).                          *)
THEOREM VoiceTypeOK == Spec => []TypeOK
<1>1. VoiceInv => TypeOK
  <2> SUFFICES ASSUME VoiceInv PROVE TypeOK
    OBVIOUS
  <2> DEFINE busy == {a \in LoopSessions : step[a] \notin {"idle", "thinking"}}
  <2>1. busy = {} \/ \E a \in busy : busy = {a}
    BY DEF VoiceInv, LoopHeldOnce
  <2>2. Cardinality(busy) <= 1
    <3> HIDE DEF busy
    <3> QED
      BY <2>1, FS_EmptySet, FS_Singleton
  <2> QED
    BY <2>2 DEF VoiceInv, Typed, TypeOK
<1> QED
  BY <1>1, VoiceInvariant, PTL

(* Whatever fails after a recording, it is removed (session.py).           *)
THEOREM RecordingsAreRemoved == Spec => []RecordingsRemoved
<1>1. VoiceInv => RecordingsRemoved
  BY DEF VoiceInv
<1> QED
  BY <1>1, VoiceInvariant, PTL

(* No session of the server speaks another's answer but one that was cut   *)
(* off (tts.py, PiperTTS.speak).                                           *)
THEOREM VoicesAreOwn == Spec => []OwnVoice
<1>1. VoiceInv => OwnVoice
  BY DEF VoiceInv
<1> QED
  BY <1>1, VoiceInvariant, PTL
=============================================================================
