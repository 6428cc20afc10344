----------------------------- MODULE VoiceNote ------------------------------
(***************************************************************************)
(* The button that plays the voice note of a task,                         *)
(* components/tasks/VoiceNoteButton.tsx.                                   *)
(***************************************************************************)
EXTENDS Site

CONSTANT VoiceOps       \* bound: clicks in flight

VARIABLES
  isLoading,
  audio,                \* audioRef holds an element
  voiceOp               \* the clicks in flight

voiceVars == <<isLoading, audio, voiceOp>>

\* What the recording does: play() settles, or never does.
Playback == {"resolves", "rejects", "hangs"}

VoiceOp == [step : {"fetch", "play", "ok", "failed"}, playback : Playback, screen : Nat]

VoiceTypeOK ==
  /\ isLoading \in BOOLEAN /\ audio \in BOOLEAN
  /\ voiceOp \in [VoiceOps -> VoiceOp \cup {NULL}]

\* The button goes with its screen, and its state with it.
VoiceRendered ==
  IF screen' = screen THEN UNCHANGED <<isLoading, audio>> ELSE isLoading' = FALSE /\ audio' = FALSE

\* handleClick: the element there is plays again; nothing disables the button
\* while a click is under way.
Click(v) ==
  /\ Act("voice") /\ Screen = "pages" /\ voiceOp[v] = NULL
  /\ IF audio THEN UNCHANGED <<isLoading, voiceOp>>
     ELSE /\ isLoading' = TRUE
          /\ \E p \in Playback :
               voiceOp' = [voiceOp EXCEPT ![v] = [step |-> "fetch", playback |-> p, screen |-> screen]]
  /\ UNCHANGED <<session, screen, calls, audio>>

VoiceAt(v, step) == voiceOp[v] # NULL /\ voiceOp[v].step = step

\* The blob; an empty one is an error.
ReceiveVoice(v) ==
  /\ VoiceAt(v, "fetch")
  /\ \/ /\ voiceOp' = [voiceOp EXCEPT ![v].step = "play"]
        /\ audio' = (audio \/ voiceOp[v].screen = screen)
     \/ voiceOp' = [voiceOp EXCEPT ![v].step = "failed"] /\ UNCHANGED audio
  /\ UNCHANGED <<siteVars, isLoading>>

\* Mutant: play() alone is awaited.
RaceOfOne(playback) == {playback} \ {"hangs"}

\* Promise.race of play() and the timer of 8 s.
Race(playback) == {playback, "times out"} \ {"hangs"}

PlaybackSettles(v) ==
  /\ VoiceAt(v, "play")
  /\ \E outcome \in Race(voiceOp[v].playback) :
       voiceOp' = [voiceOp EXCEPT ![v].step = IF outcome = "resolves" THEN "ok" ELSE "failed"]
  /\ UNCHANGED <<siteVars, isLoading, audio>>

\* The catch forgets the element, the finally ends the loading.
ClickEnds(v) ==
  /\ VoiceAt(v, "ok") \/ VoiceAt(v, "failed")
  /\ voiceOp' = [voiceOp EXCEPT ![v] = NULL]
  /\ IF voiceOp[v].screen # screen THEN UNCHANGED <<isLoading, audio>>
     ELSE isLoading' = FALSE /\ audio' = (audio /\ VoiceAt(v, "ok"))
  /\ UNCHANGED siteVars

VoiceInit == isLoading = FALSE /\ audio = FALSE /\ voiceOp = [v \in VoiceOps |-> NULL]

VoiceProceeds == \E v \in VoiceOps : ReceiveVoice(v) \/ PlaybackSettles(v) \/ ClickEnds(v)

-----------------------------------------------------------------------------
(***************************************************************************)
(* The button never spins forever, even where the recording is one that    *)
(* neither plays nor fails ("so the button always recovers", the comment   *)
(* of VoiceNoteButton.tsx:51-53).                                          *)
(***************************************************************************)
ButtonRecovers == isLoading ~> ~isLoading
=============================================================================
