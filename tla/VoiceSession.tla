---------------------------- MODULE VoiceSession ----------------------------
(***************************************************************************)
(* Listening in the VS Code extension: startListening and stopListening    *)
(* (apps/vscode-extension/src/extension.ts), the panel whose script has    *)
(* the microphone (audio/webview-audio-capture.ts), the local and the      *)
(* remote speech-to-text (audio-pipeline/src/local-whisper.ts), and what   *)
(* becomes of each utterance.                                              *)
(*                                                                         *)
(* start() waits for nothing, so that a start is one step.  What is said,  *)
(* shown or asked is left out; an utterance is how far it has come.  The   *)
(* calls that a session makes go on after it has ended.                    *)
(***************************************************************************)
EXTENDS Integers, Sequences

CONSTANTS MaxSessions, MaxUtterances   \* bounds of the model

ASSUME SessionAssumption == MaxSessions \in Nat \ {0}

VARIABLES held,               \* audioCapture: the session, or 0
          cancelRegistered,   \* usir.cancelListening is a command
          panel,              \* of each session
          utterances

voiceVars == <<held, cancelRegistered, panel, utterances>>

Session == 1..MaxSessions
IsOpen(s) == panel[s] \notin {"unused", "closed"}

VoiceInit ==
  /\ held = 0 /\ cancelRegistered = FALSE
  /\ panel = [s \in Session |-> "unused"]
  /\ utterances = <<>>

\* A command is registered once: the second time it is an error, as if there were
\* no microphone, and the capture that has just been started is let go of.
StartListening ==
  /\ held = 0
  /\ \E s \in Session :
       /\ panel[s] = "unused" /\ \A t \in 1 .. s - 1 : panel[t] # "unused"
       /\ panel' = [panel EXCEPT ![s] = "loading"]
       /\ held' = IF cancelRegistered THEN 0 ELSE s
  /\ cancelRegistered' = TRUE
  /\ UNCHANGED utterances

\* Mutant: stop() tells the script and leaves the panel.
ForgetOnly(s) == panel

Stopped(s) == [panel EXCEPT ![s] = "closed"]

\* usir.stopListening and usir.cancelListening.
StopListening ==
  /\ held # 0
  /\ panel' = IF IsOpen(held) THEN Stopped(held) ELSE panel
  /\ held' = 0
  /\ UNCHANGED <<cancelRegistered, utterances>>

\* The user closes the panel: the extension goes on holding the capture.
ClosePanel(s) ==
  /\ IsOpen(s)
  /\ panel' = [panel EXCEPT ![s] = "closed"]
  /\ UNCHANGED <<held, cancelRegistered, utterances>>

\* deactivate(), and what it registered is disposed of; all begins anew.
Deactivate ==
  /\ cancelRegistered
  /\ held' = 0 /\ cancelRegistered' = FALSE
  /\ panel' = [s \in Session |-> "unused"]
  /\ utterances' = <<>>

\* The script is ready and is told to start; it asks for the microphone.
PanelReady(s) ==
  /\ panel[s] = "loading"
  /\ panel' = [panel EXCEPT ![s] = "starting"]
  /\ UNCHANGED <<held, cancelRegistered, utterances>>

StartCapture(s) ==
  /\ panel[s] = "starting"
  /\ \E answer \in {"capturing", "denied"} : panel' = [panel EXCEPT ![s] = answer]
  /\ UNCHANGED <<held, cancelRegistered, utterances>>

PostUtterance(s) ==
  /\ panel[s] = "capturing" /\ Len(utterances) < MaxUtterances
  /\ utterances' = Append(utterances, [of |-> s, stage |-> "local"])
  /\ UNCHANGED <<held, cancelRegistered, panel>>

\* What transcribe() can come to: a text, no text, an error.
Transcribed == [local |-> {"routing", "over", "remote"}, remote |-> {"routing", "over"}]

\* handleInstruction: the router fails, finds nothing to choose from, asks or has
\* a plan; an answer to its question is not used.
Handled == [routing |-> {"over", "asking", "executing"}, asking |-> {"over"}, executing |-> {"over"}]

Advance(u) ==
  /\ UNCHANGED <<held, cancelRegistered, panel>>
  /\ LET stage == utterances[u].stage
         next  == IF stage \in DOMAIN Transcribed THEN Transcribed[stage]
                  ELSE IF stage \in DOMAIN Handled THEN Handled[stage] ELSE {}
     IN \E to \in next : utterances' = [utterances EXCEPT ![u].stage = to]

VoiceNext ==
  \/ StartListening \/ StopListening \/ Deactivate
  \/ \E s \in Session : ClosePanel(s) \/ PanelReady(s) \/ StartCapture(s) \/ PostUtterance(s)
  \/ \E u \in DOMAIN utterances : Advance(u)

VoiceSpec == VoiceInit /\ [][VoiceNext]_voiceVars

(***************************************************************************)
(* The first session since the activation can be stopped by command for as *)
(* long as its panel is open: no start, denial, failure or stop in between *)
(* lets go of its microphone and leaves the panel (startListening,         *)
(* stopListening, the catch of a start that fails).                        *)
(***************************************************************************)
FirstSessionCanBeStopped == IsOpen(1) => held = 1

(***************************************************************************)
(* What the documentation says and the code does not do: while it listens, *)
(* "press Escape to stop" (extension.ts:222) or "Stop Voice Listening"     *)
(* (package.json:25) reach the microphone.  But a second start fails when  *)
(* it registers the cancel command, and what it opened listens on until    *)
(* its panel is closed by hand.                                            *)
(***************************************************************************)
StopReachesEveryMicrophone == \A s \in Session : IsOpen(s) => held = s

=============================================================================
