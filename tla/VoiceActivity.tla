--------------------------- MODULE VoiceActivity ---------------------------
(***************************************************************************)
(* From audio frames to utterances: EnergyVAD (audio-pipeline/src/vad.ts)  *)
(* in AudioCapture, and the copy of it in the webview of the extension     *)
(* (webview-audio-capture.ts).  A frame is when it came and whether its    *)
(* energy is above the threshold; the samples are left out.                *)
(***************************************************************************)
EXTENDS Integers, FiniteSets, SequencesExt

CONSTANTS SilenceMs, MinSpeechMs,   \* silenceDurationMs, minSpeechMs
          Never                     \* null

Quiet == [state |-> "idle", start |-> Never, last |-> Never, ended |-> FALSE]

\* processFrame.  The state "speaking" is never entered.
ProcessFrame(vad, frame) ==
  LET begins == frame.speech /\ vad.state \in {"idle", "silence"}
      pauses == ~frame.speech /\ vad.state = "listening"
      next   == [state |-> IF begins THEN "listening" ELSE IF pauses THEN "silence" ELSE vad.state,
                 start |-> IF begins THEN frame.at ELSE vad.start,
                 last  |-> IF frame.speech THEN frame.at ELSE vad.last,
                 ended |-> FALSE]
      over   == next.state = "silence" /\ frame.at - next.last >= SilenceMs
  IN IF over THEN [Quiet EXCEPT !.ended = next.last - next.start >= MinSpeechMs] ELSE next

\* processVAD of the webview: too short a speech makes it idle as well.
ProcessVAD(vad, frame) ==
  LET speaks   == vad.state \in {"listening", "speaking"}
      state    == IF frame.speech THEN (IF speaks THEN vad.state ELSE "listening")
                  ELSE IF speaks THEN "silence" ELSE vad.state
      start    == IF frame.speech /\ ~speaks THEN frame.at ELSE vad.start
      last     == IF frame.speech THEN frame.at ELSE vad.last
      finished == state = "silence" /\ start # Never /\ frame.at - last >= SilenceMs
  IN IF finished /\ last - start >= MinSpeechMs THEN [Quiet EXCEPT !.ended = TRUE]
     ELSE IF finished THEN Quiet
     ELSE [state |-> state, start |-> start, last |-> last, ended |-> FALSE]

Silent == [vad |-> Quiet, buffer |-> <<>>, sent |-> <<>>]

\* AudioCapture.processAudio: the utterance is sent from within processFrame, the
\* frame is buffered afterwards, if it is speech.
CaptureFrame(c, frame) ==
  LET vad  == ProcessFrame(c.vad, frame)
      left == IF vad.ended THEN <<>> ELSE c.buffer
  IN [vad    |-> vad,
      sent   |-> IF vad.ended /\ c.buffer # <<>> THEN Append(c.sent, c.buffer) ELSE c.sent,
      buffer |-> IF vad.state = "listening" THEN Append(left, frame.at) ELSE left]

\* processAudio of the webview: every frame is buffered first.
WebviewFrame(c, frame) ==
  LET vad == ProcessVAD(c.vad, frame)
      all == Append(c.buffer, frame.at)
  IN [vad    |-> vad,
      sent   |-> IF vad.ended THEN Append(c.sent, all) ELSE c.sent,
      buffer |-> IF vad.ended THEN <<>> ELSE all]

Captured(frames)  == FoldLeft(CaptureFrame, Silent, frames)
InWebview(frames) == FoldLeft(WebviewFrame, Silent, frames)

-----------------------------------------------------------------------------
(* What an utterance is, said of all the frames at once.                   *)

SpeechFrames(frames) == {n \in DOMAIN frames : frames[n].speech}

\* A run of speech from first to last, which no speech precedes or follows at once.
Burst(frames, first, last) ==
  /\ first <= last /\ first .. last \subseteq SpeechFrames(frames)
  /\ first - 1 \notin SpeechFrames(frames) /\ last + 1 \notin SpeechFrames(frames)

\* The frame at which the silence after the frame last has been long enough.
EndsAt(frames, last, n) ==
  /\ n > last /\ (last + 1 .. n) \cap SpeechFrames(frames) = {}
  /\ frames[n].at - frames[last].at >= SilenceMs
  /\ frames[n - 1].at - frames[last].at < SilenceMs

UtteranceEnds(frames) ==
  {n \in DOMAIN frames : \E first, last \in DOMAIN frames :
     /\ Burst(frames, first, last) /\ EndsAt(frames, last, n)
     /\ frames[last].at - frames[first].at >= MinSpeechMs}

\* The ends of utterances up to n, and the frames since the one before n.
Before(ends, n) == {m \in ends : m < n}
Since(frames, ends, n) == {m \in DOMAIN frames : m <= n /\ \A e \in Before(ends, n) : m > e}

Times(frames, set) == [k \in 1..Cardinality(set) |->
  frames[CHOOSE m \in set : Cardinality({l \in set : l <= m}) = k].at]

\* What is sent: with each end, those of the frames since the last that count.
Expected(frames, counting) ==
  LET ends == UtteranceEnds(frames)
      set(n) == Since(frames, ends, n) \cap counting
  IN [k \in 1..Cardinality(ends) |->
        Times(frames, set(CHOOSE n \in ends : Cardinality(Before(ends, n)) = k - 1))]

\* Frames at most two ticks apart; time begins at 1.
Recordings(length) ==
  {[n \in 1..length |-> [at |-> FoldLeft(LAMBDA t, d : t + d, 0, SubSeq(gaps, 1, n)), speech |-> speech[n]]] :
     gaps \in [1..length -> 1..2], speech \in [1..length -> BOOLEAN]}

(***************************************************************************)
(* Both captures send one recording for each utterance, which is a run of  *)
(* speech without a pause and long enough, at the first frame at which the *)
(* silence has been long enough.  The one sends the frames of speech since *)
(* the utterance before, those of runs that were too short included; the   *)
(* other sends all frames since then.                                      *)
(***************************************************************************)
CapturesSendUtterances(length) ==
  \A frames \in Recordings(length) :
    /\ Captured(frames).sent = Expected(frames, SpeechFrames(frames))
    /\ InWebview(frames).sent = Expected(frames, DOMAIN frames)

=============================================================================
