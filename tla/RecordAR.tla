------------------------------- MODULE RecordAR -------------------------------
(***************************************************************************)
(* The video recorder of ARVideoKit: RecordAR and the writer WritAR it     *)
(* makes for every file.                                                   *)
(*                                                                         *)
(* The app calls the recorder, and the display link renderFrame, on the    *)
(* main thread.  stop and cancel finish their work in a later block of the *)
(* main queue, a duration ends in a timer's block, and AVFoundation runs   *)
(* the completion of finishWriting and the answer about the microphone on  *)
(* threads of its own, some time later.  An action is one such handler.    *)
(*                                                                         *)
(* Photos, GIFs and live photos are left out; time is counted in ticks of  *)
(* the display link.                                                       *)
(***************************************************************************)
EXTENDS Integers, Sequences, FiniteSets

CONSTANTS
  uses,                     \* bound: the methods the app calls
  MaxCalls,                 \* bound: calls in one behaviour
  MaxTicks,                 \* bound: ticks in one behaviour
  enableAudio,              \* the recorder's setting of that name
  onlyRenderWhileRecording  \* the recorder's setting of that name

ASSUME RecordAssumption ==
  /\ uses \subseteq {"record", "recordForDuration", "pause", "stop",
                     "stopAndExport", "cancel", "prepare"}
  /\ MaxCalls \in Nat
  /\ MaxTicks \in Nat
  /\ enableAudio \in BOOLEAN
  /\ onlyRenderWhileRecording \in BOOLEAN

VARIABLES
  isRecording,
  adjustPausedTime,
  backFromPause,
  recordingWithLimit,
  onlyRenderWhileRec,
  pausedFrameTime,     \* 0 is nil
  resumeFrameTime,     \* 0 is nil
  status,
  micStatus,
  writer,              \* the file of the current WritAR, 0 is nil
  fileState,           \* fileState[n]: the status of the writer of file n
  frames,              \* frames[n]: the times of the frames in file n
  asked,               \* the record calls that wait for the microphone
  timer,               \* the limited recordings whose duration is running
  mainQueue,           \* the blocks stop and cancel have dispatched
  finishing,           \* the completions of finishWriting to come
  calls,               \* calls so far
  clock                \* ticks so far

flagVars == <<adjustPausedTime, backFromPause, recordingWithLimit,
              pausedFrameTime, resumeFrameTime>>
outVars == <<timer, mainQueue, finishing>>
file == <<fileState, frames>>
vars == <<isRecording, flagVars, onlyRenderWhileRec, status, micStatus, writer,
          file, asked, outVars, calls, clock>>

FileState == {"unknown", "writing", "finishing", "completed", "cancelled",
              "failed"}

CallId == 1 .. MaxCalls

TypeOK ==
  /\ isRecording \in BOOLEAN
  /\ adjustPausedTime \in BOOLEAN
  /\ backFromPause \in BOOLEAN
  /\ recordingWithLimit \in BOOLEAN
  /\ onlyRenderWhileRec \in BOOLEAN
  /\ pausedFrameTime \in Int
  /\ resumeFrameTime \in Nat
  /\ status \in {"readyToRecord", "recording", "paused"}
  /\ micStatus \in {"unknown", "enabled", "disabled"}
  /\ fileState \in Seq(FileState)
  /\ frames \in Seq(Seq(Int))
  /\ Len(frames) = Len(fileState)
  /\ writer \in 0 .. Len(fileState)
  /\ asked \subseteq [id : CallId, limit : BOOLEAN]
  /\ timer \subseteq CallId
  /\ mainQueue \in Seq([block : {"end", "cancel"}, id : CallId])
  /\ finishing \subseteq [file : 1 .. Len(fileState), id : CallId]
  /\ calls \in 0 .. MaxCalls
  /\ clock \in 0 .. MaxTicks

Init ==
  /\ isRecording = FALSE
  /\ adjustPausedTime = FALSE
  /\ backFromPause = FALSE
  /\ recordingWithLimit = FALSE
  /\ onlyRenderWhileRec = onlyRenderWhileRecording
  /\ pausedFrameTime = 0
  /\ resumeFrameTime = 0
  /\ status = "readyToRecord"
  /\ micStatus = "unknown"
  /\ writer = 0
  /\ fileState = <<>>
  /\ frames = <<>>
  /\ asked = {}
  /\ timer = {}
  /\ mainQueue = <<>>
  /\ finishing = {}
  /\ calls = 0
  /\ clock = 0

-----------------------------------------------------------------------------
(* Calls of the app.                                                       *)

Call(method) ==
  /\ method \in uses
  /\ calls < MaxCalls
  /\ calls' = calls + 1

\* The recording starts; a limited one is stopped by a timer.
Begin(id, limit) ==
  /\ isRecording' = TRUE
  /\ status' = "recording"
  /\ recordingWithLimit' = (limit \/ recordingWithLimit)
  /\ timer' = IF limit THEN timer \cup {id} ELSE timer

MustAsk == enableAudio /\ micStatus = "unknown"

BeginOrAsk(id, limit) ==
  /\ IF MustAsk
     THEN /\ asked' = asked \cup {[id |-> id, limit |-> limit]}
          /\ UNCHANGED <<isRecording, status, recordingWithLimit, timer>>
     ELSE Begin(id, limit) /\ UNCHANGED asked
  /\ UNCHANGED <<adjustPausedTime, backFromPause, pausedFrameTime,
                 resumeFrameTime, onlyRenderWhileRec, micStatus, writer, file,
                 mainQueue, finishing, clock>>

\* record starts a recording or resumes it.
Record == Call("record") /\ BeginOrAsk(calls', FALSE)

RecordForDuration == Call("recordForDuration") /\ BeginOrAsk(calls', TRUE)

\* The user's answer about the microphone, for one of the waiting calls.
MicrophoneAnswer ==
  \E a \in asked, answer \in {"enabled", "disabled"} :
    /\ asked' = asked \ {a}
    /\ Begin(a.id, a.limit)
    /\ micStatus' = answer
    /\ UNCHANGED <<adjustPausedTime, backFromPause, pausedFrameTime,
                   resumeFrameTime, onlyRenderWhileRec, writer, file,
                   mainQueue, finishing, calls, clock>>

\* Not permitted while a duration is running.
Pause ==
  /\ Call("pause")
  /\ ~recordingWithLimit
  /\ onlyRenderWhileRec' = FALSE
  /\ isRecording' = FALSE
  /\ adjustPausedTime' = TRUE
  /\ UNCHANGED <<backFromPause, recordingWithLimit, pausedFrameTime,
                 resumeFrameTime, status, micStatus, writer, file, asked,
                 outVars, clock>>

ResetFlags ==
  /\ isRecording' = FALSE
  /\ adjustPausedTime' = FALSE
  /\ backFromPause' = FALSE
  /\ recordingWithLimit' = FALSE
  /\ pausedFrameTime' = 0
  /\ resumeFrameTime' = 0

\* What stop, for the call or the timer id, and cancel do at once.
Dispatch(block, id) ==
  /\ ResetFlags
  /\ mainQueue' = Append(mainQueue, [block |-> block, id |-> id])
  /\ UNCHANGED <<onlyRenderWhileRec, status, micStatus, writer, file, asked,
                 finishing, clock>>

Stop == Call("stop") /\ Dispatch("end", calls') /\ UNCHANGED timer

Cancel == Call("cancel") /\ Dispatch("cancel", calls') /\ UNCHANGED timer

\* Mutant: the limit is not lifted.
TimerFiresKeepsLimit(id) ==
  /\ id \in timer
  /\ timer' = timer \ {id}
  /\ isRecording' = FALSE
  /\ mainQueue' = Append(mainQueue, [block |-> "end", id |-> id])
  /\ UNCHANGED <<flagVars, onlyRenderWhileRec, status, micStatus, writer, file,
                 asked, finishing, calls, clock>>

\* A duration has ended: stop, whatever is recorded by now.
TimerFires(id) ==
  /\ id \in timer
  /\ timer' = timer \ {id}
  /\ Dispatch("end", id)
  /\ UNCHANGED calls

\* WritAR.end: only a file that is being written is finished.  A file whose
\* finishing goes on may be finished a second time.
EndWriter(id) ==
  \/ /\ writer # 0
     /\ fileState[writer] \in {"writing", "finishing"}
     /\ fileState' = [fileState EXCEPT ![writer] = "finishing"]
     /\ UNCHANGED frames
     /\ finishing' = finishing \cup {[file |-> writer, id |-> id]}
  \/ /\ writer # 0 => fileState[writer] # "writing"
     /\ UNCHANGED <<file, finishing>>

StopAndExport ==
  /\ Call("stopAndExport")
  /\ ResetFlags
  /\ EndWriter(calls')
  /\ UNCHANGED <<onlyRenderWhileRec, status, micStatus, writer, asked, timer,
                 mainQueue, clock>>

\* prepare, which views call when they disappear.
Prepare ==
  /\ Call("prepare")
  /\ onlyRenderWhileRec' = onlyRenderWhileRecording
  /\ UNCHANGED <<isRecording, flagVars, status, micStatus, writer, file, asked,
                 outVars, clock>>

-----------------------------------------------------------------------------
(* The main queue and the completions.                                     *)

EndBlock ==
  /\ mainQueue # <<>>
  /\ Head(mainQueue).block = "end"
  /\ EndWriter(Head(mainQueue).id)
  /\ mainQueue' = Tail(mainQueue)
  /\ UNCHANGED <<isRecording, flagVars, onlyRenderWhileRec, status, micStatus,
                 writer, asked, timer, calls, clock>>

CancelBlock ==
  /\ mainQueue # <<>>
  /\ Head(mainQueue).block = "cancel"
  /\ fileState' =
       IF /\ writer # 0
          /\ fileState[writer] \in {"unknown", "writing", "finishing"}
       THEN [fileState EXCEPT ![writer] = "cancelled"] ELSE fileState
  /\ status' = "readyToRecord"
  /\ writer' = 0
  /\ mainQueue' = Tail(mainQueue)
  /\ UNCHANGED <<isRecording, flagVars, onlyRenderWhileRec, micStatus, asked,
                 frames, timer, finishing, calls, clock>>

\* The completion of finishWriting makes the recorder ready and drops the
\* current writer, whatever became of the file and whichever the writer is.
Completion ==
  \E c \in finishing :
    /\ finishing' = finishing \ {c}
    /\ \E state \in {"completed", "failed"} :
         fileState' = IF fileState[c.file] = "finishing"
                      THEN [fileState EXCEPT ![c.file] = state] ELSE fileState
    /\ status' = "readyToRecord"
    /\ writer' = 0
    /\ UNCHANGED <<isRecording, flagVars, onlyRenderWhileRec, micStatus, asked,
                   frames, timer, mainQueue, calls, clock>>

-----------------------------------------------------------------------------
(* The display link.                                                       *)

Tick == clock < MaxTicks /\ clock' = clock + 1

Renders == onlyRenderWhileRec => isRecording

\* Nothing to render, or nothing to do with it.
IdleTick ==
  /\ Tick
  /\ UNCHANGED <<isRecording, flagVars, onlyRenderWhileRec, status, micStatus,
                 writer, file, asked, outVars, calls>>

\* The first frame of a recording makes the writer and is not written.
FrameMakesWriter ==
  /\ Tick
  /\ isRecording
  /\ writer = 0
  /\ fileState' = Append(fileState, "unknown")
  /\ frames' = Append(frames, <<>>)
  /\ writer' = Len(fileState')
  /\ UNCHANGED <<isRecording, flagVars, onlyRenderWhileRec, status, micStatus,
                 asked, outVars, calls>>

\* Mutant: the resumption's own time.
adjustTimeOfResume(current, resume, pause) == resume - (resume - pause)

adjustTime(current, resume, pause) == current - (resume - pause)

\* The time of the first frame since the last pause.
ResumeTime ==
  IF backFromPause /\ resumeFrameTime = 0 THEN clock' ELSE resumeFrameTime

FrameTime ==
  IF backFromPause THEN adjustTime(clock', ResumeTime, pausedFrameTime)
                   ELSE clock'

\* WritAR.insert starts the writing with the first frame.  A frame is dropped
\* when the input is not ready, as it is not once the file is being finished.
FrameInserted ==
  /\ Tick
  /\ isRecording
  /\ writer # 0
  /\ resumeFrameTime' = ResumeTime
  /\ fileState[writer] # "failed"
  /\ fileState' = [fileState EXCEPT ![writer] = IF @ = "unknown" THEN "writing"
                                                                 ELSE @]
  /\ \/ /\ fileState[writer] \in {"unknown", "writing"}
        /\ frames' = [frames EXCEPT ![writer] = Append(@, FrameTime)]
     \/ UNCHANGED frames
  /\ UNCHANGED <<isRecording, adjustPausedTime, backFromPause,
                 recordingWithLimit, pausedFrameTime, onlyRenderWhileRec,
                 status, micStatus, writer, asked, outVars, calls>>

\* The writing cannot start, or has failed: the recording ends, its writer
\* stays.
FrameFails ==
  /\ Tick
  /\ isRecording
  /\ writer # 0
  /\ fileState[writer] \in {"unknown", "failed"}
  /\ resumeFrameTime' = ResumeTime
  /\ fileState' = [fileState EXCEPT ![writer] = "failed"]
  /\ isRecording' = FALSE
  /\ status' = "readyToRecord"
  /\ UNCHANGED <<adjustPausedTime, backFromPause, recordingWithLimit,
                 pausedFrameTime, onlyRenderWhileRec, micStatus, writer, asked,
                 frames, timer, mainQueue, finishing, calls>>

\* The first frame after a pause is not written: its time is where the video
\* goes on.
FramePauses ==
  /\ Tick
  /\ Renders
  /\ ~isRecording
  /\ adjustPausedTime
  /\ adjustPausedTime' = FALSE
  /\ pausedFrameTime' =
       IF pausedFrameTime # 0 /\ resumeFrameTime # 0
       THEN adjustTime(clock', resumeFrameTime, pausedFrameTime) ELSE clock'
  /\ backFromPause' = TRUE
  /\ resumeFrameTime' = 0
  /\ status' = "paused"
  /\ onlyRenderWhileRec' = onlyRenderWhileRecording
  /\ UNCHANGED <<isRecording, recordingWithLimit, micStatus, writer, file,
                 asked, outVars, calls>>

\* AVFoundation: the writing fails.
WritingFails ==
  /\ writer # 0
  /\ fileState[writer] = "writing"
  /\ fileState' = [fileState EXCEPT ![writer] = "failed"]
  /\ UNCHANGED <<isRecording, flagVars, onlyRenderWhileRec, status, micStatus,
                 writer, frames, asked, outVars, calls, clock>>

-----------------------------------------------------------------------------
AppCalls ==
  \/ Record \/ RecordForDuration \/ Pause
  \/ Stop \/ StopAndExport \/ Cancel \/ Prepare

Frames ==
  IdleTick \/ FrameMakesWriter \/ FrameInserted \/ FrameFails \/ FramePauses

Next ==
  \/ AppCalls
  \/ MicrophoneAnswer
  \/ \E id \in CallId : TimerFires(id)
  \/ EndBlock \/ CancelBlock \/ Completion
  \/ Frames
  \/ WritingFails

\* Timers fire and the user answers; what the app calls is not fair.
Fairness ==
  /\ \A id \in CallId : WF_vars(TimerFires(id))
  /\ WF_vars(MicrophoneAnswer)

Spec == Init /\ [][Next]_vars

FairSpec == Spec /\ Fairness

-----------------------------------------------------------------------------
(* Properties.                                                             *)

\* The times of the frames of a file increase, however the recording was
\* paused, resumed, stopped and begun again (AVAssetWriter takes no other).
FramesAdvance ==
  \A n \in DOMAIN frames : \A i, j \in DOMAIN frames[n] :
    i < j => frames[n][i] < frames[n][j]

\* A limited recording ends, although pausing is not permitted, the answer
\* about the microphone may come late, and timers of earlier ones fire too.
LimitedEnds == recordingWithLimit ~> ~recordingWithLimit

\* What the status "readyToRecord" says: a recording that begins now is not
\* refused by a writer that has failed before.
ReadyMeansReady ==
  status = "readyToRecord" /\ ~isRecording =>
    (writer = 0 \/ fileState[writer] # "failed")

=============================================================================
