----------------------------- MODULE RecordProofs -----------------------------
(***************************************************************************)
(* Proofs about RecordAR, for every bound, every set of methods the app    *)
(* calls and every setting of the recorder.                                *)
(***************************************************************************)
EXTENDS RecordAR, SequenceTheorems, TLAPS

-----------------------------------------------------------------------------
(* Lemmas about sequences of increasing times.                             *)

Increasing(times) ==
  \A i, j \in 1 .. Len(times) : i < j => times[i] < times[j]

AllBelow(times, bound) == \A i \in 1 .. Len(times) : times[i] < bound

\* A time above all others extends an increasing sequence.
LEMMA IncreasingAppend ==
  ASSUME NEW times \in Seq(Int), NEW t \in Int,
         Increasing(times), AllBelow(times, t)
  PROVE  /\ Append(times, t) \in Seq(Int)
         /\ Increasing(Append(times, t))
         /\ \A b \in Int : t < b => AllBelow(Append(times, t), b)
<1>1. /\ Append(times, t) \in Seq(Int)
      /\ Len(Append(times, t)) = Len(times) + 1
      /\ \A i \in 1 .. Len(times) : Append(times, t)[i] = times[i]
      /\ Append(times, t)[Len(times) + 1] = t
      /\ Len(times) \in Nat
      /\ \A i \in 1 .. Len(times) : times[i] \in Int
  BY AppendProperties, LenProperties, ElementOfSeq
<1>2. Increasing(Append(times, t))
  BY SMTT(40), <1>1 DEF Increasing, AllBelow
<1>3. \A b \in Int : t < b => AllBelow(Append(times, t), b)
  BY <1>1 DEF AllBelow
<1>4. QED
  BY <1>1, <1>2, <1>3

LEMMA AllBelowMonotone ==
  ASSUME NEW times \in Seq(Int), NEW a \in Int, NEW b \in Int,
         a <= b, AllBelow(times, a)
  PROVE  AllBelow(times, b)
<1>1. \A i \in 1 .. Len(times) : times[i] \in Int
  BY ElementOfSeq
<1>2. QED
  BY <1>1 DEF AllBelow

-----------------------------------------------------------------------------
(* The invariant.                                                          *)

\* The first time a frame of the current file may take now: that of the pause
\* until the recording is resumed, and then the time on the display link less
\* what the pauses have cut out.
NextTime ==
  IF ~backFromPause THEN clock + 1
  ELSE IF resumeFrameTime = 0 THEN pausedFrameTime
  ELSE adjustTime(clock + 1, resumeFrameTime, pausedFrameTime)

TimeTypes ==
  /\ frames \in Seq(Seq(Int))
  /\ writer \in 0 .. Len(frames)
  /\ clock \in Nat
  /\ backFromPause \in BOOLEAN
  /\ pausedFrameTime \in Int
  /\ resumeFrameTime \in Nat
  /\ Len(fileState) = Len(frames)

\* No file has a frame later than now; a pause took place before now and
\* before its resumption; and every frame of the current file is before the
\* next one.
TimeInv ==
  /\ TimeTypes
  /\ \A n \in 1 .. Len(frames) :
       Increasing(frames[n]) /\ AllBelow(frames[n], clock + 1)
  /\ pausedFrameTime <= clock
  /\ resumeFrameTime # 0 => backFromPause /\ pausedFrameTime <= resumeFrameTime
  /\ writer # 0 => AllBelow(frames[writer], NextTime)

LEMMA TimeInit == Init => TimeInv
<1> SUFFICES ASSUME Init PROVE TimeInv
  OBVIOUS
<1>1. /\ frames \in Seq(Seq(Int))
      /\ Len(frames) = 0 /\ Len(fileState) = 0
  BY EmptySeq DEF Init
<1>2. /\ writer = 0 /\ clock = 0
      /\ pausedFrameTime = 0 /\ resumeFrameTime = 0
  BY DEF Init
<1>3. backFromPause \in BOOLEAN
  BY DEF Init
<1>4. TimeTypes
  BY <1>1, <1>2, <1>3 DEF TimeTypes
<1>5. \A n \in 1 .. Len(frames) : FALSE
  BY <1>1
<1>6. pausedFrameTime <= clock
  BY <1>2
<1>7. QED
  BY <1>2, <1>4, <1>5, <1>6 DEF TimeInv

\* Steps that leave the times alone, or set them back, and keep the writer or
\* drop it.
Quiet ==
  /\ UNCHANGED <<frames, clock>>
  /\ Len(fileState') = Len(fileState)
  /\ writer' \in {writer, 0}
  /\ \/ UNCHANGED <<backFromPause, pausedFrameTime, resumeFrameTime>>
     \/ backFromPause' = FALSE /\ pausedFrameTime' = 0 /\ resumeFrameTime' = 0

LEMMA QuietStep == TimeInv /\ Quiet => TimeInv'
<1> SUFFICES ASSUME TimeInv, Quiet PROVE TimeInv'
  OBVIOUS
<1>1. TimeTypes /\ frames' = frames /\ clock' = clock
  BY DEF TimeInv, Quiet
<1>2. Len(frames) \in Nat
  BY <1>1, LenProperties DEF TimeTypes
<1>3. TimeTypes'
  <2>1. /\ frames' \in Seq(Seq(Int)) /\ clock' \in Nat
        /\ Len(fileState') = Len(frames')
    BY <1>1 DEF TimeTypes, Quiet
  <2>2. writer' \in 0 .. Len(frames')
    BY <1>1, <1>2 DEF TimeTypes, Quiet
  <2>3. backFromPause' \in BOOLEAN
    BY <1>1 DEF TimeTypes, Quiet
  <2>4. pausedFrameTime' \in Int /\ resumeFrameTime' \in Nat
    BY <1>1 DEF TimeTypes, Quiet
  <2>5. QED
    BY <2>1, <2>2, <2>3, <2>4 DEF TimeTypes
<1>4. \A n \in 1 .. Len(frames') :
        Increasing(frames'[n]) /\ AllBelow(frames'[n], clock' + 1)
  BY <1>1 DEF TimeInv
<1>5. writer' # 0 => AllBelow(frames'[writer'], NextTime')
  <2> SUFFICES ASSUME writer' # 0 PROVE AllBelow(frames[writer], NextTime')
    BY <1>1 DEF Quiet
  <2>1. writer \in 1 .. Len(frames)
    BY <1>1, <1>2 DEF Quiet, TimeTypes
  <2>2. CASE UNCHANGED <<backFromPause, pausedFrameTime, resumeFrameTime>>
    BY <1>1, <2>1, <2>2 DEF TimeInv, NextTime
  <2>3. CASE ~backFromPause'
    BY <1>1, <2>1, <2>3 DEF TimeInv, NextTime
  <2>4. QED
    BY <2>2, <2>3 DEF Quiet
<1>6. /\ pausedFrameTime' <= clock'
      /\ resumeFrameTime' # 0 =>
           backFromPause' /\ pausedFrameTime' <= resumeFrameTime'
  BY <1>1 DEF TimeInv, TimeTypes, Quiet
<1>7. QED
  BY <1>3, <1>4, <1>5, <1>6 DEF TimeInv

\* A new status for one file leaves the number of files.
LEMMA StatusLength ==
  ASSUME NEW n, NEW s
  PROVE  Len([fileState EXCEPT ![n] = s]) = Len(fileState)
  OBVIOUS

\* Every step but those of the display link is quiet.
LEMMA QuietActions ==
  ASSUME TimeInv,
         \/ AppCalls \/ MicrophoneAnswer
         \/ \E id \in CallId : TimerFires(id)
         \/ EndBlock \/ CancelBlock \/ Completion \/ WritingFails
         \/ UNCHANGED vars
  PROVE  Quiet
<1>1. CASE AppCalls
  BY <1>1, StatusLength DEF AppCalls, Record, RecordForDuration, BeginOrAsk, Begin, Call,
     Pause, Stop, StopAndExport, Cancel, Prepare, Dispatch, ResetFlags,
     EndWriter, Quiet, flagVars, outVars, file
<1>2. CASE MicrophoneAnswer
  BY <1>2 DEF MicrophoneAnswer, Begin, Quiet, file
<1>3. CASE \E id \in CallId : TimerFires(id)
  BY <1>3 DEF TimerFires, Dispatch, ResetFlags, Quiet, file
<1>4. CASE EndBlock \/ CancelBlock \/ Completion \/ WritingFails
  BY <1>4, StatusLength DEF EndBlock, EndWriter, CancelBlock, Completion, WritingFails,
     Quiet, flagVars, outVars, file
<1>5. CASE UNCHANGED vars
  BY <1>5 DEF vars, flagVars, file, Quiet
<1>6. QED
  BY <1>1, <1>2, <1>3, <1>4, <1>5

-----------------------------------------------------------------------------
(* The display link.                                                       *)

\* What a tick adds to the bounds of all frames.
LEMMA TickBounds ==
  ASSUME TimeInv, Tick
  PROVE  /\ clock' \in Nat /\ clock' = clock + 1
         /\ \A n \in 1 .. Len(frames) :
              /\ frames[n] \in Seq(Int)
              /\ Increasing(frames[n])
              /\ AllBelow(frames[n], clock')
              /\ AllBelow(frames[n], clock' + 1)
<1>1. clock' \in Nat /\ clock' = clock + 1
  BY DEF TimeInv, TimeTypes, Tick
<1>2. ASSUME NEW n \in 1 .. Len(frames)
      PROVE  /\ frames[n] \in Seq(Int)
             /\ Increasing(frames[n])
             /\ AllBelow(frames[n], clock')
             /\ AllBelow(frames[n], clock' + 1)
  <2>1. frames[n] \in Seq(Int)
    BY ElementOfSeq DEF TimeInv, TimeTypes
  <2>2. Increasing(frames[n]) /\ AllBelow(frames[n], clock')
    BY <1>1 DEF TimeInv
  <2>3. AllBelow(frames[n], clock' + 1)
    BY <1>1, <2>1, <2>2, AllBelowMonotone
  <2>4. QED
    BY <2>1, <2>2, <2>3
<1>3. QED
  BY <1>1, <1>2

LEMMA IdleStep == TimeInv /\ IdleTick => TimeInv'
<1> SUFFICES ASSUME TimeInv, IdleTick PROVE TimeInv'
  OBVIOUS
<1>1. Tick
  BY DEF IdleTick
<1>2. UNCHANGED <<frames, writer, backFromPause, pausedFrameTime,
                  resumeFrameTime>>
  BY DEF IdleTick, flagVars, file
<1>3. TimeTypes' /\ NextTime \in Int /\ NextTime' \in Int /\ NextTime <= NextTime'
  BY <1>2, <1>1, TickBounds DEF TimeInv, TimeTypes, NextTime, adjustTime,
     IdleTick, file
<1>4. writer' # 0 => AllBelow(frames'[writer'], NextTime')
  BY <1>1, <1>2, <1>3, TickBounds, AllBelowMonotone DEF TimeInv, TimeTypes
<1>5. QED
  BY <1>1, <1>2, <1>3, <1>4, TickBounds DEF TimeInv, TimeTypes

LEMMA MakeStep == TimeInv /\ FrameMakesWriter => TimeInv'
<1> SUFFICES ASSUME TimeInv, FrameMakesWriter PROVE TimeInv'
  OBVIOUS
<1> DEFINE n == Len(frames) + 1
<1>1. Tick
  BY DEF FrameMakesWriter
<1>2. UNCHANGED <<backFromPause, pausedFrameTime, resumeFrameTime>>
  BY DEF FrameMakesWriter, flagVars
<1>3. /\ frames' \in Seq(Seq(Int))
      /\ Len(frames') = n
      /\ \A k \in 1 .. Len(frames) : frames'[k] = frames[k]
      /\ frames'[n] = <<>>
      /\ Len(frames) \in Nat
      /\ writer' = n
      /\ Len(fileState') = n
  BY AppendProperties, LenProperties, EmptySeq
  DEF FrameMakesWriter, TimeInv, TimeTypes
<1>4. Increasing(<<>>) /\ \A b : AllBelow(<<>>, b)
  BY EmptySeq DEF Increasing, AllBelow
<1>5. TimeTypes'
  BY <1>1, <1>2, <1>3, TickBounds DEF TimeInv, TimeTypes
<1>6. \A k \in 1 .. Len(frames') :
        Increasing(frames'[k]) /\ AllBelow(frames'[k], clock' + 1)
  <2> TAKE k \in 1 .. Len(frames')
  <2>1. CASE k = n
    BY <1>3, <1>4, <2>1
  <2>2. CASE k \in 1 .. Len(frames)
    BY <1>1, <1>3, <2>2, TickBounds
  <2>3. QED
    BY <1>3, <2>1, <2>2
<1>7. AllBelow(frames'[writer'], NextTime')
  BY <1>3, <1>4
<1>8. /\ pausedFrameTime' <= clock'
      /\ resumeFrameTime' # 0 =>
           backFromPause' /\ pausedFrameTime' <= resumeFrameTime'
  BY <1>1, <1>2, TickBounds DEF TimeInv, TimeTypes
<1>9. QED
  BY <1>5, <1>6, <1>7, <1>8 DEF TimeInv

\* The time of a frame is the next one, and no later than now; the one after
\* it is later.
LEMMA FrameTimes ==
  ASSUME TimeInv, Tick, resumeFrameTime' = ResumeTime,
         UNCHANGED <<backFromPause, pausedFrameTime>>
  PROVE  /\ FrameTime \in Int /\ FrameTime = NextTime
         /\ FrameTime < clock' + 1
         /\ NextTime' \in Int /\ FrameTime < NextTime'
         /\ resumeFrameTime' \in Nat
         /\ pausedFrameTime' <= clock'
         /\ resumeFrameTime' # 0 =>
              backFromPause' /\ pausedFrameTime' <= resumeFrameTime'
<1>1. clock \in Nat /\ clock' = clock + 1
  BY TickBounds DEF TimeInv, TimeTypes
<1>2. /\ pausedFrameTime \in Int /\ resumeFrameTime \in Nat
      /\ backFromPause \in BOOLEAN /\ pausedFrameTime <= clock
      /\ resumeFrameTime # 0 => backFromPause /\ pausedFrameTime <= resumeFrameTime
  BY DEF TimeInv, TimeTypes
<1>3. CASE ~backFromPause
  BY <1>1, <1>2, <1>3 DEF FrameTime, ResumeTime, NextTime
<1>4. CASE backFromPause /\ resumeFrameTime = 0
  BY <1>1, <1>2, <1>4 DEF FrameTime, ResumeTime, NextTime, adjustTime
<1>5. CASE backFromPause /\ resumeFrameTime # 0
  BY <1>1, <1>2, <1>5 DEF FrameTime, ResumeTime, NextTime, adjustTime
<1>6. QED
  BY <1>2, <1>3, <1>4, <1>5

LEMMA InsertStep == TimeInv /\ FrameInserted => TimeInv'
<1> SUFFICES ASSUME TimeInv, FrameInserted PROVE TimeInv'
  OBVIOUS
<1> DEFINE old == frames[writer]
<1>1. /\ Tick /\ resumeFrameTime' = ResumeTime
      /\ UNCHANGED <<backFromPause, pausedFrameTime, writer>>
      /\ frames' \in {frames, [frames EXCEPT ![writer] = Append(old, FrameTime)]}
      /\ Len(fileState') = Len(fileState)
  BY DEF FrameInserted
<1>2. /\ frames \in Seq(Seq(Int)) /\ Len(frames) \in Nat
      /\ writer \in 1 .. Len(frames)
      /\ Len(fileState) = Len(frames)
      /\ pausedFrameTime \in Int /\ backFromPause \in BOOLEAN
      /\ AllBelow(old, NextTime)
  BY LenProperties DEF TimeInv, TimeTypes, FrameInserted
<1>3. old \in Seq(Int) /\ Increasing(old)
  BY <1>1, <1>2, TickBounds
<1>4. /\ FrameTime \in Int /\ FrameTime = NextTime
      /\ FrameTime < clock' + 1
      /\ NextTime' \in Int /\ FrameTime < NextTime'
      /\ resumeFrameTime' \in Nat
      /\ pausedFrameTime' <= clock'
      /\ resumeFrameTime' # 0 =>
           backFromPause' /\ pausedFrameTime' <= resumeFrameTime'
  BY <1>1, FrameTimes
<1>5. clock' \in Nat
  BY <1>1, TickBounds
<1>6. CASE frames' = frames
  <2>1. AllBelow(old, NextTime')
    BY <1>2, <1>3, <1>4, AllBelowMonotone
  <2>2. TimeTypes'
    BY <1>1, <1>2, <1>4, <1>5, <1>6 DEF TimeTypes
  <2>3. QED
    BY <1>1, <1>4, <1>6, <2>1, <2>2, TickBounds DEF TimeInv
<1>7. CASE frames' = [frames EXCEPT ![writer] = Append(old, FrameTime)]
  <2> DEFINE new == Append(old, FrameTime)
  <2>1. /\ new \in Seq(Int)
        /\ Increasing(new)
        /\ AllBelow(new, clock' + 1)
        /\ AllBelow(new, NextTime')
    <3>1. AllBelow(old, FrameTime)
      BY <1>2, <1>4
    <3>2. /\ new \in Seq(Int) /\ Increasing(new)
          /\ \A b \in Int : FrameTime < b => AllBelow(new, b)
      BY <1>3, <1>4, <3>1, IncreasingAppend
    <3> HIDE DEF new
    <3>3. clock' + 1 \in Int
      BY <1>5
    <3>4. AllBelow(new, clock' + 1) /\ AllBelow(new, NextTime')
      BY <1>4, <3>2, <3>3
    <3>5. QED
      BY <3>2, <3>4
  <2> HIDE DEF new
  <2>2. frames' = [frames EXCEPT ![writer] = new]
    BY <1>7 DEF new
  <2>3. /\ frames' \in Seq(Seq(Int)) /\ Len(frames') = Len(frames)
        /\ frames'[writer] = new
        /\ \A k \in 1 .. Len(frames) : k # writer => frames'[k] = frames[k]
    BY <1>2, <2>1, <2>2, ExceptSeq
  <2>4. TimeTypes'
    BY <1>1, <1>2, <1>4, <1>5, <2>3 DEF TimeTypes
  <2>5. \A k \in 1 .. Len(frames') :
          Increasing(frames'[k]) /\ AllBelow(frames'[k], clock' + 1)
    BY <1>1, <2>1, <2>3, TickBounds
  <2>6. QED
    BY <1>1, <1>4, <2>1, <2>3, <2>4, <2>5 DEF TimeInv
<1>8. QED
  BY <1>1, <1>6, <1>7

LEMMA FailStep == TimeInv /\ FrameFails => TimeInv'
<1> SUFFICES ASSUME TimeInv, FrameFails PROVE TimeInv'
  OBVIOUS
<1>1. /\ Tick /\ resumeFrameTime' = ResumeTime
      /\ UNCHANGED <<backFromPause, pausedFrameTime, writer, frames>>
      /\ Len(fileState') = Len(fileState)
  BY StatusLength DEF FrameFails
<1>2. /\ Len(frames) \in Nat /\ writer \in 1 .. Len(frames)
      /\ AllBelow(frames[writer], NextTime)
  BY LenProperties DEF TimeInv, TimeTypes, FrameFails
<1>3. frames[writer] \in Seq(Int)
  BY <1>1, <1>2, TickBounds
<1>4. /\ FrameTime \in Int /\ FrameTime = NextTime
      /\ NextTime' \in Int /\ FrameTime < NextTime'
      /\ resumeFrameTime' \in Nat
      /\ pausedFrameTime' <= clock'
      /\ resumeFrameTime' # 0 =>
           backFromPause' /\ pausedFrameTime' <= resumeFrameTime'
  BY <1>1, FrameTimes
<1>5. AllBelow(frames'[writer'], NextTime')
  BY <1>1, <1>2, <1>3, <1>4, AllBelowMonotone
<1>6. TimeTypes'
  BY <1>1, <1>4, TickBounds DEF TimeInv, TimeTypes
<1>7. QED
  BY <1>1, <1>4, <1>5, <1>6, TickBounds DEF TimeInv

LEMMA PauseStep == TimeInv /\ FramePauses => TimeInv'
<1> SUFFICES ASSUME TimeInv, FramePauses PROVE TimeInv'
  OBVIOUS
<1>1. /\ Tick /\ backFromPause' /\ resumeFrameTime' = 0
      /\ UNCHANGED <<writer, frames, fileState>>
      /\ pausedFrameTime' =
           IF pausedFrameTime # 0 /\ resumeFrameTime # 0
           THEN adjustTime(clock', resumeFrameTime, pausedFrameTime) ELSE clock'
  BY DEF FramePauses, file
<1>2. /\ TimeTypes
      /\ pausedFrameTime <= clock
      /\ resumeFrameTime # 0 => backFromPause /\ pausedFrameTime <= resumeFrameTime
      /\ clock' = clock + 1
  BY <1>1, TickBounds DEF TimeInv
<1>3. /\ pausedFrameTime' \in Int /\ pausedFrameTime' <= clock'
      /\ NextTime \in Int /\ NextTime <= pausedFrameTime'
      /\ NextTime' = pausedFrameTime'
  BY <1>1, <1>2 DEF TimeTypes, NextTime, adjustTime
<1>4. TimeTypes'
  BY <1>1, <1>2, <1>3 DEF TimeTypes
<1>5. writer' # 0 => AllBelow(frames'[writer'], NextTime')
  <2> SUFFICES ASSUME writer # 0 PROVE AllBelow(frames[writer], NextTime')
    BY <1>1
  <2>1. writer \in 1 .. Len(frames)
    BY <1>2, LenProperties DEF TimeTypes
  <2>2. frames[writer] \in Seq(Int) /\ AllBelow(frames[writer], NextTime)
    BY <1>1, <2>1, TickBounds DEF TimeInv
  <2>3. QED
    BY <1>3, <2>2, AllBelowMonotone
<1>6. QED
  BY <1>1, <1>3, <1>4, <1>5, TickBounds DEF TimeInv

LEMMA TimeStep == TimeInv /\ [Next]_vars => TimeInv'
<1> SUFFICES ASSUME TimeInv, [Next]_vars PROVE TimeInv'
  OBVIOUS
<1>1. CASE Frames
  BY <1>1, IdleStep, MakeStep, InsertStep, FailStep, PauseStep DEF Frames
<1>2. CASE ~Frames
  BY <1>2, QuietActions, QuietStep DEF Next
<1>3. QED
  BY <1>1, <1>2

-----------------------------------------------------------------------------
\* The times of the frames of every file increase, whatever the app calls and
\* however the handlers interleave: RecordAR.renderFrame with its adjusted
\* times and WritAR.insert.
THEOREM FramesAlwaysAdvance == Spec => []FramesAdvance
<1>1. TimeInv => FramesAdvance
  <2> SUFFICES ASSUME TimeInv, NEW n \in DOMAIN frames,
                      NEW i \in DOMAIN frames[n], NEW j \in DOMAIN frames[n],
                      i < j
               PROVE  frames[n][i] < frames[n][j]
    BY DEF FramesAdvance
  <2>1. n \in 1 .. Len(frames)
    BY LenProperties DEF TimeInv, TimeTypes
  <2>2. frames[n] \in Seq(Int) /\ Increasing(frames[n])
    BY <2>1, ElementOfSeq DEF TimeInv, TimeTypes
  <2>3. DOMAIN frames[n] = 1 .. Len(frames[n])
    BY <2>2, LenProperties
  <2>4. QED
    BY <2>2, <2>3 DEF Increasing
<1>2. QED
  BY <1>1, TimeInit, TimeStep, PTL DEF Spec

-----------------------------------------------------------------------------
(* Types.  TimeInv has those of the times and of the files.                *)

RecorderTypes ==
  /\ isRecording \in BOOLEAN
  /\ adjustPausedTime \in BOOLEAN
  /\ recordingWithLimit \in BOOLEAN
  /\ onlyRenderWhileRec \in BOOLEAN
  /\ status \in {"readyToRecord", "recording", "paused"}
  /\ micStatus \in {"unknown", "enabled", "disabled"}
  /\ clock \in 0 .. MaxTicks

CallTypes ==
  /\ asked \subseteq [id : CallId, limit : BOOLEAN]
  /\ timer \subseteq CallId
  /\ mainQueue \in Seq([block : {"end", "cancel"}, id : CallId])
  /\ calls \in 0 .. MaxCalls

\* Completions are of files there are: files are never forgotten.
FileTypes ==
  /\ fileState \in Seq(FileState)
  /\ finishing \subseteq [file : 1 .. Len(fileState), id : CallId]

TypeInv == TimeInv /\ RecorderTypes /\ CallTypes /\ FileTypes

LEMMA TypeInit == Init => TypeInv
<1> SUFFICES ASSUME Init PROVE TypeInv
  OBVIOUS
<1>1. RecorderTypes
  <2>1. clock \in 0 .. MaxTicks
    BY RecordAssumption DEF Init
  <2>2. onlyRenderWhileRec \in BOOLEAN
    BY RecordAssumption DEF Init
  <2>3. QED
    BY <2>1, <2>2 DEF Init, RecorderTypes
<1>2. CallTypes
  BY RecordAssumption, EmptySeq DEF Init, CallTypes
<1>3. FileTypes
  BY EmptySeq DEF Init, FileTypes
<1>4. QED
  BY <1>1, <1>2, <1>3, TimeInit DEF TypeInv

\* A call has an identifier of its own.
LEMMA CallIds ==
  ASSUME TypeInv, NEW method, Call(method)
  PROVE  calls' \in CallId /\ calls' \in 0 .. MaxCalls
  BY RecordAssumption DEF TypeInv, CallTypes, Call, CallId

LEMMA RecorderStep == TypeInv /\ [Next]_vars => RecorderTypes'
<1> SUFFICES ASSUME TypeInv, [Next]_vars PROVE RecorderTypes'
  OBVIOUS
<1> USE RecordAssumption DEF TypeInv, RecorderTypes, flagVars, outVars, file
<1>1. CASE AppCalls
  BY ZenonT(40), <1>1 DEF AppCalls, Record, RecordForDuration, BeginOrAsk, Begin, Call, Pause,
     Stop, StopAndExport, Cancel, Prepare, Dispatch, ResetFlags
<1>2. CASE MicrophoneAnswer
  BY <1>2 DEF MicrophoneAnswer, Begin
<1>3. CASE \E id \in CallId : TimerFires(id)
  BY <1>3 DEF TimerFires, Dispatch, ResetFlags
<1>4. CASE EndBlock \/ CancelBlock \/ Completion \/ WritingFails
  BY <1>4 DEF EndBlock, CancelBlock, Completion, WritingFails
<1>5. CASE Frames
  <2>1. Tick
    BY <1>5 DEF Frames, IdleTick, FrameMakesWriter, FrameInserted, FrameFails,
       FramePauses
  <2>2. clock' \in 0 .. MaxTicks
    BY <2>1 DEF Tick
  <2>3. onlyRenderWhileRec' \in BOOLEAN
    BY <1>5 DEF Frames, IdleTick, FrameMakesWriter, FrameInserted, FrameFails,
       FramePauses
  <2>4. /\ isRecording' \in BOOLEAN /\ adjustPausedTime' \in BOOLEAN
        /\ recordingWithLimit' \in BOOLEAN
        /\ status' \in {"readyToRecord", "recording", "paused"}
        /\ micStatus' \in {"unknown", "enabled", "disabled"}
    BY <1>5 DEF Frames, IdleTick, FrameMakesWriter, FrameInserted, FrameFails,
       FramePauses
  <2>5. QED
    BY <2>2, <2>3, <2>4
<1>6. CASE UNCHANGED vars
  BY <1>6 DEF vars
<1>7. QED
  BY <1>1, <1>2, <1>3, <1>4, <1>5, <1>6 DEF Next

LEMMA CallStep == TypeInv /\ [Next]_vars => CallTypes'
<1> SUFFICES ASSUME TypeInv, [Next]_vars PROVE CallTypes'
  OBVIOUS
<1> DEFINE Block == [block : {"end", "cancel"}, id : CallId]
<1>1. CallTypes
  BY DEF TypeInv
<1>2. ASSUME NEW block \in {"end", "cancel"}, NEW id \in CallId,
             mainQueue' = Append(mainQueue, [block |-> block, id |-> id])
      PROVE  mainQueue' \in Seq(Block)
  <2>1. [block |-> block, id |-> id] \in Block
    OBVIOUS
  <2>2. mainQueue \in Seq(Block)
    BY <1>1 DEF CallTypes
  <2> HIDE DEF Block
  <2>3. QED
    BY <1>2, <2>1, <2>2, AppendProperties
<1>3. ASSUME mainQueue # <<>>, mainQueue' = Tail(mainQueue)
      PROVE  mainQueue' \in Seq(Block)
  <2>1. mainQueue \in Seq(Block)
    BY <1>1 DEF CallTypes
  <2> HIDE DEF Block
  <2>2. QED
    BY <1>3, <2>1, HeadTailProperties
<1> HIDE DEF Block
<1>4. /\ mainQueue \in Seq(Block)
      /\ \/ mainQueue' \notin Seq(Block)
         \/ ~(asked' \subseteq [id : CallId, limit : BOOLEAN])
         \/ ~(timer' \subseteq CallId)
         \/ calls' \notin 0 .. MaxCalls
         \/ CallTypes'
  BY <1>1 DEF CallTypes, Block
<1>5. ASSUME NEW limit \in BOOLEAN, NEW method, Call(method), BeginOrAsk(calls', limit)
      PROVE  CallTypes'
  <2>1. calls' \in CallId /\ calls' \in 0 .. MaxCalls
    BY <1>5, CallIds
  <2>2. mainQueue' \in Seq(Block)
    BY <1>4, <1>5 DEF BeginOrAsk
  <2>3. asked' \subseteq [id : CallId, limit : BOOLEAN]
    <3>1. asked \subseteq [id : CallId, limit : BOOLEAN]
      BY <1>1 DEF CallTypes
    <3>2. [id |-> calls', limit |-> limit] \in [id : CallId, limit : BOOLEAN]
      BY <2>1
    <3>3. QED
      BY <1>5, <3>1, <3>2 DEF BeginOrAsk
  <2>4. timer' \subseteq CallId
    BY <1>1, <1>5, <2>1 DEF CallTypes, BeginOrAsk, Begin
  <2>5. QED
    BY <1>4, <2>1, <2>2, <2>3, <2>4
<1>6. ASSUME NEW method, Call(method), UNCHANGED <<asked, timer>>,
             \/ UNCHANGED mainQueue
             \/ \E block \in {"end", "cancel"} : Dispatch(block, calls')
      PROVE  CallTypes'
  <2>1. calls' \in CallId /\ calls' \in 0 .. MaxCalls
    BY <1>6, CallIds
  <2>2. mainQueue' \in Seq(Block)
    BY <1>2, <1>4, <1>6, <2>1 DEF Dispatch
  <2>3. QED
    BY <1>1, <1>4, <1>6, <2>1, <2>2 DEF CallTypes
<1>7. CASE AppCalls
  <2>1. CASE Record \/ RecordForDuration
    BY <1>5, <2>1 DEF Record, RecordForDuration
  <2>2. CASE Stop \/ Cancel
    BY <1>6, <2>2 DEF Stop, Cancel, Dispatch
  <2>3. CASE Pause \/ StopAndExport \/ Prepare
    BY <1>6, <2>3 DEF Pause, StopAndExport, Prepare, outVars
  <2>4. QED
    BY <1>7, <2>1, <2>2, <2>3 DEF AppCalls
<1>8. CASE MicrophoneAnswer
  BY <1>1, <1>4, <1>8 DEF MicrophoneAnswer, Begin, CallTypes
<1>9. ASSUME NEW id \in CallId, TimerFires(id) PROVE CallTypes'
  <2>1. mainQueue' \in Seq(Block)
    BY <1>2, <1>9 DEF TimerFires, Dispatch
  <2>2. QED
    BY <1>1, <1>4, <1>9, <2>1 DEF TimerFires, Dispatch, CallTypes
<1>10. CASE EndBlock \/ CancelBlock
  <2>1. mainQueue' \in Seq(Block)
    BY <1>3, <1>10 DEF EndBlock, CancelBlock
  <2>2. QED
    BY <1>1, <1>4, <1>10, <2>1 DEF EndBlock, CancelBlock, CallTypes
<1>11. ASSUME UNCHANGED <<asked, timer, mainQueue, calls>> PROVE CallTypes'
  BY <1>1, <1>11 DEF CallTypes
<1>12. CASE Completion \/ WritingFails \/ Frames \/ UNCHANGED vars
  BY <1>11, <1>12 DEF Completion, WritingFails, Frames, IdleTick, FrameMakesWriter,
     FrameInserted, FrameFails, FramePauses, vars, outVars
<1>13. QED
  BY <1>7, <1>8, <1>9, <1>10, <1>12 DEF Next

LEMMA FileStep == TypeInv /\ [Next]_vars => FileTypes'
<1> SUFFICES ASSUME TypeInv, [Next]_vars PROVE FileTypes'
  OBVIOUS
<1>1. /\ fileState \in Seq(FileState) /\ Len(fileState) \in Nat
      /\ finishing \subseteq [file : 1 .. Len(fileState), id : CallId]
      /\ writer \in 0 .. Len(fileState)
  BY LenProperties DEF TypeInv, FileTypes, TimeInv, TimeTypes
<1>2. ASSUME NEW n \in 1 .. Len(fileState), NEW state \in FileState,
             fileState' = [fileState EXCEPT ![n] = state]
      PROVE  fileState' \in Seq(FileState) /\ Len(fileState') = Len(fileState)
  BY <1>1, <1>2, ExceptSeq
<1>3. ASSUME fileState' \in Seq(FileState), Len(fileState') = Len(fileState),
             finishing' \subseteq [file : 1 .. Len(fileState), id : CallId]
      PROVE  FileTypes'
  BY <1>3 DEF FileTypes
<1>4. ASSUME UNCHANGED <<fileState, finishing>> PROVE FileTypes'
  BY <1>1, <1>4 DEF FileTypes
<1>5. ASSUME NEW n \in 1 .. Len(fileState), NEW state \in FileState,
             fileState' \in {fileState, [fileState EXCEPT ![n] = state]},
             finishing' \subseteq finishing
      PROVE  FileTypes'
  BY <1>1, <1>2, <1>3, <1>5
<1>6. ASSUME NEW id \in CallId, EndWriter(id) PROVE FileTypes'
  <2>1. CASE UNCHANGED <<fileState, finishing>>
    BY <1>4, <2>1
  <2>2. CASE /\ writer # 0
             /\ fileState' = [fileState EXCEPT ![writer] = "finishing"]
             /\ finishing' = finishing \cup {[file |-> writer, id |-> id]}
    <3>1. writer \in 1 .. Len(fileState) /\ "finishing" \in FileState
      BY <1>1, <2>2 DEF FileState
    <3>2. fileState' \in Seq(FileState) /\ Len(fileState') = Len(fileState)
      BY <1>2, <2>2, <3>1
    <3>3. finishing' \subseteq [file : 1 .. Len(fileState), id : CallId]
      BY <1>1, <2>2, <3>1
    <3>4. QED
      BY <1>3, <3>2, <3>3
  <2>3. QED
    BY <1>6, <2>1, <2>2 DEF EndWriter, file
<1>7. CASE AppCalls
  <2>1. CASE StopAndExport
    <3>1. calls' \in CallId /\ EndWriter(calls')
      BY <2>1, CallIds DEF StopAndExport
    <3>2. QED
      BY <1>6, <3>1
  <2>2. CASE ~StopAndExport
    BY <1>4, <1>7, <2>2 DEF AppCalls, Record, RecordForDuration, BeginOrAsk, Pause,
       Stop, Cancel, Prepare, Dispatch, file, outVars
  <2>3. QED
    BY <2>1, <2>2
<1>8. CASE MicrophoneAnswer \/ \E id \in CallId : TimerFires(id)
  BY <1>4, <1>8 DEF MicrophoneAnswer, TimerFires, Dispatch, file
<1>9. CASE EndBlock
  <2>1. Head(mainQueue).id \in CallId
    <3>1. Head(mainQueue) \in [block : {"end", "cancel"}, id : CallId]
      BY <1>9, HeadTailProperties DEF EndBlock, TypeInv, CallTypes
    <3>2. QED
      BY <3>1
  <2>2. QED
    BY <1>6, <1>9, <2>1 DEF EndBlock
<1>10. CASE CancelBlock
  <2>1. CASE fileState' = fileState
    BY <1>4, <1>10, <2>1 DEF CancelBlock
  <2>2. CASE writer # 0 /\ fileState' = [fileState EXCEPT ![writer] = "cancelled"]
    <3>1. writer \in 1 .. Len(fileState) /\ "cancelled" \in FileState
      BY <1>1, <2>2 DEF FileState
    <3>2. finishing' = finishing
      BY <1>10 DEF CancelBlock
    <3>3. QED
      BY <1>5, <2>2, <3>1, <3>2
  <2>3. QED
    BY <1>10, <2>1, <2>2 DEF CancelBlock
<1>11. CASE Completion
  <2>1. PICK c \in finishing, state \in {"completed", "failed"} :
          /\ finishing' = finishing \ {c}
          /\ fileState' = IF fileState[c.file] = "finishing"
                          THEN [fileState EXCEPT ![c.file] = state] ELSE fileState
    BY <1>11 DEF Completion
  <2>2. c.file \in 1 .. Len(fileState) /\ state \in FileState
    BY <1>1 DEF FileState
  <2>3. QED
    BY <1>5, <2>1, <2>2
<1>12. CASE WritingFails
  <2>1. /\ writer \in 1 .. Len(fileState) /\ finishing' = finishing
        /\ fileState' = [fileState EXCEPT ![writer] = "failed"]
    BY <1>1, <1>12 DEF WritingFails, outVars
  <2>2. "failed" \in FileState
    BY DEF FileState
  <2>3. QED
    BY <1>5, <2>1, <2>2
<1>13. CASE Frames
  <2>1. CASE IdleTick \/ FramePauses
    BY <1>4, <2>1 DEF IdleTick, FramePauses, file, outVars
  <2>2. CASE FrameMakesWriter
    <3>1. fileState' = Append(fileState, "unknown") /\ finishing' = finishing
      BY <2>2 DEF FrameMakesWriter, outVars
    <3>2. fileState' \in Seq(FileState) /\ Len(fileState') = Len(fileState) + 1
      BY <1>1, <3>1, AppendProperties DEF FileState
    <3>3. QED
      BY <1>1, <3>1, <3>2 DEF FileTypes
  <2>3. CASE FrameInserted
    <3>1. /\ writer \in 1 .. Len(fileState) /\ finishing' = finishing
          /\ fileState' = [fileState EXCEPT ![writer] =
               IF fileState[writer] = "unknown" THEN "writing" ELSE fileState[writer]]
      BY <1>1, <2>3 DEF FrameInserted, outVars
    <3>2. fileState[writer] \in FileState /\ "writing" \in FileState
      BY <1>1, <3>1, ElementOfSeq DEF FileState
    <3>3. QED
      BY <1>5, <3>1, <3>2
  <2>4. CASE FrameFails
    <3>1. /\ writer \in 1 .. Len(fileState) /\ finishing' = finishing
          /\ fileState' = [fileState EXCEPT ![writer] = "failed"]
      BY <1>1, <2>4 DEF FrameFails, outVars
    <3>2. "failed" \in FileState
      BY DEF FileState
    <3>3. QED
      BY <1>5, <3>1, <3>2
  <2>5. QED
    BY <1>13, <2>1, <2>2, <2>3, <2>4 DEF Frames
<1>14. CASE UNCHANGED vars
  BY <1>4, <1>14 DEF vars, file, outVars
<1>15. QED
  BY <1>7, <1>8, <1>9, <1>10, <1>11, <1>12, <1>13, <1>14 DEF Next

\* Whatever the handlers do in whichever order: every completion is of a file
\* that was made, every waiting block and timer of a call, and the current
\* writer is one of the files.
THEOREM TypeCorrect == Spec => []TypeOK
<1>1. TypeInv => TypeOK
  BY DEF TypeInv, TimeInv, TimeTypes, RecorderTypes, CallTypes, FileTypes, TypeOK
<1>2. TypeInv /\ [Next]_vars => TypeInv'
  BY TimeStep, RecorderStep, CallStep, FileStep DEF TypeInv
<1>3. QED
  BY <1>1, <1>2, TypeInit, PTL DEF Spec

=============================================================================
