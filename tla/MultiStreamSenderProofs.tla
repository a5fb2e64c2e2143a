---------------------- MODULE MultiStreamSenderProofs ----------------------
(***************************************************************************)
(* MultiStreamSender.tla for any number of workers, streams and payloads   *)
(* and any capacities: the results change nothing about what was proved of *)
(* the pipeline, and no error goes missing on the way to the user.         *)
(***************************************************************************)
EXTENDS MultiStreamSender, SendPipelineProofs

\* A step of the sender, seen from the results.
PipelineOnly == UNCHANGED <<resultVars, unpinned>>
ResultsOnly == UNCHANGED <<vars, unpinned>>

-----------------------------------------------------------------------------
\* A step of the sender is one of its pipeline, or leaves that alone.
LEMMA StepOfPipeline == SenderNext => [Next]_vars
<1> SUFFICES ASSUME SenderNext PROVE [Next]_vars
  OBVIOUS
<1>1. CASE SetUp
  BY <1>1 DEF SetUp, Silent, Next
<1>2. CASE Silent(SendCall) \/ Silent(FeederNext) \/ Silent(TurnstileNext)
  BY <1>2 DEF Silent, Next
<1>3. ASSUME NEW w \in Workers, WorkerStep(w) PROVE [Next]_vars
  <2>1. WorkerNext(w)
    BY <1>3 DEF WorkerStep, WorkerRejects, Silent, WorkerNext
  <2> QED BY <2>1 DEF Next
<1>4. ASSUME NEW s \in Streams, StreamStep(s) PROVE [Next]_vars
  <2>1. StreamNext(s)
    BY <1>4 DEF StreamStep, PinFails, StreamReports, Silent, StreamNext
  <2> QED BY <2>1 DEF Next
<1>5. CASE CompleterStep
  BY <1>5 DEF CompleterStep, SenderCompletes, Silent, CompleterNext, Next
<1>6. CASE HandlerStep \/ UserCalls \/ GetterStep
  BY <1>6 DEF HandlerStep, UserCalls, GetterStep
<1> QED BY <1>1, <1>2, <1>3, <1>4, <1>5, <1>6 DEF SenderNext

\* What the results do leaves the pipeline the behaviours of SendPipeline
\* (core/send_stream.go 168-306), so all that is proved of it holds in a sender.
THEOREM SenderRunsPipeline == SenderSpec => Spec
<1>1. SenderInit => Init
  BY DEF SenderInit
<1>2. [SenderNext]_senderVars => [Next]_vars
  BY StepOfPipeline DEF senderVars
<1> QED BY <1>1, <1>2, PTL DEF SenderSpec, Spec

\* The pipeline's invariant holds in the sender.
LEMMA SenderPipelineInv == SenderSpec => []PipelineInv
BY SenderRunsPipeline, PipelineCorrect

\* A sender keeps the promise of Transmission, whatever happens to its results.
THEOREM SenderImplementsTransmission == SenderSpec => ImplementsTransmission
BY SenderRunsPipeline, PipelineImplementsTransmission

-----------------------------------------------------------------------------
(***************************************************************************)
(* Types of the results.                                                   *)
(***************************************************************************)
LEMMA OfferedType ==
  ASSUME NEW ch \in Seq(Results!Outcomes), NEW cap \in Nat, Len(ch) <= cap,
         NEW r \in Results!Outcomes
  PROVE  Results!Offered(ch, cap, r) \in Seq(Results!Outcomes)
         /\ Len(Results!Offered(ch, cap, r)) <= cap
<1>1. CASE Len(ch) < cap
  <2>1. Results!Offered(ch, cap, r) = Append(ch, r)
    BY <1>1 DEF Results!Offered
  <2>2. Append(ch, r) \in Seq(Results!Outcomes) /\ Len(Append(ch, r)) = Len(ch) + 1
    BY AppendProperties
  <2>3. Len(ch) \in Nat
    BY LenProperties
  <2> QED BY <1>1, <2>1, <2>2, <2>3
<1>2. CASE ~(Len(ch) < cap)
  BY <1>2 DEF Results!Offered
<1> QED BY <1>1, <1>2

\* A report keeps the types.
LEMMA ReportType ==
  ASSUME Results!TypeOK, NEW i \in Int, NEW extra \in Nat, Results!Report(i, extra)
  PROVE  Results!TypeOK'
<1>1. Results!Failure(i) \in Results!Outcomes
  BY DEF Results!Failure, Results!Outcomes
<1>2. errorCh' \in Seq(Results!Outcomes) /\ Len(errorCh') <= ErrorCap
  <2>1. errorCh' = Results!Offered(errorCh, ErrorCap, Results!Failure(i))
    BY DEF Results!Report
  <2>2. errorCh \in Seq(Results!Outcomes) /\ Len(errorCh) <= ErrorCap /\ ErrorCap \in Nat
    BY CapacitiesAssumption DEF Results!TypeOK
  <2> QED BY <1>1, <2>1, <2>2, OfferedType
<1>3. packetsDropped' \in Nat
  <2>1. Results!Overflow(errorCh, ErrorCap) \in Nat
    BY DEF Results!Overflow
  <2> QED BY <2>1 DEF Results!Report, Results!TypeOK
<1>4. UNCHANGED <<held, progressCh, channelClosed, progressBuffer, getter, returned, sawEnd>>
  BY DEF Results!Report
<1> QED BY <1>2, <1>3, <1>4 DEF Results!TypeOK

\* So does returning the first buffered result.
LEMMA ReturnFirstType ==
  ASSUME Results!TypeOK, Results!ReturnFirst, progressBuffer # <<>>
  PROVE  /\ returned' \in Seq(Results!Outcomes) /\ progressBuffer' \in Seq(Results!Outcomes)
         /\ Len(progressBuffer') <= MaxResultsToBuffer
<1>1. /\ progressBuffer \in Seq(Results!Outcomes) /\ returned \in Seq(Results!Outcomes)
      /\ Len(progressBuffer) <= MaxResultsToBuffer
  BY DEF Results!TypeOK
<1>2. /\ Head(progressBuffer) \in Results!Outcomes
      /\ Tail(progressBuffer) \in Seq(Results!Outcomes)
      /\ Len(Tail(progressBuffer)) = Len(progressBuffer) - 1
  BY <1>1, HeadTailProperties
<1>3. Len(progressBuffer) \in Nat
  BY <1>1, LenProperties
<1> QED BY <1>1, <1>2, <1>3, CapacitiesAssumption, AppendProperties DEF Results!ReturnFirst

\* The types hold at first.
LEMMA ResultsInit == Results!Init => Results!TypeOK
<1> SUFFICES ASSUME Results!Init PROVE Results!TypeOK
  OBVIOUS
<1>1. <<>> \in Seq(Results!Outcomes) /\ Len(<<>>) = 0
  BY EmptySeq
<1>2. /\ errorCh = <<>> /\ held = <<>> /\ progressCh = <<>> /\ progressBuffer = <<>>
      /\ returned = <<>> /\ getter = "idle" /\ packetsDropped = 0
  BY DEF Results!Init
<1>3. channelClosed \in BOOLEAN /\ sawEnd \in BOOLEAN
  BY DEF Results!Init
<1>4. 0 <= ErrorCap /\ 0 <= 1 /\ 0 <= ProgressCap /\ 0 <= MaxResultsToBuffer
  BY CapacitiesAssumption
<1> QED BY <1>1, <1>2, <1>3, <1>4 DEF Results!TypeOK

\* A step keeps the types of the results.
LEMMA ResultsTypeKept ==
  ASSUME PipelineInv, Results!TypeOK, [SenderNext]_senderVars
  PROVE  Results!TypeOK'
<1>1. CASE UNCHANGED resultVars
  BY <1>1 DEF resultVars, Results!TypeOK
<1>2. CASE SetUp \/ Silent(SendCall) \/ Silent(FeederNext) \/ Silent(TurnstileNext)
           \/ UNCHANGED senderVars
  BY <1>1, <1>2 DEF SetUp, Silent, senderVars
<1>3. ASSUME NEW w \in Workers, WorkerStep(w) PROVE Results!TypeOK'
  <2>1. CASE WorkerRejects(w)
    <3>1. workerIdx[w] \in Int
      BY DEF PipelineInv, TypeOK
    <3> QED BY <2>1, <3>1, ReportType DEF WorkerRejects, Results!ReportError
  <2> QED BY <1>1, <1>3, <2>1 DEF WorkerStep, Silent
<1>4. ASSUME NEW s \in Streams, StreamStep(s) PROVE Results!TypeOK'
  <2>1. CASE PinFails(s)
    BY <2>1, ReportType DEF PinFails, Results!ReportError, NoIndex
  <2>2. CASE StreamReports(s)
    <3>1. streamIdx[s] \in Int
      BY DEF PipelineInv, TypeOK
    <3> QED BY <2>2, <3>1, ReportType DEF StreamReports, Results!ReportSendFailure
  <2> QED BY <1>1, <1>4, <2>1, <2>2 DEF StreamStep, Silent
<1>5. CASE SenderCompletes
  <2>1. Results!Final(Len(payloads) - 1) \in Results!Outcomes
    <3>1. Len(payloads) \in Nat
      BY LenProperties DEF PipelineInv, TypeOK
    <3> QED BY <3>1 DEF Results!Final, Results!Outcomes
  <2>2. progressCh' = Results!Offered(progressCh, ProgressCap, Results!Final(Len(payloads) - 1))
    BY <1>5 DEF SenderCompletes, Results!PublishFinal
  <2>3. progressCh \in Seq(Results!Outcomes) /\ Len(progressCh) <= ProgressCap
        /\ ProgressCap \in Nat
    BY CapacitiesAssumption DEF Results!TypeOK
  <2>4. progressCh' \in Seq(Results!Outcomes) /\ Len(progressCh') <= ProgressCap
    BY <2>1, <2>2, <2>3, OfferedType
  <2> QED BY <1>5, <2>4 DEF SenderCompletes, Results!PublishFinal, Results!TypeOK
<1>6. CASE Results!HandlerReceives
  <2>1. errorCh \in Seq(Results!Outcomes) /\ errorCh # <<>> /\ Len(errorCh) <= ErrorCap
    BY <1>6 DEF Results!HandlerReceives, Results!TypeOK
  <2>2. /\ Head(errorCh) \in Results!Outcomes /\ Tail(errorCh) \in Seq(Results!Outcomes)
        /\ Len(Tail(errorCh)) = Len(errorCh) - 1 /\ Len(errorCh) \in Nat
    BY <2>1, HeadTailProperties, LenProperties
  <2>3. held' = <<Head(errorCh)>> /\ errorCh' = Tail(errorCh)
    BY <1>6 DEF Results!HandlerReceives, Results!OldestReport
  <2>4. held' \in Seq(Results!Outcomes) /\ Len(held') <= 1
    BY <2>2, <2>3
  <2>5. errorCh' \in Seq(Results!Outcomes) /\ Len(errorCh') <= ErrorCap
    BY <2>1, <2>2, <2>3, CapacitiesAssumption
  <2> QED BY <1>6, <2>4, <2>5 DEF Results!HandlerReceives, Results!TypeOK
<1>7. CASE Results!HandlerDelivers
  <2>1. held[1] \in Results!Outcomes
    <3>1. held \in Seq(Results!Outcomes) /\ held # <<>>
      BY <1>7 DEF Results!HandlerDelivers, Results!TypeOK
    <3> QED BY <3>1, EmptySeq, ElementOfSeq
  <2>2. held' \in Seq(Results!Outcomes) /\ Len(held') <= 1
    BY <1>7, EmptySeq DEF Results!HandlerDelivers
  <2>3. progressCh \in Seq(Results!Outcomes) /\ Len(progressCh) <= ProgressCap
        /\ ProgressCap \in Nat /\ packetsDropped \in Nat
    BY CapacitiesAssumption DEF Results!TypeOK
  <2>4. progressCh' \in Seq(Results!Outcomes) /\ Len(progressCh') <= ProgressCap
        /\ packetsDropped' \in Nat
    BY <1>7, <2>1, <2>3, OfferedType DEF Results!HandlerDelivers, Results!Overflow
  <2> QED BY <1>7, <2>2, <2>4 DEF Results!HandlerDelivers, Results!TypeOK
<1>8. CASE Results!GetBuffered
  BY <1>8, ReturnFirstType DEF Results!GetBuffered, Results!TypeOK
<1>9. CASE Results!GetAfterCompletion \/ Results!BeginFill
  BY <1>9 DEF Results!GetAfterCompletion, Results!BeginFill, Results!TypeOK
<1>10. CASE Results!Fill
  <2>1. /\ progressCh \in Seq(Results!Outcomes) /\ progressCh # <<>>
        /\ progressBuffer \in Seq(Results!Outcomes)
        /\ Len(progressCh) <= ProgressCap /\ Len(progressBuffer) < MaxResultsToBuffer
    BY <1>10 DEF Results!Fill, Results!TypeOK
  <2>2. /\ Head(progressCh) \in Results!Outcomes /\ Tail(progressCh) \in Seq(Results!Outcomes)
        /\ Len(Tail(progressCh)) = Len(progressCh) - 1 /\ Len(progressCh) \in Nat
    BY <2>1, HeadTailProperties, LenProperties
  <2>3. progressCh' \in Seq(Results!Outcomes) /\ Len(progressCh') <= ProgressCap
    BY <1>10, <2>1, <2>2, CapacitiesAssumption DEF Results!Fill
  <2>4. /\ progressBuffer' \in Seq(Results!Outcomes)
        /\ Len(progressBuffer') = Len(progressBuffer) + 1 /\ Len(progressBuffer) \in Nat
    BY <1>10, <2>1, <2>2, AppendProperties, LenProperties DEF Results!Fill
  <2>5. Len(progressBuffer') <= MaxResultsToBuffer
    BY <2>1, <2>4, CapacitiesAssumption
  <2> QED BY <1>10, <2>3, <2>4, <2>5 DEF Results!Fill, Results!TypeOK
<1>11. CASE Results!FinishFill
  <2>1. progressBuffer # <<>>
    BY <1>11, CapacitiesAssumption, EmptySeq DEF Results!FinishFill
  <2> QED BY <1>11, <2>1, ReturnFirstType DEF Results!FinishFill, Results!TypeOK
<1> QED
  BY <1>1, <1>2, <1>3, <1>4, <1>5, <1>6, <1>7, <1>8, <1>9, <1>10, <1>11
  DEF SenderNext, CompleterStep, HandlerStep, UserCalls, GetterStep, Silent,
      Results!HandlerNext, Results!GetCall, Results!GetterNext

\* The streams that could not pin their thread have gone on.
Pinned == unpinned \subseteq {s \in Streams : streamPc[s] \notin {"off", "pin"}}

\* A stream that could not pin its thread has gone on.
LEMMA PinnedKept ==
  ASSUME PipelineInv, Pinned, [SenderNext]_senderVars
  PROVE  Pinned'
<1>1. streamPc \in [Streams -> {"off", "pin", "receive", "token", "turn", "write",
                               "report", "advance", "count", "done"}]
  BY DEF PipelineInv, TypeOK
<1>2. ASSUME UNCHANGED <<unpinned, streamPc>> PROVE Pinned'
  BY <1>2 DEF Pinned
<1>3. CASE SetUp
  BY <1>2, <1>3 DEF SetUp, Silent, AddPayload, SetAdvancedConfig, streamVars
<1>4. CASE Silent(SendCall)
  <2>1. CASE Send \/ OpenFails \/ StartFeeding
    BY <1>2, <1>4, <2>1 DEF Silent, Send, OpenFails, StartFeeding, streamVars
  <2>2. ASSUME NEW s \in Streams, OpenStream(s) PROVE Pinned'
    BY <1>1, <1>4, <2>2 DEF Silent, OpenStream, Pinned
  <2> QED BY <1>4, <2>1, <2>2 DEF Silent, SendCall
<1>5. CASE Silent(FeederNext) \/ Silent(TurnstileNext) \/ CompleterStep
  BY <1>2, <1>5 DEF Silent, FeederNext, Feed, CloseRawCh, ClosePrepCh, TurnstileNext, TurnstileTick,
                    TurnstileExits, CompleterStep, SenderCompletes, CloseHandles,
                    PublishCompletion, streamVars
<1>6. ASSUME NEW w \in Workers, WorkerStep(w) PROVE Pinned'
  BY <1>2, <1>6 DEF WorkerStep, WorkerRejects, Silent, TakePayload, WorkerExits, RejectPayload,
                    EmitPacket, streamVars
<1>7. ASSUME NEW s \in Streams, StreamStep(s) PROVE Pinned'
  <2>1. \E to \in {"receive", "token", "turn", "write", "report", "advance", "count", "done"} :
          streamPc' = [streamPc EXCEPT ![s] = to]
    BY <1>7 DEF StreamStep, PinFails, StreamReports, Silent, PinStream, TakePacket, StreamExits,
                TakeToken, AwaitTurn, WritePacket, ReportFailure, Advance, CountPacket
  <2>2. unpinned' \in {unpinned, unpinned \cup {s}}
    BY <1>7 DEF StreamStep, PinFails, StreamReports, Silent
  <2> QED BY <1>1, <2>1, <2>2 DEF Pinned
<1>8. CASE HandlerStep \/ UserCalls \/ GetterStep \/ UNCHANGED senderVars
  BY <1>2, <1>8 DEF HandlerStep, UserCalls, GetterStep, senderVars, vars, streamVars
<1> QED BY <1>3, <1>4, <1>5, <1>6, <1>7, <1>8 DEF SenderNext

\* The types of a sender, for any capacities of its channels.
THEOREM SenderTypeCorrect == SenderSpec => []SenderTypeOK
<1>1. SenderInit => Results!TypeOK /\ Pinned
  BY ResultsInit DEF SenderInit, Pinned
<1>2. PipelineInv /\ Results!TypeOK /\ Pinned /\ [SenderNext]_senderVars
        => (Results!TypeOK /\ Pinned)'
  BY ResultsTypeKept, PinnedKept
<1>3. PipelineInv /\ Results!TypeOK /\ Pinned => SenderTypeOK
  BY DEF PipelineInv, SenderTypeOK, Pinned
<1> QED BY <1>1, <1>2, <1>3, SenderPipelineInv, PTL DEF SenderSpec

-----------------------------------------------------------------------------
(***************************************************************************)
(* The end of a sender.                                                    *)
(***************************************************************************)
\* Only the completer closes progressCh.
LEMMA WhoCloses ==
  ASSUME [SenderNext]_senderVars
  PROVE  \/ SenderCompletes
         \/ UNCHANGED <<channelClosed, completer>>
         \/ UNCHANGED channelClosed /\ (CloseHandles \/ StartFeeding)
<1> DEFINE Goal == \/ SenderCompletes
                   \/ UNCHANGED <<channelClosed, completer>>
                   \/ UNCHANGED channelClosed /\ (CloseHandles \/ StartFeeding)
<1>1. CASE SetUp \/ Silent(SendCall) \/ Silent(FeederNext) \/ Silent(TurnstileNext)
  BY <1>1 DEF SetUp, Silent, resultVars, AddPayload, SetAdvancedConfig, SendCall, Send, OpenFails,
              OpenStream, FeederNext, Feed, CloseRawCh, ClosePrepCh, TurnstileNext, TurnstileTick,
              TurnstileExits
<1>2. ASSUME NEW w \in Workers, WorkerStep(w) PROVE Goal
  BY <1>2 DEF WorkerStep, WorkerRejects, Results!ReportError, Results!Report, Silent, resultVars,
              TakePayload, WorkerExits, RejectPayload, EmitPacket
<1>3. ASSUME NEW s \in Streams, StreamStep(s) PROVE Goal
  BY <1>3 DEF StreamStep, PinFails, StreamReports, Results!ReportError, Results!ReportSendFailure,
              Results!Report, Silent, resultVars, PinStream, TakePacket, StreamExits, TakeToken,
              AwaitTurn, WritePacket, ReportFailure, Advance, CountPacket
<1>4. CASE CompleterStep
  BY <1>4 DEF CompleterStep, Silent, resultVars
<1>5. CASE HandlerStep \/ UserCalls \/ GetterStep
  BY <1>5 DEF HandlerStep, UserCalls, GetterStep, vars, Results!HandlerNext,
              Results!HandlerReceives, Results!HandlerDelivers, Results!GetCall,
              Results!GetBuffered, Results!GetAfterCompletion, Results!BeginFill,
              Results!GetterNext, Results!Fill, Results!FinishFill
<1>6. CASE UNCHANGED senderVars
  BY <1>6 DEF senderVars, vars, resultVars
<1> QED BY <1>1, <1>2, <1>3, <1>4, <1>5, <1>6 DEF SenderNext

\* isComplete and channelClosed are one, a GetNextResult never finds the channel
\* closed while it collects, and its nil is final (core/send_stream.go 280-302, 665-716).
THEOREM ClosedIsCompleteHolds == SenderSpec => []ClosedIsComplete
<1>1. SenderInit => ClosedIsComplete
  <2> SUFFICES ASSUME SenderInit PROVE ClosedIsComplete
    OBVIOUS
  <2>1. ~channelClosed /\ ~sawEnd /\ getter = "idle"
    BY DEF SenderInit, Results!Init
  <2>2. completer = "off"
    BY DEF SenderInit, Init
  <2> QED BY <2>1, <2>2 DEF ClosedIsComplete, IsComplete
<1>2. PipelineInv /\ ClosedIsComplete /\ [SenderNext]_senderVars => ClosedIsComplete'
  <2> SUFFICES ASSUME PipelineInv, ClosedIsComplete, [SenderNext]_senderVars
               PROVE  ClosedIsComplete'
    OBVIOUS
  <2>1. channelClosed' <=> IsComplete'
    <3>1. CASE SenderCompletes
      BY <3>1 DEF SenderCompletes, Results!PublishFinal, PublishCompletion, IsComplete
    <3>2. CASE UNCHANGED <<channelClosed, completer>>
      BY <3>2 DEF ClosedIsComplete, IsComplete
    <3>3. CASE UNCHANGED channelClosed /\ CloseHandles
      BY <3>3 DEF CloseHandles, ClosedIsComplete, IsComplete
    <3>4. CASE UNCHANGED channelClosed /\ StartFeeding
      BY <3>4 DEF StartFeeding, ClosedIsComplete, IsComplete, PipelineInv, Shutdown
    <3> QED BY <3>1, <3>2, <3>3, <3>4, WhoCloses
  <2>2. /\ getter' = "filling" => ~channelClosed'
        /\ sawEnd' => channelClosed' /\ progressBuffer' = <<>>
    <3> DEFINE Goal == /\ getter' = "filling" => ~channelClosed'
                       /\ sawEnd' => channelClosed' /\ progressBuffer' = <<>>
    <3>1. ASSUME UNCHANGED <<getter, channelClosed, sawEnd, progressBuffer>> PROVE Goal
      BY <3>1 DEF ClosedIsComplete
    <3>2. CASE SenderCompletes
      <4>1. getter' = "idle" /\ channelClosed' = TRUE /\ UNCHANGED <<sawEnd, progressBuffer>>
        BY <3>2 DEF SenderCompletes, Results!PublishFinal, Results!MutexFree
      <4> QED BY <4>1 DEF ClosedIsComplete
    <3>3. CASE Results!GetBuffered
      BY <3>3 DEF Results!GetBuffered, Results!MutexFree, ClosedIsComplete
    <3>4. CASE Results!GetAfterCompletion
      BY <3>4 DEF Results!GetAfterCompletion, Results!MutexFree
    <3>5. CASE Results!BeginFill
      BY <3>5 DEF Results!BeginFill, ClosedIsComplete
    <3>6. CASE Results!Fill \/ Results!FinishFill
      <4>1. ~channelClosed /\ ~sawEnd /\ UNCHANGED <<channelClosed, sawEnd>>
        BY <3>6 DEF Results!Fill, Results!FinishFill, ClosedIsComplete
      <4> QED BY <4>1
    <3>7. CASE SetUp \/ Silent(SendCall) \/ Silent(FeederNext) \/ Silent(TurnstileNext)
               \/ UNCHANGED senderVars \/ Silent(CloseHandles)
      BY <3>1, <3>7 DEF SetUp, Silent, senderVars, resultVars
    <3>8. ASSUME NEW w \in Workers, WorkerStep(w) PROVE Goal
      BY <3>1, <3>8 DEF WorkerStep, WorkerRejects, Results!ReportError, Results!Report, Silent,
                        resultVars
    <3>9. ASSUME NEW s \in Streams, StreamStep(s) PROVE Goal
      BY <3>1, <3>9 DEF StreamStep, PinFails, StreamReports, Results!ReportError,
                        Results!ReportSendFailure, Results!Report, Silent, resultVars
    <3>10. CASE HandlerStep
      BY <3>1, <3>10 DEF HandlerStep, Results!HandlerNext, Results!HandlerReceives,
                         Results!HandlerDelivers
    <3> QED
      BY <3>2, <3>3, <3>4, <3>5, <3>6, <3>7, <3>8, <3>9, <3>10
      DEF SenderNext, CompleterStep, UserCalls, GetterStep, Results!GetCall, Results!GetterNext
  <2> QED BY <2>1, <2>2 DEF ClosedIsComplete
<1> QED BY <1>1, <1>2, SenderPipelineInv, PTL DEF SenderSpec

\* Nobody sends on the closed progressCh, so nobody panics (core/send_stream.go 90-103, 280-302).
THEOREM NoSendOnClosedProgressHolds == SenderSpec => NoSendOnClosedProgress
<1>1. ASSUME PipelineInv, ClosedIsComplete, Results!TypeOK, [SenderNext]_senderVars,
             channelClosed
      PROVE  Len(progressCh') <= Len(progressCh)
  <2>1. Len(progressCh) \in Nat
    BY <1>1, LenProperties DEF Results!TypeOK
  <2>2. CASE UNCHANGED progressCh
    BY <2>1, <2>2
  <2>3. ~SenderCompletes
    BY <1>1 DEF SenderCompletes, PublishCompletion, ClosedIsComplete, IsComplete
  <2>4. CASE Results!HandlerDelivers
    BY <1>1, <2>2, <2>4 DEF Results!HandlerDelivers, Results!AcceptsResults
  <2>5. CASE Results!Fill
    BY <1>1, <2>5 DEF Results!Fill, ClosedIsComplete
  <2>6. CASE SetUp \/ Silent(SendCall) \/ Silent(FeederNext) \/ Silent(TurnstileNext)
             \/ UNCHANGED senderVars \/ Silent(CloseHandles)
    BY <2>2, <2>6 DEF SetUp, Silent, senderVars, resultVars
  <2>7. ASSUME NEW w \in Workers, WorkerStep(w) PROVE UNCHANGED progressCh
    BY <2>7 DEF WorkerStep, WorkerRejects, Results!ReportError, Results!Report, Silent, resultVars
  <2>8. ASSUME NEW s \in Streams, StreamStep(s) PROVE UNCHANGED progressCh
    BY <2>8 DEF StreamStep, PinFails, StreamReports, Results!ReportError,
                Results!ReportSendFailure, Results!Report, Silent, resultVars
  <2>9. CASE Results!HandlerReceives \/ Results!GetCall \/ Results!FinishFill
    BY <2>2, <2>9 DEF Results!HandlerReceives, Results!GetCall, Results!GetBuffered,
                      Results!GetAfterCompletion, Results!BeginFill, Results!FinishFill
  <2> QED
    BY <1>1, <2>2, <2>3, <2>4, <2>5, <2>6, <2>7, <2>8, <2>9
    DEF SenderNext, CompleterStep, HandlerStep, UserCalls, GetterStep, Results!HandlerNext,
        Results!GetterNext
<1>2. SenderTypeOK => Results!TypeOK
  BY DEF SenderTypeOK
<1>3. PipelineInv /\ ClosedIsComplete /\ SenderTypeOK /\ [SenderNext]_senderVars
        => [channelClosed => Len(progressCh') <= Len(progressCh)]_senderVars
  BY <1>1, <1>2
<1> QED
  BY <1>3, SenderPipelineInv, SenderTypeCorrect, ClosedIsCompleteHolds, PTL
  DEF SenderSpec, NoSendOnClosedProgress

-----------------------------------------------------------------------------
(***************************************************************************)
(* Failed writes and their reports.                                        *)
(***************************************************************************)
\* The failed writes that are still to be reported.
Reporting == {streamIdx[s] : s \in {t \in Streams : streamPc[t] = "report"}}

FailuresInv ==
  /\ failed \subseteq Written
  /\ Reporting \subseteq failed
  /\ \A s, t \in Streams :
       streamPc[s] = "report" /\ streamPc[t] = "report" /\ streamIdx[s] = streamIdx[t] => s = t

\* Reported failures are those that no stream still has to report.
LEMMA ReportedIs == Reported = failed \ Reporting
BY DEF Reported, Reporting

\* A step that is neither a failed write nor its report.
LEMMA NoFailure ==
  ASSUME FailuresInv, UNCHANGED <<failed>>, Written \subseteq Written',
         \A s \in Streams : /\ streamPc'[s] = "report" <=> streamPc[s] = "report"
                            /\ streamPc[s] = "report" => streamIdx'[s] = streamIdx[s]
  PROVE  FailuresInv' /\ Reported' = Reported
<1>1. Reporting' = Reporting
  BY DEF Reporting
<1>2. Reported' = failed' \ Reporting'
  BY DEF Reported, Reporting
<1> QED BY <1>1, <1>2, ReportedIs DEF FailuresInv

\* Steps that leave streams and wire alone leave failures alone.
LEMMA NoStreamFails ==
  ASSUME FailuresInv, UNCHANGED <<failed, wire, streamPc, streamIdx>>
  PROVE  FailuresInv' /\ Reported' = Reported
BY NoFailure DEF Written

\* A write puts its packet on the wire for the first time.
LEMMA WriteIsNew ==
  ASSUME PipelineInv, NEW s \in Streams, NEW ok \in BOOLEAN, WritePacket(s, ok)
  PROVE  streamIdx[s] \in Int /\ streamIdx[s] \notin Written
         /\ Written' = Written \cup {streamIdx[s]}
<1>1. streamIdx[s] \in Int /\ wire \in Seq(Int) /\ IsInjective(wire)
  BY DEF PipelineInv, TypeOK, OneHolder
<1>2. streamIdx[s] \in Held
  BY DEF WritePacket, Held, Unwritten
<1>3. streamIdx[s] \notin Written
  BY <1>2 DEF PipelineInv, OnePlace
<1>4. Range(Append(wire, streamIdx[s])) = Range(wire) \cup {streamIdx[s]}
  BY <1>1, <1>3, AppendNew DEF Written
<1> QED BY <1>1, <1>3, <1>4 DEF WritePacket, Written

\* A write that fails has its report still to come.
LEMMA WriteKeepsFailures ==
  ASSUME PipelineInv, FailuresInv, NEW s \in Streams, NEW ok \in BOOLEAN, WritePacket(s, ok)
  PROVE  FailuresInv' /\ Reported' = Reported
<1> DEFINE i == streamIdx[s]
<1>1. i \notin Written /\ Written' = Written \cup {i}
  BY WriteIsNew
<1>2. streamPc \in [Streams -> {"off", "pin", "receive", "token", "turn", "write",
                               "report", "advance", "count", "done"}]
  BY DEF PipelineInv, TypeOK
<1>3. streamPc[s] = "write" /\ UNCHANGED streamIdx
  BY DEF WritePacket, streamVars
<1>4. CASE ok
  <2>1. streamPc' = [streamPc EXCEPT ![s] = "advance"] /\ failed' = failed
    BY <1>4 DEF WritePacket
  <2>2. \A t \in Streams : /\ streamPc'[t] = "report" <=> streamPc[t] = "report"
                           /\ streamIdx'[t] = streamIdx[t]
    BY <1>2, <1>3, <2>1
  <2> QED BY <1>1, <2>1, <2>2, NoFailure
<1>5. CASE ~ok
  <2>1. streamPc' = [streamPc EXCEPT ![s] = "report"] /\ failed' = failed \cup {i}
    BY <1>5 DEF WritePacket
  <2>2. \A t \in Streams : streamPc'[t] = "report" <=> streamPc[t] = "report" \/ t = s
    BY <1>2, <1>3, <2>1
  <2>3. Reporting' = Reporting \cup {i}
    BY <1>3, <2>2 DEF Reporting
  <2>4. i \notin failed
    BY <1>1 DEF FailuresInv
  <2>5. \A t \in Streams : streamPc[t] = "report" => streamIdx[t] # i
    BY <2>4 DEF FailuresInv, Reporting
  <2>6. Reported' = failed' \ Reporting'
    BY DEF Reported, Reporting
  <2>7. Reported' = Reported
    BY <2>1, <2>3, <2>4, <2>6, ReportedIs
  <2>8. \A t, u \in Streams : streamPc'[t] = "report" /\ streamPc'[u] = "report"
                              /\ streamIdx'[t] = streamIdx'[u] => t = u
    BY <1>3, <2>2, <2>5 DEF FailuresInv
  <2>9. failed' \subseteq Written' /\ Reporting' \subseteq failed'
    BY <1>1, <2>1, <2>3 DEF FailuresInv
  <2> QED BY <2>7, <2>8, <2>9 DEF FailuresInv
<1> QED BY <1>4, <1>5

\* A report is of a failure that had none.
LEMMA ReportSettlesFailure ==
  ASSUME PipelineInv, FailuresInv, NEW s \in Streams, ReportFailure(s)
  PROVE  /\ FailuresInv' /\ Reported' = Reported \cup {streamIdx[s]}
         /\ streamIdx[s] \in failed /\ streamIdx[s] \notin Reported
<1> DEFINE i == streamIdx[s]
<1>1. streamPc \in [Streams -> {"off", "pin", "receive", "token", "turn", "write",
                               "report", "advance", "count", "done"}]
  BY DEF PipelineInv, TypeOK
<1>2. /\ streamPc[s] = "report" /\ streamPc' = [streamPc EXCEPT ![s] = "advance"]
      /\ UNCHANGED <<streamIdx, wire, failed>>
  BY DEF ReportFailure, historyVars
<1>3. \A t \in Streams : streamPc'[t] = "report" <=> streamPc[t] = "report" /\ t # s
  BY <1>1, <1>2
<1>4. Reporting' = Reporting \ {i}
  BY <1>2, <1>3 DEF Reporting, FailuresInv
<1>5. i \in Reporting /\ i \in failed
  BY <1>2 DEF Reporting, FailuresInv
<1>6. Reported' = failed' \ Reporting'
  BY DEF Reported, Reporting
<1>7. Reported' = Reported \cup {i} /\ i \notin Reported
  BY <1>2, <1>4, <1>5, <1>6, ReportedIs
<1> QED BY <1>2, <1>3, <1>4, <1>5, <1>7 DEF FailuresInv, Written

\* The other steps of a stream.
LEMMA OtherStreamSteps ==
  ASSUME PipelineInv, FailuresInv, NEW s \in Streams,
         \/ PinStream(s) \/ TakePacket(s) \/ StreamExits(s) \/ TakeToken(s)
         \/ AwaitTurn(s) \/ Advance(s) \/ CountPacket(s)
  PROVE  FailuresInv' /\ Reported' = Reported
<1>1. streamPc \in [Streams -> {"off", "pin", "receive", "token", "turn", "write",
                               "report", "advance", "count", "done"}]
      /\ streamIdx \in [Streams -> Int]
  BY DEF PipelineInv, TypeOK
<1>2. streamPc[s] # "report" /\ UNCHANGED <<failed, wire>>
  BY DEF PinStream, TakePacket, StreamExits, TakeToken, AwaitTurn, Advance, CountPacket,
         historyVars
<1>3. \E to \in {"receive", "token", "turn", "write", "count", "done"} :
        streamPc' = [streamPc EXCEPT ![s] = to]
  BY DEF PinStream, TakePacket, StreamExits, TakeToken, AwaitTurn, Advance, CountPacket
<1>4. \E i \in Int : streamIdx' = [streamIdx EXCEPT ![s] = i]
  <2>1. CASE TakePacket(s)
    <3>1. Head(prepCh) \in Int
      BY <2>1, HeadTailProperties DEF TakePacket, PipelineInv, TypeOK
    <3> QED BY <2>1, <3>1 DEF TakePacket
  <2>2. CASE CountPacket(s)
    <3>1. NoIndex \in Int
      BY DEF NoIndex
    <3> QED BY <2>2, <3>1 DEF CountPacket
  <2>3. CASE UNCHANGED streamIdx
    <3>1. streamIdx' = [streamIdx EXCEPT ![s] = streamIdx[s]]
      BY <1>1, <2>3
    <3> QED BY <1>1, <3>1
  <2> QED BY <2>1, <2>2, <2>3 DEF PinStream, StreamExits, TakeToken, AwaitTurn, Advance
<1>5. \A t \in Streams : /\ streamPc'[t] = "report" <=> streamPc[t] = "report"
                         /\ streamPc[t] = "report" => streamIdx'[t] = streamIdx[t]
  BY <1>1, <1>2, <1>3, <1>4
<1>6. Written' = Written
  BY <1>2 DEF Written
<1> QED BY <1>2, <1>5, <1>6, NoFailure

-----------------------------------------------------------------------------
(***************************************************************************)
(* What a step does to the list of all results.                            *)
(***************************************************************************)
\* Concatenation with a name: the provers do better when they cannot look into it.
Joined(s, t) == s \o t

\* A concatenation is a sequence.
LEMMA JoinedType ==
  ASSUME NEW S, NEW s \in Seq(S), NEW t \in Seq(S)
  PROVE  Joined(s, t) \in Seq(S)
BY ConcatProperties DEF Joined

\* Concatenation is associative.
LEMMA JoinedAssociative ==
  ASSUME NEW S, NEW s \in Seq(S), NEW t \in Seq(S), NEW u \in Seq(S)
  PROVE  Joined(Joined(s, t), u) = Joined(s, Joined(t, u))
BY ConcatAssociative DEF Joined

\* Five sequences in a row, grouped as the results are and by halves.
LEMMA Regroup ==
  ASSUME NEW S, NEW a \in Seq(S), NEW b \in Seq(S), NEW c \in Seq(S), NEW d \in Seq(S),
         NEW e \in Seq(S)
  PROVE  /\ Joined(a, Joined(Joined(Joined(b, c), d), e))
              = Joined(Joined(Joined(a, b), c), Joined(d, e))
         /\ Joined(Joined(a, b), c) \in Seq(S) /\ Joined(d, e) \in Seq(S)
<1>1. /\ Joined(b, c) \in Seq(S) /\ Joined(d, e) \in Seq(S) /\ Joined(a, b) \in Seq(S)
      /\ Joined(Joined(a, b), c) \in Seq(S)
  BY JoinedType
<1> QED BY <1>1, JoinedAssociative

\* The head of the second sequence moves to the end of the first.
LEMMA HeadMoves ==
  ASSUME NEW S, NEW s \in Seq(S), NEW t \in Seq(S), t # <<>>
  PROVE  Append(s, Head(t)) \o Tail(t) = s \o t
<1>1. Head(t) \in S /\ Tail(t) \in Seq(S) /\ <<Head(t)>> \in Seq(S)
  BY HeadTailProperties
<1>2. Append(s, Head(t)) = s \o <<Head(t)>>
  BY <1>1, AppendIsConcat
<1>3. (s \o <<Head(t)>>) \o Tail(t) = s \o (<<Head(t)>> \o Tail(t))
  BY <1>1, ConcatAssociative
<1>4. <<Head(t)>> \o Tail(t) = t
  OBVIOUS
<1> QED BY <1>2, <1>3, <1>4

\* Appending to the second sequence appends to both.
LEMMA AppendBehind ==
  ASSUME NEW S, NEW s \in Seq(S), NEW t \in Seq(S), NEW e \in S
  PROVE  s \o Append(t, e) = Append(s \o t, e)
<1>1. <<e>> \in Seq(S) /\ s \o t \in Seq(S)
  BY ConcatProperties
<1>2. s \o (t \o <<e>>) = (s \o t) \o <<e>>
  BY <1>1, ConcatAssociative
<1> QED BY <1>1, <1>2, AppendIsConcat

\* A result that moves from the head of the second to the end of the first.
LEMMA HandedOn ==
  ASSUME NEW S, NEW s \in Seq(S), NEW t \in Seq(S), NEW e \in S
  PROVE  Append(s, e) \o t = s \o (<<e>> \o t)
<1>1. <<e>> \in Seq(S)
  OBVIOUS
<1>2. Append(s, e) = s \o <<e>>
  BY AppendIsConcat
<1>3. (s \o <<e>>) \o t = s \o (<<e>> \o t)
  BY <1>1, ConcatAssociative
<1> QED BY <1>2, <1>3

\* What has passed the error handler, and what is before it.
Delivered == (returned \o progressBuffer) \o progressCh
Waiting == held \o errorCh

\* All results are those delivered, then those waiting.
LEMMA TwoHalves ==
  ASSUME Results!TypeOK
  PROVE  /\ AllResults = Delivered \o Waiting
         /\ Delivered \in Seq(Results!Outcomes) /\ Waiting \in Seq(Results!Outcomes)
         /\ AllResults \in Seq(Results!Outcomes)
<1> DEFINE R == Results!Outcomes
<1>1. /\ returned \in Seq(R) /\ progressBuffer \in Seq(R) /\ progressCh \in Seq(R)
      /\ held \in Seq(R) /\ errorCh \in Seq(R)
  BY DEF Results!TypeOK
<1>2. AllResults = Delivered \o Waiting /\ Delivered \in Seq(R) /\ Waiting \in Seq(R)
  <2>1. Joined(returned, Joined(Joined(Joined(progressBuffer, progressCh), held), errorCh))
          = Joined(Joined(Joined(returned, progressBuffer), progressCh), Joined(held, errorCh))
    BY <1>1, Regroup
  <2>2. Joined(returned, progressBuffer) \in Seq(R) /\ Joined(held, errorCh) \in Seq(R)
    BY <1>1, JoinedType
  <2>3. Joined(Joined(returned, progressBuffer), progressCh) \in Seq(R)
    BY <1>1, <2>2, JoinedType
  <2> QED BY <2>1, <2>2, <2>3, Zenon
      DEF AllResults, Results!InTransit, Delivered, Waiting, Joined
<1>3. Joined(Delivered, Waiting) \in Seq(R)
  BY <1>2, JoinedType
<1> QED BY <1>2, <1>3 DEF Joined

\* So they are after a step.
LEMMA TwoHalvesNext ==
  ASSUME Results!TypeOK'
  PROVE  AllResults' = Delivered' \o Waiting'
<1> DEFINE R == Results!Outcomes
<1>1. /\ returned' \in Seq(R) /\ progressBuffer' \in Seq(R) /\ progressCh' \in Seq(R)
      /\ held' \in Seq(R) /\ errorCh' \in Seq(R)
  BY DEF Results!TypeOK
<1>2. Joined(returned', Joined(Joined(Joined(progressBuffer', progressCh'), held'), errorCh'))
        = Joined(Joined(Joined(returned', progressBuffer'), progressCh'), Joined(held', errorCh'))
  BY <1>1, Regroup
<1> QED BY <1>2, Zenon DEF AllResults, Results!InTransit, Delivered, Waiting, Joined

\* A report comes last, or is only counted.
LEMMA ReportComesLast ==
  ASSUME Results!TypeOK, Results!TypeOK', NEW i \in Int, NEW extra \in Nat,
         Results!Report(i, extra)
  PROVE  \/ /\ AllResults' = Append(AllResults, Results!Failure(i))
            /\ packetsDropped' = packetsDropped + extra
         \/ /\ AllResults' = AllResults
            /\ packetsDropped' = packetsDropped + 1 + extra
<1>1. /\ Delivered' = Delivered /\ UNCHANGED held
      /\ errorCh' = Results!Offered(errorCh, ErrorCap, Results!Failure(i))
      /\ packetsDropped' = packetsDropped + Results!Overflow(errorCh, ErrorCap) + extra
      /\ packetsDropped \in Nat
  BY DEF Results!Report, Delivered, Results!TypeOK
<1>2. AllResults = Delivered \o Waiting /\ AllResults' = Delivered' \o Waiting'
  BY TwoHalves, TwoHalvesNext
<1>3. CASE Len(errorCh) < ErrorCap
  <2>1. errorCh' = Append(errorCh, Results!Failure(i)) /\ packetsDropped' = packetsDropped + extra
    BY <1>1, <1>3 DEF Results!Offered, Results!Overflow
  <2>2. Results!Failure(i) \in Results!Outcomes
    BY DEF Results!Failure, Results!Outcomes
  <2>3. Waiting' = Append(Waiting, Results!Failure(i))
    <3>1. held \in Seq(Results!Outcomes) /\ errorCh \in Seq(Results!Outcomes)
      BY DEF Results!TypeOK
    <3>2. held \o Append(errorCh, Results!Failure(i)) = Append(held \o errorCh, Results!Failure(i))
      BY <2>2, <3>1, AppendBehind
    <3> QED BY <1>1, <2>1, <3>2 DEF Waiting
  <2>4. AllResults' = Append(AllResults, Results!Failure(i))
    BY <1>1, <1>2, <2>2, <2>3, TwoHalves, AppendBehind
  <2> QED BY <2>1, <2>4
<1>4. CASE ~(Len(errorCh) < ErrorCap)
  <2>1. errorCh' = errorCh /\ packetsDropped' = packetsDropped + 1 + extra
    BY <1>1, <1>4 DEF Results!Offered, Results!Overflow
  <2> QED BY <1>1, <1>2, <2>1 DEF Waiting
<1> QED BY <1>3, <1>4

\* Where a result is does not matter for the list.
LEMMA ResultsMoveOn ==
  ASSUME Results!TypeOK, Results!TypeOK',
         Results!HandlerReceives \/ Results!GetCall \/ Results!GetterNext
  PROVE  AllResults' = AllResults /\ UNCHANGED packetsDropped
<1> DEFINE R == Results!Outcomes
<1>1. AllResults = Delivered \o Waiting /\ AllResults' = Delivered' \o Waiting'
  BY TwoHalves, TwoHalvesNext
<1>2. CASE Results!HandlerReceives
  <2>1. Delivered' = Delivered /\ UNCHANGED packetsDropped
    BY <1>2 DEF Results!HandlerReceives, Delivered
  <2>2. held = <<>> /\ errorCh # <<>> /\ held' = <<Head(errorCh)>> /\ errorCh' = Tail(errorCh)
    BY <1>2 DEF Results!HandlerReceives, Results!OldestReport
  <2>3. held \in Seq(R) /\ errorCh \in Seq(R)
    BY DEF Results!TypeOK
  <2>4. Append(held, Head(errorCh)) \o Tail(errorCh) = held \o errorCh
    BY <2>2, <2>3, HeadMoves
  <2>5. Append(held, Head(errorCh)) = <<Head(errorCh)>>
    BY <2>2
  <2> QED BY <1>1, <2>1, <2>2, <2>4, <2>5 DEF Waiting
<1>3. ASSUME Results!ReturnFirst, progressBuffer # <<>>,
             UNCHANGED <<progressCh, held, errorCh, packetsDropped>>
      PROVE  AllResults' = AllResults /\ UNCHANGED packetsDropped
  <2>1. returned \in Seq(R) /\ progressBuffer \in Seq(R)
    BY DEF Results!TypeOK
  <2>2. returned' \o progressBuffer' = returned \o progressBuffer
    BY <1>3, <2>1, HeadMoves DEF Results!ReturnFirst
  <2> QED BY <1>1, <1>3, <2>2 DEF Delivered, Waiting
<1>4. CASE Results!GetBuffered
  BY <1>3, <1>4 DEF Results!GetBuffered
<1>5. CASE Results!FinishFill
  <2>1. progressBuffer # <<>>
    BY <1>5, CapacitiesAssumption, EmptySeq DEF Results!FinishFill
  <2> QED BY <1>3, <1>5, <2>1 DEF Results!FinishFill
<1>6. CASE Results!GetAfterCompletion \/ Results!BeginFill
  BY <1>1, <1>6 DEF Results!GetAfterCompletion, Results!BeginFill, Delivered, Waiting
<1>7. CASE Results!Fill
  <2>1. /\ progressCh # <<>> /\ progressBuffer' = Append(progressBuffer, Head(progressCh))
        /\ progressCh' = Tail(progressCh)
        /\ UNCHANGED <<returned, held, errorCh, packetsDropped>>
    BY <1>7 DEF Results!Fill
  <2>2. /\ returned \in Seq(R) /\ progressBuffer \in Seq(R) /\ progressCh \in Seq(R)
        /\ progressBuffer' \in Seq(R) /\ progressCh' \in Seq(R)
    BY <2>1 DEF Results!TypeOK
  <2>3. progressBuffer' \o progressCh' = progressBuffer \o progressCh
    BY <2>1, <2>2, HeadMoves
  <2>4. Joined(Joined(returned, progressBuffer), progressCh)
          = Joined(returned, Joined(progressBuffer, progressCh))
    BY <2>2, JoinedAssociative
  <2>5. Joined(Joined(returned, progressBuffer'), progressCh')
          = Joined(returned, Joined(progressBuffer', progressCh'))
    BY <2>2, JoinedAssociative
  <2>6. Joined(progressBuffer', progressCh') = Joined(progressBuffer, progressCh)
    BY <2>3 DEF Joined
  <2>7. Delivered' = Delivered
    BY <2>1, <2>4, <2>5, <2>6 DEF Delivered, Joined
  <2> QED BY <1>1, <2>1, <2>7 DEF Waiting
<1> QED BY <1>2, <1>4, <1>5, <1>6, <1>7 DEF Results!GetCall, Results!GetterNext

\* The error handler delivers its report or drops it, and counts that while the channel
\* is open.
LEMMA HandlerDrops ==
  ASSUME Results!TypeOK, Results!TypeOK', Results!HandlerDelivers
  PROVE  \/ AllResults' = AllResults /\ UNCHANGED packetsDropped
         \/ /\ AllResults = Delivered \o (<<held[1]>> \o errorCh)
            /\ AllResults' = Delivered \o errorCh
            /\ ~channelClosed => packetsDropped' = packetsDropped + 1
<1> DEFINE R == Results!Outcomes
<1>1. AllResults = Delivered \o Waiting /\ AllResults' = Delivered' \o Waiting'
  BY TwoHalves, TwoHalvesNext
<1>2. /\ held \in Seq(R) /\ held # <<>> /\ Len(held) <= 1 /\ errorCh \in Seq(R)
      /\ progressCh \in Seq(R) /\ returned \o progressBuffer \in Seq(R)
  BY ConcatProperties DEF Results!HandlerDelivers, Results!TypeOK
<1>3. held[1] \in R /\ held = <<held[1]>>
  <2>1. Len(held) = 1
    BY <1>2, EmptySeq
  <2>2. held[1] \in R
    BY <1>2, <2>1, ElementOfSeq
  <2>3. <<held[1]>> \in Seq(R) /\ Len(<<held[1]>>) = 1 /\ \A k \in 1..1 : held[k] = <<held[1]>>[k]
    BY <2>2
  <2> QED BY <1>2, <2>1, <2>2, <2>3, SeqEqual
<1>4. Waiting = <<held[1]>> \o errorCh
  BY <1>3 DEF Waiting
<1>5. Waiting' = errorCh
  <2>1. held' = <<>> /\ errorCh' = errorCh
    BY DEF Results!HandlerDelivers
  <2> QED BY <1>2, <2>1, ConcatEmptySeq DEF Waiting
<1>6. UNCHANGED <<returned, progressBuffer>>
  BY DEF Results!HandlerDelivers
<1>7. CASE progressCh' = Append(progressCh, held[1]) /\ UNCHANGED packetsDropped
  <2>1. Delivered' = Append(Delivered, held[1])
    BY <1>2, <1>3, <1>6, <1>7, AppendBehind DEF Delivered
  <2>2. Delivered \in Seq(R) /\ <<held[1]>> \in Seq(R)
    BY <1>3, TwoHalves
  <2>3. Append(Delivered, held[1]) \o errorCh = Delivered \o (<<held[1]>> \o errorCh)
    BY <1>2, <1>3, <2>2, HandedOn, SMTT(30)
  <2> QED BY <1>1, <1>4, <1>5, <1>7, <2>1, <2>3
<1>8. CASE UNCHANGED progressCh /\ (~channelClosed => packetsDropped' = packetsDropped + 1)
  <2>1. Delivered' = Delivered
    BY <1>6, <1>8 DEF Delivered
  <2> QED BY <1>1, <1>4, <1>5, <1>8, <2>1
<1>9. \/ progressCh' = Append(progressCh, held[1]) /\ UNCHANGED packetsDropped
      \/ UNCHANGED progressCh /\ (~channelClosed => packetsDropped' = packetsDropped + 1)
  <2>1. packetsDropped \in Nat
    BY DEF Results!TypeOK
  <2> QED BY <2>1 DEF Results!HandlerDelivers, Results!AcceptsResults, Results!Offered,
                      Results!Overflow
<1> QED BY <1>7, <1>8, <1>9

\* The final result goes in between, unless progressCh is full.
LEMMA FinalGoesIn ==
  ASSUME Results!TypeOK, Results!TypeOK', NEW i \in Int, Results!PublishFinal(i)
  PROVE  \/ AllResults' = AllResults
         \/ AllResults' = Append(Delivered, Results!Final(i)) \o Waiting
<1>1. AllResults = Delivered \o Waiting /\ AllResults' = Delivered' \o Waiting'
  BY TwoHalves, TwoHalvesNext
<1>2. Waiting' = Waiting /\ UNCHANGED <<returned, progressBuffer>>
  BY DEF Results!PublishFinal, Waiting
<1>3. CASE progressCh' = Append(progressCh, Results!Final(i))
  <2>1. Results!Final(i) \in Results!Outcomes
    BY DEF Results!Final, Results!Outcomes
  <2>2. returned \o progressBuffer \in Seq(Results!Outcomes) /\ progressCh \in Seq(Results!Outcomes)
    BY ConcatProperties DEF Results!TypeOK
  <2>3. Delivered' = Append(Delivered, Results!Final(i))
    BY <1>2, <1>3, <2>1, <2>2, AppendBehind DEF Delivered
  <2> QED BY <1>1, <1>2, <2>3
<1>4. CASE UNCHANGED progressCh
  BY <1>1, <1>2, <1>4 DEF Delivered
<1> QED BY <1>3, <1>4 DEF Results!PublishFinal, Results!Offered

-----------------------------------------------------------------------------
(***************************************************************************)
(* No error goes missing, and the results are true.                        *)
(***************************************************************************)
LEMMA WithAndWithout ==
  ASSUME NEW S, NEW a \in Seq(S), NEW b \in Seq(S), NEW x \in S,
         NEW with, with = a \o (<<x>> \o b),
         NEW without, without = a \o b
  PROVE  /\ DOMAIN with = 1..Len(with) /\ DOMAIN without = 1..Len(without)
         /\ Len(without) \in Nat /\ Len(with) = Len(without) + 1
         /\ Len(a) \in 0..Len(without) /\ with[Len(a) + 1] = x
         /\ \A k \in 1..Len(a) : with[k] = without[k]
         /\ \A k \in (Len(a) + 1)..Len(without) : with[k + 1] = without[k]
<1>1. <<x>> \in Seq(S) /\ Len(<<x>>) = 1 /\ <<x>>[1] = x
  OBVIOUS
<1>2. Len(a) \in Nat /\ Len(b) \in Nat
  BY LenProperties
<1> DEFINE xb == <<x>> \o b
<1>3. /\ xb \in Seq(S) /\ Len(xb) = 1 + Len(b)
      /\ \A k \in 1..(1 + Len(b)) : xb[k] = IF k <= 1 THEN <<x>>[k] ELSE b[k - 1]
  BY <1>1, ConcatProperties
<1> HIDE DEF xb
<1>4. /\ a \o xb \in Seq(S) /\ Len(a \o xb) = Len(a) + Len(xb)
      /\ \A k \in 1..(Len(a) + Len(xb)) :
           (a \o xb)[k] = IF k <= Len(a) THEN a[k] ELSE xb[k - Len(a)]
  BY <1>3, ConcatProperties
<1>5. with = a \o xb
  BY DEF xb
<1>6. /\ a \o b \in Seq(S) /\ Len(a \o b) = Len(a) + Len(b)
      /\ \A k \in 1..(Len(a) + Len(b)) :
           (a \o b)[k] = IF k <= Len(a) THEN a[k] ELSE b[k - Len(a)]
  BY ConcatProperties
<1>7. DOMAIN with = 1..Len(with) /\ DOMAIN without = 1..Len(without)
  BY <1>4, <1>5, <1>6, LenProperties
<1>8. Len(with) = Len(a) + Len(b) + 1 /\ Len(without) = Len(a) + Len(b)
  BY <1>2, <1>3, <1>4, <1>5, <1>6
<1>9. /\ \A k \in 1..(Len(a) + Len(b) + 1) : with[k] = IF k <= Len(a) THEN a[k] ELSE xb[k - Len(a)]
      /\ \A k \in 1..(Len(a) + Len(b)) : without[k] = IF k <= Len(a) THEN a[k] ELSE b[k - Len(a)]
  BY <1>2, <1>3, <1>4, <1>5, <1>6
<1>10. with[Len(a) + 1] = x
  <2>1. with[Len(a) + 1] = xb[1]
    <3>1. Len(a) + 1 \in 1..(Len(a) + Len(b) + 1) /\ ~(Len(a) + 1 <= Len(a))
          /\ Len(a) + 1 - Len(a) = 1
      BY <1>2
    <3> QED BY <1>9, <3>1
  <2> QED BY <1>1, <1>2, <1>3, <2>1
<1>11. \A k \in 1..Len(a) : with[k] = without[k]
  BY <1>2, <1>9
<1>12. ASSUME NEW k \in (Len(a) + 1)..Len(without) PROVE with[k + 1] = without[k]
  <2> DEFINE m == k + 1
  <2>1. with[m] = xb[m - Len(a)] /\ without[k] = b[k - Len(a)]
    <3>1. /\ k \in 1..(Len(a) + Len(b)) /\ ~(k <= Len(a))
          /\ m \in 1..(Len(a) + Len(b) + 1) /\ ~(m <= Len(a))
      BY <1>2, <1>8, <1>12
    <3> HIDE DEF m
    <3>2. with[m] = xb[m - Len(a)]
      BY <1>9, <3>1
    <3>3. without[k] = b[k - Len(a)]
      BY <1>9, <3>1
    <3> QED BY <3>2, <3>3
  <2>2. xb[k + 1 - Len(a)] = b[k + 1 - Len(a) - 1] /\ k + 1 - Len(a) - 1 = k - Len(a)
    BY <1>2, <1>3, <1>8
  <2> QED BY <2>1, <2>2
<1> QED BY <1>2, <1>7, <1>8, <1>10, <1>11, <1>12

\* What the account counts is finite.
LEMMA FiniteParts ==
  ASSUME PipelineInv, FailuresInv, Pinned
  PROVE  /\ IsFiniteSet(rejected) /\ Cardinality(rejected) \in Nat
         /\ IsFiniteSet(Reported) /\ Cardinality(Reported) \in Nat
         /\ IsFiniteSet(unpinned) /\ Cardinality(unpinned) \in Nat
<1>1. IsFiniteSet(0 .. taken - 1)
  <2>1. taken \in Int
    <3>1. Len(payloads) \in Nat
      BY LenProperties DEF PipelineInv, TypeOK
    <3> QED BY <3>1 DEF PipelineInv, TypeOK
  <2> QED BY <2>1, FS_Interval
<1>2. rejected \subseteq 0 .. taken - 1 /\ Reported \subseteq 0 .. taken - 1
  BY DEF PipelineInv, NothingLost, FailuresInv, Reported
<1>3. unpinned \subseteq Streams
  BY DEF Pinned
<1> QED BY <1>1, <1>2, <1>3, FS_Subset, FS_CardinalityType, PartiesAssumption

\* Steps of all but the streams that report nothing leave the account alone.
LEMMA SilentSteps ==
  ASSUME PipelineInv, FailuresInv,
         \/ SetUp \/ Silent(SendCall) \/ Silent(FeederNext) \/ Silent(TurnstileNext)
         \/ CompleterStep \/ UNCHANGED <<vars, unpinned>>
         \/ \E w \in Workers : Silent(TakePayload(w) \/ WorkerExits(w) \/ EmitPacket(w))
  PROVE  FailuresInv' /\ Reported' = Reported /\ UNCHANGED <<rejected, unpinned>>
<1> DEFINE Goal == FailuresInv' /\ Reported' = Reported /\ UNCHANGED <<rejected, unpinned>>
<1>1. ASSUME UNCHANGED <<failed, wire, streamPc, streamIdx, rejected, unpinned>> PROVE Goal
  BY <1>1, NoStreamFails
<1>2. CASE SetUp
  BY <1>1, <1>2 DEF SetUp, Silent, AddPayload, SetAdvancedConfig, streamVars, historyVars
<1>3. CASE Silent(Send \/ OpenFails \/ StartFeeding)
  BY <1>1, <1>3 DEF Silent, Send, OpenFails, StartFeeding, streamVars, historyVars
<1>4. ASSUME NEW s \in Streams, Silent(OpenStream(s)) PROVE Goal
  <2>1. streamPc \in [Streams -> {"off", "pin", "receive", "token", "turn", "write",
                                 "report", "advance", "count", "done"}]
    BY DEF PipelineInv, TypeOK
  <2>2. /\ streamPc[s] = "off" /\ UNCHANGED <<streamIdx, failed, wire, rejected, unpinned>>
        /\ \E to \in {"pin", "receive"} : streamPc' = [streamPc EXCEPT ![s] = to]
    BY <1>4 DEF Silent, OpenStream, historyVars
  <2>3. \A t \in Streams : streamPc'[t] = "report" <=> streamPc[t] = "report"
    BY <2>1, <2>2
  <2> QED BY <2>2, <2>3, NoFailure DEF Written
<1>5. CASE Silent(FeederNext) \/ Silent(TurnstileNext) \/ CompleterStep
  BY <1>1, <1>5 DEF Silent, FeederNext, Feed, CloseRawCh, ClosePrepCh, TurnstileNext, TurnstileTick,
                    TurnstileExits, CompleterStep, SenderCompletes, CloseHandles,
                    PublishCompletion, streamVars, historyVars
<1>6. CASE UNCHANGED <<vars, unpinned>>
  BY <1>1, <1>6 DEF vars, streamVars, historyVars
<1>7. ASSUME NEW w \in Workers, Silent(TakePayload(w) \/ WorkerExits(w) \/ EmitPacket(w)) PROVE Goal
  BY <1>1, <1>7 DEF Silent, TakePayload, WorkerExits, EmitPacket, streamVars, historyVars
<1>8. Silent(SendCall) => \/ Silent(Send \/ OpenFails \/ StartFeeding)
                          \/ \E s \in Streams : Silent(OpenStream(s))
  BY DEF Silent, SendCall
<1> QED BY <1>2, <1>3, <1>4, <1>5, <1>6, <1>7, <1>8

\* So do those of the streams.
LEMMA SilentStreams ==
  ASSUME PipelineInv, FailuresInv, NEW s \in Streams,
         Silent(\/ PinStream(s) \/ TakePacket(s) \/ StreamExits(s) \/ TakeToken(s)
                \/ AwaitTurn(s) \/ Advance(s) \/ CountPacket(s)
                \/ \E ok \in BOOLEAN : WritePacket(s, ok))
  PROVE  FailuresInv' /\ Reported' = Reported /\ UNCHANGED <<rejected, unpinned>>
<1>1. FailuresInv' /\ Reported' = Reported
  BY OtherStreamSteps, WriteKeepsFailures DEF Silent
<1>2. UNCHANGED <<rejected, unpinned>>
  BY DEF Silent, PinStream, TakePacket, StreamExits, TakeToken, AwaitTurn, Advance, CountPacket,
         WritePacket, historyVars
<1> QED BY <1>1, <1>2

\* A refused payload is new, it was with the worker only.
LEMMA RefusedIsNew ==
  ASSUME PipelineInv, FailuresInv, NEW w \in Workers, WorkerRejects(w)
  PROVE  /\ FailuresInv' /\ Reported' = Reported /\ UNCHANGED unpinned
         /\ rejected' = rejected \cup {workerIdx[w]} /\ workerIdx[w] \in Int
         /\ workerIdx[w] \notin rejected \cup Reported
<1>1. workerIdx[w] \in Preparing /\ workerIdx[w] \in Int
  BY DEF WorkerRejects, RejectPayload, Preparing, PipelineInv, TypeOK
<1>2. workerIdx[w] \notin rejected \cup Written
  BY <1>1 DEF PipelineInv, OnePlace
<1>3. FailuresInv' /\ Reported' = Reported
  BY NoStreamFails DEF WorkerRejects, RejectPayload, streamVars
<1> QED BY <1>1, <1>2, <1>3 DEF WorkerRejects, RejectPayload, FailuresInv, Reported

\* A stream fails to pin its thread once.
LEMMA PinFailureIsNew ==
  ASSUME PipelineInv, FailuresInv, Pinned, NEW s \in Streams, PinFails(s)
  PROVE  /\ FailuresInv' /\ Reported' = Reported /\ UNCHANGED rejected
         /\ unpinned' = unpinned \cup {s} /\ s \notin unpinned
<1>1. FailuresInv' /\ Reported' = Reported
  BY OtherStreamSteps DEF PinFails
<1> QED BY <1>1 DEF PinFails, PinStream, historyVars, Pinned

\* A failed write is reported once.
LEMMA ReportedIsNew ==
  ASSUME PipelineInv, FailuresInv, NEW s \in Streams, StreamReports(s)
  PROVE  /\ FailuresInv' /\ UNCHANGED <<rejected, unpinned>>
         /\ Reported' = Reported \cup {streamIdx[s]} /\ streamIdx[s] \in Int
         /\ streamIdx[s] \notin rejected \cup Reported
<1>1. /\ FailuresInv' /\ Reported' = Reported \cup {streamIdx[s]}
      /\ streamIdx[s] \in failed /\ streamIdx[s] \notin Reported
  BY ReportSettlesFailure DEF StreamReports
<1>2. streamIdx[s] \notin rejected
  BY <1>1 DEF FailuresInv, PipelineInv, OnePlace
<1> QED BY <1>1, <1>2 DEF StreamReports, ReportFailure, historyVars, PipelineInv, TypeOK

-----------------------------------------------------------------------------
\* The account of errors, from one state to the next.
LEMMA AccountKept ==
  ASSUME PipelineInv, FailuresInv, Pinned, ClosedIsComplete, Results!TypeOK, Results!TypeOK',
         NoErrorMissing, [SenderNext]_senderVars, ~IsComplete'
  PROVE  NoErrorMissing' /\ FailuresInv'
<1> DEFINE R == Results!Outcomes
           Errors == \A k \in DOMAIN AllResults : AllResults[k].error
           C == Cardinality(rejected) + Cardinality(Reported) + Cardinality(unpinned)
<1>1. ~IsComplete
  <2>1. CASE SenderCompletes
    BY <2>1 DEF SenderCompletes, PublishCompletion, IsComplete
  <2>2. CASE CloseHandles \/ StartFeeding
    BY <2>2 DEF CloseHandles, StartFeeding, IsComplete, PipelineInv, Shutdown
  <2> QED BY <2>1, <2>2, WhoCloses DEF IsComplete
<1>2. Errors /\ C = Len(AllResults) + (packetsDropped - Cardinality(Reported))
  BY <1>1 DEF NoErrorMissing
<1>3. /\ AllResults \in Seq(R) /\ Len(AllResults) \in Nat /\ DOMAIN AllResults = 1..Len(AllResults)
      /\ packetsDropped \in Nat
  BY TwoHalves, LenProperties DEF Results!TypeOK
<1>4. /\ IsFiniteSet(rejected) /\ Cardinality(rejected) \in Nat
      /\ IsFiniteSet(Reported) /\ Cardinality(Reported) \in Nat
      /\ IsFiniteSet(unpinned) /\ Cardinality(unpinned) \in Nat
  BY FiniteParts
\* Nothing is reported.
<1>5. ASSUME FailuresInv', Reported' = Reported, UNCHANGED <<rejected, unpinned>>,
             AllResults' = AllResults, UNCHANGED packetsDropped
      PROVE  NoErrorMissing' /\ FailuresInv'
  BY <1>2, <1>5 DEF NoErrorMissing
\* Something is reported: one more on one side, one more on the other.
<1>6. ASSUME NEW i \in Int, NEW extra \in Nat, Results!Report(i, extra), FailuresInv',
             Cardinality(Reported') = Cardinality(Reported) + extra,
             Cardinality(rejected') + Cardinality(Reported') + Cardinality(unpinned') = C + 1
      PROVE  NoErrorMissing' /\ FailuresInv'
  <2>1. CASE /\ AllResults' = Append(AllResults, Results!Failure(i))
             /\ packetsDropped' = packetsDropped + extra
    <3>1. Results!Failure(i) \in R /\ Results!Failure(i).error
      BY DEF Results!Failure, Results!Outcomes
    <3>2. /\ Len(AllResults') = Len(AllResults) + 1 /\ AllResults' \in Seq(R)
          /\ \A k \in 1..Len(AllResults) : AllResults'[k] = AllResults[k]
          /\ AllResults'[Len(AllResults) + 1] = Results!Failure(i)
      BY <1>3, <2>1, <3>1, AppendProperties
    <3>3. DOMAIN AllResults' = 1..(Len(AllResults) + 1)
      BY <3>2, LenProperties
    <3>4. \A k \in DOMAIN AllResults' : AllResults'[k].error
      BY <1>2, <1>3, <3>1, <3>2, <3>3
    <3>5. Len(AllResults') + (packetsDropped' - Cardinality(Reported')) = C + 1
      <4>1. packetsDropped' - Cardinality(Reported') = packetsDropped - Cardinality(Reported)
        BY <1>3, <1>4, <1>6, <2>1
      <4> QED BY <1>2, <1>3, <1>4, <3>2, <4>1
    <3>6. Cardinality(rejected') + Cardinality(Reported') + Cardinality(unpinned')
            = Len(AllResults') + (packetsDropped' - Cardinality(Reported'))
      BY <1>6, <3>5
    <3> QED BY <1>6, <3>4, <3>6 DEF NoErrorMissing
  <2>2. CASE AllResults' = AllResults /\ packetsDropped' = packetsDropped + 1 + extra
    <3>1. Cardinality(rejected') + Cardinality(Reported') + Cardinality(unpinned')
            = Len(AllResults') + (packetsDropped' - Cardinality(Reported'))
      BY <1>2, <1>3, <1>4, <1>6, <2>2
    <3> QED BY <1>2, <1>6, <2>2, <3>1 DEF NoErrorMissing
  <2> QED BY <1>6, <2>1, <2>2, ReportComesLast
<1>7. ASSUME NEW w \in Workers, WorkerRejects(w) PROVE NoErrorMissing' /\ FailuresInv'
  <2>1. Cardinality(rejected') = Cardinality(rejected) + 1
    BY <1>4, <1>7, RefusedIsNew, FS_AddElement
  <2> QED BY <1>4, <1>6, <1>7, <2>1, RefusedIsNew DEF WorkerRejects, Results!ReportError
<1>8. ASSUME NEW s \in Streams, PinFails(s) PROVE NoErrorMissing' /\ FailuresInv'
  <2>1. Cardinality(unpinned') = Cardinality(unpinned) + 1
    BY <1>4, <1>8, PinFailureIsNew, FS_AddElement
  <2>2. NoIndex \in Int
    BY DEF NoIndex
  <2> QED BY <1>4, <1>6, <1>8, <2>1, <2>2, PinFailureIsNew DEF PinFails, Results!ReportError
<1>9. ASSUME NEW s \in Streams, StreamReports(s) PROVE NoErrorMissing' /\ FailuresInv'
  <2>1. Cardinality(Reported') = Cardinality(Reported) + 1
    BY <1>4, <1>9, ReportedIsNew, FS_AddElement
  <2> QED BY <1>4, <1>6, <1>9, <2>1, ReportedIsNew DEF StreamReports, Results!ReportSendFailure
<1>10. CASE HandlerStep \/ UserCalls \/ GetterStep
  <2>1. FailuresInv' /\ Reported' = Reported /\ UNCHANGED <<rejected, unpinned>>
    BY <1>10, SilentSteps DEF HandlerStep, UserCalls, GetterStep
  <2>2. CASE Results!HandlerReceives \/ Results!GetCall \/ Results!GetterNext
    BY <1>5, <2>1, <2>2, ResultsMoveOn
  <2>3. CASE Results!HandlerDelivers
    <3>1. CASE AllResults' = AllResults /\ UNCHANGED packetsDropped
      BY <1>5, <2>1, <3>1
    <3>2. CASE /\ AllResults = Delivered \o (<<held[1]>> \o errorCh)
               /\ AllResults' = Delivered \o errorCh
               /\ ~channelClosed => packetsDropped' = packetsDropped + 1
      <4>1. ~channelClosed
        BY <1>1 DEF ClosedIsComplete
      <4>2. held[1] \in R
        <5>1. held \in Seq(R) /\ held # <<>>
          BY <2>3 DEF Results!HandlerDelivers, Results!TypeOK
        <5> QED BY <5>1, EmptySeq, ElementOfSeq
      <4>3. Delivered \in Seq(R) /\ errorCh \in Seq(R)
        BY TwoHalves DEF Results!TypeOK
      <4>4. /\ DOMAIN AllResults' = 1..Len(AllResults') /\ Len(AllResults') \in Nat
            /\ Len(AllResults) = Len(AllResults') + 1 /\ Len(Delivered) \in 0..Len(AllResults')
            /\ \A k \in 1..Len(Delivered) : AllResults[k] = AllResults'[k]
            /\ \A k \in (Len(Delivered) + 1)..Len(AllResults') : AllResults[k + 1] = AllResults'[k]
        BY <3>2, <4>2, <4>3, WithAndWithout
      <4>5. \A k \in DOMAIN AllResults' : AllResults'[k].error
        <5> SUFFICES ASSUME NEW k \in DOMAIN AllResults' PROVE AllResults'[k].error
          OBVIOUS
        <5>1. CASE k \in 1..Len(Delivered)
          BY <1>2, <1>3, <4>4, <5>1
        <5>2. CASE k \in (Len(Delivered) + 1)..Len(AllResults')
          <6>1. k + 1 \in DOMAIN AllResults
            BY <1>3, <4>4, <5>2
          <6> QED BY <1>2, <4>4, <5>2, <6>1
        <5> QED BY <4>4, <5>1, <5>2
      <4>6. C = Len(AllResults') + (packetsDropped' - Cardinality(Reported))
        BY <1>2, <1>3, <1>4, <3>2, <4>1, <4>4
      <4> QED BY <2>1, <4>5, <4>6 DEF NoErrorMissing
    <3> QED BY <2>3, <3>1, <3>2, HandlerDrops
  <2> QED BY <1>10, <2>2, <2>3 DEF HandlerStep, UserCalls, GetterStep, Results!HandlerNext
<1>11. CASE UNCHANGED resultVars
  <2>1. AllResults' = AllResults /\ UNCHANGED packetsDropped
    BY <1>11 DEF resultVars, AllResults, Results!InTransit
  <2>2. CASE \/ SetUp \/ Silent(SendCall) \/ Silent(FeederNext) \/ Silent(TurnstileNext)
             \/ Silent(CloseHandles) \/ UNCHANGED senderVars
             \/ \E w \in Workers : Silent(TakePayload(w) \/ WorkerExits(w) \/ EmitPacket(w))
    BY <1>5, <2>1, <2>2, SilentSteps DEF CompleterStep, senderVars
  <2>3. ASSUME NEW s \in Streams,
               Silent(\/ PinStream(s) \/ TakePacket(s) \/ StreamExits(s) \/ TakeToken(s)
                      \/ AwaitTurn(s) \/ Advance(s) \/ CountPacket(s)
                      \/ \E ok \in BOOLEAN : WritePacket(s, ok))
        PROVE  NoErrorMissing' /\ FailuresInv'
    BY <1>5, <2>1, <2>3, SilentStreams
  <2>4. ~SenderCompletes
    BY DEF SenderCompletes, PublishCompletion, IsComplete
  <2> QED BY <1>7, <1>8, <1>9, <1>10, <2>2, <2>3, <2>4
      DEF SenderNext, WorkerStep, StreamStep, CompleterStep
<1>12. ~SenderCompletes
  BY DEF SenderCompletes, PublishCompletion, IsComplete
<1> QED BY <1>7, <1>8, <1>9, <1>10, <1>11, <1>12
    DEF SenderNext, SetUp, WorkerStep, StreamStep, CompleterStep, Silent, senderVars

\* Every step keeps failed writes tied to the streams that report them.
LEMMA FailuresKept ==
  ASSUME PipelineInv, FailuresInv, Pinned, [SenderNext]_senderVars
  PROVE  FailuresInv'
<1>1. CASE HandlerStep \/ UserCalls \/ GetterStep \/ SetUp \/ Silent(SendCall) \/ Silent(FeederNext)
           \/ Silent(TurnstileNext) \/ CompleterStep \/ UNCHANGED senderVars
  BY <1>1, SilentSteps DEF HandlerStep, UserCalls, GetterStep, senderVars
<1>2. ASSUME NEW w \in Workers, WorkerStep(w) PROVE FailuresInv'
  BY <1>2, SilentSteps, RefusedIsNew DEF WorkerStep
<1>3. ASSUME NEW s \in Streams, StreamStep(s) PROVE FailuresInv'
  BY <1>3, SilentStreams, PinFailureIsNew, ReportedIsNew DEF StreamStep
<1> QED BY <1>1, <1>2, <1>3 DEF SenderNext

\* There are no results and no failures at first.
LEMMA StartsEmpty ==
  ASSUME SenderInit
  PROVE  /\ FailuresInv /\ Pinned /\ Results!TypeOK
         /\ rejected = {} /\ Reported = {} /\ unpinned = {}
         /\ AllResults = <<>> /\ packetsDropped = 0
<1>1. failed = {} /\ rejected = {} /\ unpinned = {} /\ \A s \in Streams : streamPc[s] = "off"
  BY DEF SenderInit, Init
<1>2. FailuresInv /\ Reported = {} /\ Pinned
  BY <1>1 DEF FailuresInv, Reporting, Reported, Pinned
<1>3. /\ returned = <<>> /\ progressBuffer = <<>> /\ progressCh = <<>> /\ held = <<>>
      /\ errorCh = <<>> /\ packetsDropped = 0
  BY DEF SenderInit, Results!Init
<1>4. AllResults = <<>>
  <2>1. <<>> \in Seq(Results!Outcomes)
    BY EmptySeq
  <2>2. <<>> \o <<>> = <<>>
    BY <2>1, ConcatEmptySeq
  <2> QED BY <1>3, <2>2, Zenon DEF AllResults, Results!InTransit
<1> QED BY <1>1, <1>2, <1>3, <1>4, ResultsInit DEF SenderInit

\* Until completion every refused payload, failed write and unpinned stream has its
\* result with the user or on the way, or was counted (core/send_stream.go 86-104, 1017-1040):
\* reports are dropped at two full channels, and at neither without the counter.
THEOREM NoErrorMissingHolds == SenderSpec => []NoErrorMissing
<1>1. SenderInit => FailuresInv /\ Pinned /\ NoErrorMissing
  <2> SUFFICES ASSUME SenderInit PROVE FailuresInv /\ Pinned /\ NoErrorMissing
    OBVIOUS
  <2>1. Cardinality({}) = 0
    BY FS_EmptySet
  <2>2. Len(AllResults) = 0 /\ DOMAIN AllResults = {}
    BY StartsEmpty
  <2>3. /\ Cardinality(rejected) = 0 /\ Cardinality(Reported) = 0 /\ Cardinality(unpinned) = 0
        /\ packetsDropped = 0
    BY <2>1, StartsEmpty
  <2> QED BY <2>2, <2>3, StartsEmpty DEF NoErrorMissing
<1>2. /\ PipelineInv /\ FailuresInv /\ Pinned /\ ClosedIsComplete /\ SenderTypeOK /\ SenderTypeOK'
      /\ NoErrorMissing /\ [SenderNext]_senderVars
      => (FailuresInv /\ Pinned /\ NoErrorMissing)'
  <2> SUFFICES ASSUME PipelineInv, FailuresInv, Pinned, ClosedIsComplete, SenderTypeOK,
                      SenderTypeOK', NoErrorMissing, [SenderNext]_senderVars
               PROVE  FailuresInv' /\ Pinned' /\ NoErrorMissing'
    OBVIOUS
  <2>1. Results!TypeOK /\ Results!TypeOK'
    BY DEF SenderTypeOK
  <2>2. CASE ~IsComplete'
    BY <2>1, <2>2, AccountKept, PinnedKept
  <2>3. CASE IsComplete'
    BY <2>3, FailuresKept, PinnedKept DEF NoErrorMissing
  <2> QED BY <2>2, <2>3
<1> QED
  BY <1>1, <1>2, SenderPipelineInv, SenderTypeCorrect, ClosedIsCompleteHolds, PTL DEF SenderSpec

\* Failed writes are tied to the streams that report them.
LEMMA FailuresHold == SenderSpec => [](FailuresInv /\ Pinned)
<1>1. SenderInit => FailuresInv /\ Pinned
  BY StartsEmpty
<1>2. PipelineInv /\ FailuresInv /\ Pinned /\ [SenderNext]_senderVars => (FailuresInv /\ Pinned)'
  BY FailuresKept, PinnedKept
<1> QED BY <1>1, <1>2, SenderPipelineInv, PTL DEF SenderSpec

-----------------------------------------------------------------------------
(***************************************************************************)
(* The errors of a list of results are about the packets of S, or none.    *)
(***************************************************************************)
ErrorsOf(q) == {k \in 1..Len(q) : q[k].error}

TrueIn(q, S) ==
  /\ \A k \in ErrorsOf(q) : q[k].index \in S \cup {NoIndex}
  /\ \A j, k \in ErrorsOf(q) : j # k => q[j].index # q[k].index \/ q[j].index = NoIndex

\* A list whose errors are found in a true list, each in a place of its own.
LEMMA TrueOfPart ==
  ASSUME NEW q, NEW p, NEW S, NEW T, S \subseteq T, TrueIn(q, S), NEW f,
         \A k \in ErrorsOf(p) : f[k] \in 1..Len(q) /\ p[k] = q[f[k]],
         \A j, k \in ErrorsOf(p) : j # k => f[j] # f[k]
  PROVE  TrueIn(p, T)
<1>1. \A k \in ErrorsOf(p) : f[k] \in ErrorsOf(q)
  BY DEF ErrorsOf
<1>2. ASSUME NEW k \in ErrorsOf(p) PROVE p[k].index \in T \cup {NoIndex}
  <2>1. q[f[k]].index \in S \cup {NoIndex}
    BY <1>1 DEF TrueIn
  <2> QED BY <2>1
<1>3. ASSUME NEW j \in ErrorsOf(p), NEW k \in ErrorsOf(p), j # k
      PROVE  p[j].index # p[k].index \/ p[j].index = NoIndex
  <2>1. q[f[j]].index # q[f[k]].index \/ q[f[j]].index = NoIndex
    BY <1>1, <1>3 DEF TrueIn
  <2> QED BY <2>1
<1> QED BY <1>2, <1>3 DEF TrueIn

\* A longer list of true errors needs only a larger set.
LEMMA TrueOfMore ==
  ASSUME NEW q, NEW S, NEW T, S \subseteq T, TrueIn(q, S)
  PROVE  TrueIn(q, T)
BY DEF TrueIn

\* A report of a new packet, or of none.
LEMMA TrueAppend ==
  ASSUME NEW q \in Seq(Results!Outcomes), NEW r \in Results!Outcomes, NEW S, NEW T,
         S \subseteq T, TrueIn(q, S), r.index \in T \cup {NoIndex},
         r.index \notin S \/ r.index = NoIndex
  PROVE  TrueIn(Append(q, r), T)
<1> DEFINE p == Append(q, r)
           n == Len(q)
<1>1. /\ n \in Nat /\ Len(p) = n + 1 /\ p[n + 1] = r /\ \A k \in 1..n : p[k] = q[k]
  BY AppendProperties, LenProperties
<1> HIDE DEF p
<1>2. \A k \in ErrorsOf(p) : k \in 1..(n + 1) /\ (k # n + 1 => k \in ErrorsOf(q) /\ p[k] = q[k])
  BY <1>1 DEF ErrorsOf
<1>3. ASSUME NEW k \in ErrorsOf(p) PROVE p[k].index \in T \cup {NoIndex}
  <2>1. CASE k = n + 1
    BY <1>1, <2>1
  <2>2. CASE k # n + 1
    BY <1>2, <2>2 DEF TrueIn
  <2> QED BY <2>1, <2>2
<1>4. ASSUME NEW j \in ErrorsOf(p), NEW k \in ErrorsOf(p), j # k
      PROVE  p[j].index # p[k].index \/ p[j].index = NoIndex
  <2>1. ASSUME NEW m \in ErrorsOf(p), m # n + 1
        PROVE  p[m].index \in S \cup {NoIndex}
    BY <1>2, <2>1 DEF TrueIn
  <2>2. CASE j = n + 1
    <3>1. p[j] = r /\ p[k].index \in S \cup {NoIndex}
      BY <1>1, <1>4, <2>1, <2>2
    <3> QED BY <3>1
  <2>3. CASE k = n + 1
    <3>1. p[k] = r /\ p[j].index \in S \cup {NoIndex}
      BY <1>1, <1>4, <2>1, <2>3
    <3> QED BY <3>1
  <2>4. CASE j # n + 1 /\ k # n + 1
    BY <1>2, <1>4, <2>4 DEF TrueIn
  <2> QED BY <2>2, <2>3, <2>4
<1> QED BY <1>3, <1>4 DEF TrueIn, p

\* A result drops out.
LEMMA TrueWithout ==
  ASSUME NEW R, NEW a \in Seq(R), NEW b \in Seq(R), NEW x \in R, NEW S,
         TrueIn(a \o (<<x>> \o b), S)
  PROVE  TrueIn(a \o b, S)
<1> DEFINE with == a \o (<<x>> \o b)
           without == a \o b
           f == [k \in 1..Len(without) |-> IF k <= Len(a) THEN k ELSE k + 1]
<1>1. /\ Len(without) \in Nat /\ Len(with) = Len(without) + 1 /\ Len(a) \in 0..Len(without)
      /\ \A k \in 1..Len(a) : with[k] = without[k]
      /\ \A k \in (Len(a) + 1)..Len(without) : with[k + 1] = without[k]
  BY WithAndWithout
<1> HIDE DEF with, without
<1>2. \A k \in ErrorsOf(without) : f[k] \in 1..Len(with) /\ without[k] = with[f[k]]
  BY <1>1 DEF ErrorsOf
<1>3. \A j, k \in ErrorsOf(without) : j # k => f[j] # f[k]
  BY <1>1 DEF ErrorsOf
<1>4. TrueIn(with, S)
  BY DEF with
<1> HIDE DEF f
<1>5. TrueIn(without, S)
  BY <1>2, <1>3, <1>4, TrueOfPart
<1> QED BY <1>5 DEF without

\* A result that is no error comes in.
LEMMA TrueWith ==
  ASSUME NEW R, NEW a \in Seq(R), NEW b \in Seq(R), NEW x \in R, ~x.error, NEW S,
         TrueIn(a \o b, S)
  PROVE  TrueIn(a \o (<<x>> \o b), S)
<1> DEFINE with == a \o (<<x>> \o b)
           without == a \o b
           f == [k \in 1..Len(with) |-> IF k <= Len(a) THEN k ELSE k - 1]
<1>1. /\ Len(without) \in Nat /\ Len(with) = Len(without) + 1 /\ Len(a) \in 0..Len(without)
      /\ with[Len(a) + 1] = x
      /\ \A k \in 1..Len(a) : with[k] = without[k]
      /\ \A k \in (Len(a) + 1)..Len(without) : with[k + 1] = without[k]
  BY WithAndWithout
<1> HIDE DEF with, without
<1>2. \A k \in ErrorsOf(with) : k \in 1..Len(with) /\ k # Len(a) + 1
  BY <1>1 DEF ErrorsOf
<1>3. ASSUME NEW k \in ErrorsOf(with) PROVE f[k] \in 1..Len(without) /\ with[k] = without[f[k]]
  <2>1. CASE k <= Len(a)
    BY <1>1, <1>2, <2>1
  <2>2. CASE k > Len(a)
    <3>1. k - 1 \in (Len(a) + 1)..Len(without) /\ (k - 1) + 1 = k /\ f[k] = k - 1
      BY <1>1, <1>2, <2>2
    <3>2. with[(k - 1) + 1] = without[k - 1]
      BY <1>1, <3>1
    <3>3. k - 1 \in 1..Len(without)
      BY <1>1, <3>1
    <3> QED BY <3>1, <3>2, <3>3
  <2> QED BY <1>1, <1>2, <2>1, <2>2
<1>4. \A j, k \in ErrorsOf(with) : j # k => f[j] # f[k]
  BY <1>1, <1>2
<1>5. TrueIn(without, S)
  BY DEF without
<1> HIDE DEF f
<1>6. TrueIn(with, S)
  BY <1>3, <1>4, <1>5, TrueOfPart
<1> QED BY <1>6 DEF with

TrueResults == TrueIn(AllResults, rejected \cup Reported)

\* Every step keeps the results true.
LEMMA TruthKept ==
  ASSUME PipelineInv, FailuresInv, Pinned, Results!TypeOK, Results!TypeOK', TrueResults,
         [SenderNext]_senderVars
  PROVE  TrueResults'
<1> DEFINE R == Results!Outcomes
           Known == rejected \cup Reported
<1>1. AllResults \in Seq(R) /\ Delivered \in Seq(R) /\ Waiting \in Seq(R) /\ TrueIn(AllResults, Known)
  BY TwoHalves DEF TrueResults
\* Nothing is reported.
<1>2. ASSUME Reported' = Reported, UNCHANGED rejected, AllResults' = AllResults
      PROVE  TrueResults'
  BY <1>2 DEF TrueResults
\* Something new is reported.
<1>3. ASSUME NEW i \in Int, NEW extra \in Nat, Results!Report(i, extra),
             Known \subseteq rejected' \cup Reported',
             i \in rejected' \cup Reported' \cup {NoIndex}, i \notin Known \/ i = NoIndex
      PROVE  TrueResults'
  <2>1. CASE AllResults' = Append(AllResults, Results!Failure(i))
    <3>1. Results!Failure(i) \in R /\ Results!Failure(i).index = i
      BY DEF Results!Failure, Results!Outcomes
    <3>2. TrueIn(Append(AllResults, Results!Failure(i)), rejected' \cup Reported')
      BY <1>1, <1>3, <3>1, TrueAppend
    <3> QED BY <2>1, <3>2 DEF TrueResults
  <2>2. CASE AllResults' = AllResults
    BY <1>1, <1>3, <2>2, TrueOfMore DEF TrueResults
  <2> QED BY <1>3, <2>1, <2>2, ReportComesLast
<1>4. ASSUME NEW w \in Workers, WorkerRejects(w) PROVE TrueResults'
  <2>1. /\ Reported' = Reported /\ rejected' = rejected \cup {workerIdx[w]} /\ workerIdx[w] \in Int
        /\ workerIdx[w] \notin Known
    BY <1>4, RefusedIsNew
  <2>2. Results!Report(workerIdx[w], 0)
    BY <1>4 DEF WorkerRejects, Results!ReportError
  <2> QED BY <1>3, <2>1, <2>2
<1>5. ASSUME NEW s \in Streams, PinFails(s) PROVE TrueResults'
  <2>1. Reported' = Reported /\ rejected' = rejected
    BY <1>5, PinFailureIsNew
  <2>2. Results!Report(NoIndex, 0) /\ NoIndex \in Int
    BY <1>5 DEF PinFails, Results!ReportError, NoIndex
  <2> QED BY <1>3, <2>1, <2>2
<1>6. ASSUME NEW s \in Streams, StreamReports(s) PROVE TrueResults'
  <2>1. /\ Reported' = Reported \cup {streamIdx[s]} /\ rejected' = rejected /\ streamIdx[s] \in Int
        /\ streamIdx[s] \notin Known
    BY <1>6, ReportedIsNew
  <2>2. Results!Report(streamIdx[s], 1)
    BY <1>6 DEF StreamReports, Results!ReportSendFailure
  <2> QED BY <1>3, <2>1, <2>2
<1>7. CASE HandlerStep \/ UserCalls \/ GetterStep
  <2>1. Reported' = Reported /\ rejected' = rejected
    BY <1>7, SilentSteps DEF HandlerStep, UserCalls, GetterStep
  <2>2. CASE Results!HandlerReceives \/ Results!GetCall \/ Results!GetterNext
    BY <1>2, <2>1, <2>2, ResultsMoveOn
  <2>3. CASE Results!HandlerDelivers
    <3>1. CASE AllResults' = AllResults
      BY <1>2, <2>1, <3>1
    <3>2. CASE /\ AllResults = Delivered \o (<<held[1]>> \o errorCh)
               /\ AllResults' = Delivered \o errorCh
      <4>1. held[1] \in R
        <5>1. held \in Seq(R) /\ held # <<>>
          BY <2>3 DEF Results!HandlerDelivers, Results!TypeOK
        <5> QED BY <5>1, EmptySeq, ElementOfSeq
      <4>2. errorCh \in Seq(R)
        BY DEF Results!TypeOK
      <4>3. TrueIn(Delivered \o errorCh, Known)
        BY <1>1, <3>2, <4>1, <4>2, TrueWithout
      <4> QED BY <2>1, <3>2, <4>3 DEF TrueResults
    <3> QED BY <2>3, <3>1, <3>2, HandlerDrops
  <2> QED BY <1>7, <2>2, <2>3 DEF HandlerStep, UserCalls, GetterStep, Results!HandlerNext
<1>8. CASE SenderCompletes
  <2>1. Reported' = Reported /\ rejected' = rejected
    BY <1>8, SilentSteps DEF CompleterStep
  <2> DEFINE last == Len(payloads) - 1
  <2>2. last \in Int /\ Results!PublishFinal(last)
    BY <1>8, LenProperties DEF SenderCompletes, PipelineInv, TypeOK
  <2> HIDE DEF last
  <2>3. Results!Final(last) \in R /\ ~Results!Final(last).error
    BY <2>2 DEF Results!Final, Results!Outcomes
  <2>4. TrueIn(Delivered \o (<<Results!Final(last)>> \o Waiting), Known)
    <3>1. TrueIn(Delivered \o Waiting, Known)
      BY <1>1, TwoHalves
    <3> QED BY <1>1, <2>3, <3>1, TrueWith
  <2>5. Append(Delivered, Results!Final(last)) \o Waiting
          = Delivered \o (<<Results!Final(last)>> \o Waiting)
    BY <1>1, <2>3, HandedOn
  <2>6. CASE AllResults' = Append(Delivered, Results!Final(last)) \o Waiting
    BY <2>1, <2>4, <2>5, <2>6 DEF TrueResults
  <2> QED BY <1>2, <2>1, <2>2, <2>6, FinalGoesIn
<1>9. CASE UNCHANGED resultVars
  <2>1. AllResults' = AllResults
    BY <1>9 DEF resultVars, AllResults, Results!InTransit
  <2>2. CASE \/ SetUp \/ Silent(SendCall) \/ Silent(FeederNext) \/ Silent(TurnstileNext)
             \/ CompleterStep \/ UNCHANGED senderVars
             \/ \E w \in Workers : Silent(TakePayload(w) \/ WorkerExits(w) \/ EmitPacket(w))
    BY <1>2, <2>1, <2>2, SilentSteps DEF senderVars
  <2>3. ASSUME NEW s \in Streams,
               Silent(\/ PinStream(s) \/ TakePacket(s) \/ StreamExits(s) \/ TakeToken(s)
                      \/ AwaitTurn(s) \/ Advance(s) \/ CountPacket(s)
                      \/ \E ok \in BOOLEAN : WritePacket(s, ok))
        PROVE  TrueResults'
    BY <1>2, <2>1, <2>3, SilentStreams
  <2> QED BY <1>4, <1>5, <1>6, <1>7, <2>2, <2>3 DEF SenderNext, WorkerStep, StreamStep
<1> QED BY <1>4, <1>5, <1>6, <1>7, <1>8, <1>9
    DEF SenderNext, SetUp, WorkerStep, StreamStep, CompleterStep, Silent, senderVars

\* An error the user gets names a packet that was refused or whose write failed, each
\* packet once, whatever the handler drops and wherever the final result lands between
\* the errors (core/send_stream.go 86-104, 280-302, 645-716).
THEOREM SenderResultsAreTrueHolds == SenderSpec => []ResultsAreTrue
<1>1. SenderInit => TrueResults
  <2> SUFFICES ASSUME SenderInit PROVE TrueResults
    OBVIOUS
  <2>1. Len(AllResults) = 0
    BY StartsEmpty
  <2> QED BY <2>1 DEF TrueResults, TrueIn, ErrorsOf
<1>2. /\ PipelineInv /\ FailuresInv /\ Pinned /\ SenderTypeOK /\ SenderTypeOK' /\ TrueResults
      /\ [SenderNext]_senderVars
      => TrueResults'
  BY TruthKept DEF SenderTypeOK
<1>3. SenderTypeOK /\ TrueResults => ResultsAreTrue
  <2> SUFFICES ASSUME SenderTypeOK, TrueResults PROVE ResultsAreTrue
    OBVIOUS
  <2>1. DOMAIN AllResults = 1..Len(AllResults)
    BY TwoHalves, LenProperties DEF SenderTypeOK
  <2>2. Reported \subseteq failed
    BY DEF Reported
  <2> DEFINE Errors == {k \in DOMAIN AllResults : AllResults[k].error}
  <2>3. Errors = ErrorsOf(AllResults)
    BY <2>1 DEF ErrorsOf
  <2>4. \A k \in Errors : AllResults[k].index \in rejected \cup failed \cup {NoIndex}
    BY <2>2, <2>3 DEF TrueResults, TrueIn
  <2>5. \A j, k \in Errors :
          j # k => AllResults[j].index # AllResults[k].index \/ AllResults[j].index = NoIndex
    BY <2>3 DEF TrueResults, TrueIn
  <2> QED BY <2>4, <2>5 DEF ResultsAreTrue
<1> QED
  BY <1>1, <1>2, <1>3, SenderPipelineInv, SenderTypeCorrect, FailuresHold, PTL DEF SenderSpec

-----------------------------------------------------------------------------
(***************************************************************************)
(* The order of the results.                                               *)
(***************************************************************************)
\* Front takes back what Append put on.
LEMMA FrontOfAppend ==
  ASSUME NEW S, NEW q \in Seq(S), NEW e \in S
  PROVE  Front(Append(q, e)) = q
<1> DEFINE p == Append(q, e)
<1>1. /\ p \in Seq(S) /\ Len(p) = Len(q) + 1 /\ Len(q) \in Nat
      /\ \A k \in 1..Len(q) : p[k] = q[k]
  BY AppendProperties, LenProperties
<1> HIDE DEF p
<1>2. \A k \in 1..Len(q) : p[k] \in S
  BY <1>1, ElementOfSeq
<1>3. /\ SubSeq(p, 1, Len(q)) \in Seq(S) /\ Len(SubSeq(p, 1, Len(q))) = Len(q)
      /\ \A k \in 1..Len(q) : SubSeq(p, 1, Len(q))[k] = q[k]
  BY <1>1, <1>2
<1>4. SubSeq(p, 1, Len(q)) = q
  BY <1>3, SeqEqual
<1>5. Len(p) - 1 = Len(q)
  BY <1>1
<1> QED BY <1>4, <1>5 DEF Front, p

\* One sequence is n places of another, one more place, and a third.
SplitAt(with, n, a, b) ==
  /\ n \in Nat /\ Len(a) = n /\ Len(with) = n + Len(b) + 1
  /\ \A k \in 1..n : with[k] = a[k]
  /\ \A k \in 1..Len(b) : with[n + 1 + k] = b[k]

\* RemoveAt takes out that place.
LEMMA RemovedAt ==
  ASSUME NEW S, NEW with \in Seq(S), NEW a \in Seq(S), NEW b \in Seq(S), NEW n,
         SplitAt(with, n, a, b)
  PROVE  n + 1 \in DOMAIN with /\ RemoveAt(with, n + 1) = a \o b
<1> DEFINE N == Len(with)
<1>0. /\ n \in Nat /\ Len(a) = n /\ Len(with) = n + Len(b) + 1
      /\ \A k \in 1..n : with[k] = a[k]
      /\ \A k \in 1..Len(b) : with[n + 1 + k] = b[k]
  BY DEF SplitAt
<1>1. Len(b) \in Nat /\ N \in Nat /\ DOMAIN with = 1..N /\ \A k \in 1..N : with[k] \in S
  BY LenProperties, ElementOfSeq
<1>2. N = n + Len(b) + 1 /\ n \in Nat
  BY <1>0
<1> HIDE DEF N
<1>3. SubSeq(with, 1, n) = a
  <2>1. 1 \in Int /\ n \in Int /\ n - 1 + 1 = n
        /\ \A k \in 1..n : with[k] \in S /\ 1 + k - 1 = k
    BY <1>1, <1>2
  <2>2. /\ SubSeq(with, 1, n) \in Seq(S)
        /\ Len(SubSeq(with, 1, n)) = IF 1 <= n THEN n - 1 + 1 ELSE 0
        /\ \A k \in 1..n - 1 + 1 : SubSeq(with, 1, n)[k] = with[1 + k - 1]
    BY <2>1, SubSeqProperties
  <2>3. Len(SubSeq(with, 1, n)) = n /\ \A k \in 1..n : SubSeq(with, 1, n)[k] = a[k]
    BY <1>0, <2>1, <2>2
  <2> QED BY <1>0, <2>2, <2>3, SeqEqual
<1>4. SubSeq(with, n + 2, N) = b
  <2> DEFINE m == n + 2
  <2>1. m \in Int /\ N \in Int /\ \A k \in m..N : with[k] \in S
    BY <1>1, <1>2
  <2>2. N - m + 1 = Len(b) /\ \A k \in 1..Len(b) : m + k - 1 = n + 1 + k
    BY <1>1, <1>2
  <2>3. m <= N <=> Len(b) # 0
    BY <1>1, <1>2
  <2> HIDE DEF m
  <2>4. /\ SubSeq(with, m, N) \in Seq(S)
        /\ Len(SubSeq(with, m, N)) = IF m <= N THEN N - m + 1 ELSE 0
        /\ \A k \in 1..N - m + 1 : SubSeq(with, m, N)[k] = with[m + k - 1]
    BY <2>1, SubSeqProperties
  <2>5. /\ Len(SubSeq(with, m, N)) = Len(b)
        /\ \A k \in 1..Len(b) : SubSeq(with, m, N)[k] = b[k]
    BY <1>0, <2>2, <2>3, <2>4
  <2>6. SubSeq(with, m, N) = b
    BY <2>4, <2>5, SeqEqual
  <2> QED BY <2>6 DEF m
<1>5. (n + 1) - 1 = n /\ (n + 1) + 1 = n + 2 /\ n + 1 \in 1..N
  BY <1>1, <1>2
<1>6. RemoveAt(with, n + 1) = SubSeq(with, 1, (n + 1) - 1) \o SubSeq(with, (n + 1) + 1, N)
  BY DEF RemoveAt, N
<1> QED BY <1>1, <1>3, <1>4, <1>5, <1>6

\* RemoveAt takes out what was between two parts.
Between(with, without, n, x) ==
  n + 1 \in DOMAIN with /\ with[n + 1] = x /\ RemoveAt(with, n + 1) = without

\* What RemoveAt takes out from between two parts.
LEMMA RemovedBetween ==
  ASSUME NEW S, NEW a \in Seq(S), NEW b \in Seq(S), NEW x \in S
  PROVE  Between(a \o (<<x>> \o b), a \o b, Len(a), x)
<1> DEFINE with == a \o (<<x>> \o b)
           ab == a \o b
           n == Len(a)
<1>1. /\ Len(ab) \in Nat /\ Len(with) = Len(ab) + 1
      /\ n \in 0..Len(ab) /\ with[n + 1] = x
      /\ \A k \in 1..n : with[k] = ab[k]
      /\ \A k \in (n + 1)..Len(ab) : with[k + 1] = ab[k]
  BY WithAndWithout
<1>2. /\ n \in Nat /\ Len(b) \in Nat /\ Len(ab) = n + Len(b)
      /\ \A k \in 1..n + Len(b) : ab[k] = IF k <= n THEN a[k] ELSE b[k - n]
  BY LenProperties, ConcatProperties
<1>3. with \in Seq(S)
  <2>1. <<x>> \in Seq(S)
    OBVIOUS
  <2>2. <<x>> \o b \in Seq(S)
    BY <2>1, ConcatProperties
  <2> QED BY <2>2, ConcatProperties
<1> HIDE DEF with, ab
<1>4. \A k \in 1..n : with[k] = a[k]
  BY <1>1, <1>2
<1>5. ASSUME NEW k \in 1..Len(b) PROVE with[n + 1 + k] = b[k]
  <2>1. /\ n + k \in (n + 1)..Len(ab) /\ (n + k) + 1 = n + 1 + k
        /\ n + k \in 1..n + Len(b) /\ ~(n + k <= n) /\ (n + k) - n = k
    BY <1>2
  <2>2. with[(n + k) + 1] = ab[n + k] /\ ab[n + k] = b[(n + k) - n]
    BY <1>1, <1>2, <2>1
  <2> QED BY <2>1, <2>2
<1>6. Len(with) = n + Len(b) + 1
  BY <1>1, <1>2
<1> HIDE DEF n
<1>7. Len(a) = n
  BY DEF n
<1>8. SplitAt(with, n, a, b)
  BY <1>2, <1>4, <1>5, <1>6, <1>7 DEF SplitAt
<1>9. n + 1 \in DOMAIN with /\ RemoveAt(with, n + 1) = a \o b
  BY <1>3, <1>8, RemovedAt
<1> QED BY <1>1, <1>7, <1>9 DEF Between, with, ab

\* A step keeps the order of the results.
LEMMA OrderKept ==
  ASSUME TypeOK, Results!TypeOK, Results!TypeOK', [SenderNext]_senderVars
  PROVE  MovesNone(AllResults, AllResults')
<1> DEFINE R == Results!Outcomes
<1>1. AllResults' = AllResults => MovesNone(AllResults, AllResults')
  BY DEF MovesNone
<1>2. ASSUME NEW i \in Int, NEW extra \in Nat, Results!Report(i, extra)
      PROVE  MovesNone(AllResults, AllResults')
  <2>1. CASE AllResults' = Append(AllResults, Results!Failure(i))
    <3>1. Results!Failure(i) \in R /\ AllResults \in Seq(R)
      BY TwoHalves DEF Results!Failure, Results!Outcomes
    <3>2. Front(AllResults') = AllResults
      BY <2>1, <3>1, FrontOfAppend
    <3> QED BY <3>2 DEF MovesNone
  <2> QED BY <1>1, <1>2, <2>1, ReportComesLast
<1>3. CASE Results!HandlerReceives \/ Results!GetCall \/ Results!GetterNext
  BY <1>1, <1>3, ResultsMoveOn
<1>4. CASE Results!HandlerDelivers
  <2>1. held[1] \in R
    <3>1. held \in Seq(R) /\ held # <<>>
      BY <1>4 DEF Results!HandlerDelivers, Results!TypeOK
    <3> QED BY <3>1, EmptySeq, ElementOfSeq
  <2>2. Delivered \in Seq(R) /\ errorCh \in Seq(R)
    BY TwoHalves DEF Results!TypeOK
  <2>3. CASE /\ AllResults = Delivered \o (<<held[1]>> \o errorCh)
             /\ AllResults' = Delivered \o errorCh
    <3>1. Between(Delivered \o (<<held[1]>> \o errorCh), Delivered \o errorCh,
                  Len(Delivered), held[1])
      BY <2>1, <2>2, RemovedBetween
    <3>2. Between(AllResults, AllResults', Len(Delivered), held[1])
      BY <2>3, <3>1
    <3> QED BY <3>2, Zenon DEF Between, MovesNone
  <2> QED BY <1>1, <1>4, <2>3, HandlerDrops
<1>5. CASE SenderCompletes
  <2> DEFINE i == Len(payloads) - 1
  <2>1. Results!PublishFinal(i)
    BY <1>5 DEF SenderCompletes
  <2>2. i \in Int
    BY LenProperties DEF TypeOK
  <2> HIDE DEF i
  <2>3. Results!Final(i) \in R /\ ~Results!Final(i).error
    BY <2>2 DEF Results!Final, Results!Outcomes
  <2>4. Delivered \in Seq(R) /\ Waiting \in Seq(R) /\ AllResults = Delivered \o Waiting
    BY TwoHalves
  <2>5. CASE AllResults' = Append(Delivered, Results!Final(i)) \o Waiting
    <3>1. AllResults' = Delivered \o (<<Results!Final(i)>> \o Waiting)
      BY <2>3, <2>4, <2>5, HandedOn
    <3>2. Between(Delivered \o (<<Results!Final(i)>> \o Waiting), Delivered \o Waiting,
                  Len(Delivered), Results!Final(i))
      BY <2>3, <2>4, RemovedBetween
    <3>3. Between(AllResults', AllResults, Len(Delivered), Results!Final(i))
      BY <2>4, <3>1, <3>2
    <3>4. ~AllResults'[Len(Delivered) + 1].error
      BY <2>3, <3>3 DEF Between
    <3> QED BY <3>3, <3>4, Zenon DEF Between, MovesNone
  <2> QED BY <1>1, <2>1, <2>2, <2>5, FinalGoesIn
<1>6. CASE UNCHANGED resultVars
  BY <1>1, <1>6 DEF resultVars, AllResults, Results!InTransit
<1>7. ASSUME NEW w \in Workers, WorkerRejects(w) PROVE MovesNone(AllResults, AllResults')
  <2>1. workerIdx[w] \in Int
    BY <1>7 DEF TypeOK
  <2> QED BY <1>2, <1>7, <2>1 DEF WorkerRejects, Results!ReportError
<1>8. ASSUME NEW s \in Streams, PinFails(s) PROVE MovesNone(AllResults, AllResults')
  <2>1. NoIndex \in Int
    BY DEF NoIndex
  <2> QED BY <1>2, <1>8, <2>1 DEF PinFails, Results!ReportError
<1>9. ASSUME NEW s \in Streams, StreamReports(s) PROVE MovesNone(AllResults, AllResults')
  <2>1. streamIdx[s] \in Int
    BY <1>9 DEF TypeOK
  <2> QED BY <1>2, <1>9, <2>1 DEF StreamReports, Results!ReportSendFailure
<1>10. CASE HandlerStep \/ UserCalls \/ GetterStep
  BY <1>3, <1>4, <1>10 DEF HandlerStep, UserCalls, GetterStep, Results!HandlerNext
<1> QED BY <1>5, <1>6, <1>7, <1>8, <1>9, <1>10
    DEF SenderNext, SetUp, WorkerStep, StreamStep, CompleterStep, Silent, senderVars

\* Errors reach the user in the order they were reported and none of them twice, through
\* two channels, the error handler's hands and the buffer (core/send_stream.go 86-104,
\* 280-302, 645-716): no step moves a result, and only the final one goes in between.
THEOREM ResultsKeepOrderHolds == SenderSpec => ResultsKeepOrder
<1>1. /\ PipelineInv /\ SenderTypeOK /\ SenderTypeOK' /\ [SenderNext]_senderVars
      => [MovesNone(AllResults, AllResults')]_senderVars
  BY OrderKept DEF PipelineInv, SenderTypeOK
<1> QED
  BY <1>1, SenderPipelineInv, SenderTypeCorrect, PTL DEF SenderSpec, ResultsKeepOrder
=============================================================================
