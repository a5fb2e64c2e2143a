------------------------- MODULE MultiStreamSender -------------------------
(***************************************************************************)
(* A MultiStreamSender as its user sees it: the pipeline of SendPipeline   *)
(* with the reports of ResultReporter.  A pipeline step that reports or    *)
(* publishes is one step of both; all others leave the other part alone.   *)
(***************************************************************************)
EXTENDS SendPipeline, SequencesExt

CONSTANTS ErrorCap, ProgressCap, MaxResultsToBuffer

ASSUME CapacitiesAssumption ==
  /\ ErrorCap \in Nat \ {0}
  /\ ProgressCap \in Nat \ {0}
  /\ MaxResultsToBuffer \in Nat \ {0}

VARIABLES errorCh, held, progressCh, channelClosed, progressBuffer, getter,
          packetsDropped, returned, sawEnd,
          unpinned  \* history: the streams that could not pin their thread

Results == INSTANCE ResultReporter

resultVars == <<errorCh, held, progressCh, channelClosed, progressBuffer, getter,
                packetsDropped, returned, sawEnd>>
senderVars == <<vars, resultVars, unpinned>>

SenderInit == Init /\ Results!Init /\ unpinned = {}

\* A step of the pipeline that reports nothing.
Silent(step) == step /\ UNCHANGED <<resultVars, unpinned>>

\* preparePackets: reportError, continue.
WorkerRejects(w) ==
  RejectPayload(w) /\ Results!ReportError(workerIdx[w]) /\ UNCHANGED unpinned

\* sendPackets: PinToCPU fails, reportError(-1).
PinFails(s) ==
  PinStream(s) /\ Results!ReportError(NoIndex) /\ unpinned' = unpinned \cup {s}

\* sendPackets: the write failed, reportError and packetsDropped.Add(1).
StreamReports(s) ==
  ReportFailure(s) /\ Results!ReportSendFailure(streamIdx[s]) /\ UNCHANGED unpinned

\* The completer's last step, with the mutex.
SenderCompletes ==
  PublishCompletion /\ Results!PublishFinal(Len(payloads) - 1) /\ UNCHANGED unpinned

-----------------------------------------------------------------------------
SetUp ==
  \/ \E len \in Lengths : Silent(AddPayload(len))
  \/ \E disable \in BOOLEAN : Silent(SetAdvancedConfig(disable))

WorkerStep(w) ==
  Silent(TakePayload(w) \/ WorkerExits(w) \/ EmitPacket(w)) \/ WorkerRejects(w)

StreamStep(s) ==
  \/ Silent(\/ PinStream(s) \/ TakePacket(s) \/ StreamExits(s) \/ TakeToken(s)
            \/ AwaitTurn(s) \/ Advance(s) \/ CountPacket(s)
            \/ \E ok \in BOOLEAN : WritePacket(s, ok))
  \/ PinFails(s)
  \/ StreamReports(s)

CompleterStep == Silent(CloseHandles) \/ SenderCompletes

HandlerStep == Results!HandlerNext /\ UNCHANGED <<vars, unpinned>>

\* The user calls GetNextResult at any time, before completion or after.
UserCalls == Results!GetCall /\ UNCHANGED <<vars, unpinned>>
GetterStep == Results!GetterNext /\ UNCHANGED <<vars, unpinned>>

SenderNext ==
  \/ SetUp
  \/ Silent(SendCall)
  \/ Silent(FeederNext)
  \/ \E w \in Workers : WorkerStep(w)
  \/ \E s \in Streams : StreamStep(s)
  \/ Silent(TurnstileNext)
  \/ CompleterStep
  \/ HandlerStep
  \/ UserCalls
  \/ GetterStep

SenderSpec == SenderInit /\ [][SenderNext]_senderVars

\* As GoroutinesRun; the error handler and a GetNextResult under way run too.
SenderFairSpec ==
  /\ SenderSpec
  /\ WF_senderVars(\E s \in Streams : Silent(OpenStream(s)))
  /\ WF_senderVars(Silent(StartFeeding))
  /\ WF_senderVars(Silent(FeederNext))
  /\ \A w \in Workers : WF_senderVars(WorkerStep(w))
  /\ \A s \in Streams : WF_senderVars(StreamStep(s))
  /\ WF_senderVars(Silent(TurnstileNext))
  /\ WF_senderVars(CompleterStep)
  /\ WF_senderVars(HandlerStep)
  /\ WF_senderVars(GetterStep)

-----------------------------------------------------------------------------
SenderTypeOK == TypeOK /\ Results!TypeOK /\ unpinned \subseteq Streams

AllResults == returned \o Results!InTransit

\* The results after a step are those before it with one more behind them, with one
\* less, or with one put in that is no error; none of the others moves.
MovesNone(before, after) ==
  \/ after = before
  \/ Front(after) = before
  \/ \E k \in DOMAIN before : after = RemoveAt(before, k)
  \/ \E k \in DOMAIN after : ~after[k].error /\ RemoveAt(after, k) = before

\* The user gets error results in the order they were reported, none twice: a report
\* comes in behind all others, and only the completer's final result goes in between.
ResultsKeepOrder == [][MovesNone(AllResults, AllResults')]_senderVars

\* The failed writes whose report has been made.
Reported == {i \in failed : \A s \in Streams : streamPc[s] = "report" => streamIdx[s] # i}

\* Until completion no error goes missing: each rejected payload, failed write and
\* unpinned stream has its result with the user or on the way, where nothing but
\* errors is then, or was counted when a channel was full.  A failed write is counted
\* once more in any case.
NoErrorMissing ==
  ~IsComplete =>
    /\ \A k \in DOMAIN AllResults : AllResults[k].error
    /\ Cardinality(rejected) + Cardinality(Reported) + Cardinality(unpinned)
         = Len(AllResults) + (packetsDropped - Cardinality(Reported))

\* A result that is an error names a packet that was refused or whose write failed,
\* one result per packet, or no packet at all.
ResultsAreTrue ==
  LET Errors == {k \in DOMAIN AllResults : AllResults[k].error} IN
  /\ \A k \in Errors : AllResults[k].index \in rejected \cup failed \cup {NoIndex}
  /\ \A j, k \in Errors :
       j # k => AllResults[j].index # AllResults[k].index \/ AllResults[j].index = NoIndex

\* Nobody sends on progressCh after the completer closed it, which would panic.
NoSendOnClosedProgress ==
  [][channelClosed => Len(progressCh') <= Len(progressCh)]_senderVars

\* isComplete and channelClosed change together, under the mutex, so no
\* GetNextResult finds the channel closed in the middle of its loop, and a nil at the
\* end is final, no result comes after it (although some may be left in progressCh).
ClosedIsComplete ==
  /\ channelClosed <=> IsComplete
  /\ getter = "filling" => ~channelClosed
  /\ sawEnd => IsComplete /\ progressBuffer = <<>>

\* A sender that can make progress completes unless a GetNextResult holds the mutex.
SenderCompletesUnlessPolled ==
  (sendPc = "returned" /\ CanFinish) ~> (IsComplete \/ getter = "filling")

\* "Fill the buffer without blocking": GetNextResult returns.
GetNextResultReturns == (getter = "filling") ~> (getter = "idle")
=============================================================================
