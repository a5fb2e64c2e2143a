-------------------------- MODULE ResultReporter --------------------------
(***************************************************************************)
(* How a MultiStreamSender (core/send_stream.go) hands results to its user.*)
(*                                                                         *)
(*   reportError --errorCh--> error handler --progressCh--> GetNextResult  *)
(*                                                                         *)
(* Whoever reports an error never waits: a report that finds errorCh full  *)
(* is only counted.  The handler moves reports to progressCh, the          *)
(* completer puts a final result there and closes it, GetNextResult moves  *)
(* results from there into progressBuffer and returns the first.  The last *)
(* three hold ms.mutex; only GetNextResult holds it for more than a step,  *)
(* from BeginFill to FinishFill, so ms.mutex is free iff getter = "idle".  *)
(* GetNextResult is called by one user goroutine at a time.                *)
(***************************************************************************)
EXTENDS Integers, Sequences

CONSTANTS
  ErrorCap,          \* cap(errorCh), 1000
  ProgressCap,       \* cap(progressCh), 1000
  MaxResultsToBuffer \* how many results one GetNextResult collects, 100

VARIABLES
  errorCh,
  held,           \* what the error handler holds: a sequence of at most one result
  progressCh,
  channelClosed,  \* progressCh is closed; isComplete is stored with it
  progressBuffer,
  getter,         \* is a GetNextResult collecting results, with ms.mutex locked
  packetsDropped, \* metrics.packetsDropped
  returned,       \* history: the results GetNextResult returned
  sawEnd          \* history: GetNextResult returned nil after completion

vars == <<errorCh, held, progressCh, channelClosed, progressBuffer, getter,
          packetsDropped, returned, sawEnd>>

Init ==
  /\ errorCh = <<>>
  /\ held = <<>>
  /\ progressCh = <<>>
  /\ channelClosed = FALSE
  /\ progressBuffer = <<>>
  /\ getter = "idle"
  /\ packetsDropped = 0
  /\ returned = <<>>
  /\ sawEnd = FALSE

-----------------------------------------------------------------------------
(***************************************************************************)
(* Faulty variants, not used by the specification, each named after the    *)
(* definition below that it breaks.                                        *)
(***************************************************************************)

\* MutexFree, had the lock been forgotten.
MutexFreeAlways == TRUE

\* Failure with the index counted from 1.
FailureFromOne(i) == [index |-> i + 1, error |-> TRUE]

\* Overflow that nobody counts.
OverflowIgnored(ch, cap) == 0

\* OldestReport from a stack instead of a queue.
OldestReportFromTop == errorCh[Len(errorCh)]

\* AcceptsResults without the test of channelClosed.
AcceptsResultsAlways == TRUE

-----------------------------------------------------------------------------
MutexFree == getter = "idle"

\* PacketSendResult: the packet it is about, and whether Error is set.
Failure(i) == [index |-> i, error |-> TRUE]
Final(i) == [index |-> i, error |-> FALSE]

\* A select with a default branch: put r on the channel unless it is full.
Offered(ch, cap, r) == IF Len(ch) < cap THEN Append(ch, r) ELSE ch
Overflow(ch, cap) == IF Len(ch) < cap THEN 0 ELSE 1

\* reportError for packet i, followed by extra increments of packetsDropped.
Report(i, extra) ==
  /\ errorCh' = Offered(errorCh, ErrorCap, Failure(i))
  /\ packetsDropped' = packetsDropped + Overflow(errorCh, ErrorCap) + extra
  /\ UNCHANGED <<held, progressCh, channelClosed, progressBuffer, getter, returned, sawEnd>>

\* A worker rejects a payload, or a stream cannot pin its thread.
ReportError(i) == Report(i, 0)

\* A stream's write fails: reportError and packetsDropped.Add(1).
ReportSendFailure(i) == Report(i, 1)

-----------------------------------------------------------------------------
\* The report the handler receives from errorCh.
OldestReport == Head(errorCh)

\* The handler receives a report and goes for the mutex.
HandlerReceives ==
  /\ held = <<>>
  /\ errorCh # <<>>
  /\ held' = <<OldestReport>>
  /\ errorCh' = Tail(errorCh)
  /\ UNCHANGED <<progressCh, channelClosed, progressBuffer, getter, packetsDropped,
                 returned, sawEnd>>

\* !ms.channelClosed.Load()
AcceptsResults == ~channelClosed

\* With the mutex: the report goes to progressCh unless that is full, and is
\* counted then; once the channel is closed it is forgotten.
HandlerDelivers ==
  /\ held # <<>>
  /\ MutexFree
  /\ held' = <<>>
  /\ IF AcceptsResults
     THEN /\ progressCh' = Offered(progressCh, ProgressCap, held[1])
          /\ packetsDropped' = packetsDropped + Overflow(progressCh, ProgressCap)
     ELSE UNCHANGED <<progressCh, packetsDropped>>
  /\ UNCHANGED <<errorCh, channelClosed, progressBuffer, getter, returned, sawEnd>>

\* PublishFinal (faulty variant) that waits for room in progressCh.
PublishFinalBlocking(i) ==
  /\ MutexFree
  /\ Len(progressCh) < ProgressCap
  /\ progressCh' = Append(progressCh, Final(i))
  /\ channelClosed' = TRUE
  /\ UNCHANGED <<errorCh, held, progressBuffer, getter, packetsDropped, returned, sawEnd>>

\* The completer publishes a final result for packet i, the last one, unless
\* progressCh is full, and closes the channel.
PublishFinal(i) ==
  /\ MutexFree
  /\ progressCh' = Offered(progressCh, ProgressCap, Final(i))
  /\ channelClosed' = TRUE
  /\ UNCHANGED <<errorCh, held, progressBuffer, getter, packetsDropped, returned, sawEnd>>

-----------------------------------------------------------------------------
ReturnFirst ==
  /\ returned' = Append(returned, Head(progressBuffer))
  /\ progressBuffer' = Tail(progressBuffer)

\* GetNextResult with results left in progressBuffer.
GetBuffered ==
  /\ MutexFree
  /\ progressBuffer # <<>>
  /\ ReturnFirst
  /\ UNCHANGED <<errorCh, held, progressCh, channelClosed, getter, packetsDropped, sawEnd>>

\* GetNextResult after completion: nil, without a look at progressCh.
GetAfterCompletion ==
  /\ MutexFree
  /\ progressBuffer = <<>>
  /\ channelClosed
  /\ sawEnd' = TRUE
  /\ UNCHANGED <<errorCh, held, progressCh, channelClosed, progressBuffer, getter,
                 packetsDropped, returned>>

\* GetNextResult starts to collect, the mutex locked.
BeginFill ==
  /\ MutexFree
  /\ progressBuffer = <<>>
  /\ ~channelClosed
  /\ getter' = "filling"
  /\ UNCHANGED <<errorCh, held, progressCh, channelClosed, progressBuffer,
                 packetsDropped, returned, sawEnd>>

\* One result moves to progressBuffer.  With progressCh empty the default branch
\* is taken: its break leaves the select and the loop goes round, a stuttering
\* step.  The channel is not closed meanwhile, closing it needs the mutex.
Fill ==
  /\ getter = "filling"
  /\ Len(progressBuffer) < MaxResultsToBuffer
  /\ progressCh # <<>>
  /\ progressBuffer' = Append(progressBuffer, Head(progressCh))
  /\ progressCh' = Tail(progressCh)
  /\ UNCHANGED <<errorCh, held, channelClosed, getter, packetsDropped, returned, sawEnd>>

\* The loop ends with MaxResultsToBuffer results; the first is returned.
FinishFill ==
  /\ getter = "filling"
  /\ Len(progressBuffer) = MaxResultsToBuffer
  /\ getter' = "idle"
  /\ ReturnFirst
  /\ UNCHANGED <<errorCh, held, progressCh, channelClosed, packetsDropped, sawEnd>>

HandlerNext == HandlerReceives \/ HandlerDelivers
GetCall == GetBuffered \/ GetAfterCompletion \/ BeginFill
GetterNext == Fill \/ FinishFill

\* Every result between its report and its return, oldest first.
InTransit == progressBuffer \o progressCh \o held \o errorCh

Outcomes == [index : Int, error : BOOLEAN]

TypeOK ==
  /\ errorCh \in Seq(Outcomes) /\ Len(errorCh) <= ErrorCap
  /\ held \in Seq(Outcomes) /\ Len(held) <= 1
  /\ progressCh \in Seq(Outcomes) /\ Len(progressCh) <= ProgressCap
  /\ progressBuffer \in Seq(Outcomes) /\ Len(progressBuffer) <= MaxResultsToBuffer
  /\ channelClosed \in BOOLEAN
  /\ getter \in {"idle", "filling"}
  /\ packetsDropped \in Nat
  /\ returned \in Seq(Outcomes)
  /\ sawEnd \in BOOLEAN
=============================================================================
