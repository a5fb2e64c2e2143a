-------------------------- MODULE SequenceSender --------------------------
(***************************************************************************)
(* PacketSequenceSender: one object of core/transmit.go used by one thread *)
(* through the class of the same name in transmit.py.                      *)
(*                                                                         *)
(* send() starts a goroutine that writes the payloads and reports each of  *)
(* them on progressCh, waiting when that is full.  Meanwhile the loop in   *)
(* send() takes a result, then asks whether everything is complete, and so *)
(* on, and takes one more result when it is.  The goroutine closes         *)
(* progressCh first and says that it is complete afterwards.               *)
(*                                                                         *)
(* A payload is its length.  Indices of packets count from 0 as in Go.     *)
(* The rate limiter is left out: it takes time and does not fail when it   *)
(* is asked for one packet without a deadline.                             *)
(***************************************************************************)
EXTENDS Integers, Sequences

CONSTANTS
  Lengths,        \* lengths of the payloads that are offered
  MaxPayloads,    \* bound on the payloads of a sender
  MaxSends,       \* bound on the send() calls on one Go object
  MinPayloadSize, \* shorter payloads are refused, 18
  ProgressCap     \* cap(progressCh), 100

ASSUME SequenceAssumption ==
  /\ Lengths \subseteq Nat
  /\ {MaxPayloads, MaxSends, MinPayloadSize} \subseteq Nat
  /\ ProgressCap \in Nat \ {0}

VARIABLES
  payloads,    \* bas.Payloads
  packetCount, \* _packet_count
  progressCh,
  closed,      \* progressCh is closed
  isComplete,
  goroutine,   \* where the goroutine of the last Send is
  total,       \* how many payloads it ranges over
  next,        \* index of its current packet
  err,         \* err of that packet
  caller,      \* where the thread is in send()
  results,     \* what send() has collected
  sends,       \* history: Sends on this object
  wire,        \* history: indices in the order of WritePacketData
  outcomes,    \* history: err of each packet so far
  published    \* history: results sent on progressCh

goVars == <<progressCh, closed, isComplete, goroutine, total, next, err, wire, outcomes,
            published>>
pyVars == <<payloads, packetCount, results, sends>>
vars == <<goVars, pyVars, caller>>

\* NewPacketSequenceSender
Fresh ==
  /\ payloads = <<>> /\ packetCount = 0
  /\ progressCh = <<>> /\ closed = FALSE /\ isComplete = FALSE
  /\ goroutine = "off" /\ total = 0 /\ next = 0 /\ err = "nil"
  /\ sends = 0 /\ wire = <<>> /\ outcomes = <<>> /\ published = <<>>

Init == Fresh /\ caller = "idle" /\ results = <<>>

-----------------------------------------------------------------------------
(***************************************************************************)
(* Faulty variants, not used by the specification, each named after the    *)
(* definition below that it breaks.                                        *)
(***************************************************************************)
\* AfterComplete without the return after a failure to open.
AfterCompleteGoesOn == IF outcomes = <<>> THEN "sending" ELSE "off"

\* ReportedFailure that forgets the error.
ReportedFailureNone == "nil"

\* OldestResult from a stack.
OldestResultFromTop == progressCh[Len(progressCh)]

\* NextPacket that passes over the packet after one that failed.
NextPacketSkips == next + (IF err # "nil" THEN 2 ELSE 1)

\* The test of closed after results have been received, had it been forgotten.
NoMoreResultsNever == FALSE

-----------------------------------------------------------------------------
\* add_packet: a payload that is not empty is converted, added and counted.
\* add_packets is not modelled: it hands add_packet a payload that it has converted
\* itself, and add_packet asks gopy to convert that again, as if it were bytes.
AddPacket(n) ==
  /\ caller = "idle"
  /\ n > 0
  /\ Len(payloads) < MaxPayloads
  /\ payloads' = Append(payloads, n)
  /\ packetCount' = packetCount + 1
  /\ UNCHANGED <<goVars, caller, results, sends>>

\* send(): Go's Send returns once its goroutine is started.  Without payloads it
\* returns an error, which is raised.
Send ==
  /\ caller = "idle"
  /\ goroutine = "off"
  /\ payloads # <<>>
  /\ sends < MaxSends
  /\ sends' = sends + 1
  /\ goroutine' = "opening"
  /\ total' = Len(payloads)
  /\ next' = 0
  /\ caller' = "asking"
  /\ results' = <<>>
  /\ UNCHANGED <<payloads, packetCount, progressCh, closed, isComplete, err, wire,
                 outcomes, published>>

\* clear(): a new Go object.  A goroutine that is still running then is one that
\* is about to panic (NoPanicInFirstSend), whatever clear() does.
Clear ==
  /\ caller = "idle"
  /\ goroutine = "off"
  /\ payloads' = <<>> /\ packetCount' = 0
  /\ progressCh' = <<>> /\ closed' = FALSE /\ isComplete' = FALSE
  /\ goroutine' = "off" /\ total' = 0 /\ next' = 0 /\ err' = "nil"
  /\ sends' = 0 /\ wire' = <<>> /\ outcomes' = <<>> /\ published' = <<>>
  /\ UNCHANGED <<caller, results>>

-----------------------------------------------------------------------------
Errors == {"nil", "failed"}

\* PacketSendResult: the packet it is about, and its Error.
Result(i, e) == [index |-> i, error |-> e]

\* The process ends, and the thread in send() with it.
Panic ==
  /\ goroutine' = "panicked"
  /\ caller' = "dead"
  /\ UNCHANGED <<progressCh, published>>

\* A send on progressCh: it panics when the channel is closed, and waits while
\* it is full.
Publish(r, to) ==
  \/ closed /\ Panic
  \/ /\ ~closed
     /\ Len(progressCh) < ProgressCap
     /\ progressCh' = Append(progressCh, r)
     /\ published' = Append(published, r)
     /\ goroutine' = to
     /\ UNCHANGED caller

OpenInterface ==
  /\ goroutine = "opening"
  /\ goroutine' \in {"sending", "open failed"}
  /\ UNCHANGED <<progressCh, closed, isComplete, total, next, err, wire, outcomes,
                 published, pyVars, caller>>

\* The interface did not open: the only result is an error.
ReportOpenFailure ==
  /\ goroutine = "open failed"
  /\ Publish(Result(0, "failed"), "closing")
  /\ UNCHANGED <<closed, isComplete, total, next, err, wire, outcomes, pyVars>>

\* sendSinglePacket refuses a short payload, and one that does not become a packet:
\* the checksum wants addresses (of a Config that may have been changed), the
\* layers a length that fits.  A write may fail.
SendSinglePacket ==
  /\ goroutine = "sending"
  /\ next < total
  /\ \/ /\ err' = "failed"
        /\ UNCHANGED wire
     \/ /\ payloads[next + 1] >= MinPayloadSize
        /\ err' \in Errors
        /\ wire' = Append(wire, next)
  /\ outcomes' = Append(outcomes, err')
  /\ goroutine' = "reporting"
  /\ UNCHANGED <<progressCh, closed, isComplete, total, next, published, pyVars, caller>>

\* The packet the loop goes on with.
NextPacket == next + 1

\* What the result of a packet says of its failure.
ReportedFailure == err

ReportProgress ==
  /\ goroutine = "reporting"
  /\ Publish(Result(next, ReportedFailure), "sending")
  /\ next' = NextPacket
  /\ UNCHANGED <<closed, isComplete, total, err, wire, outcomes, pyVars>>

\* Where the goroutine goes after the last result.
AfterFinish == "closing"

\* After the last packet: one more result, unless the channel is full.
ReportElapsed ==
  /\ goroutine = "sending"
  /\ next >= total
  /\ \/ Publish(Result(total - 1, "nil"), AfterFinish)
     \/ /\ ~closed
        /\ Len(progressCh) >= ProgressCap
        /\ goroutine' = AfterFinish
        /\ UNCHANGED <<progressCh, published, caller>>
  /\ UNCHANGED <<closed, isComplete, total, next, err, wire, outcomes, pyVars>>

\* A goroutine that comes here has sent on progressCh, so it is not closed.
CloseProgress ==
  /\ goroutine = "closing"
  /\ closed' = TRUE
  /\ goroutine' = "flagging"
  /\ UNCHANGED <<progressCh, isComplete, total, next, err, wire, outcomes, published,
                 pyVars, caller>>

\* Where the goroutine goes with isComplete set.
AfterComplete == "off"

SetComplete ==
  /\ goroutine = "flagging"
  /\ isComplete' = TRUE
  /\ goroutine' = AfterComplete
  /\ UNCHANGED <<progressCh, closed, total, next, err, wire, outcomes, published,
                 pyVars, caller>>

-----------------------------------------------------------------------------
OldestResult == Head(progressCh)
NoMoreResults == progressCh = <<>> /\ closed

\* while not self._sender.IsComplete()
AskComplete ==
  /\ caller = "asking"
  /\ caller' = IF isComplete THEN "last" ELSE "waiting"
  /\ UNCHANGED <<goVars, pyVars>>

\* GetNextResult waits for a result, or for the channel to be closed.
GetNextResult(from, to) ==
  /\ caller = from
  /\ \/ /\ progressCh # <<>>
        /\ results' = Append(results, OldestResult)
        /\ progressCh' = Tail(progressCh)
     \/ /\ NoMoreResults
        /\ UNCHANGED <<results, progressCh>>
  /\ caller' = to
  /\ UNCHANGED <<closed, isComplete, goroutine, total, next, err, wire, outcomes,
                 published, payloads, packetCount, sends>>

TakeResult == GetNextResult("waiting", "asking")

\* One more call; then send() returns the results.
TakeLastResult == GetNextResult("last", "idle")

-----------------------------------------------------------------------------
Goroutine ==
  \/ OpenInterface \/ ReportOpenFailure \/ SendSinglePacket \/ ReportProgress
  \/ ReportElapsed \/ CloseProgress \/ SetComplete

Collect == AskComplete \/ TakeResult \/ TakeLastResult

Next ==
  \/ Goroutine
  \/ Collect
  \/ \E n \in Lengths : AddPacket(n)
  \/ Send
  \/ Clear

Spec == Init /\ [][Next]_vars
\* Goroutine and thread are scheduled fairly and libpcap returns; nothing obliges
\* the user to call anything.
FairSpec == Spec /\ WF_vars(Goroutine) /\ WF_vars(Collect)

-----------------------------------------------------------------------------
(***************************************************************************)
(* Properties                                                              *)
(***************************************************************************)
Results == [index : Nat, error : Errors]

SequenceTypeOK ==
  /\ payloads \in Seq(Nat) /\ packetCount = Len(payloads)
  /\ progressCh \in Seq(Results) /\ Len(progressCh) <= ProgressCap
  /\ goroutine \in {"off", "opening", "open failed", "sending", "reporting", "closing",
                    "flagging", "panicked"}
  /\ total \in 0..Len(payloads) /\ next \in 0..total /\ err \in Errors
  /\ caller \in {"idle", "asking", "waiting", "last", "dead"}
  /\ results \in Seq(Results) /\ published \in Seq(Results)
  /\ sends \in Nat /\ wire \in Seq(Nat) /\ outcomes \in Seq(Errors)

\* Between the goroutine and the list that send() collects nothing is lost,
\* repeated or overtaken: what was taken and what still waits is what was
\* published.  What a send() leaves behind is still in progressCh.
ResultsInOrder ==
  sends = 1 => results \o progressCh = published

\* A result tells the truth about its packet: the first ones are those of packets
\* 0, 1, 2, ... with the outcome of each; only the extra one and the one of an
\* interface that does not open are not about a packet of their own.
ResultsAreTrue ==
  sends = 1 =>
    \A k \in DOMAIN published :
      \/ k <= Len(outcomes) /\ published[k] = Result(k - 1, outcomes[k])
      \/ k = total + 1 /\ published[k] = Result(total - 1, "nil")
      \/ k = 1 /\ outcomes = <<>> /\ published[k] = Result(0, "failed")

\* However slowly the results are taken, packets are written in order and none twice,
\* a short one never goes out, and every packet that is reported as sent was written
\* (core/transmit.go 366-389).
WireInOrder ==
  sends = 1 =>
    /\ \A k, m \in DOMAIN wire : k < m => wire[k] < wire[m]
    /\ \A k \in DOMAIN wire :
         wire[k] < Len(outcomes) /\ payloads[wire[k] + 1] >= MinPayloadSize
    /\ \A k \in DOMAIN outcomes :
         outcomes[k] = "nil" => \E m \in DOMAIN wire : wire[m] = k - 1

\* The extra GetNextResult at the end of send() never waits, as progressCh is
\* closed by then (transmit.py:488 relies on core/transmit.go 407 and 408).
LastResultDoesNotBlock == caller = "last" => closed

\* Only a second Send on the same object can send on the closed channel.
NoPanicInFirstSend == goroutine = "panicked" => sends > 1

\* send() returns, unless the process ends before.
SendReturns == caller # "idle" ~> caller \in {"idle", "dead"}
=============================================================================
