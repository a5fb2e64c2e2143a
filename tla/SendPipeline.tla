--------------------------- MODULE SendPipeline ---------------------------
(***************************************************************************)
(* The goroutines of one MultiStreamSender.Send (core/send_stream.go).     *)
(*                                                                         *)
(*   feeder --rawCh--> preparation workers --prepCh--> sender streams      *)
(*                                                                         *)
(* The feeder hands out the payloads in order, any number of workers turn  *)
(* payloads into packets or reject them, any number of streams write the   *)
(* packets to the interface.  A stream takes a token of the turnstile and  *)
(* then, unless ordering is disabled, spins until the shared counter       *)
(* nextToSend reaches the index of its packet.  A completer waits for the  *)
(* streams, closes the pcap handles and publishes completion.              *)
(*                                                                         *)
(* Packets are known by their index in Payloads; of a payload only its     *)
(* length is kept, which is all that preparation looks at.  What workers   *)
(* and streams report about errors is the business of ResultReporter; the  *)
(* two are joined in MultiStreamSender.                                    *)
(*                                                                         *)
(* Send is called once, a second call returns at once.  So cancelFunc runs *)
(* only when an interface fails to open.  The feeder has not started then, *)
(* and the cancellation branches of the feeder, the workers and the        *)
(* streams are never taken: invariant CancelFindsNoWork.                   *)
(***************************************************************************)
EXTENDS Integers, Sequences, FiniteSets, Functions

CONSTANTS
  Workers,            \* the preparation goroutines, StreamConfig.PacketWorkers of them
  Streams,            \* the sending goroutines, StreamConfig.StreamCount of them
  Lengths,            \* payload lengths a user may add
  MaxPayloads,        \* bound: how many payloads are added
  MaxSafePayloadSize, \* maxSafePayloadSize, 1472
  Serializable,       \* the configured addresses are IPv4 and serialise
  ChannelBuffers,     \* capacity of rawCh and of prepCh
  TurnstileBurst,     \* capacity of turnstileCh
  EnableCPUPinning,
  EnableMetrics

ASSUME PartiesAssumption ==
  /\ IsFiniteSet(Workers) /\ Workers # {}
  /\ IsFiniteSet(Streams) /\ Streams # {}

ASSUME SizesAssumption ==
  /\ Lengths \subseteq Nat
  /\ MaxPayloads \in Nat
  /\ MaxSafePayloadSize \in Nat
  /\ ChannelBuffers \in Nat \ {0}
  /\ TurnstileBurst \in Nat \ {0}

ASSUME FlagsAssumption ==
  /\ Serializable \in BOOLEAN
  /\ EnableCPUPinning \in BOOLEAN
  /\ EnableMetrics \in BOOLEAN

VARIABLES
  payloads,        \* ms.Payloads: the length of each
  disableOrdering, \* StreamConfig.DisableOrdering
  sendPc,          \* where Send is
  feeder,          \* where the feeder goroutine is
  fed,             \* payloads put on rawCh
  taken,           \* payloads received from rawCh
  workerPc,        \* where each worker is
  workerIdx,       \* the packet it prepares
  prepCh,          \* indices of the prepared packets
  streamPc,        \* where each stream is
  streamIdx,       \* the packet it sends
  turnstile,       \* does the turnstile goroutine run
  tokens,          \* len(turnstileCh)
  nextToSend,
  processed,       \* metrics.packetsProcessed
  completer,       \* where the completion goroutine is
  wire,            \* history: indices in the order of their WritePacketData calls
  failed,          \* history: indices whose write returned an error
  rejected,        \* history: indices preparation rejected
  burst            \* history: writes since the turnstile last ticked

feedVars == <<feeder, fed>>
workerVars == <<workerPc, workerIdx>>
streamVars == <<streamPc, streamIdx>>
turnstileVars == <<turnstile, tokens>>
historyVars == <<wire, failed, rejected, burst>>
userVars == <<payloads, disableOrdering>>
vars == <<userVars, sendPc, feedVars, taken, workerVars, prepCh, streamVars,
          turnstileVars, nextToSend, processed, completer, historyVars>>

NoIndex == -1

\* Positions in payloads; Go counts from 0, sequences from 1.
Indices == 0 .. Len(payloads) - 1

\* What preparePackets can turn into a packet.
SafeLength(len) == len >= 1 /\ len <= MaxSafePayloadSize
Sendable(len) == SafeLength(len) /\ Serializable
Acceptable(i) == Sendable(payloads[i + 1])

\* isComplete, stored by the completer together with channelClosed.
IsComplete == completer = "done"

\* The packets that are in a stage of the pipeline.
Preparing == {workerIdx[w] : w \in {v \in Workers : workerPc[v] = "prepare"}}
Queued == Range(prepCh)
Unwritten == {"token", "turn", "write"}
Held == {streamIdx[s] : s \in {t \in Streams : streamPc[t] \in Unwritten}}
Written == Range(wire)

-----------------------------------------------------------------------------
Init ==
  /\ payloads = <<>>
  /\ disableOrdering = FALSE
  /\ sendPc = "idle"
  /\ feeder = "off"
  /\ fed = 0
  /\ taken = 0
  /\ workerPc = [w \in Workers |-> "off"]
  /\ workerIdx = [w \in Workers |-> NoIndex]
  /\ prepCh = <<>>
  /\ streamPc = [s \in Streams |-> "off"]
  /\ streamIdx = [s \in Streams |-> NoIndex]
  /\ turnstile = "off"
  /\ tokens = 0
  /\ nextToSend = 0
  /\ processed = 0
  /\ completer = "off"
  /\ wire = <<>>
  /\ failed = {}
  /\ rejected = {}
  /\ burst = 0

-----------------------------------------------------------------------------
(***************************************************************************)
(* Faulty variants of definitions below, each with a bug that code like    *)
(* this could have.  The specification does not use them: put in the place *)
(* of the definition they are named after, each breaks a property, which   *)
(* shows that the property depends on that piece of code.                  *)
(***************************************************************************)

\* WorkersDone, had the WaitGroup been incremented once instead of per worker.
AWorkerDone == \E w \in Workers : workerPc[w] = "done"

\* StreamsDone, likewise.
AStreamDone == \E s \in Streams : streamPc[s] = "done"

\* HasTurn with an off-by-one comparison.
HasTurnOrIsNext(s) == disableOrdering \/ streamIdx[s] <= nextToSend + 1

\* WithToken on a channel with room for one token too many.
WithTokenOneMore(n) == IF n <= TurnstileBurst THEN n + 1 ELSE n

\* Send with the feeder started before the interfaces are open.
SendFeedsFirst ==
  /\ sendPc = "idle"
  /\ sendPc' = "opening"
  /\ nextToSend' = 0
  /\ processed' = 0
  /\ turnstile' = "on"
  /\ workerPc' = [w \in Workers |-> "receive"]
  /\ feeder' = "feed"
  /\ UNCHANGED <<userVars, fed, taken, workerIdx, prepCh, streamVars,
                 tokens, completer, historyVars>>

\* RejectPayload that also advances nextToSend, the obvious repair of the gap.
RejectAdvances(w) ==
  /\ workerPc[w] = "prepare"
  /\ ~Acceptable(workerIdx[w])
  /\ nextToSend' = nextToSend + 1
  /\ rejected' = rejected \cup {workerIdx[w]}
  /\ workerPc' = [workerPc EXCEPT ![w] = "receive"]
  /\ workerIdx' = [workerIdx EXCEPT ![w] = NoIndex]
  /\ UNCHANGED <<userVars, sendPc, feedVars, taken, prepCh, streamVars, turnstileVars,
                 processed, completer, wire, failed, burst>>

\* RejectPayload with the "continue" forgotten.
RejectFallsThrough(w) ==
  /\ workerPc[w] = "prepare"
  /\ ~Acceptable(workerIdx[w])
  /\ Len(prepCh) < ChannelBuffers
  /\ rejected' = rejected \cup {workerIdx[w]}
  /\ prepCh' = Append(prepCh, workerIdx[w])
  /\ workerPc' = [workerPc EXCEPT ![w] = "receive"]
  /\ workerIdx' = [workerIdx EXCEPT ![w] = NoIndex]
  /\ UNCHANGED <<userVars, sendPc, feedVars, taken, streamVars, turnstileVars,
                 nextToSend, processed, completer, wire, failed, burst>>

\* ReportFailure that advances nextToSend like the branches for nil packets do.
ReportFailureAdvances(s) ==
  /\ streamPc[s] = "report"
  /\ nextToSend' = nextToSend + 1
  /\ streamPc' = [streamPc EXCEPT ![s] = "advance"]
  /\ UNCHANGED <<userVars, sendPc, feedVars, taken, workerVars, prepCh, streamIdx,
                 turnstileVars, processed, completer, historyVars>>

\* Advance that a failed write skips.
AdvanceOnSuccess(s) ==
  /\ streamPc[s] = "advance"
  /\ nextToSend' = IF disableOrdering \/ streamIdx[s] \in failed
                    THEN nextToSend ELSE nextToSend + 1
  /\ streamPc' = [streamPc EXCEPT ![s] = "count"]
  /\ UNCHANGED <<userVars, sendPc, feedVars, taken, workerVars, prepCh, streamIdx,
                 turnstileVars, processed, completer, historyVars>>

-----------------------------------------------------------------------------
\* A user adds a payload of length len.  Payloads added while a Send runs race
\* with the feeder's loop and are left out.
AddPayload(len) ==
  /\ sendPc = "idle"
  /\ Len(payloads) < MaxPayloads
  /\ payloads' = Append(payloads, len)
  /\ UNCHANGED <<disableOrdering, sendPc, feedVars, taken, workerVars, prepCh, streamVars,
                 turnstileVars, nextToSend, processed, completer, historyVars>>

\* SetAdvancedConfig chooses ordered or raw transmission.  Calling it while a
\* Send runs races with the streams and is left out.
SetAdvancedConfig(disable) ==
  /\ sendPc = "idle"
  /\ disableOrdering' = disable
  /\ UNCHANGED <<payloads, sendPc, feedVars, taken, workerVars, prepCh, streamVars,
                 turnstileVars, nextToSend, processed, completer, historyVars>>

\* Send up to the loop that opens the interfaces: counters are reset, the
\* turnstile and the workers start.
Send ==
  /\ sendPc = "idle"
  /\ sendPc' = "opening"
  /\ nextToSend' = 0
  /\ processed' = 0
  /\ turnstile' = "on"
  /\ workerPc' = [w \in Workers |-> "receive"]
  /\ UNCHANGED <<userVars, feedVars, taken, workerIdx, prepCh, streamVars,
                 tokens, completer, historyVars>>

\* pcap.OpenLive succeeds and the stream's goroutine starts.
OpenStream(s) ==
  /\ sendPc = "opening"
  /\ streamPc[s] = "off"
  /\ streamPc' = [streamPc EXCEPT ![s] = IF EnableCPUPinning THEN "pin" ELSE "receive"]
  /\ UNCHANGED <<userVars, sendPc, feedVars, taken, workerVars, prepCh, streamIdx,
                 turnstileVars, nextToSend, processed, completer, historyVars>>

\* pcap.OpenLive fails: cancelFunc, and Send returns the error.
OpenFails ==
  /\ sendPc = "opening"
  /\ \E s \in Streams : streamPc[s] = "off"
  /\ sendPc' = "failed"
  /\ UNCHANGED <<userVars, feedVars, taken, workerVars, prepCh, streamVars,
                 turnstileVars, nextToSend, processed, completer, historyVars>>

\* All interfaces are open: Send starts the feeder and the completer and returns.
StartFeeding ==
  /\ sendPc = "opening"
  /\ \A s \in Streams : streamPc[s] # "off"
  /\ sendPc' = "returned"
  /\ feeder' = "feed"
  /\ completer' = "wait"
  /\ UNCHANGED <<userVars, fed, taken, workerVars, prepCh, streamVars,
                 turnstileVars, nextToSend, processed, historyVars>>

-----------------------------------------------------------------------------
\* The feeder's loop over Payloads; rawCh blocks when it is full.
Feed ==
  /\ feeder = "feed"
  /\ fed < Len(payloads)
  /\ fed - taken < ChannelBuffers
  /\ fed' = fed + 1
  /\ UNCHANGED <<userVars, sendPc, feeder, taken, workerVars, prepCh, streamVars,
                 turnstileVars, nextToSend, processed, completer, historyVars>>

\* close(rawCh)
CloseRawCh ==
  /\ feeder = "feed"
  /\ fed = Len(payloads)
  /\ feeder' = "wait"
  /\ UNCHANGED <<userVars, sendPc, fed, taken, workerVars, prepCh, streamVars,
                 turnstileVars, nextToSend, processed, completer, historyVars>>

\* wg.Wait() returns
WorkersDone == \A w \in Workers : workerPc[w] = "done"

\* wg.Wait(), close(prepCh)
ClosePrepCh ==
  /\ feeder = "wait"
  /\ WorkersDone
  /\ feeder' = "done"
  /\ UNCHANGED <<userVars, sendPc, fed, taken, workerVars, prepCh, streamVars,
                 turnstileVars, nextToSend, processed, completer, historyVars>>

rawChClosed == feeder \in {"wait", "done"}
prepChClosed == feeder = "done"

-----------------------------------------------------------------------------
\* A worker receives the oldest payload of rawCh.
TakePayload(w) ==
  /\ workerPc[w] = "receive"
  /\ taken < fed
  /\ taken' = taken + 1
  /\ workerPc' = [workerPc EXCEPT ![w] = "prepare"]
  /\ workerIdx' = [workerIdx EXCEPT ![w] = taken]
  /\ UNCHANGED <<userVars, sendPc, feedVars, prepCh, streamVars, turnstileVars,
                 nextToSend, processed, completer, historyVars>>

\* rawCh is closed and drained: the worker's loop ends.
WorkerExits(w) ==
  /\ workerPc[w] = "receive"
  /\ rawChClosed
  /\ taken = fed
  /\ workerPc' = [workerPc EXCEPT ![w] = "done"]
  /\ UNCHANGED <<userVars, sendPc, feedVars, taken, workerIdx, prepCh, streamVars,
                 turnstileVars, nextToSend, processed, completer, historyVars>>

\* Preparation fails one of its checks: reportError, continue.  Nothing tells
\* the streams that this index will not come.
RejectPayload(w) ==
  /\ workerPc[w] = "prepare"
  /\ ~Acceptable(workerIdx[w])
  /\ rejected' = rejected \cup {workerIdx[w]}
  /\ workerPc' = [workerPc EXCEPT ![w] = "receive"]
  /\ workerIdx' = [workerIdx EXCEPT ![w] = NoIndex]
  /\ UNCHANGED <<userVars, sendPc, feedVars, taken, prepCh, streamVars, turnstileVars,
                 nextToSend, processed, completer, wire, failed, burst>>

\* The packet is built and goes to prepCh, which blocks when it is full.
EmitPacket(w) ==
  /\ workerPc[w] = "prepare"
  /\ Acceptable(workerIdx[w])
  /\ Len(prepCh) < ChannelBuffers
  /\ prepCh' = Append(prepCh, workerIdx[w])
  /\ workerPc' = [workerPc EXCEPT ![w] = "receive"]
  /\ workerIdx' = [workerIdx EXCEPT ![w] = NoIndex]
  /\ UNCHANGED <<userVars, sendPc, feedVars, taken, streamVars, turnstileVars,
                 nextToSend, processed, completer, historyVars>>

-----------------------------------------------------------------------------
\* PinToCPU; a failure is reported and ignored.
PinStream(s) ==
  /\ streamPc[s] = "pin"
  /\ streamPc' = [streamPc EXCEPT ![s] = "receive"]
  /\ UNCHANGED <<userVars, sendPc, feedVars, taken, workerVars, prepCh, streamIdx,
                 turnstileVars, nextToSend, processed, completer, historyVars>>

\* A stream receives the oldest packet of prepCh.
TakePacket(s) ==
  /\ streamPc[s] = "receive"
  /\ prepCh # <<>>
  /\ prepCh' = Tail(prepCh)
  /\ streamPc' = [streamPc EXCEPT ![s] = "token"]
  /\ streamIdx' = [streamIdx EXCEPT ![s] = Head(prepCh)]
  /\ UNCHANGED <<userVars, sendPc, feedVars, taken, workerVars, turnstileVars,
                 nextToSend, processed, completer, historyVars>>

\* prepCh is closed and drained: the stream's loop ends.
StreamExits(s) ==
  /\ streamPc[s] = "receive"
  /\ prepChClosed
  /\ prepCh = <<>>
  /\ streamPc' = [streamPc EXCEPT ![s] = "done"]
  /\ UNCHANGED <<userVars, sendPc, feedVars, taken, workerVars, prepCh, streamIdx,
                 turnstileVars, nextToSend, processed, completer, historyVars>>

\* <-turnstileCh
TakeToken(s) ==
  /\ streamPc[s] = "token"
  /\ tokens > 0
  /\ tokens' = tokens - 1
  /\ streamPc' = [streamPc EXCEPT ![s] = "turn"]
  /\ UNCHANGED <<userVars, sendPc, feedVars, taken, workerVars, prepCh, streamIdx,
                 turnstile, nextToSend, processed, completer, historyVars>>

HasTurn(s) == disableOrdering \/ nextToSend = streamIdx[s]

\* The spin on nextToSend ends; there is none when ordering is disabled.
AwaitTurn(s) ==
  /\ streamPc[s] = "turn"
  /\ HasTurn(s)
  /\ streamPc' = [streamPc EXCEPT ![s] = "write"]
  /\ UNCHANGED <<userVars, sendPc, feedVars, taken, workerVars, prepCh, streamIdx,
                 turnstileVars, nextToSend, processed, completer, historyVars>>

\* handle.WritePacketData returns, with or without an error.
WritePacket(s, ok) ==
  /\ streamPc[s] = "write"
  /\ wire' = Append(wire, streamIdx[s])
  /\ failed' = IF ok THEN failed ELSE failed \cup {streamIdx[s]}
  /\ burst' = burst + 1
  /\ streamPc' = [streamPc EXCEPT ![s] = IF ok THEN "advance" ELSE "report"]
  /\ UNCHANGED <<userVars, sendPc, feedVars, taken, workerVars, prepCh, streamIdx,
                 turnstileVars, nextToSend, processed, completer, rejected>>

\* reportError and packetsDropped.Add(1) for a write that failed.
ReportFailure(s) ==
  /\ streamPc[s] = "report"
  /\ streamPc' = [streamPc EXCEPT ![s] = "advance"]
  /\ UNCHANGED <<userVars, sendPc, feedVars, taken, workerVars, prepCh, streamIdx,
                 turnstileVars, nextToSend, processed, completer, historyVars>>

\* nextToSend.Add(1), whether or not the write failed.
Advance(s) ==
  /\ streamPc[s] = "advance"
  /\ nextToSend' = IF disableOrdering THEN nextToSend ELSE nextToSend + 1
  /\ streamPc' = [streamPc EXCEPT ![s] = "count"]
  /\ UNCHANGED <<userVars, sendPc, feedVars, taken, workerVars, prepCh, streamIdx,
                 turnstileVars, processed, completer, historyVars>>

\* packetsProcessed.Add(1) if metrics are on; back to the head of the loop.
CountPacket(s) ==
  /\ streamPc[s] = "count"
  /\ processed' = IF EnableMetrics THEN processed + 1 ELSE processed
  /\ streamPc' = [streamPc EXCEPT ![s] = "receive"]
  /\ streamIdx' = [streamIdx EXCEPT ![s] = NoIndex]
  /\ UNCHANGED <<userVars, sendPc, feedVars, taken, workerVars, prepCh,
                 turnstileVars, nextToSend, completer, historyVars>>

-----------------------------------------------------------------------------
\* The buffered channel takes one more token or the token is skipped.
WithToken(n) == IF n < TurnstileBurst THEN n + 1 ELSE n

\* One tick of rateLimitTurnstile, or one round of the loop that replaces it
\* when there is no rate limit: a token is added unless the channel is full.
TurnstileTick ==
  /\ turnstile = "on"
  /\ tokens' = WithToken(tokens)
  /\ burst' = 0
  /\ UNCHANGED <<userVars, sendPc, feedVars, taken, workerVars, prepCh, streamVars,
                 turnstile, nextToSend, processed, completer, wire, failed, rejected>>

\* The turnstile goroutine sees the cancelled context.
TurnstileExits ==
  /\ turnstile = "on"
  /\ sendPc = "failed"
  /\ turnstile' = "done"
  /\ UNCHANGED <<userVars, sendPc, feedVars, taken, workerVars, prepCh, streamVars,
                 tokens, nextToSend, processed, completer, historyVars>>

\* sendWg.Wait() returns
StreamsDone == \A s \in Streams : streamPc[s] = "done"

\* sendWg.Wait() returns and the handles are closed.
CloseHandles ==
  /\ completer = "wait"
  /\ StreamsDone
  /\ completer' = "publish"
  /\ UNCHANGED <<userVars, sendPc, feedVars, taken, workerVars, prepCh, streamVars,
                 turnstileVars, nextToSend, processed, historyVars>>

\* The final result, close(progressCh), channelClosed and isComplete.
PublishCompletion ==
  /\ completer = "publish"
  /\ completer' = "done"
  /\ UNCHANGED <<userVars, sendPc, feedVars, taken, workerVars, prepCh, streamVars,
                 turnstileVars, nextToSend, processed, historyVars>>

-----------------------------------------------------------------------------
SendCall == Send \/ OpenFails \/ StartFeeding \/ \E s \in Streams : OpenStream(s)
FeederNext == Feed \/ CloseRawCh \/ ClosePrepCh
WorkerNext(w) ==
  TakePayload(w) \/ WorkerExits(w) \/ RejectPayload(w) \/ EmitPacket(w)
StreamNext(s) ==
  \/ PinStream(s) \/ TakePacket(s) \/ StreamExits(s) \/ TakeToken(s) \/ AwaitTurn(s)
  \/ \E ok \in BOOLEAN : WritePacket(s, ok)
  \/ ReportFailure(s) \/ Advance(s) \/ CountPacket(s)
TurnstileNext == TurnstileTick \/ TurnstileExits
CompleterNext == CloseHandles \/ PublishCompletion

Next ==
  \/ \E len \in Lengths : AddPayload(len)
  \/ \E disable \in BOOLEAN : SetAdvancedConfig(disable)
  \/ SendCall
  \/ FeederNext
  \/ \E w \in Workers : WorkerNext(w)
  \/ \E s \in Streams : StreamNext(s)
  \/ TurnstileNext
  \/ CompleterNext

Spec == Init /\ [][Next]_vars

\* Runnable goroutines run: the Go scheduler is fair and nothing they call
\* blocks for ever, WritePacketData included.  Adding payloads and calling Send
\* is up to the user; that an interface fails to open is never owed.
GoroutinesRun ==
  /\ WF_vars(\E s \in Streams : OpenStream(s))
  /\ WF_vars(StartFeeding)
  /\ WF_vars(FeederNext)
  /\ \A w \in Workers : WF_vars(WorkerNext(w))
  /\ \A s \in Streams : WF_vars(StreamNext(s))
  /\ WF_vars(TurnstileNext)
  /\ WF_vars(CompleterNext)

FairSpec == Spec /\ GoroutinesRun

-----------------------------------------------------------------------------
TypeOK ==
  /\ payloads \in Seq(Nat)
  /\ disableOrdering \in BOOLEAN
  /\ sendPc \in {"idle", "opening", "returned", "failed"}
  /\ feeder \in {"off", "feed", "wait", "done"}
  /\ fed \in 0 .. Len(payloads)
  /\ taken \in 0 .. fed
  /\ workerPc \in [Workers -> {"off", "receive", "prepare", "done"}]
  /\ workerIdx \in [Workers -> Int]
  /\ prepCh \in Seq(Int)
  /\ Len(prepCh) <= ChannelBuffers
  /\ streamPc \in [Streams -> {"off", "pin", "receive", "token", "turn", "write",
                               "report", "advance", "count", "done"}]
  /\ streamIdx \in [Streams -> Int]
  /\ turnstile \in {"off", "on", "done"}
  /\ tokens \in 0 .. TurnstileBurst
  /\ nextToSend \in Nat
  /\ processed \in Nat
  /\ completer \in {"off", "wait", "publish", "done"}
  /\ wire \in Seq(Int)
  /\ failed \subseteq Int
  /\ rejected \subseteq Int
  /\ burst \in Nat

-----------------------------------------------------------------------------
\* A packet is with one worker, once in prepCh, with one stream, written once.
OneHolder ==
  /\ \A v, w \in Workers :
       workerPc[v] = "prepare" /\ workerPc[w] = "prepare" /\ workerIdx[v] = workerIdx[w] => v = w
  /\ \A s, t \in Streams :
       streamPc[s] \in Unwritten /\ streamPc[t] \in Unwritten /\ streamIdx[s] = streamIdx[t] => s = t
  /\ IsInjective(prepCh)
  /\ IsInjective(wire)

\* A packet is in one place only.
OnePlace ==
  /\ Preparing \cap (Queued \cup Held \cup Written \cup rejected) = {}
  /\ Queued \cap (Held \cup Written \cup rejected) = {}
  /\ Held \cap (Written \cup rejected) = {}
  /\ Written \cap rejected = {}

\* No payload that left rawCh is lost.
NothingLost ==
  Preparing \cup Queued \cup Held \cup Written \cup rejected = 0 .. taken - 1

\* Only what can be sent gets past the workers.
OnlySendable ==
  /\ \A i \in Queued \cup Held \cup Written : Acceptable(i)
  /\ \A i \in rejected : ~Acceptable(i)

\* With ordering on at most one stream is between its turn and its Advance, its
\* packet is number nextToSend, and the wire holds exactly the packets before.
Sending == {"write", "report", "advance"}
TurnTaken ==
  /\ \A s \in Streams : streamPc[s] \in {"report", "advance"} => streamIdx[s] \in Written
  /\ ~disableOrdering =>
       /\ \A s \in Streams : streamPc[s] \in Sending => streamIdx[s] = nextToSend
       /\ \A s, t \in Streams : streamPc[s] \in Sending /\ streamPc[t] \in Sending => s = t
       /\ \A k \in DOMAIN wire : wire[k] = k - 1
       /\ IF \E s \in Streams : streamPc[s] \in {"report", "advance"}
          THEN Len(wire) = nextToSend + 1
          ELSE Len(wire) = nextToSend

\* The goroutines stop one after the other, each with nothing left to do.
Shutdown ==
  /\ sendPc \in {"idle", "opening", "failed"} <=> feeder = "off"
  /\ feeder = "off" <=> completer = "off"
  /\ feeder = "off" => fed = 0
  /\ rawChClosed => fed = Len(payloads)
  /\ \A w \in Workers : workerPc[w] = "off" <=> sendPc = "idle"
  /\ \A w \in Workers : workerPc[w] = "done" => rawChClosed /\ taken = fed
  /\ prepChClosed => WorkersDone
  /\ sendPc = "idle" => nextToSend = 0 /\ \A s \in Streams : streamPc[s] = "off"
  /\ sendPc = "returned" => \A s \in Streams : streamPc[s] # "off"
  /\ \A s \in Streams : streamPc[s] = "done" => prepChClosed /\ prepCh = <<>>
  /\ completer \in {"publish", "done"} => StreamsDone

\* Tokens saved up, tokens taken but not used yet, and writes since the last tick.
Paid == {s \in Streams : streamPc[s] \in {"turn", "write"}}
BurstBudget ==
  tokens + Cardinality(Paid) + burst <= TurnstileBurst + Cardinality(Streams)

\* With metrics on every write has been counted or its stream is about to.
Uncounted == {s \in Streams : streamPc[s] \in {"report", "advance", "count"}}
CountLedger ==
  EnableMetrics => processed + Cardinality(Uncounted) = Len(wire)

PipelineInv ==
  /\ TypeOK /\ OneHolder /\ OnePlace /\ NothingLost /\ OnlySendable
  /\ TurnTaken /\ Shutdown /\ BurstBudget /\ CountLedger

-----------------------------------------------------------------------------
\* With ordering on, packets are written in the order of their payloads, none
\* skipped, whatever worker prepared and whatever stream wrote them (sendPackets).
OrderedDelivery ==
  ~disableOrdering => \A k \in DOMAIN wire : wire[k] = k - 1

\* preparePackets never sends on prepCh after the feeder closed it, which would
\* panic: no worker is preparing a packet then.
NoSendOnClosedChannel ==
  prepChClosed => Preparing = {}

\* The completer closes the pcap handles only when no stream will write again.
HandlesOpenForWrites ==
  \A s \in Streams : streamPc[s] \in Unwritten => completer = "wait"

\* Between two ticks of the turnstile the streams write what it had saved up and
\* what they had already paid for: at most TurnstileBurst packets and one per stream.
BurstBounded ==
  burst <= TurnstileBurst + Cardinality(Streams)

\* When Send fails to open an interface and cancels, no goroutine it leaves behind
\* holds a packet, and nothing was written.
CancelFindsNoWork ==
  sendPc = "failed" => wire = <<>> /\ Preparing = {} /\ Queued = {} /\ Held = {}

\* At completion the metrics have counted every attempt to write once, failed ones
\* included, whichever streams made them and in whatever order they added 1, and the
\* ordering counter has passed all of them (core/send_stream.go 396-403).
CountersSettle ==
  IsComplete =>
    /\ EnableMetrics => processed = Len(wire)
    /\ ~disableOrdering => nextToSend = Len(wire)

\* nextToSend moves past a packet only once that packet has been written, so no
\* stream gets its turn early.
TurnPassesAfterWrite ==
  [][nextToSend' > nextToSend => nextToSend \in Written]_vars

\* The pipeline keeps the sender's promise.
Promise == INSTANCE Transmission
  WITH unordered <- disableOrdering, started <- sendPc # "idle", complete <- IsComplete
ImplementsTransmission == Promise!Spec

\* Send ends in completion, and Wait returns, when packets may overtake each
\* other, and with ordering on when all payloads are acceptable and either one
\* worker prepares them in order or every packet can have a stream of its own.
CanFinish ==
  \/ disableOrdering
  \/ /\ \A i \in Indices : Acceptable(i)
     /\ Cardinality(Workers) = 1 \/ Len(payloads) <= Cardinality(Streams)
Completes == (sendPc = "returned" /\ CanFinish) ~> IsComplete

\* "Wait blocks until all packets have been sent": every Send that started ends.
WaitReturns == (sendPc = "returned") ~> IsComplete

\* "Still advance the counter to prevent deadlock": an error in one packet does not
\* keep the packets after it from being sent.
ErrorsDoNotBlock ==
  \A s \in Streams : (streamPc[s] = "turn") ~> (streamPc[s] = "write")
=============================================================================
