----------------------------- MODULE Lifecycle -----------------------------
(***************************************************************************)
(* A MultiStreamSender as the threads of a program use it: they add        *)
(* payloads, send and flush in any order and at the same time, where       *)
(* SendPipeline has one Send after everything was added.  To leave a with  *)
(* block is to flush, and to flush is to Wait.                             *)
(*                                                                         *)
(* Every Send that gets past the test of started runs a pipeline of its    *)
(* own, on counters and flags that all pipelines share.  Of SendPipeline's *)
(* channels and goroutines a pipeline keeps which packets have not come to *)
(* a stream yet, which a stream holds until it is their turn, and which    *)
(* are being written: packets overtake each other where there are several  *)
(* workers, and take every stream while one that is due still waits.       *)
(* Tokens of the turnstile are there when needed, and what a failed write  *)
(* changes is a matter of the results, in ResultReporter.                  *)
(***************************************************************************)
EXTENDS Integers, Sequences, FiniteSets, Functions

CONSTANTS
  Threads,
  Workers,     \* StreamConfig.PacketWorkers
  Streams,     \* StreamConfig.StreamCount
  MaxPayloads, \* bound on the payloads
  Refusals     \* the sets of payloads that the workers may have to refuse

ASSUME LifecycleAssumption ==
  /\ IsFiniteSet(Threads)
  /\ {Workers, Streams} \subseteq Nat \ {0} /\ MaxPayloads \in Nat
  /\ Refusals \subseteq SUBSET Nat

VARIABLES
  ordering,    \* ~StreamConfig.DisableOrdering
  refused,     \* the payloads that are empty or too large
  payloads,    \* the number of ms.Payloads; they are told apart by their index
  started, cancelled, channelClosed, isComplete,
  nextToSend,
  pc,          \* where each thread is
  runs,        \* the pipelines, in the order their Sends return
  wire,        \* history: the indices of the payloads written, failed writes included
  sends,       \* history: how many Sends got past the test of started
  found        \* history: the number of payloads when the first of them did

flags == <<started, cancelled, channelClosed, isComplete>>
settings == <<ordering, refused>>
history == <<sends, found>>
vars == <<settings, payloads, flags, nextToSend, pc, runs, wire, history>>

Init ==
  /\ ordering \in BOOLEAN /\ refused \in Refusals
  /\ payloads = 0
  /\ started = FALSE /\ cancelled = FALSE
  /\ channelClosed = FALSE /\ isComplete = FALSE
  /\ nextToSend = 0
  /\ pc = [t \in Threads |-> "idle"]
  /\ runs = <<>> /\ wire = <<>> /\ sends = 0 /\ found = 0

-----------------------------------------------------------------------------
(***************************************************************************)
(* Faulty variants, not used by the specification, each named after the    *)
(* definition below that it breaks.                                        *)
(***************************************************************************)
\* Completion once the packets are with the streams, not when they are written.
StreamsDoneEarly(run) == run.stage = "fed" /\ run.waiting = {}

\* A turn that is taken and not passed on.
AfterWriteStays == nextToSend

-----------------------------------------------------------------------------
Go(t, from, to) == pc[t] = from /\ pc' = [pc EXCEPT ![t] = to]

AddPayload(t) ==
  /\ pc[t] = "idle"
  /\ payloads < MaxPayloads
  /\ payloads' = payloads + 1
  /\ UNCHANGED <<settings, flags, nextToSend, pc, runs, wire, history>>

\* A Send that finds started set returns at once: nothing changes.
Send(t) ==
  /\ Go(t, "idle", "unstarted")
  /\ ~started
  /\ sends' = sends + 1
  /\ found' = IF sends = 0 THEN payloads ELSE found
  /\ UNCHANGED <<settings, payloads, flags, nextToSend, runs, wire>>

\* started.Store(true), and new metrics and a new turnstile.
MarkStarted(t) ==
  /\ Go(t, "unstarted", "started")
  /\ started' = TRUE
  /\ UNCHANGED <<settings, payloads, cancelled, channelClosed, isComplete, nextToSend,
                 runs, wire, history>>

ResetTurn(t) ==
  /\ Go(t, "started", "opening")
  /\ nextToSend' = 0
  /\ UNCHANGED <<settings, payloads, flags, runs, wire, history>>

NewRun == [stage |-> "started", waiting |-> {}, held |-> {}, writing |-> {}]

OpenInterfaces(t) ==
  /\ Go(t, "opening", "idle")
  /\ runs' = Append(runs, NewRun)
  /\ UNCHANGED <<settings, payloads, flags, nextToSend, wire, history>>

\* cancelFunc, and an error that Python raises.
OpenFails(t) ==
  /\ Go(t, "opening", "idle")
  /\ cancelled' = TRUE
  /\ UNCHANGED <<settings, payloads, started, channelClosed, isComplete, nextToSend,
                 runs, wire, history>>

Flush(t) ==
  /\ Go(t, "idle", "waiting")
  /\ UNCHANGED <<settings, payloads, flags, nextToSend, runs, wire, history>>

Wait(t) ==
  /\ Go(t, "waiting", "idle")
  /\ isComplete
  /\ UNCHANGED <<settings, payloads, flags, nextToSend, runs, wire, history>>

SendStep(t) == MarkStarted(t) \/ ResetTurn(t) \/ OpenInterfaces(t) \/ OpenFails(t)

-----------------------------------------------------------------------------
(***************************************************************************)
(* A pipeline.                                                             *)
(***************************************************************************)
Indices(n) == 0 .. n - 1

\* The range expression is evaluated: payloads added from now on are not seen.
StartFeeding(r) ==
  /\ runs[r].stage = "started"
  /\ runs' = [runs EXCEPT ![r].stage = "fed", ![r].waiting = Indices(payloads)]
  /\ UNCHANGED <<settings, payloads, flags, nextToSend, pc, wire, history>>

\* A packet that came out of prepCh had at most the other workers' packets before it.
MayOvertake(r, i) == Cardinality({j \in runs[r].waiting : j < i}) < Workers

\* A free stream takes a packet.
TakePacket(r, i) ==
  /\ i \in runs[r].waiting \ refused
  /\ MayOvertake(r, i)
  /\ Cardinality(runs[r].held \cup runs[r].writing) < Streams
  /\ runs' = [runs EXCEPT ![r].waiting = @ \ {i}, ![r].held = @ \cup {i}]
  /\ UNCHANGED <<settings, payloads, flags, nextToSend, pc, wire, history>>

\* A worker refuses a packet; nothing passes its turn on.
RejectPacket(r, i) ==
  /\ i \in runs[r].waiting \cap refused
  /\ MayOvertake(r, i)
  /\ runs' = [runs EXCEPT ![r].waiting = @ \ {i}]
  /\ UNCHANGED <<settings, payloads, flags, nextToSend, pc, wire, history>>

HasTurn(i) == ordering => i = nextToSend

TakeTurn(r, i) ==
  /\ i \in runs[r].held
  /\ HasTurn(i)
  /\ runs' = [runs EXCEPT ![r].held = @ \ {i}, ![r].writing = @ \cup {i}]
  /\ UNCHANGED <<settings, payloads, flags, nextToSend, pc, wire, history>>

AfterWrite == IF ordering THEN nextToSend + 1 ELSE nextToSend

Write(r, i) ==
  /\ i \in runs[r].writing
  /\ runs' = [runs EXCEPT ![r].writing = @ \ {i}]
  /\ wire' = Append(wire, i)
  /\ nextToSend' = AfterWrite
  /\ UNCHANGED <<settings, payloads, flags, pc, history>>

\* After cancelFunc a packet may not be fed, or the stream that takes it stops.
Abandon(r, i) ==
  /\ cancelled
  /\ i \in runs[r].waiting
  /\ runs' = [runs EXCEPT ![r].waiting = @ \ {i}]
  /\ UNCHANGED <<settings, payloads, flags, nextToSend, pc, wire, history>>

\* sendWg.Wait() returns.
StreamsDone(run) ==
  run.stage = "fed" /\ run.waiting = {} /\ run.held = {} /\ run.writing = {}

\* One section of the mutex: a pipeline that finds the channel closed is silent.
Publish(r) ==
  /\ StreamsDone(runs[r])
  /\ runs' = [runs EXCEPT ![r].stage = "done"]
  /\ IF channelClosed THEN UNCHANGED <<channelClosed, isComplete>>
     ELSE channelClosed' = TRUE /\ isComplete' = TRUE
  /\ UNCHANGED <<settings, payloads, started, cancelled, nextToSend, pc, wire, history>>

RunStep(r) ==
  \/ StartFeeding(r) \/ Publish(r)
  \/ \E i \in Indices(MaxPayloads) :
       TakePacket(r, i) \/ RejectPacket(r, i) \/ TakeTurn(r, i) \/ Write(r, i)

Next ==
  \/ \E t \in Threads : AddPayload(t) \/ Send(t) \/ SendStep(t) \/ Flush(t) \/ Wait(t)
  \/ \E r \in DOMAIN runs :
       RunStep(r) \/ \E i \in Indices(MaxPayloads) : Abandon(r, i)

Spec == Init /\ [][Next]_vars

\* Calls and goroutines run on; nobody has to call anything.
FairSpec ==
  /\ Spec
  /\ \A t \in Threads : WF_vars(SendStep(t)) /\ WF_vars(Wait(t))
  /\ \A r \in 1 .. Cardinality(Threads) : WF_vars(r \in DOMAIN runs /\ RunStep(r))

-----------------------------------------------------------------------------
(***************************************************************************)
(* Properties                                                              *)
(***************************************************************************)
\* Payloads are added while others send.  At completion everything has been written
\* that was there when the first Send began, except what workers refuse, whoever else
\* sends; a Send whose interfaces do not open may stop another one short.  A single
\* Send writes what it has found, each once, nothing else and, with ordering, in order
\* (send_stream.go 144-156 and 244-303).
CompleteIsSent ==
  /\ isComplete /\ ~cancelled =>
       \E n \in found .. payloads : Indices(n) \ refused \subseteq Range(wire)
  /\ sends = 1 =>
       /\ IsInjective(wire)
       /\ ordering => \A k \in DOMAIN wire : wire[k] = k - 1
       /\ isComplete => \E n \in found .. payloads : Range(wire) = Indices(n) \ refused

\* Without ordering every pipeline finishes.  With it none does whose packets wait for
\* a refused one, or for one that has no stream because others took them all.
CanFinish ==
  ordering => refused \cap Indices(payloads) = {} /\ (Workers = 1 \/ payloads <= Streams)

\* A flush ends when one Send is on its way that can finish, whether the flush began
\* before or after it (send_stream.go 718-723, transmit.py 358-364).
FlushEndsAfterSend ==
  \A t \in Threads :
    pc[t] = "waiting" /\ Len(runs) = 1 /\ CanFinish
      ~> pc[t] # "waiting" \/ sends > 1 \/ ~CanFinish
=============================================================================
