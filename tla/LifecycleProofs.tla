-------------------------- MODULE LifecycleProofs --------------------------
(***************************************************************************)
(* What Lifecycle.tla says of completion, proved for any number of         *)
(* threads, payloads, workers and streams, and any payloads to refuse.     *)
(***************************************************************************)
EXTENDS Lifecycle, SequenceTheorems, TLAPS

Stages == {"started", "fed", "done"}
PipelineRuns == [stage : Stages, waiting : SUBSET Int, held : SUBSET Int,
                 writing : SUBSET Int]

Types ==
  /\ ordering \in BOOLEAN /\ payloads \in Nat /\ nextToSend \in Nat
  /\ started \in BOOLEAN /\ cancelled \in BOOLEAN
  /\ channelClosed \in BOOLEAN /\ isComplete \in BOOLEAN
  /\ pc \in [Threads -> {"idle", "unstarted", "started", "opening", "waiting"}]
  /\ runs \in Seq(PipelineRuns)
  /\ wire \in Seq(Int) /\ sends \in Nat /\ found \in Nat

\* Calls, pipelines and flags have their types.
LEMMA TypesHold == Spec => []Types
<1>1. Init => Types
  <2> SUFFICES ASSUME Init PROVE Types
    OBVIOUS
  <2>1. runs \in Seq(PipelineRuns) /\ wire \in Seq(Int)
    BY DEF Init
  <2> QED BY <2>1 DEF Init, Types
<1>2. Types /\ [Next]_vars => Types'
  <2> SUFFICES ASSUME Types, [Next]_vars PROVE Types'
    OBVIOUS
  <2> USE DEF Types
  <2>1. CASE UNCHANGED vars
    BY <2>1 DEF vars, flags, settings, history
  <2>2. ASSUME NEW t \in Threads,
               AddPayload(t) \/ Send(t) \/ SendStep(t) \/ Flush(t) \/ Wait(t)
        PROVE  Types'
    <3>1. CASE AddPayload(t)
      BY <3>1 DEF AddPayload, flags, settings, history
    <3>2. CASE Send(t)
      BY <3>2 DEF Send, Go, flags, settings
    <3>3. CASE MarkStarted(t) \/ ResetTurn(t) \/ OpenFails(t)
      <4>1. CASE MarkStarted(t)
        BY <4>1 DEF MarkStarted, Go, settings, history
      <4>2. CASE ResetTurn(t)
        BY <4>2 DEF ResetTurn, Go, flags, settings, history
      <4>3. CASE OpenFails(t)
        BY <4>3 DEF OpenFails, Go, settings, history
      <4> QED BY <3>3, <4>1, <4>2, <4>3
    <3>4. CASE OpenInterfaces(t)
      <4>1. NewRun \in PipelineRuns
        BY DEF PipelineRuns, Stages, NewRun
      <4>2. runs' \in Seq(PipelineRuns)
        BY <3>4, <4>1, AppendProperties DEF OpenInterfaces
      <4> QED BY <3>4, <4>2 DEF OpenInterfaces, Go, flags, settings, history
    <3>5. CASE Flush(t) \/ Wait(t)
      <4>1. CASE Flush(t)
        BY <4>1 DEF Flush, Go, flags, settings, history
      <4>2. CASE Wait(t)
        BY <4>2 DEF Wait, Go, flags, settings, history
      <4> QED BY <3>5, <4>1, <4>2
    <3> QED BY <2>2, <3>1, <3>2, <3>3, <3>4, <3>5 DEF SendStep
  <2>3. ASSUME NEW r \in DOMAIN runs,
               RunStep(r) \/ \E i \in Indices(MaxPayloads) : Abandon(r, i)
        PROVE  Types'
    <3>1. runs[r] \in PipelineRuns
      OBVIOUS
    <3>2. ASSUME NEW run \in PipelineRuns, runs' = [runs EXCEPT ![r] = run]
          PROVE  runs' \in Seq(PipelineRuns)
      BY <3>2, ExceptSeq
    <3>3. CASE StartFeeding(r)
      <4>1. [runs[r] EXCEPT !.stage = "fed", !.waiting = Indices(payloads)] \in PipelineRuns
        <5>1. Indices(payloads) \subseteq Int
          BY DEF Indices
        <5> QED BY <3>1, <5>1 DEF PipelineRuns, Stages
      <4>2. runs' \in Seq(PipelineRuns)
        BY <3>2, <3>3, <4>1 DEF StartFeeding
      <4> QED BY <3>3, <4>2 DEF StartFeeding, flags, settings, history
    <3>4. CASE Publish(r)
      <4>1. [runs[r] EXCEPT !.stage = "done"] \in PipelineRuns
        BY <3>1 DEF PipelineRuns, Stages
      <4>2. runs' \in Seq(PipelineRuns)
        BY <3>2, <3>4, <4>1 DEF Publish
      <4> QED BY <3>4, <4>2 DEF Publish, settings, history
    <3>5. ASSUME NEW i \in Indices(MaxPayloads),
                 TakePacket(r, i) \/ RejectPacket(r, i) \/ TakeTurn(r, i) \/ Abandon(r, i)
          PROVE  Types'
      <4>1. i \in Int
        BY DEF Indices
      <4>2. runs' \in Seq(PipelineRuns)
        <5>1. /\ [runs[r] EXCEPT !.waiting = @ \ {i}, !.held = @ \cup {i}] \in PipelineRuns
              /\ [runs[r] EXCEPT !.held = @ \ {i}, !.writing = @ \cup {i}] \in PipelineRuns
              /\ [runs[r] EXCEPT !.waiting = @ \ {i}] \in PipelineRuns
          BY <3>1, <4>1 DEF PipelineRuns
        <5> QED BY <3>2, <3>5, <5>1 DEF TakePacket, RejectPacket, TakeTurn, Abandon
      <4> QED BY <3>5, <4>2
        DEF TakePacket, RejectPacket, TakeTurn, Abandon, flags, settings, history
    <3>6. ASSUME NEW i \in Indices(MaxPayloads), Write(r, i)
          PROVE  Types'
      <4>1. i \in Int
        BY DEF Indices
      <4>2. runs' \in Seq(PipelineRuns)
        <5>1. [runs[r] EXCEPT !.writing = @ \ {i}] \in PipelineRuns
          BY <3>1, <4>1 DEF PipelineRuns
        <5> QED BY <3>2, <3>6, <5>1 DEF Write
      <4>3. wire' \in Seq(Int)
        BY <3>6, <4>1, AppendProperties DEF Write
      <4> QED BY <3>6, <4>2, <4>3 DEF Write, AfterWrite, flags, settings, history
    <3> QED BY <2>3, <3>3, <3>4, <3>5, <3>6 DEF RunStep
  <2> QED BY <2>1, <2>2, <2>3 DEF Next
<1> QED BY <1>1, <1>2, PTL DEF Spec

\* A packet that is written is on the wire with those before it.
LEMMA AppendRange ==
  ASSUME NEW s \in Seq(Int), NEW x \in Int
  PROVE  Range(Append(s, x)) = Range(s) \cup {x}
<1> DEFINE u == Append(s, x)
<1>1. u \in Seq(Int) /\ DOMAIN u = 1 .. Len(s) + 1 /\ DOMAIN s = 1 .. Len(s)
      /\ Len(s) \in Nat /\ u[Len(s) + 1] = x /\ \A k \in 1 .. Len(s) : u[k] = s[k]
  BY AppendProperties, LenProperties
<1> HIDE DEF u
<1>2. ASSUME NEW k \in DOMAIN u PROVE u[k] \in Range(s) \cup {x}
  BY <1>1, <1>2 DEF Range
<1>3. ASSUME NEW y \in Range(s) PROVE y \in Range(u)
  BY <1>1, <1>3 DEF Range
<1>4. x \in Range(u)
  <2>1. Len(s) + 1 \in DOMAIN u
    BY <1>1
  <2> QED BY <1>1, <2>1 DEF Range
<1>5. Range(u) = Range(s) \cup {x}
  BY <1>2, <1>3, <1>4 DEF Range
<1> QED BY <1>5 DEF u

-----------------------------------------------------------------------------
(***************************************************************************)
(* Any number of Sends.                                                    *)
(***************************************************************************)
InSend(t) == pc[t] \in {"unstarted", "started", "opening"}

\* All packets up to some number that was there at the first Send are in s.
AllIn(s) == \E n \in found .. payloads : Indices(n) \ refused \subseteq s

InHand(run) == run.waiting \cup run.held \cup run.writing

\* A pipeline's packets are in its hands or have been written.
Kept(run) ==
  run.stage # "started" /\ ~cancelled => AllIn(InHand(run) \cup Range(wire))

AllKept ==
  /\ sends = 0 => runs = <<>> /\ ~isComplete /\ \A t \in Threads : ~InSend(t)
  /\ sends # 0 => found <= payloads
  /\ \A r \in DOMAIN runs : Kept(runs[r])
  /\ isComplete /\ ~cancelled => AllIn(Range(wire))

\* Nothing is there at first.
LEMMA AllKeptInit == Init => AllKept
<1> SUFFICES ASSUME Init PROVE AllKept
  OBVIOUS
<1> QED BY DEF Init, AllKept, InSend

\* More payloads, and more packets, change nothing of what is there.
LEMMA AllInGrows ==
  ASSUME Types, Types', found' = found, refused' = refused, payloads <= payloads',
         NEW s, NEW u, s \subseteq u \cup refused, AllIn(s)
  PROVE  AllIn(u)'
<1>1. PICK n \in found .. payloads : Indices(n) \ refused \subseteq s
  BY DEF AllIn
<1>2. n \in found' .. payloads'
  BY DEF Types
<1>3. Indices(n) \ refused' \subseteq u
  BY <1>1
<1> QED BY <1>2, <1>3 DEF AllIn

\* A pipeline keeps its packets if what leaves its hands is written or refused.
LEMMA KeptStays ==
  ASSUME Types, Types', found' = found, refused' = refused, payloads <= payloads',
         cancelled => cancelled',
         NEW q \in DOMAIN runs, Kept(runs[q]),
         runs[q].stage = "started" => runs'[q].stage = "started",
         InHand(runs[q]) \cup Range(wire)
           \subseteq InHand(runs[q])' \cup Range(wire') \cup refused
  PROVE  Kept(runs[q])'
<1> SUFFICES ASSUME runs'[q].stage # "started", ~cancelled'
             PROVE  AllIn(InHand(runs[q]) \cup Range(wire))'
  BY DEF Kept
<1>1. PICK s : s = InHand(runs[q]) \cup Range(wire)
  OBVIOUS
<1>2. PICK u : u = InHand(runs[q])' \cup Range(wire')
  OBVIOUS
<1>3. AllIn(s)
  BY <1>1 DEF Kept
<1>4. s \subseteq u \cup refused
  BY <1>1, <1>2
<1>5. AllIn(u)'
  BY <1>3, <1>4, AllInGrows
<1> QED BY <1>2, <1>5 DEF AllIn

\* So does completion.
LEMMA CompleteStays ==
  ASSUME Types, Types', found' = found, refused' = refused, payloads <= payloads',
         Range(wire) \subseteq Range(wire'), AllIn(Range(wire))
  PROVE  AllIn(Range(wire))'
<1>1. PICK s : s = Range(wire)
  OBVIOUS
<1>2. PICK u : u = Range(wire')
  OBVIOUS
<1>3. AllIn(u)'
  BY <1>1, <1>2, AllInGrows
<1> QED BY <1>2, <1>3 DEF AllIn

\* The steps of threads: a pipeline that begins has nothing yet, and a Send that fails
\* cancels all of them.
LEMMA AllKeptThread ==
  ASSUME Types, Types', AllKept, NEW t \in Threads,
         AddPayload(t) \/ Send(t) \/ SendStep(t) \/ Flush(t) \/ Wait(t)
  PROVE  AllKept'
<1>1. ASSUME found' = found, refused' = refused, payloads <= payloads', wire' = wire,
             cancelled' = cancelled, isComplete' = isComplete, sends' # 0,
             found <= payloads,
             \A q \in DOMAIN runs' :
               \/ q \in DOMAIN runs /\ runs'[q] = runs[q]
               \/ runs'[q].stage = "started"
      PROVE  AllKept'
  <2>1. found' <= payloads'
    BY <1>1 DEF Types
  <2>2. ASSUME NEW q \in DOMAIN runs' PROVE Kept(runs[q])'
    <3>1. CASE runs'[q].stage = "started"
      BY <3>1 DEF Kept
    <3>2. CASE q \in DOMAIN runs /\ runs'[q] = runs[q]
      <4>1. Kept(runs[q]) /\ InHand(runs[q])' = InHand(runs[q])
        BY <3>2 DEF AllKept, InHand
      <4> QED BY <1>1, <3>2, <4>1, KeptStays
    <3> QED BY <1>1, <2>2, <3>1, <3>2
  <2>3. isComplete' /\ ~cancelled' => AllIn(Range(wire))'
    <3>1. isComplete /\ ~cancelled => AllIn(Range(wire))
      BY DEF AllKept
    <3>2. Range(wire) \subseteq Range(wire')
      BY <1>1
    <3> QED BY <1>1, <3>1, <3>2, CompleteStays
  <2> QED BY <1>1, <2>1, <2>2, <2>3 DEF AllKept
<1>2. sends # 0 => found <= payloads
  BY DEF AllKept
<1>3. ASSUME sends = 0, sends' = 0, UNCHANGED <<runs, isComplete>>,
             \A u \in Threads : InSend(u)' => InSend(u)
      PROVE  AllKept'
  <2>1. runs' = <<>> /\ ~isComplete' /\ \A u \in Threads : ~InSend(u)'
    BY <1>3 DEF AllKept
  <2> QED BY <1>3, <2>1 DEF AllKept
<1>4. InSend(t) => sends # 0
  BY DEF AllKept
<1>5. CASE AddPayload(t)
  <2>1. payloads <= payloads'
    BY <1>5 DEF AddPayload, Types
  <2>2. CASE sends = 0
    BY <1>3, <1>5, <2>2 DEF AddPayload, flags, history, InSend
  <2>3. CASE sends # 0
    BY <1>1, <1>2, <1>5, <2>1, <2>3 DEF AddPayload, flags, settings, history
  <2> QED BY <2>2, <2>3
<1>6. CASE Send(t)
  <2>1. sends' # 0
    BY <1>6 DEF Send, Types
  <2>2. CASE sends = 0
    <3>1. runs' = <<>> /\ ~isComplete' /\ found' = payloads' /\ payloads' \in Nat
      BY <1>6, <2>2 DEF Send, AllKept, flags, Types
    <3> QED BY <2>1, <3>1 DEF AllKept
  <2>3. CASE sends # 0
    <3>1. payloads <= payloads'
      BY <1>6 DEF Send, Types
    <3> QED BY <1>1, <1>2, <1>6, <2>1, <2>3, <3>1 DEF Send, flags, settings
  <2> QED BY <2>2, <2>3
<1>7. CASE SendStep(t)
  <2>1. InSend(t) /\ sends' = sends /\ found' = found /\ payloads' = payloads
        /\ refused' = refused /\ wire' = wire
    BY <1>7 DEF SendStep, MarkStarted, ResetTurn, OpenInterfaces, OpenFails, Go, InSend,
                settings, history
  <2>2. sends' # 0 /\ found <= payloads /\ payloads <= payloads'
    BY <1>2, <1>4, <2>1 DEF Types
  <2>3. CASE MarkStarted(t) \/ ResetTurn(t)
    <3>1. UNCHANGED <<cancelled, isComplete, runs>>
      BY <2>3 DEF MarkStarted, ResetTurn, flags
    <3> QED BY <1>1, <2>1, <2>2, <3>1
  <2>4. CASE OpenInterfaces(t)
    <3>1. UNCHANGED <<cancelled, isComplete>> /\ runs' = Append(runs, NewRun)
      BY <2>4 DEF OpenInterfaces, flags
    <3>2. NewRun.stage = "started"
      BY DEF NewRun
    <3>3. ASSUME NEW q \in DOMAIN runs'
          PROVE  \/ q \in DOMAIN runs /\ runs'[q] = runs[q]
                 \/ runs'[q].stage = "started"
      <4>1. q \in 1 .. Len(runs) \/ q = Len(runs) + 1
        BY <3>1, <3>3, AppendProperties, LenProperties DEF Types
      <4> QED BY <3>1, <3>2, <4>1, AppendProperties, LenProperties DEF Types
    <3> QED BY <1>1, <2>1, <2>2, <3>1, <3>3
  <2>5. CASE OpenFails(t)
    <3>1. cancelled'
      BY <2>5 DEF OpenFails
    <3> QED BY <2>1, <2>2, <3>1 DEF AllKept, Kept
  <2> QED BY <1>7, <2>3, <2>4, <2>5 DEF SendStep
<1>8. CASE Flush(t) \/ Wait(t)
  <2>1. UNCHANGED <<settings, payloads, flags, runs, wire, history>>
    BY <1>8 DEF Flush, Wait
  <2>2. \A u \in Threads : InSend(u)' => InSend(u)
    <3>1. CASE Flush(t)
      BY <3>1 DEF Flush, Go, InSend, Types
    <3>2. CASE Wait(t)
      BY <3>2 DEF Wait, Go, InSend, Types
    <3> QED BY <1>8, <3>1, <3>2
  <2>3. CASE sends = 0
    BY <1>3, <2>1, <2>2, <2>3 DEF flags, history
  <2>4. CASE sends # 0
    <3>1. payloads <= payloads'
      BY <2>1 DEF Types
    <3> QED BY <1>1, <1>2, <2>1, <2>4, <3>1 DEF flags, settings, history
  <2> QED BY <2>3, <2>4
<1> QED BY <1>5, <1>6, <1>7, <1>8

\* The steps of a pipeline: a packet leaves its hands for the wire or as one to refuse.
LEMMA AllKeptRun ==
  ASSUME Types, Types', AllKept, NEW r \in DOMAIN runs,
         RunStep(r) \/ \E i \in Indices(MaxPayloads) : Abandon(r, i)
  PROVE  AllKept'
<1>1. UNCHANGED <<settings, payloads, cancelled, pc, history>>
  BY DEF RunStep, StartFeeding, Publish, TakePacket, RejectPacket, TakeTurn, Write, Abandon,
         flags
<1>2. runs # <<>> /\ runs[r] \in PipelineRuns
  BY EmptySeq, LenProperties DEF Types
<1>3. sends # 0 /\ found <= payloads /\ payloads <= payloads' /\ found' = found
      /\ refused' = refused
  BY <1>1, <1>2 DEF AllKept, Types, settings, history
<1>4. sends' # 0 /\ found' <= payloads'
  BY <1>1, <1>3 DEF history
<1>5. ASSUME NEW run, runs' = [runs EXCEPT ![r] = run]
      PROVE  /\ runs'[r] = run /\ DOMAIN runs' = DOMAIN runs
             /\ \A q \in DOMAIN runs : q # r => runs'[q] = runs[q]
  BY <1>5
<1>6. ASSUME Range(wire) \subseteq Range(wire'), DOMAIN runs' = DOMAIN runs,
             \A q \in DOMAIN runs : q # r => runs'[q] = runs[q],
             Kept(runs[r])', isComplete' = isComplete
      PROVE  AllKept'
  <2>1. ASSUME NEW q \in DOMAIN runs, q # r PROVE Kept(runs[q])'
    <3>1. Kept(runs[q]) /\ InHand(runs[q])' = InHand(runs[q]) /\ runs'[q] = runs[q]
      BY <1>6, <2>1 DEF AllKept, InHand
    <3> QED BY <1>1, <1>3, <1>6, <3>1, KeptStays
  <2>2. isComplete' /\ ~cancelled' => AllIn(Range(wire))'
    <3>1. isComplete /\ ~cancelled => AllIn(Range(wire))
      BY DEF AllKept
    <3> QED BY <1>1, <1>3, <1>6, <3>1, CompleteStays
  <2> QED BY <1>4, <1>6, <2>1, <2>2 DEF AllKept
<1>7. CASE StartFeeding(r)
  <2> DEFINE run == [runs[r] EXCEPT !.stage = "fed", !.waiting = Indices(payloads)]
  <2>1. runs' = [runs EXCEPT ![r] = run] /\ wire' = wire /\ isComplete' = isComplete
    BY <1>7 DEF StartFeeding, flags
  <2>2. run.waiting = Indices(payloads)
    BY <1>2 DEF PipelineRuns
  <2> HIDE DEF run
  <2>3. runs'[r].waiting = Indices(payloads)
    BY <1>5, <2>1, <2>2
  <2>4. payloads' \in found' .. payloads' /\ payloads' = payloads
    BY <1>1, <1>4 DEF Types
  <2>5. Indices(payloads') \subseteq InHand(runs[r])' \cup Range(wire')
    BY <2>3, <2>4 DEF InHand
  <2>6. AllIn(InHand(runs[r]) \cup Range(wire))'
    BY <2>4, <2>5 DEF AllIn
  <2>7. Kept(runs[r])'
    BY <2>6 DEF Kept
  <2> QED BY <1>5, <1>6, <2>1, <2>7
<1>8. ASSUME NEW run \in PipelineRuns, runs' = [runs EXCEPT ![r] = run],
             wire' = wire, isComplete' = isComplete,
             run.stage = runs[r].stage,
             cancelled \/ InHand(runs[r]) \subseteq InHand(run) \cup refused
      PROVE  AllKept'
  <2>1. runs'[r] = run /\ DOMAIN runs' = DOMAIN runs
        /\ \A q \in DOMAIN runs : q # r => runs'[q] = runs[q]
    BY <1>5, <1>8
  <2>2. Kept(runs[r])'
    <3>1. CASE cancelled
      BY <1>1, <3>1 DEF Kept
    <3>2. CASE InHand(runs[r]) \subseteq InHand(run) \cup refused
      <4>1. InHand(runs[r])' = InHand(run)
        BY <2>1 DEF InHand
      <4>2. Kept(runs[r])
        BY DEF AllKept
      <4>3. InHand(runs[r]) \cup Range(wire)
              \subseteq InHand(runs[r])' \cup Range(wire') \cup refused
        BY <1>8, <3>2, <4>1
      <4> QED BY <1>1, <1>3, <1>8, <2>1, <4>2, <4>3, KeptStays
    <3> QED BY <1>8, <3>1, <3>2
  <2> QED BY <1>6, <1>8, <2>1, <2>2
<1>9. ASSUME NEW i \in Indices(MaxPayloads),
             TakePacket(r, i) \/ RejectPacket(r, i) \/ TakeTurn(r, i) \/ Abandon(r, i)
      PROVE  AllKept'
  <2>1. i \in Int
    BY DEF Indices
  <2>2. CASE TakePacket(r, i)
    <3> DEFINE run == [runs[r] EXCEPT !.waiting = @ \ {i}, !.held = @ \cup {i}]
    <3>1. run \in PipelineRuns /\ run.stage = runs[r].stage
      BY <1>2, <2>1 DEF PipelineRuns
    <3>2. InHand(runs[r]) \subseteq InHand(run)
      BY <1>2 DEF PipelineRuns, InHand
    <3>3. runs' = [runs EXCEPT ![r] = run] /\ wire' = wire /\ isComplete' = isComplete
      BY <2>2 DEF TakePacket, flags
    <3> QED BY <1>8, <3>1, <3>2, <3>3
  <2>3. CASE RejectPacket(r, i)
    <3> DEFINE run == [runs[r] EXCEPT !.waiting = @ \ {i}]
    <3>1. run \in PipelineRuns /\ run.stage = runs[r].stage
      BY <1>2 DEF PipelineRuns
    <3>2. InHand(runs[r]) \subseteq InHand(run) \cup refused
      BY <1>2, <2>3 DEF PipelineRuns, InHand, RejectPacket
    <3>3. runs' = [runs EXCEPT ![r] = run] /\ wire' = wire /\ isComplete' = isComplete
      BY <2>3 DEF RejectPacket, flags
    <3> QED BY <1>8, <3>1, <3>2, <3>3
  <2>4. CASE TakeTurn(r, i)
    <3> DEFINE run == [runs[r] EXCEPT !.held = @ \ {i}, !.writing = @ \cup {i}]
    <3>1. run \in PipelineRuns /\ run.stage = runs[r].stage
      BY <1>2, <2>1 DEF PipelineRuns
    <3>2. InHand(runs[r]) \subseteq InHand(run)
      BY <1>2 DEF PipelineRuns, InHand
    <3>3. runs' = [runs EXCEPT ![r] = run] /\ wire' = wire /\ isComplete' = isComplete
      BY <2>4 DEF TakeTurn, flags
    <3> QED BY <1>8, <3>1, <3>2, <3>3
  <2>5. CASE Abandon(r, i)
    <3> DEFINE run == [runs[r] EXCEPT !.waiting = @ \ {i}]
    <3>1. run \in PipelineRuns /\ run.stage = runs[r].stage
      BY <1>2 DEF PipelineRuns
    <3>2. runs' = [runs EXCEPT ![r] = run] /\ wire' = wire /\ isComplete' = isComplete
          /\ cancelled
      BY <2>5 DEF Abandon, flags
    <3> QED BY <1>8, <3>1, <3>2
  <2> QED BY <1>9, <2>2, <2>3, <2>4, <2>5
<1>10. ASSUME NEW i \in Indices(MaxPayloads), Write(r, i) PROVE AllKept'
  <2> DEFINE run == [runs[r] EXCEPT !.writing = @ \ {i}]
  <2>1. runs' = [runs EXCEPT ![r] = run] /\ wire' = Append(wire, i)
        /\ isComplete' = isComplete /\ i \in Int
    BY <1>10 DEF Write, flags, Indices
  <2>2. run.stage = runs[r].stage /\ InHand(runs[r]) \subseteq InHand(run) \cup {i}
    BY <1>2 DEF PipelineRuns, InHand
  <2> HIDE DEF run
  <2>3. runs'[r] = run /\ DOMAIN runs' = DOMAIN runs
        /\ \A q \in DOMAIN runs : q # r => runs'[q] = runs[q]
    BY <1>5, <2>1
  <2>4. Range(wire') = Range(wire) \cup {i}
    BY <2>1, AppendRange DEF Types
  <2>5. InHand(runs[r])' = InHand(run)
    BY <2>3 DEF InHand
  <2>6. InHand(runs[r]) \cup Range(wire)
          \subseteq InHand(runs[r])' \cup Range(wire') \cup refused
    BY <2>2, <2>4, <2>5
  <2>7. Kept(runs[r])
    BY DEF AllKept
  <2>8. Kept(runs[r])'
    BY <1>1, <1>3, <2>2, <2>3, <2>6, <2>7, KeptStays
  <2> QED BY <1>6, <2>1, <2>3, <2>4, <2>8
<1>11. CASE Publish(r)
  <2> DEFINE run == [runs[r] EXCEPT !.stage = "done"]
  <2>1. runs' = [runs EXCEPT ![r] = run] /\ wire' = wire /\ StreamsDone(runs[r])
    BY <1>11 DEF Publish
  <2>2. InHand(run) = InHand(runs[r])
    BY <1>2 DEF PipelineRuns, InHand
  <2> HIDE DEF run
  <2>3. runs'[r] = run /\ DOMAIN runs' = DOMAIN runs
        /\ \A q \in DOMAIN runs : q # r => runs'[q] = runs[q]
    BY <1>5, <2>1
  <2>4. runs[r].stage # "started" /\ InHand(runs[r]) = {} /\ Kept(runs[r])
    BY <2>1 DEF StreamsDone, InHand, AllKept
  <2>5. Kept(runs[r])'
    <3>1. InHand(runs[r])' = InHand(runs[r])
      BY <2>2, <2>3 DEF InHand
    <3>2. InHand(runs[r]) \cup Range(wire)
            \subseteq InHand(runs[r])' \cup Range(wire') \cup refused
      BY <2>1, <3>1
    <3> QED BY <1>1, <1>3, <2>4, <3>2, KeptStays
  <2>6. ~cancelled => AllIn(Range(wire))
    <3>1. InHand(runs[r]) \cup Range(wire) = Range(wire)
      BY <2>4
    <3> QED BY <2>4, <3>1 DEF Kept
  <2>7. ~cancelled' => AllIn(Range(wire))'
    BY <1>1, <1>3, <2>1, <2>6, CompleteStays
  <2>8. ASSUME NEW q \in DOMAIN runs, q # r PROVE Kept(runs[q])'
    <3>1. Kept(runs[q]) /\ InHand(runs[q])' = InHand(runs[q]) /\ runs'[q] = runs[q]
      BY <2>3, <2>8 DEF AllKept, InHand
    <3> QED BY <1>1, <1>3, <2>1, <3>1, KeptStays
  <2> QED BY <1>4, <2>3, <2>5, <2>7, <2>8 DEF AllKept
<1> QED BY <1>7, <1>9, <1>10, <1>11 DEF RunStep

-----------------------------------------------------------------------------
(***************************************************************************)
(* A single Send.                                                          *)
(***************************************************************************)
\* As long as one Send at most has found started false, it is in one place: nowhere,
\* in a thread, or running as the only pipeline.
OneSend ==
  /\ sends = 0 => runs = <<>> /\ ~cancelled /\ \A t \in Threads : ~InSend(t)
  /\ sends # 0 => found <= payloads
  /\ \A t, u \in Threads : InSend(t) /\ InSend(u) => t = u
  /\ \A t \in Threads : InSend(t) => runs = <<>> /\ ~cancelled
  /\ \A t \in Threads : pc[t] = "opening" => nextToSend = 0
  /\ runs = <<>> => wire = <<>> /\ ~isComplete
  /\ runs # <<>> => Len(runs) = 1 /\ ~cancelled

\* Packets wait, are held, are being written or have been, each in one of the four, or
\* have been refused.
Places(run, n) ==
  /\ InHand(run) \cup Range(wire) \subseteq Indices(n)
  /\ Indices(n) \ refused \subseteq InHand(run) \cup Range(wire)
  /\ (run.held \cup run.writing \cup Range(wire)) \cap refused = {}
  /\ run.waiting \cap (run.held \cup run.writing \cup Range(wire)) = {}
  /\ run.held \cap (run.writing \cup Range(wire)) = {}
  /\ run.writing \cap Range(wire) = {}

Turns(run) ==
  /\ IsInjective(wire)
  /\ ordering =>
       /\ nextToSend = Len(wire)
       /\ run.writing \subseteq {nextToSend}
       /\ \A k \in DOMAIN wire : wire[k] = k - 1

RunIsSound(run) ==
  /\ Turns(run)
  /\ run.stage = "started" =>
       InHand(run) = {} /\ wire = <<>> /\ ~isComplete
  /\ run.stage # "started" => \E n \in found .. payloads : Places(run, n)
  /\ isComplete => InHand(run) = {}

Single == sends <= 1 => OneSend /\ (runs # <<>> => RunIsSound(runs[1]))

-----------------------------------------------------------------------------
\* A packet that is new on the wire keeps it free of repetitions.
LEMMA AppendToWire ==
  ASSUME NEW s \in Seq(Int), NEW x \in Int, IsInjective(s), x \notin Range(s)
  PROVE  IsInjective(Append(s, x))
<1> DEFINE u == Append(s, x)
<1>1. u \in Seq(Int) /\ DOMAIN u = 1 .. Len(s) + 1 /\ DOMAIN s = 1 .. Len(s)
      /\ Len(s) \in Nat /\ u[Len(s) + 1] = x /\ \A k \in 1 .. Len(s) : u[k] = s[k]
  BY AppendProperties, LenProperties
<1> HIDE DEF u
<1>2. ASSUME NEW k \in DOMAIN u, NEW l \in DOMAIN u, u[k] = u[l] PROVE k = l
  <2>1. \A j \in 1 .. Len(s) : s[j] # x
    BY <1>1 DEF Range
  <2>2. /\ k \in 1 .. Len(s) \/ k = Len(s) + 1
        /\ l \in 1 .. Len(s) \/ l = Len(s) + 1
    BY <1>1
  <2>3. CASE k \in 1 .. Len(s) /\ l \in 1 .. Len(s)
    <3>1. s[k] = s[l]
      BY <1>1, <1>2, <2>3
    <3> QED BY <1>1, <2>3, <3>1 DEF IsInjective
  <2>4. CASE k = Len(s) + 1 /\ l \in 1 .. Len(s)
    BY <1>1, <1>2, <2>1, <2>4
  <2>5. CASE k \in 1 .. Len(s) /\ l = Len(s) + 1
    BY <1>1, <1>2, <2>1, <2>5
  <2> QED BY <2>2, <2>3, <2>4, <2>5
<1>3. IsInjective(u)
  BY <1>2 DEF IsInjective
<1> QED BY <1>3 DEF u

\* Nothing is sent at first.
LEMMA SingleInit == Init => Single
<1> SUFFICES ASSUME Init PROVE OneSend /\ runs = <<>>
  BY DEF Single
<1> QED BY DEF Init, OneSend, InSend

\* The steps of threads: they do not touch what a pipeline is sound about.
LEMMA SingleThread ==
  ASSUME Types, Single, NEW t \in Threads,
         AddPayload(t) \/ Send(t) \/ SendStep(t) \/ Flush(t) \/ Wait(t)
  PROVE  Single'
<1> SUFFICES ASSUME sends' <= 1
             PROVE  OneSend' /\ (runs' # <<>> => RunIsSound(runs[1])')
  BY DEF Single
<1>1. CASE AddPayload(t)
  <2>1. OneSend /\ (runs # <<>> => RunIsSound(runs[1]))
    BY <1>1 DEF AddPayload, Single, history
  <2>2. OneSend'
    <3>1. sends # 0 => found <= payloads + 1
      BY <2>1 DEF OneSend, Types
    <3> QED BY <1>1, <2>1, <3>1 DEF AddPayload, OneSend, InSend, flags, history
  <2>3. ASSUME runs # <<>> PROVE RunIsSound(runs[1])'
    <3>1. found .. payloads \subseteq found .. payloads'
      BY <1>1 DEF AddPayload, Types
    <3>2. RunIsSound(runs[1])
      BY <2>1, <2>3
    <3>3. InHand(runs[1])' = InHand(runs[1])
      BY <1>1 DEF AddPayload, InHand
    <3>4. \A n : Places(runs[1], n) => Places(runs[1], n)'
      BY <1>1, <3>3 DEF AddPayload, Places, settings
    <3> QED BY <1>1, <3>1, <3>2, <3>3, <3>4
      DEF AddPayload, RunIsSound, Turns, flags, settings, history
  <2> QED BY <1>1, <2>2, <2>3 DEF AddPayload
<1>2. CASE Send(t)
  <2>1. sends = 0 /\ sends' = 1 /\ found' = payloads
    BY <1>2 DEF Send, Types
  <2>2. OneSend
    BY <2>1 DEF Single
  <2>3. \A u \in Threads : InSend(u)' => u = t
    BY <1>2, <2>1, <2>2 DEF Send, Go, OneSend, InSend, Types
  <2>4. runs' = <<>> /\ ~cancelled' /\ payloads' = payloads /\ ~isComplete' /\ wire' = <<>>
    BY <1>2, <2>1, <2>2 DEF Send, OneSend, flags
  <2>5. found' <= payloads'
    BY <2>1, <2>4 DEF Types
  <2>6. \A u \in Threads : pc'[u] # "opening"
    BY <1>2, <2>1, <2>2 DEF Send, Go, OneSend, InSend, Types
  <2> QED BY <2>1, <2>3, <2>4, <2>5, <2>6 DEF OneSend
<1>3. CASE SendStep(t)
  <2>1. sends' = sends /\ found' = found /\ payloads' = payloads
    BY <1>3 DEF SendStep, MarkStarted, ResetTurn, OpenInterfaces, OpenFails, history
  <2>2. OneSend /\ (runs # <<>> => RunIsSound(runs[1]))
    BY <2>1 DEF Single
  <2>3. InSend(t)
    BY <1>3 DEF SendStep, MarkStarted, ResetTurn, OpenInterfaces, OpenFails, Go, InSend
  <2>4. runs = <<>> /\ ~cancelled /\ wire = <<>> /\ ~isComplete /\ sends # 0
    BY <2>2, <2>3 DEF OneSend
  <2>5. \A u \in Threads : InSend(u)' => u = t
    BY <1>3, <2>2, <2>3
    DEF SendStep, MarkStarted, ResetTurn, OpenInterfaces, OpenFails, Go, OneSend, InSend, Types
  <2>6. CASE MarkStarted(t)
    BY <2>1, <2>2, <2>4, <2>5, <2>6 DEF MarkStarted, Go, OneSend, InSend, Types
  <2>7. CASE ResetTurn(t)
    BY <2>1, <2>2, <2>4, <2>5, <2>7 DEF ResetTurn, Go, OneSend, InSend, Types, flags
  <2>8. CASE OpenFails(t)
    <3>1. \A u \in Threads : ~InSend(u)'
      BY <2>5, <2>8 DEF OpenFails, Go, InSend, Types
    <3> QED BY <2>1, <2>2, <2>4, <2>8, <3>1 DEF OpenFails, OneSend, InSend
  <2>9. CASE OpenInterfaces(t)
    <3>1. \A u \in Threads : ~InSend(u)'
      BY <2>5, <2>9 DEF OpenInterfaces, Go, InSend, Types
    <3>2. runs' = <<NewRun>>
      BY <2>4, <2>9 DEF OpenInterfaces
    <3>3. nextToSend = 0
      BY <2>2, <2>9 DEF OpenInterfaces, Go, OneSend
    <3>4. OneSend'
      BY <2>1, <2>2, <2>4, <2>9, <3>1, <3>2 DEF OpenInterfaces, OneSend, InSend, flags
    <3>5. RunIsSound(runs[1])'
      <4>1. /\ runs'[1].waiting = {} /\ runs'[1].held = {} /\ runs'[1].writing = {}
            /\ runs'[1].stage = "started"
        BY <3>2 DEF NewRun
      <4>2. wire' = <<>> /\ ~isComplete' /\ nextToSend' = 0
        BY <2>4, <2>9, <3>3 DEF OpenInterfaces, flags
      <4> QED BY <4>1, <4>2 DEF RunIsSound, Turns, InHand, IsInjective
    <3> QED BY <3>4, <3>5
  <2> QED BY <1>3, <2>6, <2>7, <2>8, <2>9 DEF SendStep
<1>4. CASE Flush(t) \/ Wait(t)
  <2>1. UNCHANGED <<settings, payloads, flags, nextToSend, runs, wire, history>>
    BY <1>4 DEF Flush, Wait
  <2>2. OneSend /\ (runs # <<>> => RunIsSound(runs[1]))
    BY <2>1 DEF Single, history
  <2>3. \A u \in Threads : (InSend(u)' => InSend(u)) /\ (pc'[u] = "opening" => pc[u] = "opening")
    <3>1. CASE Flush(t)
      BY <3>1 DEF Flush, Go, InSend, Types
    <3>2. CASE Wait(t)
      BY <3>2 DEF Wait, Go, InSend, Types
    <3> QED BY <1>4, <3>1, <3>2
  <2>4. OneSend'
    BY <2>1, <2>2, <2>3 DEF OneSend, flags, history
  <2>5. RunIsSound(runs[1]) => RunIsSound(runs[1])'
    BY <2>1 DEF RunIsSound, Turns, Places, InHand, flags, settings, history
  <2> QED BY <2>1, <2>2, <2>4, <2>5
<1> QED BY <1>1, <1>2, <1>3, <1>4

\* A packet moves from one place to the next, or is refused.
LEMMA Moves ==
  ASSUME NEW n, NEW i, NEW a \in PipelineRuns, NEW b \in PipelineRuns, Places(a, n),
         \/ /\ i \in a.waiting \ refused /\ b.waiting = a.waiting \ {i}
            /\ b.held = a.held \cup {i} /\ b.writing = a.writing
         \/ /\ i \in a.waiting \cap refused /\ b.waiting = a.waiting \ {i}
            /\ b.held = a.held /\ b.writing = a.writing
         \/ /\ i \in a.held /\ b.waiting = a.waiting
            /\ b.held = a.held \ {i} /\ b.writing = a.writing \cup {i}
  PROVE  Places(b, n)
BY DEF Places, InHand

\* The steps of the pipeline.
LEMMA SingleRun ==
  ASSUME Types, Types', Single, NEW r \in DOMAIN runs,
         RunStep(r) \/ \E i \in Indices(MaxPayloads) : Abandon(r, i)
  PROVE  Single'
<1> SUFFICES ASSUME sends' <= 1
             PROVE  OneSend' /\ (runs' # <<>> => RunIsSound(runs[1])')
  BY DEF Single
<1>1. sends' = sends /\ found' = found /\ payloads' = payloads /\ pc' = pc
      /\ cancelled' = cancelled /\ ordering' = ordering /\ refused' = refused
  BY DEF RunStep, StartFeeding, Publish, TakePacket, RejectPacket, TakeTurn, Write, Abandon,
         flags, settings, history
<1>2. OneSend /\ (runs # <<>> => RunIsSound(runs[1]))
  BY <1>1 DEF Single
<1>3. r = 1 /\ runs # <<>> /\ Len(runs) = 1 /\ ~cancelled /\ DOMAIN runs = {1}
  <2>1. runs # <<>>
    BY EmptySeq, LenProperties DEF Types
  <2>2. Len(runs) = 1 /\ ~cancelled
    BY <1>2, <2>1 DEF OneSend
  <2> QED BY <2>1, <2>2, LenProperties DEF Types
<1>4. RunStep(1)
  BY <1>3 DEF Abandon
<1>5. runs[1] \in PipelineRuns /\ RunIsSound(runs[1])
  BY <1>2, <1>3 DEF Types
<1>6. sends # 0 /\ found <= payloads
  BY <1>2, <1>3 DEF OneSend
<1>7. ASSUME NEW run, runs' = [runs EXCEPT ![1] = run]
      PROVE  runs'[1] = run /\ runs' # <<>> /\ Len(runs') = 1
  <2>1. DOMAIN runs' = {1} /\ runs'[1] = run /\ Len(runs') = 1
    BY <1>3, <1>7, LenProperties DEF Types
  <2> QED BY <2>1
<1>8. ASSUME runs' # <<>>, Len(runs') = 1 PROVE OneSend'
  <2>1. \A t \in Threads : ~InSend(t)
    BY <1>2, <1>3 DEF OneSend
  <2>2. \A t \in Threads : pc[t] # "opening"
    BY <2>1 DEF InSend
  <2> QED BY <1>1, <1>3, <1>6, <1>8, <2>1, <2>2 DEF OneSend, InSend
<1>9. CASE StartFeeding(1)
  <2> DEFINE run == [runs[1] EXCEPT !.stage = "fed", !.waiting = Indices(payloads)]
  <2>1. runs' = [runs EXCEPT ![1] = run] /\ wire' = wire /\ isComplete' = isComplete
        /\ nextToSend' = nextToSend /\ runs[1].stage = "started"
    BY <1>9 DEF StartFeeding, flags
  <2>2. run.stage = "fed" /\ run.waiting = Indices(payloads)
        /\ run.held = {} /\ run.writing = {}
        /\ wire = <<>> /\ ~isComplete /\ Turns(runs[1])
    BY <1>5, <2>1 DEF PipelineRuns, RunIsSound, InHand
  <2> HIDE DEF run
  <2>3. runs'[1] = run /\ runs' # <<>> /\ Len(runs') = 1
    BY <1>7, <2>1
  <2>4. Range(wire) = {}
    BY <2>2 DEF Range
  <2>5. Places(run, payloads)
    BY <2>2, <2>4 DEF Places, InHand
  <2>6. payloads \in found .. payloads
    BY <1>6 DEF Types
  <2>7. Turns(run)
    BY <2>2, <2>4 DEF Turns
  <2>8. RunIsSound(runs[1])'
    BY <1>1, <2>1, <2>2, <2>3, <2>5, <2>6, <2>7 DEF RunIsSound, Turns, Places, InHand
  <2> QED BY <1>8, <2>3, <2>8
<1>10. ASSUME NEW i \in Indices(MaxPayloads),
              TakePacket(1, i) \/ RejectPacket(1, i) \/ TakeTurn(1, i)
       PROVE  OneSend' /\ RunIsSound(runs[1])'
  <2> DEFINE a == runs[1]
  <2>1. i \in Int
    BY DEF Indices
  <2>2. PICK run \in PipelineRuns :
          /\ runs' = [runs EXCEPT ![1] = run]
          /\ run.stage = a.stage
          /\ \/ /\ i \in a.waiting \ refused /\ run.waiting = a.waiting \ {i}
                /\ run.held = a.held \cup {i} /\ run.writing = a.writing
             \/ /\ i \in a.waiting \cap refused /\ run.waiting = a.waiting \ {i}
                /\ run.held = a.held /\ run.writing = a.writing
             \/ /\ i \in a.held /\ HasTurn(i) /\ run.waiting = a.waiting
                /\ run.held = a.held \ {i} /\ run.writing = a.writing \cup {i}
    <3>1. CASE TakePacket(1, i)
      <4> DEFINE b == [a EXCEPT !.waiting = @ \ {i}, !.held = @ \cup {i}]
      <4>1. /\ b \in PipelineRuns /\ b.stage = a.stage /\ b.waiting = a.waiting \ {i}
            /\ b.held = a.held \cup {i} /\ b.writing = a.writing
        BY <1>5, <2>1 DEF PipelineRuns
      <4>2. runs' = [runs EXCEPT ![1] = b] /\ i \in a.waiting \ refused
        BY <3>1 DEF TakePacket
      <4> HIDE DEF b
      <4> QED BY <4>1, <4>2
    <3>2. CASE RejectPacket(1, i)
      <4> DEFINE b == [a EXCEPT !.waiting = @ \ {i}]
      <4>1. /\ b \in PipelineRuns /\ b.stage = a.stage /\ b.waiting = a.waiting \ {i}
            /\ b.held = a.held /\ b.writing = a.writing
        BY <1>5, <2>1 DEF PipelineRuns
      <4>2. runs' = [runs EXCEPT ![1] = b] /\ i \in a.waiting \cap refused
        BY <3>2 DEF RejectPacket
      <4> HIDE DEF b
      <4> QED BY <4>1, <4>2
    <3>3. CASE TakeTurn(1, i)
      <4> DEFINE b == [a EXCEPT !.held = @ \ {i}, !.writing = @ \cup {i}]
      <4>1. /\ b \in PipelineRuns /\ b.stage = a.stage /\ b.waiting = a.waiting
            /\ b.held = a.held \ {i} /\ b.writing = a.writing \cup {i}
        BY <1>5, <2>1 DEF PipelineRuns
      <4>2. runs' = [runs EXCEPT ![1] = b] /\ i \in a.held /\ HasTurn(i)
        BY <3>3 DEF TakeTurn
      <4> HIDE DEF b
      <4> QED BY <4>1, <4>2
    <3> QED BY <1>10, <3>1, <3>2, <3>3
  <2>3. wire' = wire /\ isComplete' = isComplete /\ nextToSend' = nextToSend
    BY <1>10 DEF TakePacket, RejectPacket, TakeTurn, flags
  <2>4. runs'[1] = run /\ runs' # <<>> /\ Len(runs') = 1
    BY <1>7, <2>2
  <2>5. a.stage # "started" /\ ~isComplete
    BY <1>5, <2>2 DEF RunIsSound, InHand
  <2>6. PICK n \in found .. payloads : Places(runs[1], n)
    BY <1>5, <2>5 DEF RunIsSound
  <2>7. Places(run, n)
    BY <1>5, <2>2, <2>6, Moves
  <2>8. Turns(run)
    BY <1>5, <2>2 DEF RunIsSound, Turns, HasTurn
  <2>9. Places(runs[1], n)' /\ Turns(runs[1])'
    BY <1>1, <2>3, <2>4, <2>7, <2>8 DEF Places, Turns, InHand
  <2>10. RunIsSound(runs[1])'
    BY <1>1, <2>2, <2>3, <2>4, <2>5, <2>9 DEF RunIsSound
  <2> QED BY <1>8, <2>4, <2>10
<1>11. ASSUME NEW i \in Indices(MaxPayloads), Write(1, i)
       PROVE  OneSend' /\ RunIsSound(runs[1])'
  <2> DEFINE run == [runs[1] EXCEPT !.writing = @ \ {i}]
  <2>1. runs' = [runs EXCEPT ![1] = run] /\ wire' = Append(wire, i)
        /\ isComplete' = isComplete /\ i \in runs[1].writing
        /\ nextToSend' = IF ordering THEN nextToSend + 1 ELSE nextToSend
    BY <1>11 DEF Write, AfterWrite, flags
  <2>2. run.stage = runs[1].stage /\ run.waiting = runs[1].waiting
        /\ run.held = runs[1].held /\ run.writing = runs[1].writing \ {i}
    BY <1>5 DEF PipelineRuns
  <2> HIDE DEF run
  <2>3. runs'[1] = run /\ runs' # <<>> /\ Len(runs') = 1
    BY <1>7, <2>1
  <2>4. runs[1].stage # "started" /\ ~isComplete
    BY <1>5, <2>1 DEF RunIsSound, InHand
  <2>5. PICK n \in found .. payloads : Places(runs[1], n)
    BY <1>5, <2>4 DEF RunIsSound
  <2>6. i \in Int /\ wire \in Seq(Int) /\ i \notin Range(wire) /\ IsInjective(wire)
    BY <1>5, <2>1, <2>5 DEF Types, Indices, Places, RunIsSound, Turns
  <2>7. IsInjective(wire')
    BY <2>1, <2>6, AppendToWire
  <2>8. Range(wire') = Range(wire) \cup {i}
    BY <2>1, <2>6, AppendRange
  <2>9. Places(runs[1], n)'
    <3>1. InHand(run) \cup Range(wire') = InHand(runs[1]) \cup Range(wire)
      BY <2>1, <2>2, <2>8 DEF InHand
    <3>2. /\ InHand(run) \cup Range(wire') \subseteq Indices(n)
          /\ Indices(n) \ refused \subseteq InHand(run) \cup Range(wire')
      BY <2>5, <3>1 DEF Places
    <3>3. /\ (run.held \cup run.writing \cup Range(wire')) \cap refused = {}
          /\ run.waiting \cap (run.held \cup run.writing \cup Range(wire')) = {}
          /\ run.held \cap (run.writing \cup Range(wire')) = {}
          /\ run.writing \cap Range(wire') = {}
      BY <2>1, <2>2, <2>5, <2>8 DEF Places
    <3> QED BY <1>1, <2>3, <3>2, <3>3 DEF Places, InHand
  <2>10. ASSUME ordering
         PROVE  nextToSend' = Len(wire') /\ run.writing \subseteq {nextToSend'}
                /\ \A k \in DOMAIN wire' : wire'[k] = k - 1
    <3>1. nextToSend = Len(wire) /\ i = nextToSend /\ run.writing = {}
          /\ \A k \in DOMAIN wire : wire[k] = k - 1
      BY <1>5, <2>1, <2>2, <2>10 DEF RunIsSound, Turns
    <3>2. Len(wire') = Len(wire) + 1 /\ DOMAIN wire' = 1 .. Len(wire) + 1
          /\ DOMAIN wire = 1 .. Len(wire) /\ Len(wire) \in Nat
          /\ wire'[Len(wire) + 1] = i /\ \A k \in 1 .. Len(wire) : wire'[k] = wire[k]
      BY <2>1, <2>6, AppendProperties, LenProperties
    <3> QED BY <2>1, <2>10, <3>1, <3>2
  <2>11. Turns(runs[1])'
    BY <1>1, <2>3, <2>7, <2>10 DEF Turns
  <2>12. RunIsSound(runs[1])'
    BY <1>1, <2>1, <2>2, <2>3, <2>4, <2>5, <2>9, <2>11 DEF RunIsSound
  <2> QED BY <1>8, <2>3, <2>12
<1>12. CASE Publish(1)
  <2> DEFINE run == [runs[1] EXCEPT !.stage = "done"]
  <2>1. runs' = [runs EXCEPT ![1] = run] /\ wire' = wire /\ nextToSend' = nextToSend
        /\ StreamsDone(runs[1])
    BY <1>12 DEF Publish
  <2>2. run.stage = "done" /\ run.waiting = {} /\ run.held = {} /\ run.writing = {}
    BY <1>5, <2>1 DEF PipelineRuns, StreamsDone
  <2> HIDE DEF run
  <2>3. runs'[1] = run /\ runs' # <<>> /\ Len(runs') = 1
    BY <1>7, <2>1
  <2>4. PICK n \in found .. payloads : Places(runs[1], n)
    BY <1>5, <2>1 DEF RunIsSound, StreamsDone
  <2>5. Places(run, n)
    BY <2>1, <2>2, <2>4 DEF Places, InHand, StreamsDone
  <2>6. Turns(run)
    BY <1>5, <2>1, <2>2 DEF RunIsSound, Turns
  <2>7. Places(runs[1], n)' /\ Turns(runs[1])'
    BY <1>1, <2>1, <2>3, <2>5, <2>6 DEF Places, Turns, InHand
  <2>8. InHand(runs[1])' = {} /\ runs'[1].stage = "done"
    BY <2>2, <2>3 DEF InHand
  <2>9. RunIsSound(runs[1])'
    BY <1>1, <2>7, <2>8 DEF RunIsSound
  <2> QED BY <1>8, <2>3, <2>9
<1> QED BY <1>4, <1>9, <1>10, <1>11, <1>12 DEF RunStep

\* Completion without a cancellation means that all was written that was there when the
\* first Send began and that workers accept, however many Sends there are; a single Send
\* writes just what it found, each payload once and with ordering in order
\* (send_stream.go 144-156, 244-303).
THEOREM CompleteIsSentHolds == Spec => []CompleteIsSent
<1>1. Types /\ Types' /\ AllKept /\ Single /\ [Next]_vars => AllKept' /\ Single'
  <2> SUFFICES ASSUME Types, Types', AllKept, Single, [Next]_vars PROVE AllKept' /\ Single'
    OBVIOUS
  <2>1. CASE UNCHANGED vars
    <3>1. AllKept'
      BY <2>1 DEF vars, flags, settings, history, AllKept, Kept, AllIn, InHand, InSend
    <3>2. Single'
      BY <2>1 DEF vars, flags, settings, history, Single, OneSend, InSend, RunIsSound,
                  Turns, Places, InHand
    <3> QED BY <3>1, <3>2
  <2>2. CASE \E t \in Threads : AddPayload(t) \/ Send(t) \/ SendStep(t) \/ Flush(t) \/ Wait(t)
    BY <2>2, AllKeptThread, SingleThread
  <2>3. CASE \E r \in DOMAIN runs :
               RunStep(r) \/ \E i \in Indices(MaxPayloads) : Abandon(r, i)
    BY <2>3, AllKeptRun, SingleRun
  <2> QED BY <2>1, <2>2, <2>3 DEF Next
<1>2. Types /\ AllKept /\ Single => CompleteIsSent
  <2> SUFFICES ASSUME Types, AllKept, Single PROVE CompleteIsSent
    OBVIOUS
  <2>1. isComplete /\ ~cancelled =>
          \E n \in found .. payloads : Indices(n) \ refused \subseteq Range(wire)
    BY DEF AllKept, AllIn
  <2>2. ASSUME sends = 1
        PROVE  /\ IsInjective(wire)
               /\ ordering => \A k \in DOMAIN wire : wire[k] = k - 1
               /\ isComplete =>
                    \E n \in found .. payloads : Range(wire) = Indices(n) \ refused
    <3>1. OneSend /\ (runs # <<>> => RunIsSound(runs[1]))
      BY <2>2 DEF Single
    <3>2. CASE runs = <<>>
      BY <3>1, <3>2 DEF OneSend, IsInjective
    <3>3. CASE runs # <<>>
      <4>1. RunIsSound(runs[1])
        BY <3>1, <3>3
      <4>2. ASSUME isComplete
            PROVE  \E n \in found .. payloads : Range(wire) = Indices(n) \ refused
        <5>1. PICK n \in found .. payloads : Places(runs[1], n)
          BY <4>1, <4>2 DEF RunIsSound
        <5> QED BY <4>1, <4>2, <5>1 DEF RunIsSound, Places
      <4> QED BY <4>1, <4>2 DEF RunIsSound, Turns
    <3> QED BY <3>2, <3>3
  <2> QED BY <2>1, <2>2 DEF CompleteIsSent
<1> QED BY <1>1, <1>2, AllKeptInit, SingleInit, TypesHold, PTL DEF Spec
=============================================================================
