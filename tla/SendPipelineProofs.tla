------------------------ MODULE SendPipelineProofs ------------------------
(***************************************************************************)
(* Theorems about SendPipeline for any number of workers, streams and      *)
(* payloads, any capacities and any settings.                              *)
(***************************************************************************)
EXTENDS SendPipeline, SequenceTheorems, FiniteSetTheorems, TLAPS

-----------------------------------------------------------------------------
\* The types hold at first.
LEMMA InitTypeOK == Init => TypeOK
<1> SUFFICES ASSUME Init PROVE TypeOK
  OBVIOUS
<1>1. payloads \in Seq(Nat) /\ Len(payloads) = 0
  BY EmptySeq DEF Init
<1>2. prepCh \in Seq(Int) /\ wire \in Seq(Int) /\ Len(prepCh) = 0
  BY EmptySeq DEF Init
<1>3. tokens \in 0 .. TurnstileBurst /\ Len(prepCh) <= ChannelBuffers
  BY <1>2, SizesAssumption DEF Init
<1>4. fed \in 0 .. Len(payloads) /\ taken \in 0 .. fed
  BY <1>1 DEF Init
<1>5. /\ workerPc \in [Workers -> {"off", "receive", "prepare", "done"}]
      /\ workerIdx \in [Workers -> Int]
      /\ streamPc \in [Streams -> {"off", "pin", "receive", "token", "turn", "write",
                                  "report", "advance", "count", "done"}]
      /\ streamIdx \in [Streams -> Int]
  BY DEF Init, NoIndex
<1>6. /\ disableOrdering \in BOOLEAN
      /\ nextToSend \in Nat /\ processed \in Nat /\ burst \in Nat
      /\ failed \subseteq Int /\ rejected \subseteq Int
      /\ sendPc = "idle" /\ feeder = "off" /\ completer = "off" /\ turnstile = "off"
  BY DEF Init
<1> QED
  BY <1>1, <1>2, <1>3, <1>4, <1>5, <1>6 DEF TypeOK

\* Every step keeps the types.
LEMMA NextTypeOK == TypeOK /\ [Next]_vars => TypeOK'
<1> SUFFICES ASSUME TypeOK, [Next]_vars PROVE TypeOK'
  OBVIOUS
<1> USE PartiesAssumption, SizesAssumption, FlagsAssumption
    DEF TypeOK, userVars, feedVars, workerVars, streamVars, turnstileVars, historyVars
<1>1. ASSUME NEW len \in Lengths, AddPayload(len) PROVE TypeOK'
  BY <1>1 DEF AddPayload
<1>2. ASSUME NEW d \in BOOLEAN, SetAdvancedConfig(d) PROVE TypeOK'
  BY <1>2 DEF SetAdvancedConfig
<1>3. ASSUME SendCall PROVE TypeOK'
  <2>1. CASE Send BY <2>1 DEF Send
  <2>2. CASE OpenFails BY <2>2 DEF OpenFails
  <2>3. CASE StartFeeding BY <2>3 DEF StartFeeding
  <2>4. ASSUME NEW s \in Streams, OpenStream(s) PROVE TypeOK'
    BY <2>4 DEF OpenStream
  <2> QED BY <1>3, <2>1, <2>2, <2>3, <2>4 DEF SendCall
<1>4. ASSUME FeederNext PROVE TypeOK'
  <2>1. CASE Feed
    <3>1. Len(payloads) \in Nat
      BY LenProperties
    <3> QED BY <2>1, <3>1 DEF Feed
  <2>2. CASE CloseRawCh BY <2>2 DEF CloseRawCh
  <2>3. CASE ClosePrepCh BY <2>3 DEF ClosePrepCh
  <2> QED BY <1>4, <2>1, <2>2, <2>3 DEF FeederNext
<1>5. ASSUME NEW w \in Workers, WorkerNext(w) PROVE TypeOK'
  <2>1. CASE TakePayload(w) BY <2>1 DEF TakePayload
  <2>2. CASE WorkerExits(w) BY <2>2 DEF WorkerExits
  <2>3. CASE RejectPayload(w)
    <3>1. rejected' \subseteq Int
      BY <2>3 DEF RejectPayload
    <3> QED BY <2>3, <3>1 DEF RejectPayload, NoIndex
  <2>4. CASE EmitPacket(w) BY <2>4 DEF EmitPacket, NoIndex
  <2> QED BY <1>5, <2>1, <2>2, <2>3, <2>4 DEF WorkerNext
<1>6. ASSUME NEW s \in Streams, StreamNext(s) PROVE TypeOK'
  <2>1. CASE PinStream(s) BY <2>1 DEF PinStream
  <2>2. CASE TakePacket(s) BY <2>2 DEF TakePacket
  <2>3. CASE StreamExits(s) BY <2>3 DEF StreamExits
  <2>4. CASE TakeToken(s) BY <2>4 DEF TakeToken
  <2>5. CASE AwaitTurn(s) BY <2>5 DEF AwaitTurn
  <2>6. ASSUME NEW ok \in BOOLEAN, WritePacket(s, ok) PROVE TypeOK'
    <3>1. wire' \in Seq(Int)
      BY <2>6 DEF WritePacket
    <3>3. failed' \subseteq Int
      BY <2>6 DEF WritePacket
    <3>2. streamPc' \in [Streams -> {"off", "pin", "receive", "token", "turn", "write",
                                    "report", "advance", "count", "done"}]
      BY <2>6 DEF WritePacket
    <3> QED BY <2>6, <3>1, <3>2, <3>3 DEF WritePacket
  <2>7. CASE ReportFailure(s) BY <2>7 DEF ReportFailure
  <2>8. CASE Advance(s) BY <2>8 DEF Advance
  <2>9. CASE CountPacket(s) BY <2>9 DEF CountPacket, NoIndex
  <2> QED BY <1>6, <2>1, <2>2, <2>3, <2>4, <2>5, <2>6, <2>7, <2>8, <2>9 DEF StreamNext
<1>7. ASSUME TurnstileNext PROVE TypeOK'
  <2>1. CASE TurnstileTick
    <3>1. tokens' \in 0 .. TurnstileBurst
      BY <2>1 DEF TurnstileTick, WithToken
    <3> QED BY <2>1, <3>1 DEF TurnstileTick
  <2>2. CASE TurnstileExits BY <2>2 DEF TurnstileExits
  <2> QED BY <1>7, <2>1, <2>2 DEF TurnstileNext
<1>8. ASSUME CompleterNext PROVE TypeOK'
  BY <1>8 DEF CompleterNext, CloseHandles, PublishCompletion
<1>9. CASE UNCHANGED vars
  BY <1>9 DEF vars
<1> QED
  BY <1>1, <1>2, <1>3, <1>4, <1>5, <1>6, <1>7, <1>8, <1>9 DEF Next

\* The variables of the pipeline keep their types: no channel exceeds its capacity
\* and no counter overtakes the one it follows.
THEOREM TypeCorrect == Spec => []TypeOK
  BY InitTypeOK, NextTypeOK, PTL DEF Spec

-----------------------------------------------------------------------------
(***************************************************************************)
(* Sequences without repetition.                                           *)
(***************************************************************************)

\* Appending a new element keeps a sequence free of repetition.
LEMMA AppendNew ==
  ASSUME NEW q \in Seq(Int), NEW x \in Int, IsInjective(q), x \notin Range(q)
  PROVE  IsInjective(Append(q, x)) /\ Range(Append(q, x)) = Range(q) \cup {x}
<1> DEFINE r == Append(q, x)
<1>1. /\ Len(r) = Len(q) + 1
      /\ DOMAIN r = 1 .. Len(q) + 1
      /\ DOMAIN q = 1 .. Len(q)
      /\ \A k \in 1 .. Len(q) : r[k] = q[k]
      /\ r[Len(q) + 1] = x
      /\ Len(q) \in Nat
  OBVIOUS
<1>2. Range(r) = Range(q) \cup {x}
  <2>1. ASSUME NEW k \in DOMAIN r PROVE r[k] \in Range(q) \cup {x}
    BY <1>1 DEF Range
  <2>2. ASSUME NEW y \in Range(q) PROVE y \in Range(r)
    BY <1>1 DEF Range
  <2>3. x \in Range(r)
    BY <1>1 DEF Range
  <2> QED BY <2>1, <2>2, <2>3 DEF Range
<1>3. ASSUME NEW a \in DOMAIN r, NEW b \in DOMAIN r, r[a] = r[b] PROVE a = b
  <2>1. CASE a = Len(q) + 1 /\ b \in 1 .. Len(q) BY <1>1, <1>3, <2>1 DEF Range
  <2>2. CASE b = Len(q) + 1 /\ a \in 1 .. Len(q) BY <1>1, <1>3, <2>2 DEF Range
  <2>3. CASE a \in 1 .. Len(q) /\ b \in 1 .. Len(q)
    BY <1>1, <1>3, <2>3 DEF IsInjective
  <2> QED BY <1>1, <2>1, <2>2, <2>3
<1> QED BY <1>2, <1>3 DEF IsInjective

\* Taking the head of a sequence without repetition takes that element out of it.
LEMMA TailOfInjective ==
  ASSUME NEW q \in Seq(Int), q # <<>>, IsInjective(q)
  PROVE  /\ IsInjective(Tail(q))
         /\ Head(q) \in Range(q)
         /\ Range(Tail(q)) = Range(q) \ {Head(q)}
<1> DEFINE r == Tail(q)
<1>1. /\ Len(q) \in Nat \ {0}
      /\ r \in Seq(Int)
      /\ DOMAIN q = 1 .. Len(q)
      /\ DOMAIN r = 1 .. Len(q) - 1
      /\ \A k \in 1 .. Len(q) - 1 : r[k] = q[k + 1]
      /\ Head(q) = q[1]
  BY EmptySeq, HeadTailProperties, LenProperties
<1>2. Head(q) \in Range(q)
  BY <1>1 DEF Range
<1>3. IsInjective(r)
  BY <1>1 DEF IsInjective
<1>4. ASSUME NEW k \in DOMAIN r PROVE r[k] \in Range(q) \ {Head(q)}
  BY <1>1, SMTT(30) DEF IsInjective, Range
<1>5. ASSUME NEW y \in Range(q) \ {Head(q)} PROVE y \in Range(r)
  <2>1. PICK k \in DOMAIN q : y = q[k]
    BY DEF Range
  <2>2. k - 1 \in DOMAIN r /\ r[k - 1] = y
    BY <1>1, <2>1
  <2> QED BY <2>2 DEF Range
<1>6. Range(r) = Range(q) \ {Head(q)}
  BY <1>4, <1>5 DEF Range
<1> QED BY <1>2, <1>3, <1>6

-----------------------------------------------------------------------------
(***************************************************************************)
(* How a step moves packets: not at all, or one packet from one place to   *)
(* the next.                                                               *)
(***************************************************************************)
NothingMoves ==
  /\ Preparing' = Preparing /\ Queued' = Queued /\ Held' = Held
  /\ Written' = Written /\ wire' = wire /\ rejected' = rejected /\ taken' = taken

Received ==
  /\ taken' = taken + 1 /\ Preparing' = Preparing \cup {taken}
  /\ Queued' = Queued /\ Held' = Held /\ Written' = Written /\ wire' = wire
  /\ rejected' = rejected

Refused(i) ==
  /\ i \in Preparing /\ ~Acceptable(i)
  /\ Preparing' = Preparing \ {i} /\ rejected' = rejected \cup {i}
  /\ Queued' = Queued /\ Held' = Held /\ Written' = Written /\ wire' = wire
  /\ taken' = taken

Emitted(i) ==
  /\ i \in Preparing /\ Acceptable(i)
  /\ Preparing' = Preparing \ {i} /\ Queued' = Queued \cup {i}
  /\ Held' = Held /\ Written' = Written /\ wire' = wire /\ rejected' = rejected
  /\ taken' = taken

PickedUp(i) ==
  /\ i \in Queued
  /\ Queued' = Queued \ {i} /\ Held' = Held \cup {i}
  /\ Preparing' = Preparing /\ Written' = Written /\ wire' = wire /\ rejected' = rejected
  /\ taken' = taken

Sent(i) ==
  /\ i \in Held
  /\ Held' = Held \ {i} /\ Written' = Written \cup {i} /\ wire' = Append(wire, i)
  /\ Preparing' = Preparing /\ Queued' = Queued /\ rejected' = rejected
  /\ taken' = taken

PacketMoves ==
  \/ Received
  \/ \E i \in Int : Refused(i) \/ Emitted(i) \/ PickedUp(i) \/ Sent(i)

\* No packet moves when the workers that prepare and the streams that hold a packet
\* stay the same and keep their packets.
LEMMA StayPut ==
  ASSUME OneHolder,
         \A w \in Workers : /\ workerPc'[w] = "prepare" <=> workerPc[w] = "prepare"
                            /\ workerPc[w] = "prepare" => workerIdx'[w] = workerIdx[w],
         \A s \in Streams : /\ streamPc'[s] \in Unwritten <=> streamPc[s] \in Unwritten
                            /\ streamPc[s] \in Unwritten => streamIdx'[s] = streamIdx[s],
         UNCHANGED <<prepCh, wire, rejected, taken>>
  PROVE  OneHolder' /\ NothingMoves
<1>1. Preparing' = Preparing
  BY DEF Preparing
<1>2. Held' = Held
  BY DEF Held
<1>3. Queued' = Queued /\ Written' = Written
  BY DEF Queued, Written
<1>4. OneHolder'
  BY DEF OneHolder
<1> QED BY <1>1, <1>2, <1>3, <1>4 DEF NothingMoves

\* Every step moves at most one packet by one place, and no packet gets a second
\* worker, stream or position.
LEMMA StepMoves ==
  ASSUME TypeOK, OneHolder, OnePlace, NothingLost, Shutdown, Next
  PROVE  OneHolder' /\ (NothingMoves \/ PacketMoves)
<1> USE DEF userVars, feedVars, workerVars, streamVars, turnstileVars, historyVars
<1> DEFINE Goal == OneHolder' /\ (NothingMoves \/ PacketMoves)
<1>1. ASSUME NEW len \in Lengths, AddPayload(len) PROVE Goal
  BY <1>1, StayPut DEF AddPayload
<1>2. ASSUME NEW d \in BOOLEAN, SetAdvancedConfig(d) PROVE Goal
  BY <1>2, StayPut DEF SetAdvancedConfig
<1>3. ASSUME SendCall PROVE Goal
  <2>0. CASE Send
    <3>1. \A w \in Workers : workerPc'[w] # "prepare" /\ workerPc[w] # "prepare"
      BY <2>0 DEF Send, Shutdown, TypeOK
    <3> QED BY <2>0, <3>1, StayPut DEF Send
  <2>1. CASE OpenFails BY <2>1, StayPut DEF OpenFails
  <2>2. CASE StartFeeding BY <2>2, StayPut DEF StartFeeding
  <2>3. ASSUME NEW s \in Streams, OpenStream(s) PROVE Goal
    BY <2>3, StayPut DEF OpenStream, TypeOK, Unwritten
  <2> QED BY <1>3, <2>0, <2>1, <2>2, <2>3 DEF SendCall
<1>4. ASSUME FeederNext PROVE Goal
  BY <1>4, StayPut DEF FeederNext, Feed, CloseRawCh, ClosePrepCh
<1>5. ASSUME NEW w \in Workers, WorkerNext(w) PROVE Goal
  <2> DEFINE i == workerIdx[w]
  <2>0. i \in Int
    BY DEF TypeOK
  <2>1. CASE TakePayload(w)
    <3>1. /\ \A v \in Workers : workerPc'[v] = "prepare" <=> v = w \/ workerPc[v] = "prepare"
          /\ \A v \in Workers : workerIdx'[v] = IF v = w THEN taken ELSE workerIdx[v]
          /\ workerPc[w] # "prepare"
      BY <2>1 DEF TakePayload, TypeOK
    <3>2. Preparing' = Preparing \cup {taken}
      BY <3>1 DEF Preparing
    <3>3. taken \notin Preparing
      BY DEF NothingLost, TypeOK
    <3>4. Held' = Held /\ Queued' = Queued /\ Written' = Written /\ OneHolder'
      BY <2>1, <3>1, <3>3 DEF TakePayload, OneHolder, Held, Queued, Written, Preparing
    <3> QED BY <2>1, <3>2, <3>4 DEF TakePayload, PacketMoves, Received
  <2>2. CASE WorkerExits(w)
    BY <2>2, StayPut DEF WorkerExits, TypeOK
  <2>3. ASSUME \/ RejectPayload(w)
               \/ EmitPacket(w)
        PROVE  /\ i \in Preparing /\ Preparing' = Preparing \ {i}
               /\ \A u, v \in Workers :
                    workerPc'[u] = "prepare" /\ workerPc'[v] = "prepare"
                      /\ workerIdx'[u] = workerIdx'[v] => u = v
    <3>1. /\ \A v \in Workers : workerPc'[v] = "prepare" <=> v # w /\ workerPc[v] = "prepare"
          /\ \A v \in Workers : v # w => workerIdx'[v] = workerIdx[v]
          /\ workerPc[w] = "prepare"
      BY <2>3 DEF RejectPayload, EmitPacket, TypeOK
    <3> QED BY <3>1 DEF Preparing, OneHolder
  <2>4. CASE RejectPayload(w)
    <3>1. Held' = Held /\ Queued' = Queued /\ Written' = Written /\ OneHolder'
      BY <2>4, <2>3 DEF RejectPayload, OneHolder, Held, Queued, Written
    <3>2. Refused(i)
      BY <2>4, <2>3, <3>1 DEF RejectPayload, Refused
    <3> QED BY <2>0, <3>1, <3>2 DEF PacketMoves
  <2>5. CASE EmitPacket(w)
    <3>1. i \notin Queued
      BY <2>5, <2>3 DEF OnePlace
    <3>2. IsInjective(prepCh') /\ Queued' = Queued \cup {i}
      BY <2>0, <2>5, <3>1, AppendNew DEF EmitPacket, OneHolder, TypeOK, Queued
    <3>3. Held' = Held /\ Written' = Written /\ OneHolder'
      BY <2>5, <2>3, <3>2 DEF EmitPacket, OneHolder, Held, Written
    <3>4. Emitted(i)
      BY <2>5, <2>3, <3>2, <3>3 DEF EmitPacket, Emitted
    <3> QED BY <2>0, <3>3, <3>4 DEF PacketMoves
  <2> QED BY <1>5, <2>1, <2>2, <2>4, <2>5 DEF WorkerNext
<1>6. ASSUME NEW s \in Streams, StreamNext(s) PROVE Goal
  <2>1. CASE PinStream(s) BY <2>1, StayPut DEF PinStream, TypeOK, Unwritten
  <2>2. CASE TakePacket(s)
    <3> DEFINE i == Head(prepCh)
    <3>1. /\ IsInjective(prepCh') /\ i \in Queued /\ Queued' = Queued \ {i}
          /\ i \in Int
      BY <2>2, TailOfInjective, HeadTailProperties DEF TakePacket, OneHolder, TypeOK, Queued
    <3>2. /\ \A t \in Streams : streamPc'[t] \in Unwritten <=> t = s \/ streamPc[t] \in Unwritten
          /\ \A t \in Streams : streamIdx'[t] = IF t = s THEN i ELSE streamIdx[t]
          /\ streamPc[s] \notin Unwritten
      BY <2>2 DEF TakePacket, TypeOK, Unwritten
    <3>3. Held' = Held \cup {i}
      BY <3>2 DEF Held
    <3>4. i \notin Held
      BY <3>1 DEF OnePlace
    <3>5. Preparing' = Preparing /\ Written' = Written
      BY <2>2 DEF TakePacket, Preparing, Written
    <3>6. OneHolder'
      BY <2>2, <3>1, <3>2, <3>4 DEF TakePacket, OneHolder, Held
    <3>7. PickedUp(i)
      BY <2>2, <3>1, <3>3, <3>5 DEF TakePacket, PickedUp
    <3> QED BY <3>1, <3>6, <3>7 DEF PacketMoves
  <2>3. CASE StreamExits(s) BY <2>3, StayPut DEF StreamExits, TypeOK, Unwritten
  <2>4. CASE TakeToken(s) BY <2>4, StayPut DEF TakeToken, TypeOK, Unwritten
  <2>5. CASE AwaitTurn(s) BY <2>5, StayPut DEF AwaitTurn, TypeOK, Unwritten
  <2>6. ASSUME NEW ok \in BOOLEAN, WritePacket(s, ok) PROVE Goal
    <3> DEFINE i == streamIdx[s]
    <3>1. /\ \A t \in Streams : streamPc'[t] \in Unwritten <=> t # s /\ streamPc[t] \in Unwritten
          /\ streamIdx' = streamIdx
          /\ streamPc[s] \in Unwritten
          /\ i \in Int
      BY <2>6 DEF WritePacket, TypeOK, Unwritten
    <3>2. i \in Held /\ Held' = Held \ {i}
      BY <3>1 DEF Held, OneHolder
    <3>3. i \notin Range(wire)
      BY <3>2 DEF OnePlace, Written
    <3>4. wire' = Append(wire, i)
      BY <2>6 DEF WritePacket
    <3>5. IsInjective(wire') /\ Written' = Written \cup {i}
      BY <3>1, <3>3, <3>4, AppendNew DEF OneHolder, TypeOK, Written
    <3>6. Preparing' = Preparing /\ Queued' = Queued
      BY <2>6 DEF WritePacket, Preparing, Queued
    <3>7. OneHolder'
      BY <2>6, <3>1, <3>5 DEF WritePacket, OneHolder
    <3>8. Sent(i)
      BY <2>6, <3>2, <3>4, <3>5, <3>6 DEF WritePacket, Sent
    <3> QED BY <3>1, <3>7, <3>8 DEF PacketMoves
  <2>7. CASE ReportFailure(s) BY <2>7, StayPut DEF ReportFailure, TypeOK, Unwritten
  <2>8. CASE Advance(s) BY <2>8, StayPut DEF Advance, TypeOK, Unwritten
  <2>9. CASE CountPacket(s) BY <2>9, StayPut DEF CountPacket, TypeOK, Unwritten
  <2> QED BY <1>6, <2>1, <2>2, <2>3, <2>4, <2>5, <2>6, <2>7, <2>8, <2>9 DEF StreamNext
<1>7. ASSUME TurnstileNext PROVE Goal
  BY <1>7, StayPut DEF TurnstileNext, TurnstileTick, TurnstileExits
<1>8. ASSUME CompleterNext PROVE Goal
  BY <1>8, StayPut DEF CompleterNext, CloseHandles, PublishCompletion
<1> QED
  BY <1>1, <1>2, <1>3, <1>4, <1>5, <1>6, <1>7, <1>8 DEF Next

\* Moving one packet by one place keeps the places disjoint and loses nothing.
LEMMA MovesKeepPlaces ==
  ASSUME TypeOK, OnePlace, NothingLost, NothingMoves \/ PacketMoves
  PROVE  OnePlace' /\ NothingLost'
<1> USE DEF OnePlace, NothingLost
<1>1. CASE NothingMoves
  BY <1>1 DEF NothingMoves
<1>2. CASE Received
  <2>1. taken \in Nat /\ taken \notin 0 .. taken - 1 /\ 0 .. taken = (0 .. taken - 1) \cup {taken}
    BY DEF TypeOK
  <2>2. taken' - 1 = taken
    BY <1>2, <2>1 DEF Received
  <2> QED BY <1>2, <2>1, <2>2 DEF Received
<1>3. ASSUME NEW i \in Int, Refused(i) PROVE OnePlace' /\ NothingLost'
  BY <1>3 DEF Refused
<1>4. ASSUME NEW i \in Int, Emitted(i) PROVE OnePlace' /\ NothingLost'
  BY <1>4 DEF Emitted
<1>5. ASSUME NEW i \in Int, PickedUp(i) PROVE OnePlace' /\ NothingLost'
  BY <1>5 DEF PickedUp
<1>6. ASSUME NEW i \in Int, Sent(i) PROVE OnePlace' /\ NothingLost'
  BY <1>6 DEF Sent
<1> QED BY <1>1, <1>2, <1>3, <1>4, <1>5, <1>6 DEF PacketMoves

\* While Send has not returned the wire and all stages are empty.
LEMMA NothingBeforeFeeding ==
  ASSUME TypeOK, NothingLost, Shutdown, feeder = "off"
  PROVE  /\ taken = 0 /\ wire = <<>>
         /\ Preparing = {} /\ Queued = {} /\ Held = {} /\ Written = {} /\ rejected = {}
<1>1. taken = 0
  BY DEF TypeOK, Shutdown
<1>2. Preparing = {} /\ Queued = {} /\ Held = {} /\ Written = {} /\ rejected = {}
  BY <1>1 DEF NothingLost
<1>3. wire = <<>>
  <2>1. Len(wire) \in Nat /\ DOMAIN wire = 1 .. Len(wire)
    BY LenProperties DEF TypeOK
  <2>2. DOMAIN wire = {}
    BY <1>2 DEF Written, Range
  <2>3. Len(wire) = 0
    BY <2>1, <2>2
  <2> QED BY <2>3, EmptySeq DEF TypeOK
<1> QED BY <1>1, <1>2, <1>3

\* Whatever left rawCh is judged once and for all.
LEMMA OnlySendableKept ==
  ASSUME TypeOK, NothingLost, Shutdown, OnlySendable, NothingMoves \/ PacketMoves, Next
  PROVE  OnlySendable'
<1>1. ASSUME NEW i \in 0 .. taken - 1 PROVE Acceptable(i)' <=> Acceptable(i)
  <2>1. CASE \E len \in Lengths : AddPayload(len)
    <3>1. feeder = "off"
      BY <2>1 DEF AddPayload, Shutdown
    <3> QED BY <3>1, NothingBeforeFeeding
  <2>2. CASE UNCHANGED payloads
    BY <2>2 DEF Acceptable
  <2>3. (\E len \in Lengths : AddPayload(len)) \/ UNCHANGED payloads
    BY DEF Next, SetAdvancedConfig, SendCall, Send, OpenStream, OpenFails, StartFeeding,
           FeederNext, Feed, CloseRawCh, ClosePrepCh, WorkerNext, TakePayload, WorkerExits,
           RejectPayload, EmitPacket, StreamNext, PinStream, TakePacket, StreamExits,
           TakeToken, AwaitTurn, WritePacket, ReportFailure, Advance, CountPacket,
           TurnstileNext, TurnstileTick, TurnstileExits, CompleterNext, CloseHandles,
           PublishCompletion, userVars
  <2> QED BY <2>1, <2>2, <2>3
<1>2. Preparing \cup Queued \cup Held \cup Written \cup rejected \subseteq 0 .. taken - 1
  BY DEF NothingLost
<1>3. CASE NothingMoves
  BY <1>1, <1>2, <1>3 DEF OnlySendable, NothingMoves
<1>4. CASE Received
  BY <1>1, <1>2, <1>4 DEF OnlySendable, Received
<1>5. ASSUME NEW i \in Int, Refused(i) PROVE OnlySendable'
  BY <1>1, <1>2, <1>5 DEF OnlySendable, Refused
<1>6. ASSUME NEW i \in Int, Emitted(i) PROVE OnlySendable'
  BY <1>1, <1>2, <1>6 DEF OnlySendable, Emitted
<1>7. ASSUME NEW i \in Int, PickedUp(i) PROVE OnlySendable'
  BY <1>1, <1>2, <1>7 DEF OnlySendable, PickedUp
<1>8. ASSUME NEW i \in Int, Sent(i) PROVE OnlySendable'
  BY <1>1, <1>2, <1>8 DEF OnlySendable, Sent
<1> QED BY <1>3, <1>4, <1>5, <1>6, <1>7, <1>8 DEF PacketMoves

-----------------------------------------------------------------------------
\* The goroutines stop in order: each step keeps the chain of Shutdown.
LEMMA NextShutdown == TypeOK /\ Shutdown /\ Next => Shutdown'
<1> SUFFICES ASSUME TypeOK, Shutdown, Next PROVE Shutdown'
  OBVIOUS
<1> USE DEF userVars, feedVars, workerVars, streamVars, turnstileVars, historyVars,
            Shutdown, rawChClosed, prepChClosed, WorkersDone, StreamsDone
<1>1. ASSUME NEW len \in Lengths, AddPayload(len) PROVE Shutdown'
  BY <1>1 DEF AddPayload
<1>2. ASSUME NEW d \in BOOLEAN, SetAdvancedConfig(d) PROVE Shutdown'
  BY <1>2 DEF SetAdvancedConfig
<1>3. ASSUME SendCall PROVE Shutdown'
  <2>1. CASE Send BY <2>1 DEF Send
  <2>2. CASE OpenFails BY <2>2 DEF OpenFails
  <2>3. CASE StartFeeding BY <2>3 DEF StartFeeding
  <2>4. ASSUME NEW s \in Streams, OpenStream(s) PROVE Shutdown'
    BY <2>4 DEF OpenStream, TypeOK
  <2> QED BY <1>3, <2>1, <2>2, <2>3, <2>4 DEF SendCall
<1>4. ASSUME FeederNext PROVE Shutdown'
  <2>1. CASE Feed BY <2>1 DEF Feed, TypeOK
  <2>2. CASE CloseRawCh BY <2>2 DEF CloseRawCh
  <2>3. CASE ClosePrepCh BY <2>3 DEF ClosePrepCh
  <2> QED BY <1>4, <2>1, <2>2, <2>3 DEF FeederNext
<1>5. ASSUME NEW w \in Workers, WorkerNext(w) PROVE Shutdown'
  <2>1. CASE TakePayload(w) BY <2>1 DEF TakePayload, TypeOK
  <2>2. CASE WorkerExits(w) BY <2>2 DEF WorkerExits, TypeOK
  <2>3. CASE RejectPayload(w) BY <2>3 DEF RejectPayload, TypeOK
  <2>4. CASE EmitPacket(w) BY <2>4 DEF EmitPacket, TypeOK
  <2> QED BY <1>5, <2>1, <2>2, <2>3, <2>4 DEF WorkerNext
<1>6. ASSUME NEW s \in Streams, StreamNext(s) PROVE Shutdown'
  <2>1. CASE PinStream(s) BY <2>1 DEF PinStream, TypeOK
  <2>2. CASE TakePacket(s) BY <2>2 DEF TakePacket, TypeOK
  <2>3. CASE StreamExits(s) BY <2>3 DEF StreamExits, TypeOK
  <2>4. CASE TakeToken(s) BY <2>4 DEF TakeToken, TypeOK
  <2>5. CASE AwaitTurn(s) BY <2>5 DEF AwaitTurn, TypeOK
  <2>6. ASSUME NEW ok \in BOOLEAN, WritePacket(s, ok) PROVE Shutdown'
    BY <2>6 DEF WritePacket, TypeOK
  <2>7. CASE ReportFailure(s) BY <2>7 DEF ReportFailure, TypeOK
  <2>8. CASE Advance(s) BY <2>8 DEF Advance, TypeOK
  <2>9. CASE CountPacket(s) BY <2>9 DEF CountPacket, TypeOK
  <2> QED BY <1>6, <2>1, <2>2, <2>3, <2>4, <2>5, <2>6, <2>7, <2>8, <2>9 DEF StreamNext
<1>7. ASSUME TurnstileNext PROVE Shutdown'
  BY <1>7 DEF TurnstileNext, TurnstileTick, TurnstileExits
<1>8. ASSUME CompleterNext PROVE Shutdown'
  BY <1>8 DEF CompleterNext, CloseHandles, PublishCompletion
<1> QED
  BY <1>1, <1>2, <1>3, <1>4, <1>5, <1>6, <1>7, <1>8 DEF Next

\* A step that changes no stream, counter or write keeps the turn.
LEMMA TurnUntouched ==
  ASSUME TurnTaken, UNCHANGED <<disableOrdering, streamPc, streamIdx, nextToSend, wire>>
  PROVE  TurnTaken'
BY DEF TurnTaken, Written, Sending

\* A stream that moves between stages other than those of the turn keeps it.
LEMMA TurnOfOthers ==
  ASSUME TypeOK, TurnTaken,
         UNCHANGED <<disableOrdering, nextToSend, wire>>,
         \A s \in Streams : \/ /\ streamPc'[s] = streamPc[s]
                               /\ streamIdx'[s] = streamIdx[s]
                            \/ streamPc'[s] \notin Sending /\ streamPc[s] \notin Sending
  PROVE  TurnTaken'
<1>1. Written' = Written
  BY DEF Written
<1>2. \A s \in Streams :
        streamPc'[s] \in Sending =>
          streamPc[s] \in Sending /\ streamPc'[s] = streamPc[s] /\ streamIdx'[s] = streamIdx[s]
  OBVIOUS
<1>3. \A s \in Streams :
        streamPc'[s] \in {"report", "advance"} <=> streamPc[s] \in {"report", "advance"}
  BY DEF Sending
<1> QED BY <1>1, <1>2, <1>3 DEF TurnTaken, Sending

\* With ordering on a stream gets its turn only when no other is sending, so the
\* next packet on the wire is the next index.
LEMMA NextTurnTaken ==
  ASSUME TypeOK, OneHolder, OnePlace, NothingLost, Shutdown, TurnTaken, Next
  PROVE  TurnTaken'
<1> USE DEF userVars, feedVars, workerVars, streamVars, turnstileVars, historyVars
<1>1. ASSUME NEW len \in Lengths, AddPayload(len) PROVE TurnTaken'
  BY <1>1, TurnUntouched DEF AddPayload
<1>2. ASSUME NEW d \in BOOLEAN, SetAdvancedConfig(d) PROVE TurnTaken'
  <2>1. wire = <<>> /\ nextToSend = 0 /\ \A s \in Streams : streamPc[s] = "off"
    BY <1>2, NothingBeforeFeeding DEF SetAdvancedConfig, Shutdown
  <2> QED BY <1>2, <2>1 DEF SetAdvancedConfig, TurnTaken, Sending
<1>3. ASSUME SendCall PROVE TurnTaken'
  <2>1. CASE Send
    <3>1. nextToSend' = nextToSend
      BY <2>1 DEF Send, Shutdown
    <3> QED BY <2>1, <3>1, TurnUntouched DEF Send
  <2>2. CASE OpenFails BY <2>2, TurnUntouched DEF OpenFails
  <2>3. CASE StartFeeding BY <2>3, TurnUntouched DEF StartFeeding
  <2>4. ASSUME NEW s \in Streams, OpenStream(s) PROVE TurnTaken'
    BY <2>4, TurnOfOthers DEF OpenStream, TypeOK, Sending
  <2> QED BY <1>3, <2>1, <2>2, <2>3, <2>4 DEF SendCall
<1>4. ASSUME FeederNext PROVE TurnTaken'
  BY <1>4, TurnUntouched DEF FeederNext, Feed, CloseRawCh, ClosePrepCh
<1>5. ASSUME NEW w \in Workers, WorkerNext(w) PROVE TurnTaken'
  BY <1>5, TurnUntouched DEF WorkerNext, TakePayload, WorkerExits, RejectPayload, EmitPacket
<1>6. ASSUME NEW s \in Streams, StreamNext(s) PROVE TurnTaken'
  <2>1. CASE PinStream(s) BY <2>1, TurnOfOthers DEF PinStream, TypeOK, Sending
  <2>2. CASE TakePacket(s) BY <2>2, TurnOfOthers DEF TakePacket, TypeOK, Sending
  <2>3. CASE StreamExits(s) BY <2>3, TurnOfOthers DEF StreamExits, TypeOK, Sending
  <2>4. CASE TakeToken(s) BY <2>4, TurnOfOthers DEF TakeToken, TypeOK, Sending
  <2>5. CASE AwaitTurn(s)
    <3>1. /\ streamPc'[s] = "write" /\ streamPc[s] = "turn"
          /\ \A t \in Streams : t # s => streamPc'[t] = streamPc[t]
          /\ UNCHANGED <<disableOrdering, streamIdx, nextToSend, wire>>
      BY <2>5 DEF AwaitTurn, TypeOK
    <3>2. Written' = Written
      BY <3>1 DEF Written
    <3>3. \A t \in Streams :
            streamPc'[t] \in {"report", "advance"} <=> streamPc[t] \in {"report", "advance"}
      BY <3>1
    <3>4. ASSUME ~disableOrdering, NEW t \in Streams, streamPc[t] \in Sending PROVE FALSE
      <4>1. streamIdx[s] = nextToSend /\ streamIdx[t] = streamIdx[s] /\ s # t
        BY <2>5, <3>1, <3>4 DEF AwaitTurn, HasTurn, TurnTaken, Sending
      <4>2. CASE streamPc[t] = "write"
        BY <3>1, <4>1, <4>2 DEF OneHolder, Unwritten
      <4>3. CASE streamPc[t] \in {"report", "advance"}
        <5>1. streamIdx[t] \in Written
          BY <4>3 DEF TurnTaken
        <5>2. streamIdx[s] \in Held
          BY <3>1 DEF Held, Unwritten
        <5> QED BY <4>1, <5>1, <5>2 DEF OnePlace
      <4> QED BY <3>4, <4>2, <4>3 DEF Sending
    <3>5. ~disableOrdering => streamIdx[s] = nextToSend
      BY <2>5 DEF AwaitTurn, HasTurn
    <3> QED BY <3>1, <3>2, <3>3, <3>4, <3>5 DEF TurnTaken, Sending
  <2>6. ASSUME NEW ok \in BOOLEAN, WritePacket(s, ok) PROVE TurnTaken'
    <3>1. /\ streamPc'[s] \in {"report", "advance"} /\ streamPc[s] = "write"
          /\ \A t \in Streams : t # s => streamPc'[t] = streamPc[t]
          /\ UNCHANGED <<disableOrdering, streamIdx, nextToSend>>
          /\ wire' = Append(wire, streamIdx[s])
          /\ streamIdx[s] \in Int
      BY <2>6 DEF WritePacket, TypeOK
    <3>2. /\ Len(wire') = Len(wire) + 1 /\ DOMAIN wire' = 1 .. Len(wire) + 1
          /\ Len(wire) \in Nat /\ DOMAIN wire = 1 .. Len(wire)
          /\ \A k \in 1 .. Len(wire) : wire'[k] = wire[k]
          /\ wire'[Len(wire) + 1] = streamIdx[s]
      BY <3>1 DEF TypeOK
    <3>3. Written \subseteq Written' /\ streamIdx[s] \in Written'
      BY <3>2 DEF Written, Range
    <3>4. \A t \in Streams : streamPc'[t] \in {"report", "advance"} => streamIdx'[t] \in Written'
      BY <3>1, <3>3 DEF TurnTaken
    <3>5. ASSUME ~disableOrdering
          PROVE  /\ \A t \in Streams : streamPc[t] \in Sending => t = s
                 /\ streamIdx[s] = nextToSend
                 /\ Len(wire) = nextToSend
                 /\ \A k \in DOMAIN wire : wire[k] = k - 1
      BY <3>1, <3>5 DEF TurnTaken, Sending
    <3>6. ASSUME ~disableOrdering
          PROVE  /\ \A t \in Streams : streamPc'[t] \in Sending => t = s
                 /\ Len(wire') = nextToSend' + 1
                 /\ \A k \in DOMAIN wire' : wire'[k] = k - 1
      BY <3>1, <3>2, <3>5, <3>6 DEF Sending
    <3> QED BY <3>1, <3>4, <3>5, <3>6 DEF TurnTaken
  <2>7. CASE ReportFailure(s)
    <3>1. /\ streamPc'[s] = "advance" /\ streamPc[s] = "report"
          /\ \A t \in Streams : t # s => streamPc'[t] = streamPc[t]
          /\ UNCHANGED <<disableOrdering, streamIdx, nextToSend, wire>>
      BY <2>7 DEF ReportFailure, TypeOK
    <3>2. Written' = Written
      BY <3>1 DEF Written
    <3>3. \A t \in Streams :
            /\ streamPc'[t] \in {"report", "advance"} <=> streamPc[t] \in {"report", "advance"}
            /\ streamPc'[t] \in Sending <=> streamPc[t] \in Sending
      BY <3>1 DEF Sending
    <3> QED BY <3>1, <3>2, <3>3 DEF TurnTaken
  <2>8. CASE Advance(s)
    <3>1. /\ streamPc'[s] = "count" /\ streamPc[s] = "advance"
          /\ \A t \in Streams : t # s => streamPc'[t] = streamPc[t]
          /\ UNCHANGED <<disableOrdering, streamIdx, wire>>
          /\ ~disableOrdering => nextToSend' = nextToSend + 1
      BY <2>8 DEF Advance, TypeOK
    <3>2. Written' = Written
      BY <3>1 DEF Written
    <3>3. \A t \in Streams : streamPc'[t] \in {"report", "advance"} => streamIdx'[t] \in Written'
      BY <3>1, <3>2 DEF TurnTaken
    <3>4. ASSUME ~disableOrdering
          PROVE  /\ \A t \in Streams : streamPc'[t] \notin Sending
                 /\ Len(wire') = nextToSend'
                 /\ \A k \in DOMAIN wire' : wire'[k] = k - 1
      BY <3>1, <3>4 DEF TurnTaken, Sending
    <3> QED BY <3>1, <3>3, <3>4 DEF TurnTaken, Sending
  <2>9. CASE CountPacket(s) BY <2>9, TurnOfOthers DEF CountPacket, TypeOK, Sending
  <2> QED BY <1>6, <2>1, <2>2, <2>3, <2>4, <2>5, <2>6, <2>7, <2>8, <2>9 DEF StreamNext
<1>7. ASSUME TurnstileNext PROVE TurnTaken'
  BY <1>7, TurnUntouched DEF TurnstileNext, TurnstileTick, TurnstileExits
<1>8. ASSUME CompleterNext PROVE TurnTaken'
  BY <1>8, TurnUntouched DEF CompleterNext, CloseHandles, PublishCompletion
<1> QED
  BY <1>1, <1>2, <1>3, <1>4, <1>5, <1>6, <1>7, <1>8 DEF Next

-----------------------------------------------------------------------------
\* A step that neither ticks nor touches tokens, writes or the streams that hold a
\* token stays within the budget.
LEMMA BudgetUntouched ==
  ASSUME BurstBudget, UNCHANGED <<tokens, burst>>,
         \A s \in Streams :
           streamPc'[s] \in {"turn", "write"} <=> streamPc[s] \in {"turn", "write"}
  PROVE  BurstBudget'
<1>1. Paid' = Paid
  BY DEF Paid
<1> QED BY <1>1 DEF BurstBudget

\* The streams that hold a token can be counted.
LEMMA PaidIsFinite ==
  /\ IsFiniteSet(Paid) /\ Cardinality(Paid) \in Nat /\ Cardinality(Streams) \in Nat
  /\ Cardinality(Paid) <= Cardinality(Streams)
BY PartiesAssumption, FS_Subset, FS_CardinalityType DEF Paid

\* A token is taken before a write, a write uses it up, and a tick adds one token at
\* most and starts a new burst.
LEMMA NextBurstBudget ==
  ASSUME TypeOK, BurstBudget, [Next]_vars
  PROVE  BurstBudget'
<1> USE DEF userVars, feedVars, workerVars, streamVars, turnstileVars, historyVars
<1>1. ASSUME NEW len \in Lengths, AddPayload(len) PROVE BurstBudget'
  BY <1>1, BudgetUntouched DEF AddPayload
<1>2. ASSUME NEW d \in BOOLEAN, SetAdvancedConfig(d) PROVE BurstBudget'
  BY <1>2, BudgetUntouched DEF SetAdvancedConfig
<1>3. ASSUME SendCall PROVE BurstBudget'
  <2>1. ASSUME NEW s \in Streams, OpenStream(s) PROVE BurstBudget'
    BY <2>1, BudgetUntouched DEF OpenStream, TypeOK
  <2> QED BY <1>3, <2>1, BudgetUntouched DEF SendCall, Send, OpenFails, StartFeeding
<1>4. ASSUME FeederNext PROVE BurstBudget'
  BY <1>4, BudgetUntouched DEF FeederNext, Feed, CloseRawCh, ClosePrepCh
<1>5. ASSUME NEW w \in Workers, WorkerNext(w) PROVE BurstBudget'
  BY <1>5, BudgetUntouched DEF WorkerNext, TakePayload, WorkerExits, RejectPayload, EmitPacket
<1>6. ASSUME NEW s \in Streams, StreamNext(s) PROVE BurstBudget'
  <2>1. CASE PinStream(s) BY <2>1, BudgetUntouched DEF PinStream, TypeOK
  <2>2. CASE TakePacket(s) BY <2>2, BudgetUntouched DEF TakePacket, TypeOK
  <2>3. CASE StreamExits(s) BY <2>3, BudgetUntouched DEF StreamExits, TypeOK
  <2>4. CASE TakeToken(s)
    <3>1. Paid' = Paid \cup {s} /\ s \notin Paid
      BY <2>4 DEF TakeToken, Paid, TypeOK
    <3>2. Cardinality(Paid') = Cardinality(Paid) + 1
      BY <3>1, PaidIsFinite, FS_AddElement
    <3>3. tokens' = tokens - 1 /\ burst' = burst /\ tokens \in Nat /\ burst \in Nat
      BY <2>4, SizesAssumption DEF TakeToken, TypeOK
    <3> QED BY <3>2, <3>3, PaidIsFinite, SizesAssumption DEF BurstBudget
  <2>5. CASE AwaitTurn(s) BY <2>5, BudgetUntouched DEF AwaitTurn, TypeOK
  <2>6. ASSUME NEW ok \in BOOLEAN, WritePacket(s, ok) PROVE BurstBudget'
    <3>1. Paid' = Paid \ {s} /\ s \in Paid
      BY <2>6 DEF WritePacket, Paid, TypeOK
    <3>2. Cardinality(Paid') = Cardinality(Paid) - 1
      BY <3>1, PaidIsFinite, FS_RemoveElement
    <3>3. burst' = burst + 1 /\ tokens' = tokens /\ tokens \in Nat /\ burst \in Nat
      BY <2>6, SizesAssumption DEF WritePacket, TypeOK
    <3> QED BY <3>2, <3>3, PaidIsFinite, SizesAssumption DEF BurstBudget
  <2>7. CASE ReportFailure(s) BY <2>7, BudgetUntouched DEF ReportFailure, TypeOK
  <2>8. CASE Advance(s) BY <2>8, BudgetUntouched DEF Advance, TypeOK
  <2>9. CASE CountPacket(s) BY <2>9, BudgetUntouched DEF CountPacket, TypeOK
  <2> QED BY <1>6, <2>1, <2>2, <2>3, <2>4, <2>5, <2>6, <2>7, <2>8, <2>9 DEF StreamNext
<1>7. ASSUME TurnstileNext PROVE BurstBudget'
  <2>1. CASE TurnstileTick
    <3>1. tokens' \in 0 .. TurnstileBurst /\ burst' = 0 /\ Paid' = Paid
      BY <2>1, SizesAssumption DEF TurnstileTick, WithToken, TypeOK, Paid
    <3> QED BY <3>1, PaidIsFinite, SizesAssumption DEF BurstBudget
  <2>2. CASE TurnstileExits BY <2>2, BudgetUntouched DEF TurnstileExits
  <2> QED BY <1>7, <2>1, <2>2 DEF TurnstileNext
<1>8. ASSUME CompleterNext PROVE BurstBudget'
  BY <1>8, BudgetUntouched DEF CompleterNext, CloseHandles, PublishCompletion
<1>9. CASE UNCHANGED vars
  BY <1>9, BudgetUntouched DEF vars
<1> QED
  BY <1>1, <1>2, <1>3, <1>4, <1>5, <1>6, <1>7, <1>8, <1>9 DEF Next

-----------------------------------------------------------------------------
\* The streams whose packet is not counted yet can be counted.
LEMMA UncountedIsFinite ==
  IsFiniteSet(Uncounted) /\ Cardinality(Uncounted) \in Nat
BY PartiesAssumption, FS_Subset, FS_CardinalityType DEF Uncounted

\* A step that leaves the wire, the count and the streams after a write alone.
LEMMA LedgerUntouched ==
  ASSUME CountLedger, UNCHANGED <<wire, processed>>,
         \A s \in Streams : streamPc'[s] \in {"report", "advance", "count"}
                              <=> streamPc[s] \in {"report", "advance", "count"}
  PROVE  CountLedger'
<1>1. Uncounted' = Uncounted
  BY DEF Uncounted
<1> QED BY <1>1 DEF CountLedger

\* Each write makes one stream uncounted and each count makes one counted.
LEMMA NextCountLedger ==
  ASSUME TypeOK, NothingLost, Shutdown, CountLedger, [Next]_vars
  PROVE  CountLedger'
<1> USE DEF userVars, feedVars, workerVars, streamVars, turnstileVars, historyVars
<1>1. ASSUME NEW len \in Lengths, AddPayload(len) PROVE CountLedger'
  BY <1>1, LedgerUntouched DEF AddPayload
<1>2. ASSUME NEW d \in BOOLEAN, SetAdvancedConfig(d) PROVE CountLedger'
  BY <1>2, LedgerUntouched DEF SetAdvancedConfig
<1>3. ASSUME SendCall PROVE CountLedger'
  <2>1. ASSUME NEW s \in Streams, OpenStream(s) PROVE CountLedger'
    BY <2>1, LedgerUntouched DEF OpenStream, TypeOK
  <2>2. CASE Send
    <3>1. Uncounted = {} /\ wire = <<>>
      BY <2>2, NothingBeforeFeeding DEF Send, Shutdown, Uncounted
    <3>2. EnableMetrics => processed = 0
      BY <3>1, FS_EmptySet DEF CountLedger, TypeOK
    <3>3. Uncounted' = Uncounted /\ wire' = wire /\ processed' = 0
      BY <2>2 DEF Send, Uncounted
    <3> QED BY <3>2, <3>3 DEF CountLedger
  <2> QED BY <1>3, <2>1, <2>2, LedgerUntouched DEF SendCall, OpenFails, StartFeeding
<1>4. ASSUME FeederNext PROVE CountLedger'
  BY <1>4, LedgerUntouched DEF FeederNext, Feed, CloseRawCh, ClosePrepCh
<1>5. ASSUME NEW w \in Workers, WorkerNext(w) PROVE CountLedger'
  BY <1>5, LedgerUntouched DEF WorkerNext, TakePayload, WorkerExits, RejectPayload, EmitPacket
<1>6. ASSUME NEW s \in Streams, StreamNext(s) PROVE CountLedger'
  <2>1. CASE PinStream(s) BY <2>1, LedgerUntouched DEF PinStream, TypeOK
  <2>2. CASE TakePacket(s) BY <2>2, LedgerUntouched DEF TakePacket, TypeOK
  <2>3. CASE StreamExits(s) BY <2>3, LedgerUntouched DEF StreamExits, TypeOK
  <2>4. CASE TakeToken(s) BY <2>4, LedgerUntouched DEF TakeToken, TypeOK
  <2>5. CASE AwaitTurn(s) BY <2>5, LedgerUntouched DEF AwaitTurn, TypeOK
  <2>6. ASSUME NEW ok \in BOOLEAN, WritePacket(s, ok) PROVE CountLedger'
    <3>1. Uncounted' = Uncounted \cup {s} /\ s \notin Uncounted
      BY <2>6 DEF WritePacket, Uncounted, TypeOK
    <3>2. Cardinality(Uncounted') = Cardinality(Uncounted) + 1
      BY <3>1, UncountedIsFinite, FS_AddElement
    <3>3. Len(wire') = Len(wire) + 1 /\ processed' = processed
      BY <2>6 DEF WritePacket, TypeOK
    <3>4. processed \in Nat /\ Len(wire) \in Nat
      BY LenProperties DEF TypeOK
    <3> QED BY <3>2, <3>3, <3>4, UncountedIsFinite DEF CountLedger
  <2>7. CASE ReportFailure(s) BY <2>7, LedgerUntouched DEF ReportFailure, TypeOK
  <2>8. CASE Advance(s) BY <2>8, LedgerUntouched DEF Advance, TypeOK
  <2>9. CASE CountPacket(s)
    <3>1. Uncounted' = Uncounted \ {s} /\ s \in Uncounted
      BY <2>9 DEF CountPacket, Uncounted, TypeOK
    <3>2. Cardinality(Uncounted') = Cardinality(Uncounted) - 1
      BY <3>1, UncountedIsFinite, FS_RemoveElement
    <3>3. wire' = wire /\ (EnableMetrics => processed' = processed + 1)
      BY <2>9 DEF CountPacket
    <3> QED BY <3>2, <3>3, UncountedIsFinite DEF CountLedger, TypeOK
  <2> QED BY <1>6, <2>1, <2>2, <2>3, <2>4, <2>5, <2>6, <2>7, <2>8, <2>9 DEF StreamNext
<1>7. ASSUME TurnstileNext PROVE CountLedger'
  BY <1>7, LedgerUntouched DEF TurnstileNext, TurnstileTick, TurnstileExits
<1>8. ASSUME CompleterNext PROVE CountLedger'
  BY <1>8, LedgerUntouched DEF CompleterNext, CloseHandles, PublishCompletion
<1>9. CASE UNCHANGED vars
  BY <1>9, LedgerUntouched DEF vars
<1> QED
  BY <1>1, <1>2, <1>3, <1>4, <1>5, <1>6, <1>7, <1>8, <1>9 DEF Next

-----------------------------------------------------------------------------
\* The invariant holds at first.
LEMMA InitPipelineInv == Init => PipelineInv
<1> SUFFICES ASSUME Init PROVE PipelineInv
  OBVIOUS
<1>1. TypeOK
  BY InitTypeOK
<1>2. /\ \A w \in Workers : workerPc[w] = "off"
      /\ \A s \in Streams : streamPc[s] = "off"
  BY DEF Init
<1>3. DOMAIN wire = {} /\ DOMAIN prepCh = {} /\ Len(wire) = 0
  BY DEF Init
<1>4. Preparing = {} /\ Held = {} /\ Queued = {} /\ Written = {} /\ rejected = {}
  BY <1>2, <1>3 DEF Init, Preparing, Held, Queued, Written, Range, Unwritten
<1>5. OneHolder
  BY <1>2, <1>3 DEF OneHolder, IsInjective, Unwritten
<1>6. OnePlace /\ NothingLost /\ OnlySendable
  BY <1>4 DEF OnePlace, NothingLost, OnlySendable, Init
<1>7. TurnTaken
  BY <1>2, <1>3 DEF TurnTaken, Sending, Init
<1>8. Shutdown
  BY <1>2 DEF Shutdown, Init, rawChClosed, prepChClosed, WorkersDone, StreamsDone
<1>9. BurstBudget
  <2>1. Paid = {}
    BY <1>2 DEF Paid
  <2> QED BY <2>1, FS_EmptySet, PaidIsFinite, SizesAssumption DEF BurstBudget, Init
<1>10. CountLedger
  <2>1. Uncounted = {}
    BY <1>2 DEF Uncounted
  <2> QED BY <1>3, <2>1, FS_EmptySet DEF CountLedger, Init
<1> QED BY <1>1, <1>5, <1>6, <1>7, <1>8, <1>9, <1>10 DEF PipelineInv

\* Every step keeps the invariant.
LEMMA NextPipelineInv == PipelineInv /\ [Next]_vars => PipelineInv'
<1> SUFFICES ASSUME PipelineInv, [Next]_vars PROVE PipelineInv'
  OBVIOUS
<1>1. TypeOK'
  BY NextTypeOK DEF PipelineInv
<1>2. BurstBudget'
  BY NextBurstBudget DEF PipelineInv
<1>5. CountLedger'
  BY NextCountLedger DEF PipelineInv
<1>3. CASE Next
  <2>1. OneHolder' /\ (NothingMoves \/ PacketMoves)
    BY <1>3, StepMoves DEF PipelineInv
  <2>2. OnePlace' /\ NothingLost'
    BY <2>1, MovesKeepPlaces DEF PipelineInv
  <2>3. OnlySendable'
    BY <1>3, <2>1, OnlySendableKept DEF PipelineInv
  <2>4. TurnTaken'
    BY <1>3, NextTurnTaken DEF PipelineInv
  <2>5. Shutdown'
    BY <1>3, NextShutdown DEF PipelineInv
  <2> QED BY <1>1, <1>2, <1>5, <2>1, <2>2, <2>3, <2>4, <2>5 DEF PipelineInv
<1>4. CASE UNCHANGED vars
  <2> USE <1>4 DEF vars, userVars, feedVars, workerVars, streamVars, turnstileVars,
                   historyVars, PipelineInv
  <2>1. OneHolder' /\ NothingMoves
    BY StayPut
  <2>2. OnePlace' /\ NothingLost'
    BY <2>1, MovesKeepPlaces
  <2>3. OnlySendable'
    BY <2>1 DEF OnlySendable, NothingMoves, Acceptable
  <2>4. TurnTaken'
    BY TurnUntouched
  <2>5. Shutdown'
    BY DEF Shutdown, rawChClosed, prepChClosed, WorkersDone, StreamsDone
  <2> QED BY <1>1, <1>2, <1>5, <2>1, <2>2, <2>3, <2>4, <2>5
<1> QED BY <1>3, <1>4

\* PipelineInv is an invariant: wherever a packet is, it is there once, none is lost,
\* the turn has one holder, and the goroutines stop in order.
THEOREM PipelineCorrect == Spec => []PipelineInv
  BY InitPipelineInv, NextPipelineInv, PTL DEF Spec

\* Packets leave in the order of their payloads, for any number of workers and streams.
THEOREM OrderedDeliveryHolds == Spec => []OrderedDelivery
<1>1. PipelineInv => OrderedDelivery
  BY DEF PipelineInv, TurnTaken, OrderedDelivery
<1> QED BY <1>1, PipelineCorrect, PTL

\* No worker sends on prepCh after the feeder closed it.
THEOREM NoSendOnClosedChannelHolds == Spec => []NoSendOnClosedChannel
<1>1. PipelineInv => NoSendOnClosedChannel
  BY DEF PipelineInv, Shutdown, NoSendOnClosedChannel, WorkersDone, Preparing
<1> QED BY <1>1, PipelineCorrect, PTL

\* No stream writes to a handle the completer closed, nor before there is a completer.
THEOREM HandlesOpenForWritesHolds == Spec => []HandlesOpenForWrites
<1>1. ASSUME PipelineInv, NEW s \in Streams, streamPc[s] \in Unwritten
      PROVE  completer = "wait"
  <2>1. completer \notin {"publish", "done"}
    BY <1>1 DEF PipelineInv, Shutdown, StreamsDone, Unwritten
  <2>2. streamIdx[s] \in Held
    BY <1>1 DEF Held
  <2>3. feeder # "off"
    BY <1>1, <2>2, NothingBeforeFeeding DEF PipelineInv
  <2> QED BY <1>1, <2>1, <2>3 DEF PipelineInv, Shutdown, TypeOK
<1>2. PipelineInv => HandlesOpenForWrites
  BY <1>1 DEF HandlesOpenForWrites
<1> QED BY <1>2, PipelineCorrect, PTL

\* Between two ticks at most TurnstileBurst + |Streams| packets are written.
THEOREM BurstBoundedHolds == Spec => []BurstBounded
<1>1. PipelineInv => BurstBounded
  BY PaidIsFinite, SizesAssumption DEF PipelineInv, TypeOK, BurstBudget, BurstBounded
<1> QED BY <1>1, PipelineCorrect, PTL

\* A Send that failed to open its interfaces leaves no packet behind and wrote none.
THEOREM CancelFindsNoWorkHolds == Spec => []CancelFindsNoWork
<1>1. PipelineInv => CancelFindsNoWork
  BY NothingBeforeFeeding DEF PipelineInv, Shutdown, CancelFindsNoWork
<1> QED BY <1>1, PipelineCorrect, PTL

\* At completion the metrics count every attempt to write, failed ones included, and
\* the ordering counter has passed every packet.
THEOREM CountersSettleHolds == Spec => []CountersSettle
<1>1. ASSUME PipelineInv, IsComplete
      PROVE  /\ EnableMetrics => processed = Len(wire)
             /\ ~disableOrdering => nextToSend = Len(wire)
  <2>1. \A s \in Streams : streamPc[s] = "done"
    BY <1>1 DEF IsComplete, PipelineInv, Shutdown, StreamsDone
  <2>2. Uncounted = {}
    BY <2>1 DEF Uncounted
  <2>3. EnableMetrics => processed = Len(wire)
    BY <1>1, <2>2, FS_EmptySet DEF PipelineInv, CountLedger, TypeOK
  <2>4. ~disableOrdering => nextToSend = Len(wire)
    BY <1>1, <2>1 DEF PipelineInv, TurnTaken
  <2> QED BY <2>3, <2>4
<1>2. PipelineInv => CountersSettle
  BY <1>1 DEF CountersSettle
<1> QED BY <1>2, PipelineCorrect, PTL

\* nextToSend never passes a packet that has not been written.
THEOREM TurnPassesAfterWriteHolds == Spec => TurnPassesAfterWrite
<1>1. ASSUME PipelineInv, Next, nextToSend' > nextToSend PROVE nextToSend \in Written
  <2>1. PICK s \in Streams : Advance(s) /\ nextToSend' # nextToSend
    <3>1. ~Send
      BY <1>1 DEF Send, PipelineInv, TypeOK
    <3> QED
      BY <1>1, <3>1
      DEF PipelineInv, TypeOK, Next, AddPayload, SetAdvancedConfig, SendCall, OpenStream,
          OpenFails, StartFeeding, FeederNext, Feed, CloseRawCh, ClosePrepCh, WorkerNext,
          TakePayload, WorkerExits, RejectPayload, EmitPacket, StreamNext, PinStream,
          TakePacket, StreamExits, TakeToken, AwaitTurn, WritePacket, ReportFailure,
          CountPacket, TurnstileNext, TurnstileTick, TurnstileExits, CompleterNext,
          CloseHandles, PublishCompletion
  <2>2. ~disableOrdering /\ streamPc[s] = "advance"
    BY <2>1 DEF Advance
  <2> QED BY <1>1, <2>2 DEF PipelineInv, TurnTaken, Sending
<1>2. PipelineInv /\ [Next]_vars => [nextToSend' > nextToSend => nextToSend \in Written]_vars
  BY <1>1
<1> QED BY <1>2, PipelineCorrect, PTL DEF Spec, TurnPassesAfterWrite

-----------------------------------------------------------------------------
(***************************************************************************)
(* SendPipeline implements Transmission: what the goroutines do together   *)
(* is submitting, starting, writing, rejecting and completing, one packet  *)
(* at a time, or nothing the promise speaks of.                            *)
(***************************************************************************)
\* The initial states of the pipeline are initial states of the promise.
LEMMA InitRefines == Init => Promise!Init
  BY DEF Init, Promise!Init, IsComplete

\* A step that changes nothing the promise speaks of.
LEMMA Stutter ==
  ASSUME UNCHANGED <<userVars, wire, rejected>>,
         sendPc' # "idle" <=> sendPc # "idle",
         completer' = "done" <=> completer = "done"
  PROVE  UNCHANGED Promise!vars
BY DEF Promise!vars, userVars, IsComplete

\* What a worker or a stream holds is outstanding.
LEMMA StillOutstanding ==
  ASSUME PipelineInv
  PROVE  Preparing \cup Held \subseteq Promise!Outstanding
<1>1. Preparing \cup Held \subseteq 0 .. taken - 1
  BY DEF PipelineInv, NothingLost
<1>2. 0 .. taken - 1 \subseteq 0 .. Len(payloads) - 1
  <2>1. Len(payloads) \in Nat
    BY LenProperties DEF PipelineInv, TypeOK
  <2>2. fed \in 0 .. Len(payloads) /\ taken \in 0 .. fed
    BY DEF PipelineInv, TypeOK
  <2> QED BY <2>1, <2>2
<1>3. (Preparing \cup Held) \cap (Range(wire) \cup rejected) = {}
  BY DEF PipelineInv, OnePlace, Written
<1> QED BY <1>1, <1>2, <1>3 DEF Promise!Outstanding, Promise!Accounted, Promise!Range, Range

\* When the streams have stopped nothing is outstanding.
LEMMA NothingOutstanding ==
  ASSUME PipelineInv, completer = "publish"
  PROVE  Promise!Outstanding = {}
<1>1. /\ \A s \in Streams : streamPc[s] = "done"
      /\ \A w \in Workers : workerPc[w] = "done"
      /\ prepCh = <<>> /\ taken = fed /\ fed = Len(payloads)
  <2>1. \A s \in Streams : streamPc[s] = "done"
    BY DEF PipelineInv, Shutdown, StreamsDone
  <2>2. prepChClosed /\ prepCh = <<>>
    BY <2>1, PartiesAssumption DEF PipelineInv, Shutdown
  <2>3. \A w \in Workers : workerPc[w] = "done"
    BY <2>2 DEF PipelineInv, Shutdown, WorkersDone
  <2>4. rawChClosed /\ taken = fed
    BY <2>3, PartiesAssumption DEF PipelineInv, Shutdown
  <2> QED BY <2>1, <2>2, <2>3, <2>4 DEF PipelineInv, Shutdown
<1>2. Preparing = {} /\ Held = {}
  BY <1>1 DEF Preparing, Held, Unwritten
<1>3. Queued = {}
  <2>1. DOMAIN prepCh = {}
    BY <1>1
  <2> QED BY <2>1 DEF Queued, Range
<1> QED BY <1>1, <1>2, <1>3 DEF PipelineInv, NothingLost, Written, Promise!Outstanding,
                             Promise!Accounted, Promise!Range, Range

\* Every step is one of the promise's, or changes nothing that it sees.
LEMMA NextRefines ==
  ASSUME PipelineInv, [Next]_vars
  PROVE  [Promise!Next]_(Promise!vars)
<1> USE DEF userVars, feedVars, workerVars, streamVars, turnstileVars, historyVars
<1> DEFINE Goal == Promise!Next \/ UNCHANGED Promise!vars
<1>1. ASSUME NEW len \in Lengths, AddPayload(len) PROVE Goal
  <2>1. Promise!Submit
    BY <1>1 DEF AddPayload, Promise!Submit, IsComplete
  <2> QED BY <2>1 DEF Promise!Next
<1>2. ASSUME NEW d \in BOOLEAN, SetAdvancedConfig(d) PROVE Goal
  <2>1. Promise!Configure
    BY <1>2 DEF SetAdvancedConfig, Promise!Configure, IsComplete
  <2> QED BY <2>1 DEF Promise!Next
<1>3. ASSUME SendCall PROVE Goal
  <2>1. CASE Send
    <3>1. Promise!Start
      BY <2>1 DEF Send, Promise!Start, IsComplete
    <3> QED BY <3>1 DEF Promise!Next
  <2>2. CASE OpenFails BY <2>2, Stutter DEF OpenFails
  <2>3. CASE StartFeeding
    BY <2>3, Stutter DEF StartFeeding, PipelineInv, Shutdown
  <2>4. ASSUME NEW s \in Streams, OpenStream(s) PROVE Goal
    BY <2>4, Stutter DEF OpenStream
  <2> QED BY <1>3, <2>1, <2>2, <2>3, <2>4 DEF SendCall
<1>4. ASSUME FeederNext PROVE Goal
  BY <1>4, Stutter DEF FeederNext, Feed, CloseRawCh, ClosePrepCh
<1>5. ASSUME NEW w \in Workers, WorkerNext(w) PROVE Goal
  <2>1. CASE RejectPayload(w)
    <3> DEFINE i == workerIdx[w]
    <3>1. i \in Promise!Outstanding
      BY <2>1, StillOutstanding DEF RejectPayload, Preparing
    <3>2. Promise!Reject(i)
      <4>1. sendPc # "idle"
        BY <2>1 DEF RejectPayload, PipelineInv, Shutdown
      <4> QED BY <2>1, <4>1 DEF RejectPayload, Acceptable, Promise!Reject, IsComplete
    <3> QED BY <3>1, <3>2 DEF Promise!Next
  <2> QED BY <1>5, <2>1, Stutter DEF WorkerNext, TakePayload, WorkerExits, EmitPacket
<1>6. ASSUME NEW s \in Streams, StreamNext(s) PROVE Goal
  <2>1. ASSUME NEW ok \in BOOLEAN, WritePacket(s, ok) PROVE Goal
    <3> DEFINE i == streamIdx[s]
    <3>1. i \in Held /\ i \in Promise!Outstanding
      BY <2>1, StillOutstanding DEF WritePacket, Held, Unwritten
    <3>2. Sendable(payloads[i + 1])
      BY <3>1 DEF PipelineInv, OnlySendable, Acceptable
    <3>3. disableOrdering \/ i = Len(wire)
      <4>1. SUFFICES ASSUME ~disableOrdering PROVE i = Len(wire)
        OBVIOUS
      <4>2. streamPc[s] = "write" /\ i = nextToSend
        BY <2>1, <4>1 DEF WritePacket, PipelineInv, TurnTaken, Sending
      <4>3. \A t \in Streams : streamPc[t] \notin {"report", "advance"}
        BY <4>1, <4>2 DEF PipelineInv, TurnTaken, Sending
      <4> QED BY <4>1, <4>2, <4>3 DEF PipelineInv, TurnTaken
    <3>4. sendPc # "idle"
      BY <2>1 DEF WritePacket, PipelineInv, Shutdown
    <3>5. Promise!Write(i)
      BY <2>1, <3>2, <3>3, <3>4 DEF WritePacket, Promise!Write, IsComplete
    <3> QED BY <3>1, <3>5 DEF Promise!Next
  <2> QED
    BY <1>6, <2>1, Stutter
    DEF StreamNext, PinStream, TakePacket, StreamExits, TakeToken, AwaitTurn,
        ReportFailure, Advance, CountPacket
<1>7. ASSUME TurnstileNext PROVE Goal
  BY <1>7, Stutter DEF TurnstileNext, TurnstileTick, TurnstileExits
<1>8. ASSUME CompleterNext PROVE Goal
  <2>1. CASE CloseHandles BY <2>1, Stutter DEF CloseHandles
  <2>2. CASE PublishCompletion
    <3>1. sendPc # "idle" /\ Promise!Outstanding = {}
      BY <2>2, NothingOutstanding DEF PublishCompletion, PipelineInv, Shutdown
    <3>2. Promise!Complete
      BY <2>2, <3>1 DEF PublishCompletion, Promise!Complete, IsComplete
    <3> QED BY <3>2 DEF Promise!Next
  <2> QED BY <1>8, <2>1, <2>2 DEF CompleterNext
<1>9. CASE UNCHANGED vars
  BY <1>9, Stutter DEF vars
<1> QED
  BY <1>1, <1>2, <1>3, <1>4, <1>5, <1>6, <1>7, <1>8, <1>9 DEF Next

\* The pipeline implements the sender's promise: each payload is written at most once
\* or rejected, in order when ordering is on, and completion means that none is left.
THEOREM PipelineImplementsTransmission == Spec => ImplementsTransmission
  BY InitRefines, NextRefines, PipelineCorrect, PTL DEF Spec, ImplementsTransmission, Promise!Spec
=============================================================================
