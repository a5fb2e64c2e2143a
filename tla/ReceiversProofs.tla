-------------------------- MODULE ReceiversProofs --------------------------
(***************************************************************************)
(* What Receivers.tla and Benchmark.tla say of the packets that reach the  *)
(* program, proved for any calls, tests, traffic and capacities.           *)
(***************************************************************************)
EXTENDS Benchmark, SequenceTheorems, FiniteSetTheorems, TLAPS

Kinds == {"udp", "other", "own"}
Answers == [error : BOOLEAN, packets : Seq(Int)]

Types ==
  /\ call \in Calls
  /\ traffic \in Seq(Kinds)
  /\ source \in Seq(Int) /\ udp \in Seq(Int) /\ results \in Seq(Int)
  /\ packetCh \in Seq(Int) /\ taken \in Seq(Int)
  /\ inner \in Seq(Answers) /\ outer \in Seq(Answers) /\ answers \in Seq(Answers)

Increasing(s) == \A i, j \in 1..Len(s) : i < j => s[i] < s[j]

\* Packets are taken in the order of their numbers.
InOrder ==
  /\ Increasing(udp) /\ Increasing(source)
  /\ \A i \in 1..Len(udp) : udp[i] \in 1..Len(traffic)
  /\ \A i \in 1..Len(source) : source[i] \in 1..Len(traffic)
  /\ \A i \in 1..Len(udp), j \in 1..Len(source) : udp[i] < source[j]

\* Which calls get where; a stream has no answers.
Places ==
  /\ loop \in {"off", "opening", "capturing", "publishing", "failing", "stopped"}
  /\ loop \in {"off", "opening", "failing"} => udp = <<>>
  /\ call.method # "benchmark" /\ py = "called" => loop = "off"
  /\ call.method = "benchmark" => py = "called" /\ taken = <<>>
  /\ IsStream => /\ loop \in {"off", "opening", "capturing", "stopped"}
                 /\ inner = <<>> /\ outer = <<>> /\ answers = <<>>
  /\ ~IsStream => results = udp /\ py # "using" /\ packetCh = <<>>
  /\ py = "iterating" => answers # <<>>

\* A capture by count that has stopped with these packets.
Complete ==
  ForCount => /\ Len(udp) <= IF call.count > 0 THEN call.count ELSE 1
              /\ ~call.limited /\ ~ended => Len(udp) >= call.count

\* What an answer under way says is what the capture took, and it goes on taking
\* nothing.
IsResult(a) ==
  /\ loop = "stopped"
  /\ a = Failed \/ (a = Captured(udp) /\ Complete)

Tokens ==
  /\ \A i \in 1..Len(inner) : IsResult(inner[i])
  /\ \A i \in 1..Len(outer) : IsResult(outer[i])
  /\ \A i \in 1..Len(answers) : IsResult(answers[i])

Counted ==
  /\ loop = "capturing" /\ ForCount => udp = <<>> \/ Len(udp) < call.count
  /\ loop = "publishing" => Complete

\* What a program has got of a result.
Collected ==
  ~IsStream =>
    /\ answers = <<>> => taken = <<>>
    /\ answers # <<>> =>
         /\ Len(taken) <= Len(answers[1].packets)
         /\ \A i \in 1..Len(taken) : taken[i] = answers[1].packets[i]

\* What a stream has delivered, or will.
Delivered == taken \o packetCh

Streamed ==
  IsStream =>
    /\ Increasing(Delivered)
    /\ Len(Delivered) <= Len(udp)
    /\ \A i \in 1..Len(Delivered) : \E j \in 1..Len(udp) : udp[j] = Delivered[i]
    /\ \A i \in 1..Len(udp) : i <= PacketCap => i <= Len(Delivered) /\ Delivered[i] = udp[i]

ReceiversInv == Types /\ InOrder /\ Places /\ Tokens /\ Counted /\ Collected /\ Streamed

\* The benchmark's own packets in the traffic.
Own == {k \in DOMAIN traffic : traffic[k] = "own"}

Steps ==
  {"start", "announcing", "opening", "sending", "failed", "reporting", "collecting",
   "returned", "done", "raised"}

\* What a benchmark has counted when it is at a step.
Account ==
  /\ step \in Steps
  /\ call.method # "benchmark" => step = "start"
  /\ call.method = "benchmark" => test \in Tests
  /\ written \in Nat /\ result \in [sent : Int, received : Int]
  /\ Cardinality(Own) <= written
  /\ step \in {"announcing", "opening", "sending"} =>
       result = NoTraffic /\ next = written
  /\ step \in {"announcing", "opening"} => written = 0
  /\ step \in {"reporting", "collecting"} =>
       result.sent = test.count /\ result.sent = written /\ result.received = 0
  /\ step = "failed" => result.sent \in {0, written} /\ result.received = 0
  /\ ReportIsTrue

BenchmarkInv == ReceiversInv /\ Account

-----------------------------------------------------------------------------
(***************************************************************************)
(* What a step does to the packets on their way: one arrives, one is taken *)
(* from the source, a benchmark begins, or nothing.                        *)
(***************************************************************************)
Arrival ==
  /\ \E kind \in Kinds : traffic' = Append(traffic, kind)
  /\ source' = Append(source, Len(traffic) + 1)
  /\ udp' = udp

Taking ==
  /\ source # <<>> /\ source' = Tail(source)
  /\ udp' = udp \/ udp' = Append(udp, Head(source))
  /\ traffic' = traffic

Fresh == traffic' = <<>> /\ source' = <<>> /\ udp' = <<>>

PacketMove == Arrival \/ Taking \/ UNCHANGED <<traffic, source, udp>>

NetMove == PacketMove \/ Fresh

\* A step of the receivers keeps the call, and brings in packets of others only.
LEMMA ReceiversMove ==
  ASSUME ReceiversNext
  PROVE  /\ PacketMove /\ call' = call
         /\ \/ traffic' = traffic
            \/ \E kind \in {"udp", "other"} : traffic' = Append(traffic, kind)
<1> USE DEF PacketMove
<1>1. CASE \E kind \in {"udp", "other"} : Arrive(kind)
  BY <1>1 DEF Arrive, Arrival, Kinds, captureVars, pyVars
<1>2. CASE TakePacket
  BY <1>2 DEF TakePacket, WithUDP, Taking, pyVars
<1>3. CASE OpenInterface \/ SeeEnd \/ SeeDone \/ Publish \/ Timeout \/ SourceEnds
  BY <1>3 DEF OpenInterface, SeeEnd, SeeDone, Publish, Timeout, SourceEnds, captureVars, netVars,
              pyVars
<1>4. CASE RefuseCall \/ StartCapture \/ Ask \/ GetNextPacket \/ Close \/ Closing
  BY <1>4 DEF RefuseCall, StartCapture, Ask, GetNextPacket, Close, Closing, CloseHandle,
              SetClosed, captureVars, netVars, pyVars
<1>5. CASE Deliver
  BY <1>5 DEF Deliver, PassOn, AnswerCall, TakeResult, CollectStats, captureVars, netVars, pyVars
<1> QED BY <1>1, <1>2, <1>3, <1>4, <1>5 DEF ReceiversNext, Capture

\* Every step is one of the four.
LEMMA StepMoves == [BenchmarkNext]_allVars => NetMove
<1> SUFFICES ASSUME [BenchmarkNext]_allVars PROVE NetMove
  OBVIOUS
<1> USE DEF NetMove, PacketMove
<1>1. CASE RunBenchmark
  <2>1. CASE SetUpReceiver
    BY <2>1 DEF SetUpReceiver, Fresh
  <2>2. CASE WritePacket
    BY <2>2 DEF WritePacket, Arrival, Kinds, captureVars
  <2>3. CASE Collect
    BY <2>3 DEF Collect, captureVars, netVars
  <2>4. CASE ReportStart \/ OpenSender \/ FailToWrite \/ SendReturns \/ ReportEnd \/ GiveUp
             \/ NoteResult
    BY <2>4 DEF ReportStart, OpenSender, FailToWrite, SendReturns, ReportEnd, GiveUp, NoteResult,
                vars, captureVars, netVars
  <2> QED BY <1>1, <2>1, <2>2, <2>3, <2>4 DEF RunBenchmark
<1>2. CASE ReceiversNext
  BY <1>2, ReceiversMove
<1>3. CASE UNCHANGED allVars
  BY <1>3 DEF allVars, vars, captureVars, netVars
<1> QED BY <1>1, <1>2, <1>3 DEF BenchmarkNext

-----------------------------------------------------------------------------
\* A packet later than all others may come behind them.
LEMMA AppendIncreasing ==
  ASSUME NEW s \in Seq(Int), NEW e \in Int, Increasing(s), \A i \in 1..Len(s) : s[i] < e
  PROVE  Increasing(Append(s, e))
BY DEF Increasing

\* What follows the first packet has later numbers.
LEMMA TailIncreasing ==
  ASSUME NEW s \in Seq(Int), s # <<>>, Increasing(s)
  PROVE  /\ Increasing(Tail(s))
         /\ Head(s) = s[1]
         /\ \A i \in 1..Len(Tail(s)) : Tail(s)[i] = s[i + 1] /\ i + 1 \in 1..Len(s) /\ s[1] < s[i + 1]
BY DEF Increasing

\* Every step keeps the packets in the order of their arrival: reading takes the
\* first that has not been read.
LEMMA InOrderHolds ==
  ASSUME Types, InOrder, NetMove
  PROVE  InOrder'
<1>1. CASE Arrival
  <2>1. /\ Len(traffic) \in Nat /\ Len(traffic') = Len(traffic) + 1
        /\ source' = Append(source, Len(traffic) + 1) /\ udp' = udp
        /\ source \in Seq(Int) /\ Len(traffic) + 1 \in Int
    BY <1>1, LenProperties DEF Arrival, Types
  <2>2. \A i \in 1..Len(source) : source[i] < Len(traffic) + 1
    BY <2>1 DEF InOrder
  <2>3. Increasing(source')
    BY <2>1, <2>2, AppendIncreasing DEF InOrder
  <2>4. \A i \in 1..Len(source') : \/ i \in 1..Len(source) /\ source'[i] = source[i]
                                  \/ source'[i] = Len(traffic) + 1
    BY <2>1, LenProperties, AppendProperties
  <2>5. \A i \in 1..Len(udp) : udp[i] \in 1..Len(traffic') /\ udp[i] < Len(traffic) + 1
    BY <2>1 DEF InOrder
  <2>6. \A i \in 1..Len(source') : source'[i] \in 1..Len(traffic')
    BY <2>1, <2>4 DEF InOrder
  <2>7. \A i \in 1..Len(udp), j \in 1..Len(source') : udp[i] < source'[j]
    BY <2>4, <2>5 DEF InOrder
  <2> QED BY <2>1, <2>3, <2>5, <2>6, <2>7 DEF InOrder
<1>2. CASE Taking
  <2>1. source \in Seq(Int) /\ source # <<>> /\ source' = Tail(source) /\ traffic' = traffic
    BY <1>2 DEF Taking, Types
  <2>2. /\ Increasing(source') /\ Head(source) = source[1] /\ source[1] \in 1..Len(traffic)
        /\ \A i \in 1..Len(source') : /\ source'[i] = source[i + 1] /\ i + 1 \in 1..Len(source)
                                     /\ source[1] < source'[i]
    BY <2>1, TailIncreasing, EmptySeq DEF InOrder
  <2>3. CASE udp' = udp
    BY <2>1, <2>2, <2>3 DEF InOrder
  <2>4. CASE udp' = Append(udp, Head(source))
    <3>1. 1 \in 1..Len(source) /\ udp \in Seq(Int) /\ source[1] \in Int
      BY <2>1, <2>2, EmptySeq DEF Types
    <3>2. \A i \in 1..Len(udp) : udp[i] < source[1]
      BY <3>1 DEF InOrder
    <3>3. Increasing(udp')
      BY <2>2, <2>4, <3>1, <3>2, AppendIncreasing DEF InOrder
    <3>4. \A i \in 1..Len(udp') : (i \in 1..Len(udp) /\ udp'[i] = udp[i]) \/ udp'[i] = source[1]
      BY <2>2, <2>4, <3>1, AppendProperties
    <3>5. \A i \in 1..Len(udp') : udp'[i] \in 1..Len(traffic)
      BY <2>2, <3>4 DEF InOrder
    <3>6. \A i \in 1..Len(udp'), j \in 1..Len(source') : udp'[i] < source'[j]
      BY <2>2, <3>4 DEF InOrder
    <3> QED BY <2>1, <2>2, <3>3, <3>5, <3>6 DEF InOrder
  <2> QED BY <1>2, <2>3, <2>4 DEF Taking
<1>3. CASE Fresh
  BY <1>3 DEF Fresh, InOrder, Increasing
<1>4. CASE UNCHANGED <<traffic, source, udp>>
  BY <1>4 DEF InOrder
<1> QED BY <1>1, <1>2, <1>3, <1>4 DEF NetMove, PacketMove

-----------------------------------------------------------------------------
\* The head and the rest of a channel that is not empty.
LEMMA HeadAndTail ==
  ASSUME NEW S, NEW s \in Seq(S), s # <<>>
  PROVE  Head(s) \in S /\ Tail(s) \in Seq(S)
BY HeadTailProperties

\* Both kinds of results are answers.
LEMMA ResultTypes ==
  /\ Failed \in Answers
  /\ \A packets \in Seq(Int) : Captured(packets) \in Answers
BY EmptySeq DEF Failed, Captured, Answers

\* Every step keeps the types.
LEMMA TypesHold ==
  ASSUME Types, Places, [BenchmarkNext]_allVars
  PROVE  Types'
<1> USE HeadAndTail, ResultTypes, EmptySeq
<1>1. CASE RunBenchmark
  <2>1. CASE SetUpReceiver
    BY <2>1 DEF SetUpReceiver, Types, streamVars, pyVars
  <2>2. CASE WritePacket
    <3>1. traffic \in Seq(Kinds) /\ source \in Seq(Int) /\ Len(traffic) + 1 \in Int
          /\ "own" \in Kinds
      BY LenProperties DEF Types, Kinds
    <3>2. /\ Append(traffic, "own") \in Seq(Kinds)
          /\ Append(source, Len(traffic) + 1) \in Seq(Int)
      BY <3>1, AppendProperties
    <3>3. traffic' \in Seq(Kinds) /\ source' \in Seq(Int)
      BY <2>2, <3>1, <3>2 DEF WritePacket
    <3> QED BY <2>2, <3>3 DEF WritePacket, Types, captureVars, resultVars, streamVars, pyVars
  <2>3. CASE Collect
    <3>1. outer' \in Seq(Answers) /\ answers' \in Seq(Answers)
      BY <2>3, AppendProperties DEF Collect, Types
    <3> QED BY <2>3, <3>1 DEF Collect, Types, captureVars, netVars, streamVars, pyVars
  <2>4. CASE ReportStart \/ OpenSender \/ FailToWrite \/ SendReturns \/ ReportEnd \/ GiveUp
             \/ NoteResult
    BY <2>4 DEF ReportStart, OpenSender, FailToWrite, SendReturns, ReportEnd, GiveUp, NoteResult,
                vars, captureVars, netVars, resultVars, streamVars, pyVars, Types
  <2> QED BY <1>1, <2>1, <2>2, <2>3, <2>4 DEF RunBenchmark
<1>2. CASE ReceiversNext
  <2>1. ASSUME NEW kind \in {"udp", "other"}, Arrive(kind) PROVE Types'
    <3>1. traffic' \in Seq(Kinds) /\ source' \in Seq(Int)
      BY <2>1, LenProperties, AppendProperties DEF Arrive, Types, Kinds
    <3> QED BY <2>1, <3>1 DEF Arrive, Types, captureVars, resultVars, streamVars, pyVars
  <2>2. CASE TakePacket
    <3>1. Head(source) \in Int /\ source' \in Seq(Int)
      BY <2>2 DEF TakePacket, Types
    <3>2. /\ udp' = udp \/ udp' = Append(udp, Head(source))
          /\ packetCh' = packetCh \/ packetCh' = Append(packetCh, Head(source))
          /\ results' = results \/ results' = Append(results, Head(source))
      BY <2>2 DEF TakePacket, WithUDP, Queued
    <3>3. udp \in Seq(Int) /\ packetCh \in Seq(Int) /\ results \in Seq(Int)
      BY DEF Types
    <3>4. \A s \in Seq(Int) : Append(s, Head(source)) \in Seq(Int)
      BY <3>1, AppendProperties
    <3>5. udp' \in Seq(Int) /\ packetCh' \in Seq(Int) /\ results' \in Seq(Int)
      BY <3>2, <3>3, <3>4
    <3> QED BY <2>2, <3>1, <3>5 DEF TakePacket, Types, resultVars, pyVars
  <2>3. CASE Publish
    <3>1. inner' \in Seq(Answers)
      BY <2>3, AppendProperties DEF Publish, Types
    <3> QED BY <2>3, <3>1 DEF Publish, Types, netVars, streamVars, pyVars
  <2>4. CASE OpenInterface \/ SeeEnd \/ SeeDone \/ Timeout \/ SourceEnds
    BY <2>4 DEF OpenInterface, SeeEnd, SeeDone, Timeout, SourceEnds, captureVars, netVars,
                resultVars, streamVars, pyVars, Types
  <2>5. CASE RefuseCall \/ StartCapture \/ Ask \/ Close \/ Closing
    BY <2>5 DEF RefuseCall, StartCapture, Ask, Close, Closing, CloseHandle,
                SetClosed, captureVars, netVars, resultVars, streamVars, pyVars, Types
  <2>6. CASE GetNextPacket
    <3>1. taken' \in Seq(Int) /\ packetCh' \in Seq(Int)
      BY <2>6, AppendProperties DEF GetNextPacket, Types
    <3> QED BY <2>6, <3>1 DEF GetNextPacket, Types, captureVars, netVars, resultVars
  <2>7. CASE PassOn
    <3>1. inner' \in Seq(Answers) /\ outer' \in Seq(Answers)
      BY <2>7, AppendProperties DEF PassOn, Types
    <3> QED BY <2>7, <3>1 DEF PassOn, Types, captureVars, netVars, streamVars, pyVars
  <2>8. CASE AnswerCall
    <3>1. outer' \in Seq(Answers) /\ answers' \in Seq(Answers)
      BY <2>8, AppendProperties DEF AnswerCall, TakeResult, Types
    <3> QED BY <2>8, <3>1 DEF AnswerCall, TakeResult, Types, captureVars, netVars, streamVars
  <2>9. CASE CollectStats
    <3>1. answers # <<>> /\ answers \in Seq(Answers)
      BY <2>9 DEF CollectStats, Places, Types
    <3>2. answers[1].packets \in Seq(Int)
      <4>1. 1 \in 1..Len(answers)
        BY <3>1, EmptySeq
      <4>2. answers[1] \in Answers
        BY <3>1, <4>1, ElementOfSeq
      <4> QED BY <4>2 DEF Answers
    <3>3. ASSUME Len(taken) < Len(answers[1].packets)
          PROVE  answers[1].packets[Len(taken) + 1] \in Int
      <4>1. Len(taken) + 1 \in 1..Len(answers[1].packets)
        BY <3>2, <3>3, LenProperties DEF Types
      <4> QED BY <3>2, <4>1, ElementOfSeq
    <3>4. CASE UNCHANGED taken
      BY <2>9, <3>4 DEF CollectStats, Types, captureVars, netVars, resultVars, streamVars
    <3>5. CASE /\ Len(taken) < Len(answers[1].packets)
               /\ taken' = Append(taken, answers[1].packets[Len(taken) + 1])
      <4>1. taken \in Seq(Int)
        BY DEF Types
      <4>2. taken' \in Seq(Int)
        BY <3>3, <3>5, <4>1, AppendProperties
      <4> QED BY <2>9, <4>2 DEF CollectStats, Types, captureVars, netVars, resultVars, streamVars
    <3> QED BY <2>9, <3>4, <3>5 DEF CollectStats
  <2> QED BY <1>2, <2>1, <2>2, <2>3, <2>4, <2>5, <2>6, <2>7, <2>8, <2>9
          DEF ReceiversNext, Capture, Deliver
<1>3. CASE UNCHANGED allVars
  BY <1>3 DEF allVars, vars, captureVars, netVars, resultVars, streamVars, pyVars, Types
<1> QED BY <1>1, <1>2, <1>3 DEF BenchmarkNext

-----------------------------------------------------------------------------
\* Every step keeps loop and Python where they belong.
LEMMA PlacesHold ==
  ASSUME Types, Places, [BenchmarkNext]_allVars
  PROVE  Places'
<1> USE DEF Places, IsStream
<1>1. CASE call.method = "benchmark" /\ RunBenchmark
  <2>1. CASE SetUpReceiver
    BY <1>1, <2>1 DEF SetUpReceiver, streamVars, pyVars
  <2>2. CASE WritePacket
    BY <2>2 DEF WritePacket, captureVars, resultVars, streamVars, pyVars
  <2>3. CASE Collect
    BY <1>1, <2>3 DEF Collect, captureVars, netVars, streamVars, pyVars
  <2>4. CASE ReportStart \/ OpenSender \/ FailToWrite \/ SendReturns \/ ReportEnd \/ GiveUp
             \/ NoteResult
    BY <2>4 DEF ReportStart, OpenSender, FailToWrite, SendReturns, ReportEnd, GiveUp, NoteResult,
                vars, captureVars, netVars, resultVars, streamVars, pyVars
  <2> QED BY <1>1, <2>1, <2>2, <2>3, <2>4 DEF RunBenchmark
<1>2. CASE ReceiversNext
  <2>1. ASSUME NEW kind \in {"udp", "other"}, Arrive(kind) PROVE Places'
    BY <2>1 DEF Arrive, captureVars, resultVars, streamVars, pyVars
  <2>2. CASE TakePacket
    BY <2>2 DEF TakePacket, resultVars, pyVars
  <2>3. CASE Publish
    BY <2>3 DEF Publish, netVars, streamVars, pyVars
  <2>4. CASE OpenInterface
    BY <2>4 DEF OpenInterface, netVars, resultVars, pyVars
  <2>5. CASE SeeEnd
    BY <2>5 DEF SeeEnd, ForCount, netVars, resultVars, pyVars
  <2>6. CASE SeeDone \/ Timeout
    BY <2>6 DEF SeeDone, Timeout, netVars, resultVars, streamVars, pyVars
  <2>7. CASE SourceEnds
    BY <2>7 DEF SourceEnds, captureVars, resultVars, streamVars, pyVars
  <2>8. CASE StartCapture
    BY <2>8 DEF StartCapture, netVars, streamVars
  <2>9. CASE RefuseCall \/ Ask \/ GetNextPacket \/ Close \/ Closing
    BY <2>9 DEF RefuseCall, Ask, GetNextPacket, Close, Closing, CloseHandle, SetClosed,
                captureVars, netVars, resultVars, streamVars, pyVars
  <2>10. CASE PassOn
    BY <2>10 DEF PassOn, captureVars, netVars, streamVars, pyVars
  <2>11. CASE AnswerCall
    <3>1. outer \in Seq(Answers) /\ outer # <<>> /\ answers \in Seq(Answers)
      BY <2>11 DEF AnswerCall, TakeResult, Types
    <3>2. answers' # <<>>
      BY <2>11, <3>1, HeadAndTail, AppendProperties DEF AnswerCall, TakeResult
    <3> QED BY <2>11, <3>2 DEF AnswerCall, TakeResult, captureVars, netVars, streamVars
  <2>12. CASE CollectStats
    BY <2>12 DEF CollectStats, captureVars, netVars, resultVars, streamVars
  <2> QED BY <1>2, <2>1, <2>2, <2>3, <2>4, <2>5, <2>6, <2>7, <2>8, <2>9, <2>10, <2>11, <2>12
          DEF ReceiversNext, Capture, Deliver
<1>3. CASE UNCHANGED allVars
  BY <1>3 DEF allVars, vars, captureVars, netVars, resultVars, streamVars, pyVars
<1> QED BY <1>1, <1>2, <1>3 DEF BenchmarkNext

-----------------------------------------------------------------------------
(***************************************************************************)
(* Answers.  While one is under way the loop has stopped, so that what the *)
(* capture took does not change any more.                                  *)
(***************************************************************************)
\* As long as the loop runs no answer is under way.
LEMMA NothingUnderWay ==
  ASSUME Types, Tokens, loop # "stopped"
  PROVE  inner = <<>> /\ outer = <<>> /\ answers = <<>>
<1>1. inner \in Seq(Answers) /\ outer \in Seq(Answers) /\ answers \in Seq(Answers)
  BY DEF Types
<1>2. 1 \notin 1..Len(inner) /\ 1 \notin 1..Len(outer) /\ 1 \notin 1..Len(answers)
  BY DEF Tokens, IsResult
<1> QED BY <1>1, <1>2, EmptySeq

\* An answer stays true while the loop, its packets and the call do not change.
Kept == UNCHANGED <<loop, udp, call>> /\ (ended => ended')

\* An answer stays true when nothing it speaks of changes.
LEMMA ResultsKept ==
  ASSUME Kept
  PROVE  /\ \A a : IsResult(a) => IsResult(a)'
         /\ Complete => Complete'
BY DEF Kept, IsResult, Complete, ForCount

\* An answer passed from the head of one channel to the end of another.
LEMMA Passed ==
  ASSUME NEW s \in Seq(Answers), NEW t \in Seq(Answers), s # <<>>
  PROVE  /\ \A i \in 1..Len(Tail(s)) : i + 1 \in 1..Len(s) /\ Tail(s)[i] = s[i + 1]
         /\ \A i \in 1..Len(Append(t, Head(s))) :
              \/ i \in 1..Len(t) /\ Append(t, Head(s))[i] = t[i]
              \/ 1 \in 1..Len(s) /\ Append(t, Head(s))[i] = s[1]
<1>1. Head(s) = s[1] /\ Head(s) \in Answers /\ 1 \in 1..Len(s)
  BY HeadTailProperties, EmptySeq
<1>2. Len(Tail(s)) = Len(s) - 1 /\ Len(s) \in Nat /\ Len(t) \in Nat
  BY HeadTailProperties, LenProperties
<1>3. \A i \in 1..Len(Tail(s)) : Tail(s)[i] = s[i + 1]
  BY HeadTailProperties
<1>4. /\ Len(Append(t, Head(s))) = Len(t) + 1
      /\ \A i \in 1..Len(t) : Append(t, Head(s))[i] = t[i]
      /\ Append(t, Head(s))[Len(t) + 1] = Head(s)
  BY <1>1, AppendProperties
<1> QED BY <1>1, <1>2, <1>3, <1>4

\* Channels that nobody touches.
LEMMA Unmoved ==
  ASSUME Tokens, Kept, UNCHANGED <<inner, outer, answers>>
  PROVE  Tokens'
BY ResultsKept DEF Tokens

\* Channels that are all empty.
LEMMA Nothing ==
  ASSUME inner' = <<>>, outer' = <<>>, answers' = <<>>
  PROVE  Tokens'
BY EmptySeq DEF Tokens

\* Every step keeps the answers under way true.
LEMMA TokensHold ==
  ASSUME Types, Places, Tokens, Counted, [BenchmarkNext]_allVars
  PROVE  Tokens'
<1>0. inner \in Seq(Answers) /\ outer \in Seq(Answers) /\ answers \in Seq(Answers)
  BY DEF Types
<1>1. CASE call.method = "benchmark" /\ RunBenchmark
  <2>1. CASE SetUpReceiver
    BY <2>1, Nothing DEF SetUpReceiver
  <2>2. CASE Collect
    <3>1. outer # <<>> /\ outer' = Tail(outer) /\ answers' = Append(answers, Head(outer))
          /\ inner' = inner /\ Kept
      BY <2>2 DEF Collect, Kept, captureVars, netVars, pyVars
    <3> QED BY <1>0, <3>1, Passed, ResultsKept DEF Tokens
  <2>3. CASE WritePacket
    BY <2>3, Unmoved DEF WritePacket, Kept, captureVars, resultVars, pyVars
  <2>4. CASE ReportStart \/ OpenSender \/ FailToWrite \/ SendReturns \/ ReportEnd \/ GiveUp
             \/ NoteResult
    BY <2>4, Unmoved
       DEF ReportStart, OpenSender, FailToWrite, SendReturns, ReportEnd, GiveUp, NoteResult, Kept,
           vars, captureVars, netVars, resultVars, pyVars
  <2> QED BY <1>1, <2>1, <2>2, <2>3, <2>4 DEF RunBenchmark
<1>2. CASE ReceiversNext
  <2>1. ASSUME NEW kind \in {"udp", "other"}, Arrive(kind) PROVE Tokens'
    BY <2>1, Unmoved DEF Arrive, Kept, captureVars, resultVars, pyVars
  <2>2. CASE OpenInterface \/ TakePacket \/ SeeEnd \/ SeeDone \/ Timeout \/ StartCapture
    <3>1. loop # "stopped" /\ UNCHANGED <<inner, outer, answers>>
      BY <2>2 DEF OpenInterface, TakePacket, SeeEnd, SeeDone, Timeout, StartCapture, Places,
                  resultVars
    <3> QED BY <3>1, NothingUnderWay, Nothing
  <2>3. CASE Publish
    <3>1. loop \in {"publishing", "failing"} /\ loop' = "stopped" /\ UNCHANGED <<outer, answers>>
          /\ UNCHANGED <<udp, call, ended, results>>
          /\ inner' = Append(inner, IF loop = "failing" THEN Failed ELSE Captured(results))
      BY <2>3 DEF Publish, netVars, pyVars
    <3>2. inner = <<>> /\ outer = <<>> /\ answers = <<>>
      BY <3>1, NothingUnderWay
    <3>3. results = udp /\ results \in Seq(Int)
      BY <3>1 DEF Places, Types
    <3>4. loop = "publishing" => Complete'
      BY <3>1 DEF Counted, Complete, ForCount
    <3>5. \A i \in 1..Len(inner') : inner'[i] = IF loop = "failing" THEN Failed ELSE Captured(udp)
      BY <3>1, <3>2, <3>3
    <3>6. \A i \in 1..Len(inner') : inner'[i] = Failed \/ (inner'[i] = Captured(udp') /\ Complete')
      BY <3>1, <3>4, <3>5
    <3>7. outer' = <<>> /\ answers' = <<>>
      BY <3>1, <3>2
    <3> QED BY <3>1, <3>6, <3>7, EmptySeq DEF Tokens, IsResult, Failed
  <2>4. CASE PassOn
    <3>1. inner # <<>> /\ inner' = Tail(inner) /\ outer' = Append(outer, Head(inner))
          /\ answers' = answers /\ Kept
      BY <2>4 DEF PassOn, Kept, captureVars, netVars, pyVars
    <3> QED BY <1>0, <3>1, Passed, ResultsKept DEF Tokens
  <2>5. CASE AnswerCall
    <3>1. outer # <<>> /\ outer' = Tail(outer) /\ answers' = Append(answers, Head(outer))
          /\ inner' = inner /\ Kept
      BY <2>5 DEF AnswerCall, TakeResult, Kept, captureVars, netVars
    <3> QED BY <1>0, <3>1, Passed, ResultsKept DEF Tokens
  <2>6. CASE CollectStats \/ SourceEnds
    BY <2>6, Unmoved DEF CollectStats, SourceEnds, Kept, captureVars, netVars, resultVars, pyVars
  <2>7. CASE RefuseCall \/ Ask \/ GetNextPacket
    BY <2>7, Unmoved DEF RefuseCall, Ask, GetNextPacket, Kept, captureVars, netVars, resultVars
  <2>8. CASE Close \/ Closing
    <3>1. UNCHANGED <<loop, udp, call, ended, inner, outer, answers>>
      BY <2>8 DEF Close, Closing, CloseHandle, SetClosed, captureVars, netVars, resultVars, pyVars
    <3> QED BY <3>1, Unmoved DEF Kept
  <2> QED BY <1>2, <2>1, <2>2, <2>3, <2>4, <2>5, <2>6, <2>7, <2>8
          DEF ReceiversNext, Capture, Deliver
<1>3. CASE UNCHANGED allVars
  BY <1>3, Unmoved DEF Kept, allVars, vars, captureVars, netVars, resultVars, pyVars
<1> QED BY <1>1, <1>2, <1>3 DEF BenchmarkNext

-----------------------------------------------------------------------------
\* The numbers that a capture by count compares.
LEMMA CallTypes ==
  ASSUME Types
  PROVE  call.count \in Int /\ Len(udp) \in Nat
BY ReceiversAssumption, LenProperties DEF Types

\* Every step keeps the count of a capture within its limit.
LEMMA CountedHolds ==
  ASSUME Types, Places, Counted, [BenchmarkNext]_allVars
  PROVE  Counted'
<1>1. ASSUME Kept PROVE Counted'
  BY <1>1, ResultsKept DEF Counted, Kept, ForCount
<1>2. CASE call.method = "benchmark" /\ RunBenchmark
  <2>1. CASE SetUpReceiver
    BY <2>1 DEF SetUpReceiver, Counted
  <2>2. CASE WritePacket \/ Collect
    BY <1>1, <2>2 DEF WritePacket, Collect, Kept, captureVars, netVars, pyVars
  <2>3. CASE ReportStart \/ OpenSender \/ FailToWrite \/ SendReturns \/ ReportEnd \/ GiveUp
             \/ NoteResult
    BY <1>1, <2>3
       DEF ReportStart, OpenSender, FailToWrite, SendReturns, ReportEnd, GiveUp, NoteResult, Kept,
           vars, captureVars, netVars, pyVars
  <2> QED BY <1>2, <2>1, <2>2, <2>3 DEF RunBenchmark
<1>3. CASE ReceiversNext
  <2>1. ASSUME NEW kind \in {"udp", "other"}, Arrive(kind) PROVE Counted'
    BY <1>1, <2>1 DEF Arrive, Kept, captureVars, pyVars
  <2>2. CASE OpenInterface
    BY <2>2 DEF OpenInterface, Places, Counted
  <2>3. CASE TakePacket
    <3>1. /\ loop = "capturing" /\ call' = call /\ ended' = ended
          /\ udp' = udp \/ udp' = Append(udp, Head(source))
          /\ loop' \in {"capturing", "publishing"}
      BY <2>3 DEF TakePacket, WithUDP, pyVars
    <3>2. CASE ~ForCount
      BY <3>1, <3>2 DEF Counted, Complete, ForCount
    <3>3. CASE ForCount
      <4>1. /\ results' = udp'
            /\ loop' = IF Len(udp') >= call.count THEN "publishing" ELSE "capturing"
        BY <2>3, <3>1, <3>3 DEF TakePacket, Places, Enough, ForCount, IsStream, WithUDP
      <4>2. Head(source) \in Int /\ udp \in Seq(Int)
        BY <2>3, HeadAndTail DEF TakePacket, Types
      <4>3. Len(udp') \in Nat /\ Len(udp') <= Len(udp) + 1
        BY <3>1, <4>2, LenProperties, AppendProperties
      <4>4. udp = <<>> \/ Len(udp) < call.count
        BY <3>1, <3>3 DEF Counted
      <4>5. udp = <<>> => Len(udp) = 0
        BY EmptySeq
      <4>6. loop' = "publishing" => Complete'
        BY <3>1, <4>1, <4>3, <4>4, <4>5, CallTypes DEF Complete, ForCount
      <4>7. loop' = "capturing" => Len(udp') < call.count
        BY <4>1, <4>3, CallTypes
      <4> QED BY <3>1, <4>6, <4>7 DEF Counted, ForCount
    <3> QED BY <3>2, <3>3
  <2>4. CASE SeeEnd \/ Timeout
    <3>1. loop = "capturing" /\ UNCHANGED <<call, udp, ended>> /\ (ForCount => ended \/ call.limited)
      BY <2>4 DEF SeeEnd, Timeout, TimesOut, netVars, pyVars
    <3>2. loop' \in {"publishing", "stopped"}
      BY <2>4 DEF SeeEnd, Timeout
    <3>3. udp = <<>> => Len(udp) = 0
      BY EmptySeq
    <3>4. Complete'
      BY <3>1, <3>3, CallTypes DEF Counted, Complete, ForCount
    <3> QED BY <3>2, <3>4 DEF Counted
  <2>5. CASE SeeDone \/ Publish \/ StartCapture
    BY <2>5 DEF SeeDone, Publish, StartCapture, Counted
  <2>6. CASE Deliver \/ SourceEnds
    BY <1>1, <2>6 DEF Deliver, PassOn, AnswerCall, TakeResult, CollectStats, SourceEnds, Kept,
                      captureVars, netVars, pyVars
  <2>7. CASE RefuseCall \/ Ask \/ GetNextPacket \/ Close \/ Closing
    BY <1>1, <2>7 DEF RefuseCall, Ask, GetNextPacket, Close, Closing, CloseHandle, SetClosed,
                      Kept, captureVars, netVars, pyVars
  <2> QED BY <1>3, <2>1, <2>2, <2>3, <2>4, <2>5, <2>6, <2>7 DEF ReceiversNext, Capture
<1>4. CASE UNCHANGED allVars
  BY <1>1, <1>4 DEF Kept, allVars, vars, captureVars, netVars, pyVars
<1> QED BY <1>2, <1>3, <1>4 DEF BenchmarkNext

-----------------------------------------------------------------------------
\* Every step keeps what Python has got true.
LEMMA CollectedHolds ==
  ASSUME Types, Places, Collected, [BenchmarkNext]_allVars
  PROVE  Collected'
<1>0. answers \in Seq(Answers) /\ outer \in Seq(Answers) /\ taken \in Seq(Int)
  BY DEF Types
<1>1. ASSUME UNCHANGED <<call, answers, taken>> PROVE Collected'
  BY <1>1 DEF Collected, IsStream
<1>2. ASSUME outer # <<>>, answers' = Append(answers, Head(outer)), UNCHANGED <<call, taken>>
      PROVE  Collected'
  <2>1. Head(outer) \in Answers
    BY <1>0, <1>2, HeadAndTail
  <2>2. answers' # <<>> /\ (answers # <<>> => answers'[1] = answers[1])
    BY <1>0, <1>2, <2>1, AppendProperties, EmptySeq
  <2>3. answers = <<>> => answers' = <<Head(outer)>>
    BY <1>2
  <2>4. answers = <<>> => answers'[1] = Head(outer)
    BY <2>3
  <2>5. Len(Head(outer).packets) \in Nat
    BY <2>1, LenProperties DEF Answers
  <2>6. taken = <<>> => Len(taken) = 0
    BY EmptySeq
  <2> QED BY <1>2, <2>2, <2>4, <2>5, <2>6 DEF Collected, IsStream
<1>3. CASE call.method = "benchmark" /\ RunBenchmark
  <2>1. CASE SetUpReceiver
    BY <1>3, <2>1 DEF SetUpReceiver, Places, Collected, pyVars
  <2>2. CASE WritePacket
    BY <1>1, <2>2 DEF WritePacket, resultVars, pyVars
  <2>3. CASE Collect
    BY <1>2, <2>3 DEF Collect, pyVars
  <2>4. CASE ReportStart \/ OpenSender \/ FailToWrite \/ SendReturns \/ ReportEnd \/ GiveUp
             \/ NoteResult
    BY <1>1, <2>4
       DEF ReportStart, OpenSender, FailToWrite, SendReturns, ReportEnd, GiveUp, NoteResult,
           vars, resultVars, pyVars
  <2> QED BY <1>3, <2>1, <2>2, <2>3, <2>4 DEF RunBenchmark
<1>4. CASE ReceiversNext
  <2>1. ASSUME NEW kind \in {"udp", "other"}, Arrive(kind) PROVE Collected'
    BY <1>1, <2>1 DEF Arrive, resultVars, pyVars
  <2>2. CASE OpenInterface \/ TakePacket \/ SeeEnd \/ SeeDone \/ Publish \/ Timeout \/ SourceEnds
    BY <1>1, <2>2 DEF OpenInterface, TakePacket, SeeEnd, SeeDone, Publish, Timeout, SourceEnds,
                      resultVars, pyVars
  <2>3. CASE RefuseCall \/ StartCapture \/ Ask
    BY <1>1, <2>3 DEF RefuseCall, StartCapture, Ask, resultVars
  <2>4. CASE Close \/ Closing \/ PassOn
    BY <1>1, <2>4 DEF Close, Closing, CloseHandle, SetClosed, PassOn, resultVars, pyVars
  <2>5. CASE GetNextPacket
    BY <2>5 DEF GetNextPacket, Places, Collected, IsStream
  <2>6. CASE AnswerCall
    BY <1>2, <2>6 DEF AnswerCall, TakeResult
  <2>7. CASE CollectStats
    <3>1. answers # <<>> /\ UNCHANGED <<call, answers>>
      BY <2>7 DEF CollectStats, Places, resultVars
    <3>2. CASE UNCHANGED taken
      BY <1>1, <3>1, <3>2
    <3>3. CASE /\ Len(taken) < Len(answers[1].packets)
               /\ taken' = Append(taken, answers[1].packets[Len(taken) + 1])
      <4>1. 1 \in 1..Len(answers)
        BY <1>0, <3>1, EmptySeq
      <4>2. answers[1] \in Answers
        BY <1>0, <4>1, ElementOfSeq
      <4>3. answers[1].packets \in Seq(Int) /\ Len(answers[1].packets) \in Nat /\ Len(taken) \in Nat
        BY <1>0, <4>2, LenProperties DEF Answers
      <4>4. Len(taken) + 1 \in 1..Len(answers[1].packets)
        BY <3>3, <4>3
      <4>5. answers[1].packets[Len(taken) + 1] \in Int
        BY <4>3, <4>4, ElementOfSeq
      <4>6. /\ Len(taken') = Len(taken) + 1
            /\ \A i \in 1..Len(taken) : taken'[i] = taken[i]
            /\ taken'[Len(taken) + 1] = answers[1].packets[Len(taken) + 1]
        BY <1>0, <3>3, <4>5, AppendProperties
      <4> QED BY <3>1, <3>3, <4>3, <4>6 DEF Collected, IsStream
    <3> QED BY <2>7, <3>2, <3>3 DEF CollectStats
  <2> QED BY <1>4, <2>1, <2>2, <2>3, <2>4, <2>5, <2>6, <2>7 DEF ReceiversNext, Capture, Deliver
<1>5. CASE UNCHANGED allVars
  BY <1>1, <1>5 DEF allVars, vars, resultVars, pyVars
<1> QED BY <1>3, <1>4, <1>5 DEF BenchmarkNext

-----------------------------------------------------------------------------
(***************************************************************************)
(* Streams.  What has been delivered or is queued is an increasing part of *)
(* what was taken, and all of it as long as that is not more than the      *)
(* queue holds.                                                            *)
(***************************************************************************)
\* The head of one queue moved to the end of the one before it.
LEMMA HeadMoved ==
  ASSUME NEW s \in Seq(Int), NEW t \in Seq(Int), t # <<>>
  PROVE  Append(s, Head(t)) \o Tail(t) = s \o t
<1>1. Head(t) \in Int /\ Tail(t) \in Seq(Int) /\ Len(t) \in Nat \ {0} /\ Head(t) = t[1]
  BY HeadTailProperties, EmptySeq
<1>2. Len(Tail(t)) = Len(t) - 1 /\ \A i \in 1..Len(Tail(t)) : Tail(t)[i] = t[i + 1]
  BY HeadTailProperties
<1>3. /\ Append(s, Head(t)) \in Seq(Int) /\ Len(Append(s, Head(t))) = Len(s) + 1
      /\ \A i \in 1..Len(s) : Append(s, Head(t))[i] = s[i]
      /\ Append(s, Head(t))[Len(s) + 1] = Head(t)
  BY <1>1, AppendProperties
<1>4. /\ s \o t \in Seq(Int) /\ Len(s \o t) = Len(s) + Len(t)
      /\ \A i \in 1..Len(s) + Len(t) : (s \o t)[i] = IF i <= Len(s) THEN s[i] ELSE t[i - Len(s)]
  BY ConcatProperties
<1>5. /\ Append(s, Head(t)) \o Tail(t) \in Seq(Int)
      /\ Len(Append(s, Head(t)) \o Tail(t)) = Len(s) + 1 + Len(Tail(t))
      /\ \A i \in 1..Len(s) + 1 + Len(Tail(t)) :
           (Append(s, Head(t)) \o Tail(t))[i] =
             IF i <= Len(s) + 1 THEN Append(s, Head(t))[i] ELSE Tail(t)[i - (Len(s) + 1)]
  BY <1>1, <1>3, ConcatProperties
<1>6. Len(s) \in Nat /\ Len(Append(s, Head(t)) \o Tail(t)) = Len(s) + Len(t)
  BY <1>1, <1>2, <1>5, LenProperties
<1>7. ASSUME NEW i \in 1..Len(s) + Len(t)
      PROVE  (Append(s, Head(t)) \o Tail(t))[i] = (s \o t)[i]
  <2>1. CASE i <= Len(s)
    BY <1>1, <1>2, <1>3, <1>4, <1>5, <1>6, <2>1
  <2>2. CASE i = Len(s) + 1
    BY <1>1, <1>2, <1>3, <1>4, <1>5, <1>6, <2>2
  <2>3. CASE i > Len(s) + 1
    <3>1. i - (Len(s) + 1) \in 1..Len(Tail(t)) /\ i - (Len(s) + 1) + 1 = i - Len(s)
      BY <1>1, <1>2, <1>6, <2>3
    <3> QED BY <1>1, <1>2, <1>4, <1>5, <1>6, <2>3, <3>1
  <2> QED BY <1>6, <2>1, <2>2, <2>3
<1> QED BY <1>4, <1>5, <1>6, <1>7, SeqEqual

\* A packet that joins the last of two queues joins both.
LEMMA AppendedLast ==
  ASSUME NEW s \in Seq(Int), NEW t \in Seq(Int), NEW e \in Int
  PROVE  s \o Append(t, e) = Append(s \o t, e)
<1>1. <<e>> \in Seq(Int) /\ s \o t \in Seq(Int)
  BY ConcatProperties
<1>2. Append(t, e) = t \o <<e>> /\ Append(s \o t, e) = (s \o t) \o <<e>>
  BY <1>1, AppendIsConcat
<1> QED BY <1>1, <1>2, ConcatAssociative

\* Every step of a stream keeps its packets in order.
LEMMA StreamedHolds ==
  ASSUME Types, InOrder, Places, Streamed, [BenchmarkNext]_allVars
  PROVE  Streamed'
<1>0. taken \in Seq(Int) /\ packetCh \in Seq(Int) /\ udp \in Seq(Int) /\ source \in Seq(Int)
  BY DEF Types
<1>1. ASSUME UNCHANGED <<call, udp, taken, packetCh>> PROVE Streamed'
  BY <1>1 DEF Streamed, IsStream, Delivered
<1>2. CASE call.method = "benchmark" /\ RunBenchmark
  <2>1. CASE SetUpReceiver
    BY <1>2, <2>1 DEF SetUpReceiver, Streamed, IsStream, pyVars
  <2>2. CASE WritePacket \/ Collect
    BY <1>1, <2>2 DEF WritePacket, Collect, captureVars, streamVars, pyVars
  <2>3. CASE ReportStart \/ OpenSender \/ FailToWrite \/ SendReturns \/ ReportEnd \/ GiveUp
             \/ NoteResult
    BY <1>1, <2>3
       DEF ReportStart, OpenSender, FailToWrite, SendReturns, ReportEnd, GiveUp, NoteResult,
           vars, captureVars, streamVars, pyVars
  <2> QED BY <1>2, <2>1, <2>2, <2>3 DEF RunBenchmark
<1>3. CASE ReceiversNext
  <2>1. ASSUME NEW kind \in {"udp", "other"}, Arrive(kind) PROVE Streamed'
    BY <1>1, <2>1 DEF Arrive, captureVars, streamVars, pyVars
  <2>2. CASE TakePacket
    <3>1. CASE ~IsStream
      BY <2>2, <3>1 DEF TakePacket, pyVars, Streamed, IsStream
    <3>2. CASE IsStream /\ ~IsUDP(Head(source))
      BY <1>1, <2>2, <3>2 DEF TakePacket, WithUDP, pyVars
    <3>3. CASE IsStream /\ IsUDP(Head(source))
      <4> DEFINE e == Head(source)
                 d == taken \o packetCh
      <4>1. /\ source # <<>> /\ udp' = Append(udp, e) /\ UNCHANGED <<call, taken>>
            /\ packetCh' = IF Len(packetCh) < PacketCap THEN Append(packetCh, e) ELSE packetCh
        BY <2>2, <3>3 DEF TakePacket, WithUDP, Queued, pyVars
      <4>2. e \in Int /\ 1 \in 1..Len(source) /\ e = source[1]
        BY <1>0, <4>1, EmptySeq, HeadTailProperties
      <4>3. \A j \in 1..Len(udp) : udp[j] < e
        BY <4>2 DEF InOrder
      <4>4. d \in Seq(Int) /\ Len(d) = Len(taken) + Len(packetCh)
        BY <1>0, ConcatProperties
      <4>5. /\ Increasing(d) /\ Len(d) <= Len(udp)
            /\ \A i \in 1..Len(d) : \E j \in 1..Len(udp) : udp[j] = d[i]
            /\ \A i \in 1..Len(udp) : i <= PacketCap => i <= Len(d) /\ d[i] = udp[i]
        BY <3>3 DEF Streamed, Delivered
      <4>6. /\ Len(udp) \in Nat /\ Len(udp') = Len(udp) + 1
            /\ \A i \in 1..Len(udp) : udp'[i] = udp[i]
            /\ udp'[Len(udp) + 1] = e
        BY <1>0, <4>1, <4>2, LenProperties, AppendProperties
      <4>7. Len(d) \in Nat /\ Len(taken) \in Nat /\ Len(packetCh) \in Nat /\ PacketCap \in Nat
        BY <1>0, <4>4, LenProperties, ReceiversAssumption
      <4>8. \A i \in 1..Len(d) : d[i] < e
        BY <4>3, <4>5
      <4>9. CASE Len(packetCh) < PacketCap
        <5>1. Delivered' = Append(d, e)
          BY <1>0, <4>1, <4>2, <4>9, AppendedLast DEF Delivered
        <5>2. /\ Len(Append(d, e)) = Len(d) + 1
              /\ \A i \in 1..Len(d) : Append(d, e)[i] = d[i]
              /\ Append(d, e)[Len(d) + 1] = e
          BY <4>2, <4>4, AppendProperties
        <5> HIDE DEF d, e
        <5>3. Increasing(Append(d, e))
          BY <4>2, <4>4, <4>5, <4>8, AppendIncreasing
        <5>4. Len(Append(d, e)) <= Len(udp')
          BY <4>5, <4>6, <4>7, <5>2
        <5>5. \A i \in 1..Len(Append(d, e)) : \E j \in 1..Len(udp') : udp'[j] = Append(d, e)[i]
          <6>1. ASSUME NEW i \in 1..Len(d)
                PROVE  \E j \in 1..Len(udp') : udp'[j] = Append(d, e)[i]
            BY <4>5, <4>6, <5>2
          <6>2. Len(udp) + 1 \in 1..Len(udp') /\ udp'[Len(udp) + 1] = Append(d, e)[Len(d) + 1]
            BY <4>6, <5>2
          <6>3. \A i \in 1..Len(Append(d, e)) : i \in 1..Len(d) \/ i = Len(d) + 1
            BY <4>7, <5>2
          <6> QED BY <6>1, <6>2, <6>3
        <5>6. ASSUME NEW i \in 1..Len(udp'), i <= PacketCap
              PROVE  i <= Len(Append(d, e)) /\ Append(d, e)[i] = udp'[i]
          <6>1. CASE i \in 1..Len(udp)
            BY <4>5, <4>6, <4>7, <5>2, <5>6, <6>1
          <6>2. CASE i = Len(udp) + 1
            <7>1. Len(d) = Len(udp)
              <8>1. CASE Len(udp) = 0
                BY <4>5, <4>7, <8>1
              <8>2. CASE Len(udp) > 0
                <9>1. Len(udp) \in 1..Len(udp) /\ Len(udp) <= PacketCap
                  BY <4>6, <4>7, <5>6, <6>2, <8>2
                <9> QED BY <4>5, <4>7, <4>6, <9>1
              <8> QED BY <4>6, <8>1, <8>2
            <7> QED BY <4>6, <5>2, <6>2, <7>1
          <6> QED BY <4>6, <5>6, <6>1, <6>2
        <5> QED BY <5>1, <5>3, <5>4, <5>5, <5>6 DEF Streamed
      <4>10. CASE ~(Len(packetCh) < PacketCap)
        <5>1. Delivered' = d /\ Len(d) >= PacketCap
          BY <4>1, <4>4, <4>7, <4>10 DEF Delivered
        <5> HIDE DEF d, e
        <5>2. \A i \in 1..Len(d) : \E j \in 1..Len(udp') : udp'[j] = d[i]
          BY <4>5, <4>6
        <5>3. ASSUME NEW i \in 1..Len(udp'), i <= PacketCap
              PROVE  i <= Len(d) /\ d[i] = udp'[i]
          <6>1. i \in 1..Len(udp)
            BY <4>5, <4>6, <4>7, <5>1, <5>3
          <6> QED BY <4>5, <4>6, <5>3, <6>1
        <5>4. Len(d) <= Len(udp')
          BY <4>5, <4>6, <4>7
        <5> QED BY <4>5, <5>1, <5>2, <5>3, <5>4 DEF Streamed
      <4> QED BY <4>9, <4>10
    <3> QED BY <3>1, <3>2, <3>3
  <2>3. CASE OpenInterface \/ SeeEnd \/ SeeDone \/ Publish \/ Timeout \/ SourceEnds
    BY <1>1, <2>3 DEF OpenInterface, SeeEnd, SeeDone, Publish, Timeout, SourceEnds,
                      captureVars, streamVars, pyVars
  <2>4. CASE RefuseCall \/ StartCapture \/ Ask
    BY <1>1, <2>4 DEF RefuseCall, StartCapture, Ask, captureVars, streamVars
  <2>5. CASE Close \/ Closing \/ PassOn
    BY <1>1, <2>5 DEF Close, Closing, CloseHandle, SetClosed, PassOn, captureVars, streamVars, pyVars
  <2>6. CASE AnswerCall
    BY <1>1, <2>6 DEF AnswerCall, TakeResult, captureVars, streamVars
  <2>7. CASE CollectStats
    BY <2>7 DEF CollectStats, Places, Streamed, IsStream
  <2>8. CASE GetNextPacket
    <3>1. /\ packetCh # <<>> /\ taken' = Append(taken, Head(packetCh)) /\ packetCh' = Tail(packetCh)
          /\ UNCHANGED <<call, udp>>
      BY <2>8 DEF GetNextPacket, captureVars
    <3>2. Delivered' = Delivered
      BY <1>0, <3>1, HeadMoved DEF Delivered
    <3> QED BY <3>1, <3>2 DEF Streamed, IsStream
  <2> QED BY <1>3, <2>1, <2>2, <2>3, <2>4, <2>5, <2>6, <2>7, <2>8
          DEF ReceiversNext, Capture, Deliver
<1>4. CASE UNCHANGED allVars
  BY <1>1, <1>4 DEF allVars, vars, captureVars, streamVars, pyVars
<1> QED BY <1>2, <1>3, <1>4 DEF BenchmarkNext

-----------------------------------------------------------------------------
(***************************************************************************)
(* Benchmarks.                                                             *)
(***************************************************************************)
\* A set of positions of a sequence is finite.
LEMMA FinitePart ==
  ASSUME NEW S, NEW s \in Seq(S), NEW T \in SUBSET DOMAIN s
  PROVE  IsFiniteSet(T) /\ Cardinality(T) \in Nat
<1>1. DOMAIN s = 1..Len(s) /\ Len(s) \in Nat
  BY LenProperties
<1>2. IsFiniteSet(DOMAIN s)
  BY <1>1, FS_Interval
<1> QED BY <1>2, FS_Subset, FS_CardinalityType

\* There are n positions up to n.
LEMMA CountToN ==
  ASSUME NEW n \in Nat
  PROVE  Cardinality(1..n) = n
BY FS_Interval

\* What is counted can be counted.
LEMMA FiniteParts ==
  ASSUME Types
  PROVE  /\ IsFiniteSet(Own) /\ Cardinality(Own) \in Nat
         /\ IsFiniteSet(Foreign) /\ Cardinality(Foreign) \in Nat
BY FinitePart DEF Types, Own, Foreign

\* What the capture took is the benchmark's own, of which there is no more than
\* arrived, or foreign.
LEMMA TakenIsOwnOrForeign ==
  ASSUME Types, InOrder
  PROVE  Len(udp) <= Cardinality(Own) + Cardinality(Foreign)
<1> DEFINE Mine == {k \in DOMAIN udp : traffic[udp[k]] = "own"}
           f == [k \in Mine |-> udp[k]]
<1>1. DOMAIN traffic = 1..Len(traffic) /\ DOMAIN udp = 1..Len(udp) /\ Len(udp) \in Nat
  BY LenProperties DEF Types
<1>2. \A k \in Mine : udp[k] \in Own
  BY <1>1 DEF InOrder, Own
<1>3. \A j, k \in Mine : udp[j] = udp[k] => j = k
  <2>1. \A k \in Mine : k \in 1..Len(udp) /\ udp[k] \in Int
    BY <1>1 DEF InOrder
  <2> QED BY <1>1, <2>1 DEF InOrder, Increasing
<1>4. f \in Injection(Mine, Own)
  BY <1>2, <1>3 DEF Injection, IsInjective
<1>5. IsFiniteSet(Mine) /\ Cardinality(Mine) <= Cardinality(Own)
  BY <1>4, FiniteParts, FS_Injection
<1>6. Mine \cup Foreign = 1..Len(udp) /\ Mine \cap Foreign = {}
  BY <1>1 DEF Foreign
<1>7. Cardinality(1..Len(udp)) = Len(udp)
  BY <1>1, CountToN
<1>8. Cardinality(Mine \cap Foreign) = 0
  BY <1>6, FS_EmptySet
<1>9. Cardinality(Mine \cup Foreign)
        = Cardinality(Mine) + Cardinality(Foreign) - Cardinality(Mine \cap Foreign)
  BY <1>5, FiniteParts, FS_Union
<1>10. Cardinality(Mine) \in Nat
  BY <1>5, FS_CardinalityType
<1>11. Len(udp) = Cardinality(Mine) + Cardinality(Foreign) - 0
  BY <1>6, <1>7, <1>8, <1>9
<1> HIDE DEF Mine
<1> QED BY <1>1, <1>5, <1>10, <1>11, FiniteParts

\* The foreign packets that the capture has taken only become more.
LEMMA ForeignGrows ==
  ASSUME Types, Types', InOrder, PacketMove
  PROVE  Cardinality(Foreign) <= Cardinality(Foreign')
<1>1. /\ Len(udp) \in Nat /\ DOMAIN udp = 1..Len(udp) /\ DOMAIN udp' = 1..Len(udp')
      /\ Len(traffic) \in Nat
      /\ udp \in Seq(Int) /\ traffic \in Seq(Kinds) /\ source \in Seq(Int)
  BY LenProperties DEF Types
<1>2. \A i \in 1..Len(traffic) : traffic'[i] = traffic[i]
  <2>1. CASE Arrival
    BY <1>1, <2>1, AppendProperties DEF Arrival
  <2> QED BY <2>1 DEF PacketMove, Taking
<1>3. \A k \in 1..Len(udp) : k \in 1..Len(udp') /\ udp'[k] = udp[k]
  <2>1. CASE udp' = Append(udp, Head(source)) /\ source # <<>>
    <3>1. Head(source) \in Int
      BY <1>1, <2>1, HeadAndTail
    <3> QED BY <1>1, <2>1, <3>1, AppendProperties
  <2> QED BY <2>1 DEF PacketMove, Arrival, Taking
<1>4. \A k \in 1..Len(udp) : traffic'[udp'[k]] = traffic[udp[k]]
  BY <1>2, <1>3 DEF InOrder
<1>5. Foreign \subseteq Foreign'
  BY <1>1, <1>3, <1>4 DEF Foreign
<1>6. IsFiniteSet(Foreign')
  BY FinitePart DEF Types, Foreign
<1> QED BY <1>5, <1>6, FS_Subset

\* A packet of the given kind arrives.
LEMMA OwnArrives ==
  ASSUME Types, NEW kind \in Kinds, traffic' = Append(traffic, kind)
  PROVE  Cardinality(Own') <= Cardinality(Own) + (IF kind = "own" THEN 1 ELSE 0)
<1>1. /\ Len(traffic) \in Nat /\ DOMAIN traffic = 1..Len(traffic)
      /\ DOMAIN traffic' = 1..Len(traffic) + 1
      /\ \A i \in 1..Len(traffic) : traffic'[i] = traffic[i]
      /\ traffic'[Len(traffic) + 1] = kind
  <2>1. traffic \in Seq(Kinds)
    BY DEF Types
  <2> QED BY <2>1, LenProperties, AppendProperties
<1>2. CASE kind = "own"
  <2>1. Own' = Own \cup {Len(traffic) + 1} /\ Len(traffic) + 1 \notin Own
    BY <1>1, <1>2 DEF Own
  <2>2. Cardinality(Own') = Cardinality(Own) + 1
    BY <2>1, FiniteParts, FS_AddElement
  <2> QED BY <1>2, <2>2, FiniteParts
<1>3. CASE kind # "own"
  <2>1. Own' = Own
    BY <1>1, <1>3 DEF Own
  <2> QED BY <1>3, <2>1, FiniteParts
<1> QED BY <1>2, <1>3

\* Every step of a benchmark keeps its account.
LEMMA AccountHolds ==
  ASSUME Types, Types', InOrder, Places, Tokens, Account, [BenchmarkNext]_allVars
  PROVE  Account'
<1>0. /\ NetMove /\ written \in Nat /\ result \in [sent : Int, received : Int]
      /\ Cardinality(Own) \in Nat /\ Cardinality(Foreign) \in Nat /\ Cardinality(Own) <= written
  BY StepMoves, FiniteParts DEF Account
<1>1. Cardinality(Foreign') \in Nat /\ Cardinality(Own') \in Nat
  BY FinitePart DEF Types, Foreign, Own
<1>2. ASSUME traffic' = traffic PROVE Own' = Own
  BY <1>2 DEF Own
<1>3. ASSUME UNCHANGED benchVars, UNCHANGED call, Cardinality(Own') <= written, PacketMove
      PROVE  Account'
  <2>1. Cardinality(Foreign) <= Cardinality(Foreign')
    BY <1>0, <1>3, ForeignGrows
  <2>2. ReportIsTrue'
    BY <1>0, <1>1, <1>3, <2>1 DEF ReportIsTrue, Account, benchVars
  <2> QED BY <1>3, <2>2 DEF Account, benchVars
<1>4. CASE call.method = "benchmark" /\ RunBenchmark
  <2>1. test \in Tests /\ test.count \in Nat
    BY <1>4, BenchmarkAssumption DEF Account
  <2>2. CASE SetUpReceiver
    <3>1. Own' = {}
      BY <2>2, EmptySeq DEF SetUpReceiver, Own
    <3>2. Cardinality(Own') = 0
      BY <3>1, FS_EmptySet
    <3> QED BY <1>4, <2>1, <2>2, <3>2
            DEF SetUpReceiver, Step, Account, ReportIsTrue, NoTraffic, Steps, pyVars
  <2>3. CASE ReportStart \/ OpenSender
    <3>1. Own' = Own /\ call' = call /\ test' = test
      BY <1>2, <2>3 DEF ReportStart, OpenSender, vars, netVars, pyVars
    <3> QED BY <1>0, <1>4, <2>1, <2>3, <3>1
            DEF ReportStart, OpenSender, Account, ReportIsTrue, NoTraffic, Steps
  <2>4. CASE WritePacket
    <3>1. Cardinality(Own') <= written + 1
      <4>1. CASE handle = "open" /\ ~ended
        <5>1. traffic' = Append(traffic, "own") /\ "own" \in Kinds
          BY <2>4, <4>1 DEF WritePacket, Kinds
        <5>2. Cardinality(Own') <= Cardinality(Own) + 1
          BY <5>1, OwnArrives
        <5> QED BY <1>0, <1>1, <5>2
      <4>2. CASE ~(handle = "open" /\ ~ended)
        BY <1>0, <1>2, <2>4, <4>2 DEF WritePacket
      <4> QED BY <4>1, <4>2
    <3> QED BY <1>0, <1>4, <2>1, <2>4, <3>1
            DEF WritePacket, Account, ReportIsTrue, NoTraffic, Steps, pyVars
  <2>5. CASE FailToWrite \/ SendReturns
    <3>1. Own' = Own /\ call' = call /\ test' = test
      BY <1>2, <2>5 DEF FailToWrite, SendReturns, vars, netVars, pyVars
    <3> QED BY <1>0, <1>4, <2>1, <2>5, <3>1
            DEF FailToWrite, SendReturns, Step, AfterFailure, Account, ReportIsTrue, NoTraffic, Steps
  <2>6. CASE ReportEnd \/ GiveUp
    <3>1. Own' = Own /\ call' = call /\ test' = test
      BY <1>2, <2>6 DEF ReportEnd, GiveUp, vars, netVars, pyVars
    <3> QED BY <1>0, <1>1, <1>4, <2>1, <2>6, <3>1
            DEF ReportEnd, GiveUp, Step, Account, ReportIsTrue, Steps
  <2>7. CASE Collect
    <3>1. /\ step = "collecting" /\ step' = "returned" /\ outer # <<>>
          /\ UNCHANGED <<call, test, written, next, traffic, udp>>
          /\ result' = [result EXCEPT !.received = Len(Head(outer).packets)]
      BY <2>7 DEF Collect, Step, captureVars, netVars, pyVars
    <3>2. outer \in Seq(Answers) /\ Head(outer) \in Answers /\ IsResult(Head(outer))
      <4>1. outer \in Seq(Answers)
        BY DEF Types
      <4>2. Head(outer) \in Answers /\ Head(outer) = outer[1] /\ 1 \in 1..Len(outer)
        BY <3>1, <4>1, HeadTailProperties, EmptySeq
      <4> QED BY <4>1, <4>2 DEF Tokens
    <3>3. Own' = Own /\ Foreign' = Foreign
      BY <3>1 DEF Own, Foreign
    <3>4. /\ Len(Head(outer).packets) \in Nat
          /\ Len(Head(outer).packets) <= Cardinality(Own) + Cardinality(Foreign)
      <4>1. CASE Head(outer) = Failed
        BY <1>0, <4>1, EmptySeq DEF Failed
      <4>2. CASE Head(outer) = Captured(udp)
        BY <4>2, CallTypes, TakenIsOwnOrForeign DEF Captured
      <4> QED BY <3>2, <4>1, <4>2 DEF IsResult
    <3>5. /\ result'.sent = result.sent /\ result'.received = Len(Head(outer).packets)
          /\ result' \in [sent : Int, received : Int]
      BY <1>0, <3>1, <3>4
    <3>6. result.sent = test.count /\ result.sent = written
      BY <3>1 DEF Account
    <3>7. ReportIsTrue'
      BY <1>0, <3>1, <3>3, <3>4, <3>5, <3>6, <2>1 DEF ReportIsTrue
    <3> QED BY <1>0, <1>4, <2>1, <3>1, <3>3, <3>5, <3>7 DEF Account, Steps
  <2>8. CASE NoteResult
    <3>1. Own' = Own /\ Foreign' = Foreign /\ call' = call /\ test' = test
      BY <2>8 DEF NoteResult, Own, Foreign, vars, captureVars, netVars, pyVars
    <3> QED BY <1>0, <1>4, <2>1, <2>8, <3>1 DEF NoteResult, Step, Account, ReportIsTrue, Steps
  <2> QED BY <1>4, <2>2, <2>3, <2>4, <2>5, <2>6, <2>7, <2>8 DEF RunBenchmark
<1>5. CASE ReceiversNext /\ UNCHANGED benchVars
  <2>1. Cardinality(Own') <= written
    <3>1. ASSUME NEW kind \in {"udp", "other"}, traffic' = Append(traffic, kind)
          PROVE  Cardinality(Own') <= written
      <4>1. Cardinality(Own') <= Cardinality(Own) + 0
        BY <3>1, OwnArrives DEF Kinds
      <4> QED BY <1>0, <1>1, <4>1
    <3> QED BY <1>0, <1>2, <1>5, <3>1, ReceiversMove
  <2> QED BY <1>3, <1>5, <2>1, ReceiversMove
<1>6. CASE UNCHANGED allVars
  <2>1. UNCHANGED <<traffic, source, udp, call>> /\ UNCHANGED benchVars
    BY <1>6 DEF allVars, vars, captureVars, netVars, pyVars
  <2> QED BY <1>0, <1>2, <1>3, <2>1 DEF PacketMove
<1> QED BY <1>4, <1>5, <1>6 DEF BenchmarkNext

-----------------------------------------------------------------------------
\* The invariant holds at the start.
LEMMA InitHolds == BenchmarkInit => BenchmarkInv
<1> SUFFICES ASSUME BenchmarkInit PROVE BenchmarkInv
  OBVIOUS
<1> USE DEF BenchmarkInit, ReceiversInit
<1>1. Types
  BY EmptySeq DEF Types
<1>2. InOrder
  BY EmptySeq DEF InOrder, Increasing
<1>3. Places
  BY DEF Places, IsStream
<1>4. Tokens /\ Counted /\ Collected
  BY EmptySeq DEF Tokens, Counted, Collected
<1>5. Streamed
  <2>1. Delivered = <<>>
    BY DEF Delivered
  <2> QED BY <2>1, EmptySeq DEF Streamed, Increasing
<1>6. Account
  <2>1. Own = {}
    BY EmptySeq DEF Own
  <2>2. Cardinality(Own) = 0
    BY <2>1, FS_EmptySet
  <2> QED BY <2>2 DEF Account, Steps, NoTraffic, ReportIsTrue
<1> QED BY <1>1, <1>2, <1>3, <1>4, <1>5, <1>6 DEF BenchmarkInv, ReceiversInv

\* The inductive invariant.
THEOREM BenchmarkInvHolds == Spec => []BenchmarkInv
<1>1. BenchmarkInv /\ [BenchmarkNext]_allVars => BenchmarkInv'
  <2> SUFFICES ASSUME BenchmarkInv, [BenchmarkNext]_allVars PROVE BenchmarkInv'
    OBVIOUS
  <2> USE DEF BenchmarkInv, ReceiversInv
  <2>1. Types'
    BY TypesHold
  <2>2. InOrder'
    BY StepMoves, InOrderHolds
  <2>3. Places'
    BY PlacesHold
  <2>4. Tokens' /\ Counted'
    BY TokensHold, CountedHolds
  <2>5. Collected' /\ Streamed'
    BY CollectedHolds, StreamedHolds
  <2>6. Account'
    BY <2>1, AccountHolds
  <2> QED BY <2>1, <2>2, <2>3, <2>4, <2>5, <2>6
<1> QED BY <1>1, InitHolds, PTL DEF Spec

\* The result of a capture is exactly the UDP packets that it took; one by count is
\* never longer than asked, and shorter only with a timeout or when reading fails.
THEOREM AnswerIsCaptureHolds == Spec => []AnswerIsCapture
<1>1. BenchmarkInv => AnswerIsCapture
  <2> SUFFICES ASSUME BenchmarkInv, answers # <<>>, ~answers[1].error
               PROVE  /\ answers[1].packets = udp
                      /\ IsPrefix(taken, udp)
                      /\ Complete
    BY DEF AnswerIsCapture, Complete
  <2> USE DEF BenchmarkInv, ReceiversInv
  <2>1. answers \in Seq(Answers) /\ taken \in Seq(Int) /\ udp \in Seq(Int)
    BY DEF Types
  <2>2. 1 \in 1..Len(answers)
    BY <2>1, EmptySeq
  <2>3. answers[1] = Captured(udp) /\ Complete
    BY <2>2 DEF Tokens, IsResult, Failed
  <2>4. answers[1].packets = udp
    BY <2>3 DEF Captured
  <2>5. ~IsStream
    BY DEF Places
  <2>6. Len(taken) <= Len(udp) /\ \A i \in 1..Len(taken) : taken[i] = udp[i]
    BY <2>4, <2>5 DEF Collected
  <2>7. IsPrefix(taken, udp)
    <3>1. Len(taken) \in Nat /\ Len(udp) \in Nat
      BY <2>1, LenProperties
    <3>2. \A i \in 1..Len(taken) : udp[i] \in Int
      BY <2>1, <2>6, <3>1, ElementOfSeq
    <3>3. SubSeq(taken, 1, Len(taken)) = taken
      BY <2>1, SubSeqFull
    <3>4. /\ SubSeq(udp, 1, Len(taken)) \in Seq(Int)
          /\ Len(SubSeq(udp, 1, Len(taken))) = Len(taken)
          /\ \A i \in 1..Len(taken) : SubSeq(udp, 1, Len(taken))[i] = udp[i]
      BY <3>1, <3>2, SubSeqProperties
    <3>5. SubSeq(udp, 1, Len(taken)) = taken
      BY <2>1, <2>6, <3>4, SeqEqual
    <3> QED BY <2>6, <3>3, <3>5 DEF IsPrefix
  <2> QED BY <2>3, <2>4, <2>7
<1> QED BY <1>1, BenchmarkInvHolds, PTL

\* A stream delivers UDP packets in the order of their arrival, each at most once,
\* and loses none of the first that fit into its queue.
THEOREM StreamIsInOrderHolds == Spec => []StreamIsInOrder
<1>1. BenchmarkInv => StreamIsInOrder
  <2> SUFFICES ASSUME BenchmarkInv, IsStream
               PROVE  /\ \A i, j \in DOMAIN Delivered : i < j => Delivered[i] < Delivered[j]
                      /\ \A i \in DOMAIN Delivered : Contains(udp, Delivered[i])
                      /\ \A i \in DOMAIN udp : i <= PacketCap => Delivered[i] = udp[i]
    BY DEF StreamIsInOrder, Delivered
  <2> USE DEF BenchmarkInv, ReceiversInv
  <2>1. DOMAIN udp = 1..Len(udp)
    BY LenProperties DEF Types
  <2>2. DOMAIN Delivered = 1..Len(Delivered)
    BY ConcatProperties, LenProperties DEF Types, Delivered
  <2> QED BY <2>1, <2>2 DEF Streamed, Increasing, Contains
<1> QED BY <1>1, BenchmarkInvHolds, PTL

\* What a benchmark reports has happened.
THEOREM ReportIsTrueHolds == Spec => []ReportIsTrue
<1>1. BenchmarkInv => ReportIsTrue
  BY DEF BenchmarkInv, Account
<1> QED BY <1>1, BenchmarkInvHolds, PTL
=============================================================================
