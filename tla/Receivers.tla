----------------------------- MODULE Receivers -----------------------------
(***************************************************************************)
(* Receiving (receive.py, core/receive.go).  A program makes one call:     *)
(*                                                                         *)
(*   "by_time", "by_count"  receive_packets_by_time, _by_count             *)
(*   "stats"                receive_with_stats                             *)
(*   "stream"               a ContinuousPacketReceiver: one thread takes   *)
(*                          packets from it, another may close it          *)
(*   "benchmark"            see Benchmark.tla                              *)
(*                                                                         *)
(* Behind each is a goroutine (loop) that captures packets at an           *)
(* interface.  For all but "stream" it hands its result over a channel     *)
(* (inner) to a second goroutine (wrapper), which passes it on over        *)
(* another (outer) to Result; either channel stands for the pair of a      *)
(* result and an error channel, of which only one is ever used.            *)
(*                                                                         *)
(* Packets have numbers in the order in which they arrive.  What gopacket  *)
(* and libpcap do is external: packets arrive while the handle is open,    *)
(* and the channel they come through is closed when reading fails.         *)
(***************************************************************************)
EXTENDS Integers, SequencesExt

CONSTANTS
  Calls,       \* [method, count, limited: whether duration or timeout > 0, wait]
  MaxPackets,  \* bound on the packets that arrive
  PacketCap,   \* cap(packetCh), 1000
  ResultCap    \* cap of the channels for a result, 1

Methods == {"by_time", "by_count", "stats", "stream", "benchmark"}

ASSUME ReceiversAssumption ==
  /\ Calls \subseteq [method : Methods, count : Int, limited : BOOLEAN, wait : BOOLEAN]
  /\ PacketCap \in Nat

VARIABLES
  call,
  py,         \* where the thread of the program is
  loop,       \* where the capturing goroutine is
  handle,     \* the pcap handle
  traffic,    \* history: what each packet at the interface was
  source,     \* packets in packetSource.Packets()
  ended,      \* that channel is closed
  results,    \* payloads collected so far
  udp,        \* history: UDP packets that the goroutine has taken
  inner,
  outer,
  wrapper,    \* where the second goroutine is
  answers,    \* what Result has returned, each time
  taken,      \* packets that the program has got
  isRunning,
  packetCh,
  done,       \* history: how often done was closed
  closer,     \* where the closing thread is in close()
  pyClosed    \* _closed

captureVars == <<loop, handle, results, udp>>
netVars == <<traffic, source, ended>>
resultVars == <<inner, outer, wrapper, answers>>
streamVars == <<isRunning, packetCh, done>>
pyVars == <<call, py, taken>>
closeVars == <<closer, pyClosed>>
vars == <<captureVars, netVars, resultVars, streamVars, pyVars, closeVars>>

Captured(packets) == [error |-> FALSE, packets |-> packets]
Failed == [error |-> TRUE, packets |-> <<>>]

ReceiversInit ==
  /\ call \in Calls /\ py = "called" /\ taken = <<>>
  /\ loop = "off" /\ handle = "none" /\ results = <<>> /\ udp = <<>>
  /\ traffic = <<>> /\ source = <<>> /\ ended = FALSE
  /\ inner = <<>> /\ outer = <<>> /\ wrapper = "off" /\ answers = <<>>
  /\ isRunning = FALSE /\ packetCh = <<>> /\ done = 0
  /\ closer = "idle" /\ pyClosed = FALSE

\* What the goroutine does for the call: capture for a time, or up to a count.
ForCount == call.method = "by_count" \/ (call.method = "stats" /\ call.count > 0)
IsStream == call.method = "stream"

-----------------------------------------------------------------------------
(***************************************************************************)
(* Faulty variants, not used by the specification, each named after the    *)
(* definition below that it breaks.                                        *)
(***************************************************************************)
\* The count tested before the packet is appended.
EnoughBefore(list) == Len(list) > call.count

\* The queue that gives up its oldest packet to a new one.
QueuedForOldest(i) ==
  IF Len(packetCh) < PacketCap THEN Append(packetCh, i) ELSE Append(Tail(packetCh), i)

\* A loop without the case of done.
DoneSeenNever == FALSE

\* A timeout that is only looked at after a packet.
TimesOutAfterPacket == udp # <<>> /\ (ForCount => call.limited)

-----------------------------------------------------------------------------
\* receive_with_stats without a duration and a count.
RefuseCall ==
  /\ py = "called"
  /\ call.method = "stats"
  /\ call.count <= 0 /\ ~call.limited
  /\ py' = "raised"
  /\ UNCHANGED <<captureVars, netVars, resultVars, streamVars, closeVars, call, taken>>

\* PacketReceiverByTime, PacketReceiverByCount and NewReceiver return as soon as
\* their goroutines are started; then ResultNative, with wait.
StartCapture ==
  /\ py = "called"
  /\ \/ call.method \in {"by_time", "by_count", "stream"}
     \/ call.method = "stats" /\ (call.count > 0 \/ call.limited)
  /\ loop' = "opening"
  /\ wrapper' = IF IsStream THEN "off" ELSE "waiting"
  /\ py' = IF IsStream THEN "using" ELSE IF call.wait THEN "asking" ELSE "holding"
  /\ UNCHANGED <<handle, results, udp, netVars, inner, outer, answers, streamVars, closeVars,
                 call, taken>>

\* OpenLive and, with a filter, SetBPFFilter; either may fail.
OpenInterface ==
  /\ loop = "opening"
  /\ \/ /\ handle' = "open"
        /\ loop' = "capturing"
        /\ isRunning' = IsStream
     \/ /\ handle' = "closed"
        /\ loop' = IF IsStream THEN "stopped" ELSE "failing"
        /\ UNCHANGED isRunning
  /\ UNCHANGED <<results, udp, netVars, resultVars, packetCh, done, pyVars, closeVars>>

\* A packet arrives at the interface.
Arrive(kind) ==
  /\ handle = "open"
  /\ ~ended
  /\ Len(traffic) < MaxPackets
  /\ traffic' = Append(traffic, kind)
  /\ source' = Append(source, Len(traffic) + 1)
  /\ UNCHANGED <<captureVars, ended, resultVars, streamVars, pyVars, closeVars>>

\* Reading fails, as it does once the handle is closed.
SourceEnds ==
  /\ handle # "none"
  /\ loop = "capturing"
  /\ ~ended
  /\ ended' = TRUE
  /\ UNCHANGED <<captureVars, traffic, source, resultVars, streamVars, pyVars, closeVars>>

IsUDP(i) == traffic[i] # "other"
WithUDP(list, i) == IF IsUDP(i) THEN Append(list, i) ELSE list

\* len(results) >= count, after every packet of any kind
Enough(list) == Len(list) >= call.count

\* packetCh after a packet is offered to it: it is dropped when the queue is full.
Queued(i) == IF Len(packetCh) < PacketCap THEN Append(packetCh, i) ELSE packetCh

\* The goroutine takes a packet.
TakePacket ==
  /\ loop = "capturing"
  /\ source # <<>>
  /\ LET i == Head(source)
     IN /\ source' = Tail(source)
        /\ udp' = WithUDP(udp, i)
        /\ IF IsStream
           THEN /\ packetCh' = IF IsUDP(i) THEN Queued(i) ELSE packetCh
                /\ UNCHANGED <<loop, results>>
           ELSE /\ results' = WithUDP(results, i)
                /\ loop' = IF ForCount /\ Enough(results') THEN "publishing" ELSE loop
                /\ UNCHANGED packetCh
  /\ UNCHANGED <<handle, traffic, ended, resultVars, isRunning, done, pyVars, closeVars>>

\* The channel of packets is found closed.  A capture by time goes round and round
\* until its timeout.
SeeEnd ==
  /\ loop = "capturing"
  /\ source = <<>> /\ ended
  /\ \/ /\ ForCount
        /\ loop' = "publishing"
        /\ UNCHANGED <<handle, isRunning>>
     \/ /\ IsStream
        /\ loop' = "stopped"
        /\ handle' = "closed"
        /\ isRunning' = FALSE
  /\ UNCHANGED <<results, udp, netVars, resultVars, packetCh, done, pyVars, closeVars>>

\* There is a timeout that can fire.
TimesOut == ForCount => call.limited

Timeout ==
  /\ loop = "capturing"
  /\ ~IsStream
  /\ TimesOut
  /\ loop' = "publishing"
  /\ UNCHANGED <<handle, results, udp, netVars, resultVars, streamVars, pyVars, closeVars>>

\* The goroutine hands over its result or its error, and ends.
Publish ==
  /\ loop \in {"publishing", "failing"}
  /\ Len(inner) < ResultCap
  /\ inner' = Append(inner, IF loop = "failing" THEN Failed ELSE Captured(results))
  /\ loop' = "stopped"
  /\ handle' = "closed"
  /\ UNCHANGED <<results, udp, netVars, outer, wrapper, answers, streamVars, pyVars, closeVars>>

\* The second goroutine passes it on, and ends.
PassOn ==
  /\ wrapper = "waiting"
  /\ inner # <<>>
  /\ Len(outer) < ResultCap
  /\ inner' = Tail(inner)
  /\ outer' = Append(outer, Head(inner))
  /\ wrapper' = "done"
  /\ UNCHANGED <<captureVars, netVars, answers, streamVars, pyVars, closeVars>>

-----------------------------------------------------------------------------
\* Without wait the program calls Result or ResultNative when it likes, and may do
\* so again; the second call finds nothing, and waits for ever.
Ask ==
  /\ py = "holding"
  /\ py' = "asking"
  /\ UNCHANGED <<captureVars, netVars, resultVars, streamVars, closeVars, call, taken>>

\* Result returns.
TakeResult(from, to) ==
  /\ py = from
  /\ outer # <<>>
  /\ outer' = Tail(outer)
  /\ answers' = Append(answers, Head(outer))
  /\ py' = to
  /\ UNCHANGED <<captureVars, netVars, inner, wrapper, streamVars, closeVars, call, taken>>

AnswerCall ==
  TakeResult("asking", IF call.method = "stats" THEN "iterating"
                       ELSE IF call.wait THEN "returned" ELSE "holding")

\* The loop of receive_with_stats: each packet is kept, counted and given to the
\* callback, which may raise.  After an error ResultNative returns nil, which
\* Python gets to see as an empty list or not at all.
CollectStats ==
  /\ py = "iterating"
  /\ \/ /\ Len(taken) < Len(answers[1].packets)
        /\ taken' = Append(taken, answers[1].packets[Len(taken) + 1])
        /\ py' \in {"iterating", "raised"}
     \/ /\ Len(taken) = Len(answers[1].packets)
        /\ py' \in (IF answers[1].error THEN {"returned", "raised"} ELSE {"returned"})
        /\ UNCHANGED taken
  /\ UNCHANGED <<captureVars, netVars, resultVars, streamVars, closeVars, call>>

-----------------------------------------------------------------------------
\* get_next_packet: nothing when closed or not running, or when nothing is queued;
\* once done is closed the packet or nothing, as select likes.  An iteration stops
\* at the first nothing, and the program may start another.
GetNextPacket ==
  /\ py = "using"
  /\ ~pyClosed
  /\ isRunning
  /\ packetCh # <<>>
  /\ taken' = Append(taken, Head(packetCh))
  /\ packetCh' = Tail(packetCh)
  /\ UNCHANGED <<captureVars, netVars, resultVars, isRunning, done, closeVars, call, py>>

\* done is closed, which ends the loop of a stream.
DoneSeen == done > 0

SeeDone ==
  /\ loop = "capturing"
  /\ DoneSeen
  /\ loop' = "stopped"
  /\ handle' = "closed"
  /\ isRunning' = FALSE
  /\ UNCHANGED <<results, udp, netVars, resultVars, packetCh, done, pyVars, closeVars>>

MayClose == ~pyClosed
Closes == isRunning

\* close(), in a thread of its own: Go's Close does nothing unless the goroutine is
\* running, that is, also when the interface is not open yet.
Close ==
  /\ IsStream
  /\ py = "using"
  /\ closer = "idle"
  /\ MayClose
  /\ \/ /\ Closes
        /\ done' = done + 1
        /\ closer' = "closing handle"
     \/ /\ ~Closes
        /\ closer' = "setting flag"
        /\ UNCHANGED done
  /\ UNCHANGED <<captureVars, netVars, resultVars, isRunning, packetCh, pyVars, pyClosed>>

CloseHandle ==
  /\ closer = "closing handle"
  /\ handle' = IF handle = "open" THEN "closed" ELSE handle
  /\ closer' = "setting flag"
  /\ UNCHANGED <<loop, results, udp, netVars, resultVars, streamVars, pyVars, pyClosed>>

SetClosed ==
  /\ closer = "setting flag"
  /\ pyClosed' = TRUE
  /\ closer' = "idle"
  /\ UNCHANGED <<captureVars, netVars, resultVars, streamVars, pyVars>>

-----------------------------------------------------------------------------
Capture ==
  \/ OpenInterface \/ TakePacket \/ SeeEnd \/ SeeDone \/ Publish

Deliver == PassOn \/ AnswerCall \/ CollectStats

Closing == CloseHandle \/ SetClosed

ReceiversNext ==
  \/ RefuseCall \/ StartCapture
  \/ Capture \/ Timeout
  \/ \E kind \in {"udp", "other"} : Arrive(kind)
  \/ SourceEnds
  \/ Deliver \/ Ask
  \/ GetNextPacket \/ Close \/ Closing

\* Goroutines and threads are scheduled fairly, timers fire, and select, which
\* chooses at random, does not forget a timer that has.
ReceiversFairness ==
  /\ WF_vars(StartCapture) /\ WF_vars(Capture) /\ SF_vars(Timeout)
  /\ WF_vars(Deliver) /\ WF_vars(Closing)

-----------------------------------------------------------------------------
(***************************************************************************)
(* Properties                                                              *)
(***************************************************************************)
\* The result of a capture is exactly the UDP packets that it took, in order; one
\* by count is never longer than asked, where a count below one still takes a
\* packet, and shorter only with a timeout or when reading fails.
AnswerIsCapture ==
  answers # <<>> /\ ~answers[1].error =>
    /\ answers[1].packets = udp
    /\ IsPrefix(taken, udp)
    /\ ForCount =>
         /\ Len(udp) <= IF call.count > 0 THEN call.count ELSE 1
         /\ ~call.limited /\ ~ended => Len(udp) >= call.count

\* A stream delivers UDP packets in the order of their arrival, each at most once,
\* and loses none of the first PacketCap, be they read or not (receive.go 320-325).
StreamIsInOrder ==
  IsStream =>
    LET delivered == taken \o packetCh
    IN /\ \A i, j \in DOMAIN delivered : i < j => delivered[i] < delivered[j]
       /\ \A i \in DOMAIN delivered : Contains(udp, delivered[i])
       /\ \A i \in DOMAIN udp : i <= PacketCap => delivered[i] = udp[i]

\* A capture with a limit ends with both its goroutines, whether or not anybody
\* asks for the result, and the call that waits for it returns.
CapturesEnd ==
  loop = "opening" /\ ~IsStream /\ (ForCount => call.limited) ~>
    /\ loop = "stopped" /\ wrapper = "done"
    /\ call.wait => py \in {"returned", "raised"}

\* close() ends the goroutine and closes the interface, when it was running.
CloseStops == done > 0 ~> loop = "stopped" /\ handle = "closed"
=============================================================================
