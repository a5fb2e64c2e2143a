----------------------------- MODULE Benchmark -----------------------------
(***************************************************************************)
(* run_benchmark and the tests of PerfTest (benchmark.py,                  *)
(* core/benchmark.go), with the capture that Receivers.tla models on the   *)
(* other end of a loopback interface.                                      *)
(*                                                                         *)
(* The thread sends numbered packets of one size; those that are written   *)
(* while the capture's handle is open arrive there as "own", among packets *)
(* of others.  A test of PerfTest is a benchmark for each of its sizes.    *)
(* Rates and times are left out.                                           *)
(***************************************************************************)
EXTENDS Receivers

CONSTANTS
  Tests,         \* [sizes: packet sizes one after another, count, loopback, callback]
  MinPacketSize  \* shorter payloads are refused, 18

ASSUME BenchmarkAssumption ==
  /\ Tests \subseteq [sizes : Seq(Nat), count : Nat, loopback : BOOLEAN, callback : BOOLEAN]
  /\ MinPacketSize \in Nat

VARIABLES
  test,
  step,     \* where the thread is in run_benchmark
  round,    \* which size it is at
  next,     \* how many payloads of this benchmark it has been through
  written,  \* history: how many of them were written
  result,   \* BenchmarkResult: packets sent and received
  reports   \* results by size

benchVars == <<test, step, round, next, written, result, reports>>
allVars == <<vars, benchVars>>

NoTraffic == [sent |-> 0, received |-> 0]

BenchmarkInit ==
  /\ ReceiversInit
  /\ test \in IF call.method = "benchmark" THEN Tests ELSE {<<>>}
  /\ step = "start" /\ round = 1 /\ next = 0 /\ written = 0
  /\ result = NoTraffic
  /\ reports = [s \in {} |-> NoTraffic]

Size == test.sizes[round]

\* Where in udp the packets are that are not the benchmark's own.
Foreign == {k \in DOMAIN udp : traffic[udp[k]] # "own"}

-----------------------------------------------------------------------------
(***************************************************************************)
(* Faulty variants, not used by the specification, each named after the    *)
(* definition below that it breaks.                                        *)
(***************************************************************************)
\* Sending that goes on after an error.
AfterFailureGoesOn == "sending"

-----------------------------------------------------------------------------
Step(from, to) == step = from /\ step' = to

\* A benchmark begins; on a loopback interface with a capture for a time, which it
\* estimates from the count or the duration.  A capture that an earlier benchmark
\* has left behind goes on without anybody who could see it.
SetUpReceiver ==
  /\ call.method = "benchmark"
  /\ Step("start", "announcing")
  /\ result' = NoTraffic
  /\ next' = 0 /\ written' = 0
  /\ loop' = IF test.loopback THEN "opening" ELSE "off"
  /\ wrapper' = IF test.loopback THEN "waiting" ELSE "off"
  /\ handle' = "none" /\ results' = <<>> /\ udp' = <<>>
  /\ traffic' = <<>> /\ source' = <<>> /\ ended' = FALSE
  /\ inner' = <<>> /\ outer' = <<>> /\ answers' = <<>>
  /\ UNCHANGED <<streamVars, pyVars, closeVars, test, round, reports>>

\* The first call of the callback, whose exception reaches the caller.
ReportStart ==
  /\ step = "announcing"
  /\ step' \in (IF test.callback THEN {"opening", "raised"} ELSE {"opening"})
  /\ UNCHANGED <<vars, test, round, next, written, result, reports>>

\* sendPacketsImpl opens the interface.
OpenSender ==
  /\ step = "opening"
  /\ step' \in {"sending", "failed"}
  /\ UNCHANGED <<vars, test, round, next, written, result, reports>>

\* A packet is written, and arrives if the capture is open.
WritePacket ==
  /\ step = "sending"
  /\ next < test.count
  /\ Size >= MinPacketSize
  /\ next' = next + 1
  /\ written' = written + 1
  /\ IF handle = "open" /\ ~ended
     THEN /\ traffic' = Append(traffic, "own")
          /\ source' = Append(source, Len(traffic) + 1)
     ELSE UNCHANGED <<traffic, source>>
  /\ UNCHANGED <<captureVars, ended, resultVars, streamVars, pyVars, closeVars, test, step,
                 round, result, reports>>

\* Where a packet that cannot be written leads: the others are not tried.
AfterFailure == "failed"

\* A packet is refused or not written.
FailToWrite ==
  /\ Step("sending", AfterFailure)
  /\ next < test.count
  /\ next' = next + 1
  /\ UNCHANGED <<vars, test, round, written, result, reports>>

\* BenchmarkSend returns the rate.
SendReturns ==
  /\ next = test.count
  /\ Step("sending", "reporting")
  /\ result' = [result EXCEPT !.sent = test.count]
  /\ UNCHANGED <<vars, test, round, next, written, reports>>

\* The second call of the callback, whose exception is caught: as after a failure
\* to send, the capture is not asked for its packets.
ReportEnd ==
  /\ step = "reporting"
  /\ step' \in {IF test.loopback THEN "collecting" ELSE "returned"}
                 \cup (IF test.callback THEN {"failed"} ELSE {})
  /\ UNCHANGED <<vars, test, round, next, written, result, reports>>

\* The packets that ResultNative returns, once the capture has timed out, are
\* counted.  If it failed, what Python gets counts as none.
Collect ==
  /\ Step("collecting", "returned")
  /\ outer # <<>>
  /\ outer' = Tail(outer)
  /\ answers' = Append(answers, Head(outer))
  /\ result' = [result EXCEPT !.received = Len(Head(outer).packets)]
  /\ UNCHANGED <<captureVars, netVars, inner, wrapper, streamVars, closeVars, pyVars, test,
                 round, next, written, reports>>

GiveUp ==
  /\ Step("failed", "returned")
  /\ UNCHANGED <<vars, test, round, next, written, result, reports>>

\* throughput_test and scalability_test note a result under its size, or the number
\* of streams, which run_benchmark does not look at, and go on with the next.
NoteResult ==
  /\ Step("returned", IF round < Len(test.sizes) THEN "start" ELSE "done")
  /\ reports' = [s \in DOMAIN reports \cup {Size} |-> IF s = Size THEN result ELSE reports[s]]
  /\ round' = IF round < Len(test.sizes) THEN round + 1 ELSE round
  /\ UNCHANGED <<vars, test, next, written, result>>

-----------------------------------------------------------------------------
RunBenchmark ==
  \/ SetUpReceiver \/ ReportStart \/ OpenSender \/ WritePacket \/ FailToWrite
  \/ SendReturns \/ ReportEnd \/ Collect \/ GiveUp \/ NoteResult

BenchmarkNext ==
  \/ call.method = "benchmark" /\ RunBenchmark
  \/ ReceiversNext /\ UNCHANGED benchVars

Spec == BenchmarkInit /\ [][BenchmarkNext]_allVars
\* The thread that runs the benchmark is scheduled fairly, too.
FairSpec ==
  Spec /\ ReceiversFairness /\ WF_allVars(call.method = "benchmark" /\ RunBenchmark)

-----------------------------------------------------------------------------
(***************************************************************************)
(* Properties                                                              *)
(***************************************************************************)
\* What a benchmark reports has happened: as many packets as it says were written,
\* and each packet received is one of those or another's UDP packet; nothing is
\* received when sending failed, so that a loss is never made up.
ReportIsTrue ==
  step \in {"returned", "done"} =>
    /\ result.sent \in {0, written}
    /\ result.sent < test.count => result.received = 0
    /\ result.received <= result.sent + Cardinality(Foreign)

\* Whatever fails, a test of PerfTest comes to its end, or to the exception of the
\* callback: the capture that it waits for always has a timeout.
BenchmarkEnds == call.method = "benchmark" ~> step \in {"done", "raised"}
=============================================================================
