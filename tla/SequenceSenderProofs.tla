------------------------ MODULE SequenceSenderProofs ------------------------
(***************************************************************************)
(* The safety of SequenceSender.tla, proved for any payloads, any number   *)
(* of Sends and any capacity of progressCh.                                *)
(***************************************************************************)
EXTENDS SequenceSender, SequenceTheorems, TLAPS

\* Which Send it is decides where the goroutine and the flags can be.
Control ==
  /\ sends \in Nat /\ closed \in BOOLEAN /\ isComplete \in BOOLEAN
  /\ sends = 0 =>
       /\ goroutine = "off" /\ caller = "idle" /\ ~closed /\ ~isComplete
       /\ progressCh = <<>> /\ published = <<>> /\ outcomes = <<>> /\ wire = <<>>
  /\ sends = 1 =>
       /\ closed <=> goroutine = "flagging" \/ goroutine = "off"
       /\ isComplete <=> goroutine = "off"
       /\ goroutine # "panicked"
  /\ sends > 1 => closed /\ isComplete

\* The goroutine has payloads to range over, and a packet while it reports one.
Loop ==
  /\ goroutine # "off" => total > 0
  /\ goroutine = "reporting" => next < total

-----------------------------------------------------------------------------
\* Where goroutine and flags can be.
LEMMA ControlHolds == Spec => []Control
<1>1. Init => Control
  <2> SUFFICES ASSUME Init PROVE Control
    OBVIOUS
  <2>1. sends = 0 /\ goroutine = "off" /\ caller = "idle" /\ ~closed /\ ~isComplete
    BY DEF Init, Fresh
  <2>2. progressCh = <<>> /\ published = <<>> /\ outcomes = <<>> /\ wire = <<>>
    BY DEF Init, Fresh
  <2>3. closed \in BOOLEAN /\ isComplete \in BOOLEAN
    BY DEF Init, Fresh
  <2> QED BY <2>1, <2>2, <2>3 DEF Control
<1>2. Control /\ [Next]_vars => Control'
  <2> SUFFICES ASSUME Control, [Next]_vars PROVE Control'
    OBVIOUS
  <2>1. CASE OpenInterface
    BY <2>1 DEF OpenInterface, pyVars, Control
  <2>2. CASE ReportOpenFailure
    BY <2>2 DEF ReportOpenFailure, Publish, Panic, pyVars, Control
  <2>3. CASE SendSinglePacket
    BY <2>3 DEF SendSinglePacket, pyVars, Control
  <2>4. CASE ReportProgress
    BY <2>4 DEF ReportProgress, Publish, Panic, pyVars, Control
  <2>5. CASE ReportElapsed
    BY <2>5 DEF ReportElapsed, AfterFinish, Publish, Panic, pyVars, Control
  <2>6. CASE CloseProgress
    BY <2>6 DEF CloseProgress, pyVars, Control
  <2>7. CASE SetComplete
    BY <2>7 DEF SetComplete, AfterComplete, pyVars, Control
  <2>8. CASE AskComplete
    BY <2>8 DEF AskComplete, goVars, pyVars, Control
  <2>9. CASE TakeResult
    BY <2>9 DEF TakeResult, GetNextResult, Control
  <2>10. CASE TakeLastResult
    BY <2>10 DEF TakeLastResult, GetNextResult, Control
  <2>11. ASSUME NEW n \in Lengths, AddPacket(n) PROVE Control'
    BY <2>11 DEF AddPacket, goVars, Control
  <2>12. CASE Send
    <3>1. sends' = sends + 1 /\ goroutine = "off" /\ goroutine' = "opening"
      BY <2>12 DEF Send
    <3>2. UNCHANGED <<closed, isComplete>>
      BY <2>12 DEF Send
    <3>3. CASE sends = 0
      BY <3>1, <3>2, <3>3 DEF Control
    <3>4. CASE sends > 0
      <4>1. closed = TRUE /\ isComplete = TRUE
        BY <3>1, <3>4 DEF Control
      <4>2. sends' > 1 /\ sends' \in Nat
        BY <3>1, <3>4 DEF Control
      <4> QED BY <3>2, <4>1, <4>2 DEF Control
    <3> QED BY <3>3, <3>4 DEF Control
  <2>13. CASE Clear
    <3>1. sends' = 0 /\ goroutine' = "off" /\ caller' = "idle" /\ ~closed'
          /\ ~isComplete'
      BY <2>13 DEF Clear
    <3>2. progressCh' = <<>> /\ published' = <<>> /\ outcomes' = <<>> /\ wire' = <<>>
      BY <2>13 DEF Clear
    <3>3. closed' \in BOOLEAN /\ isComplete' \in BOOLEAN
      BY <2>13 DEF Clear
    <3> QED BY <3>1, <3>2, <3>3 DEF Control
  <2>14. CASE UNCHANGED vars
    BY <2>14 DEF vars, goVars, pyVars, Control
  <2> QED
    BY <2>1, <2>2, <2>3, <2>4, <2>5, <2>6, <2>7, <2>8, <2>9, <2>10, <2>11, <2>12, <2>13,
       <2>14 DEF Next, Goroutine, Collect
<1> QED BY <1>1, <1>2, PTL DEF Spec

-----------------------------------------------------------------------------
\* How far sending and adding have come, as numbers.
LEMMA Positions ==
  ASSUME SequenceTypeOK
  PROVE  total \in Nat /\ next \in Nat /\ Len(payloads) \in Nat /\ packetCount = Len(payloads)
<1>1. Len(payloads) \in Nat /\ packetCount = Len(payloads)
  BY LenProperties DEF SequenceTypeOK
<1>2. total \in 0..Len(payloads) /\ next \in 0..total
  BY DEF SequenceTypeOK
<1> QED BY <1>1, <1>2

\* The types hold, and an index under way is in range.
LEMMA TypeCorrect == Spec => [](SequenceTypeOK /\ Loop)
<1>1. Init => SequenceTypeOK
  BY SequenceAssumption, EmptySeq DEF Init, Fresh, SequenceTypeOK, Errors
<1>2. SequenceTypeOK /\ Loop /\ [Next]_vars => SequenceTypeOK'
  <2> SUFFICES ASSUME SequenceTypeOK, Loop, [Next]_vars PROVE SequenceTypeOK'
    OBVIOUS
  <2>1. CASE OpenInterface
    BY <2>1 DEF OpenInterface, pyVars, SequenceTypeOK
  <2>2. ASSUME NEW r \in Results, NEW to \in {"sending", "closing"}, Publish(r, to),
               UNCHANGED <<total, err, wire, outcomes, pyVars>>, next' \in 0..total
        PROVE  SequenceTypeOK'
    <3>1. /\ progressCh' \in Seq(Results) /\ Len(progressCh') <= ProgressCap
          /\ published' \in Seq(Results)
      <4>1. CASE closed /\ Panic
        BY <4>1 DEF Panic, SequenceTypeOK
      <4>2. CASE ~(closed /\ Panic)
        <5>1. Len(progressCh) < ProgressCap /\ progressCh' = Append(progressCh, r)
              /\ published' = Append(published, r)
          BY <2>2, <4>2 DEF Publish
        <5>2. progressCh \in Seq(Results) /\ published \in Seq(Results)
          BY DEF SequenceTypeOK
        <5>3. Len(progressCh') = Len(progressCh) + 1 /\ Len(progressCh) \in Nat
          BY <5>1, <5>2, AppendProperties, LenProperties
        <5>4. Len(progressCh') <= ProgressCap
          BY <5>1, <5>3, SequenceAssumption
        <5> QED BY <5>1, <5>2, <5>4, AppendProperties
      <4> QED BY <4>1, <4>2
    <3>2. /\ goroutine' \in {"sending", "closing", "panicked"}
          /\ caller' \in {"idle", "asking", "waiting", "last", "dead"}
      BY <2>2 DEF Publish, Panic, SequenceTypeOK
    <3> QED BY <2>2, <3>1, <3>2 DEF pyVars, SequenceTypeOK
  <2>3. CASE ReportOpenFailure
    <3>1. Result(0, "failed") \in Results
      BY DEF Result, Results, Errors
    <3>2. next' \in 0..total
      BY <2>3 DEF ReportOpenFailure, SequenceTypeOK
    <3> QED BY <2>2, <2>3, <3>1, <3>2 DEF ReportOpenFailure
  <2>4. CASE SendSinglePacket
    <3>1. err' \in Errors
      BY <2>4 DEF SendSinglePacket, Errors
    <3>2. wire' \in Seq(Nat)
      <4>1. next \in Nat /\ wire \in Seq(Nat)
        BY Positions DEF SequenceTypeOK
      <4>2. wire' = wire \/ wire' = Append(wire, next)
        BY <2>4 DEF SendSinglePacket
      <4> QED BY <4>1, <4>2, AppendProperties
    <3>3. outcomes' \in Seq(Errors)
      BY <2>4, <3>1, AppendProperties DEF SendSinglePacket, SequenceTypeOK
    <3>4. goroutine' = "reporting"
          /\ UNCHANGED <<progressCh, total, next, published, pyVars, caller>>
      BY <2>4 DEF SendSinglePacket
    <3> QED BY <3>1, <3>2, <3>3, <3>4 DEF pyVars, SequenceTypeOK
  <2>5. CASE ReportProgress
    <3>1. Result(next, err) \in Results
      BY Positions DEF Result, Results, SequenceTypeOK
    <3>2. next' \in 0..total
      BY <2>5 DEF ReportProgress, NextPacket, SequenceTypeOK, Loop
    <3> QED BY <2>2, <2>5, <3>1, <3>2 DEF ReportProgress, ReportedFailure, NextPacket
  <2>6. CASE ReportElapsed
    <3>1. Result(total - 1, "nil") \in Results
      <4>1. total - 1 \in Nat
        BY <2>6 DEF ReportElapsed, SequenceTypeOK, Loop
      <4> QED BY <4>1 DEF Result, Results, Errors
    <3>2. next' \in 0..total /\ UNCHANGED <<total, err, wire, outcomes, pyVars>>
      BY <2>6 DEF ReportElapsed, SequenceTypeOK
    <3>3. CASE Publish(Result(total - 1, "nil"), "closing")
      BY <2>2, <3>1, <3>2, <3>3
    <3>4. CASE goroutine' = "closing" /\ UNCHANGED <<progressCh, published, caller>>
      BY <3>2, <3>4 DEF pyVars, SequenceTypeOK
    <3> QED BY <2>6, <3>3, <3>4 DEF ReportElapsed, AfterFinish
  <2>7. CASE CloseProgress \/ SetComplete
    BY <2>7 DEF CloseProgress, SetComplete, AfterComplete, pyVars, SequenceTypeOK
  <2>8. CASE AskComplete
    BY <2>8 DEF AskComplete, goVars, pyVars, SequenceTypeOK
  <2>9. CASE TakeResult \/ TakeLastResult
    <3>1. results' \in Seq(Results) /\ progressCh' \in Seq(Results)
          /\ Len(progressCh') <= ProgressCap
      <4>1. CASE UNCHANGED <<results, progressCh>>
        BY <4>1 DEF SequenceTypeOK
      <4>2. CASE ~UNCHANGED <<results, progressCh>>
        <5>1. progressCh # <<>> /\ results' = Append(results, Head(progressCh))
              /\ progressCh' = Tail(progressCh)
          BY <2>9, <4>2 DEF TakeResult, TakeLastResult, GetNextResult, OldestResult
        <5>2. results \in Seq(Results) /\ progressCh \in Seq(Results)
              /\ Len(progressCh) <= ProgressCap
          BY DEF SequenceTypeOK
        <5>3. /\ Head(progressCh) \in Results /\ Tail(progressCh) \in Seq(Results)
              /\ Len(Tail(progressCh)) = Len(progressCh) - 1 /\ Len(progressCh) \in Nat
          BY <5>1, <5>2, HeadTailProperties, LenProperties
        <5>4. Len(progressCh') <= ProgressCap
          BY <5>1, <5>2, <5>3, SequenceAssumption
        <5> QED BY <5>1, <5>2, <5>3, <5>4, AppendProperties
      <4> QED BY <4>1, <4>2
    <3>2. caller' \in {"asking", "idle"}
          /\ UNCHANGED <<goroutine, total, next, err, wire, outcomes, published, payloads,
                         packetCount, sends>>
      BY <2>9 DEF TakeResult, TakeLastResult, GetNextResult
    <3> QED BY <3>1, <3>2 DEF SequenceTypeOK
  <2>10. ASSUME NEW n \in Lengths, AddPacket(n) PROVE SequenceTypeOK'
    <3>1. payloads' \in Seq(Nat) /\ Len(payloads') = Len(payloads) + 1
      <4>1. n \in Nat
        BY SequenceAssumption
      <4> QED BY <2>10, <4>1, AppendProperties DEF AddPacket, SequenceTypeOK
    <3>2. packetCount' = packetCount + 1 /\ UNCHANGED <<goVars, caller, results, sends>>
      BY <2>10 DEF AddPacket
    <3>3. packetCount' = Len(payloads') /\ total' \in 0..Len(payloads') /\ next' \in 0..total'
      <4>1. total \in 0..Len(payloads) /\ next \in 0..total /\ UNCHANGED <<total, next>>
        BY <3>2 DEF goVars, SequenceTypeOK
      <4> QED BY <3>1, <3>2, <4>1, Positions
    <3> QED BY <3>1, <3>2, <3>3 DEF goVars, SequenceTypeOK
  <2>11. CASE Send
    <3>1. Len(payloads) \in Nat
      BY LenProperties DEF SequenceTypeOK
    <3> QED BY <2>11, <3>1, EmptySeq DEF Send, SequenceTypeOK
  <2>12. CASE Clear
    BY <2>12, SequenceAssumption, EmptySeq DEF Clear, SequenceTypeOK, Errors
  <2>13. CASE UNCHANGED vars
    BY <2>13 DEF vars, goVars, pyVars, SequenceTypeOK
  <2> QED
    BY <2>1, <2>3, <2>4, <2>5, <2>6, <2>7, <2>8, <2>9, <2>10, <2>11, <2>12, <2>13
    DEF Next, Goroutine, Collect
<1>3. Init => Loop
  BY DEF Init, Fresh, Loop
<1>4. SequenceTypeOK /\ Loop /\ [Next]_vars => Loop'
  <2> SUFFICES ASSUME SequenceTypeOK, Loop, [Next]_vars PROVE Loop'
    OBVIOUS
  <2>1. CASE Goroutine
    BY <2>1 DEF Goroutine, OpenInterface, ReportOpenFailure, SendSinglePacket, ReportProgress,
                ReportElapsed, CloseProgress, SetComplete, Publish, Panic, AfterFinish,
                AfterComplete, Loop
  <2>2. CASE Collect
    BY <2>2 DEF Collect, AskComplete, TakeResult, TakeLastResult, GetNextResult, goVars, Loop
  <2>3. ASSUME NEW n \in Lengths, AddPacket(n) PROVE Loop'
    BY <2>3 DEF AddPacket, goVars, Loop
  <2>4. CASE Send
    <3>1. Len(payloads) > 0
      BY <2>4, EmptySeq DEF Send, SequenceTypeOK
    <3> QED BY <2>4, <3>1 DEF Send, Loop
  <2>5. CASE Clear
    BY <2>5 DEF Clear, Loop
  <2>6. CASE UNCHANGED vars
    BY <2>6 DEF vars, goVars, Loop
  <2> QED BY <2>1, <2>2, <2>3, <2>4, <2>5, <2>6 DEF Next
<1> QED BY <1>1, <1>2, <1>3, <1>4, PTL DEF Spec

-----------------------------------------------------------------------------
\* The extra GetNextResult of send() does not wait (transmit.py 488).
THEOREM LastResultDoesNotBlockHolds == Spec => []LastResultDoesNotBlock
<1>1. Init => LastResultDoesNotBlock
  BY DEF Init, LastResultDoesNotBlock
<1>2. Control /\ LastResultDoesNotBlock /\ [Next]_vars => LastResultDoesNotBlock'
  <2> SUFFICES ASSUME Control, LastResultDoesNotBlock, [Next]_vars, caller' = "last"
               PROVE  closed'
    BY DEF LastResultDoesNotBlock
  <2>1. CASE caller = "last"
    <3>1. closed
      BY <2>1 DEF LastResultDoesNotBlock
    <3>2. UNCHANGED closed \/ closed' = TRUE
      BY <2>1 DEF Next, Goroutine, OpenInterface, ReportOpenFailure, SendSinglePacket,
                  ReportProgress, ReportElapsed, CloseProgress, SetComplete, Collect, AskComplete,
                  TakeResult, TakeLastResult, GetNextResult, AddPacket, Send, Clear, vars, goVars
    <3> QED BY <3>1, <3>2
  <2>2. CASE caller # "last"
    <3>1. AskComplete
      BY <2>2 DEF Next, Goroutine, OpenInterface, ReportOpenFailure, SendSinglePacket,
                  ReportProgress, ReportElapsed, CloseProgress, SetComplete, Publish, Panic,
                  Collect, TakeResult, TakeLastResult, GetNextResult, AddPacket, Send, Clear, vars
    <3>2. isComplete /\ UNCHANGED closed
      BY <3>1 DEF AskComplete, goVars
    <3> QED BY <3>2 DEF Control
  <2> QED BY <2>1, <2>2
<1> QED BY <1>1, <1>2, ControlHolds, PTL DEF Spec

\* Only a second Send sends on the closed channel (core/transmit.go 407).
THEOREM NoPanicInFirstSendHolds == Spec => []NoPanicInFirstSend
<1>1. Control => NoPanicInFirstSend
  BY DEF Control, NoPanicInFirstSend
<1> QED BY <1>1, ControlHolds, PTL

-----------------------------------------------------------------------------
\* Appending to the second sequence appends to both.
LEMMA AppendToConcat ==
  ASSUME NEW S, NEW s \in Seq(S), NEW t \in Seq(S), NEW e \in S
  PROVE  s \o Append(t, e) = Append(s \o t, e)
<1>1. <<e>> \in Seq(S) /\ s \o t \in Seq(S)
  BY ConcatProperties
<1>2. s \o (t \o <<e>>) = (s \o t) \o <<e>>
  BY <1>1, ConcatAssociative
<1> QED BY <1>1, <1>2, AppendIsConcat

\* The head of the second sequence moves to the end of the first.
LEMMA HeadMovesOver ==
  ASSUME NEW S, NEW s \in Seq(S), NEW t \in Seq(S), t # <<>>
  PROVE  Append(s, Head(t)) \o Tail(t) = s \o t
<1>1. Head(t) \in S /\ Tail(t) \in Seq(S) /\ <<Head(t)>> \in Seq(S)
  BY HeadTailProperties
<1>2. Append(s, Head(t)) = s \o <<Head(t)>>
  BY <1>1, AppendIsConcat
<1>3. (s \o <<Head(t)>>) \o Tail(t) = s \o (<<Head(t)>> \o Tail(t))
  BY <1>1, ConcatAssociative
<1>4. <<Head(t)>> \o Tail(t) = t
  OBVIOUS
<1> QED BY <1>2, <1>3, <1>4

\* send() returns the results in the order they were reported, each once.
THEOREM ResultsInOrderHolds == Spec => []ResultsInOrder
<1>1. Init => ResultsInOrder
  BY DEF Init, Fresh, ResultsInOrder
<1>2. SequenceTypeOK /\ Loop /\ Control /\ ResultsInOrder /\ [Next]_vars => ResultsInOrder'
  <2> SUFFICES ASSUME SequenceTypeOK, Loop, Control, ResultsInOrder, [Next]_vars, sends' = 1
               PROVE  (results \o progressCh = published)'
    BY DEF ResultsInOrder
  <2>1. results \in Seq(Results) /\ progressCh \in Seq(Results) /\ published \in Seq(Results)
    BY DEF SequenceTypeOK
  <2>2. ASSUME NEW r \in Results, NEW to, Publish(r, to), UNCHANGED <<results, sends>>
        PROVE  (results \o progressCh = published)'
    <3>1. results \o progressCh = published
      BY <2>2 DEF ResultsInOrder
    <3>2. CASE closed
      BY <2>2, <3>1, <3>2 DEF Publish, Panic
    <3>3. CASE ~closed
      <4>1. progressCh' = Append(progressCh, r) /\ published' = Append(published, r)
        BY <2>2, <3>3 DEF Publish
      <4>2. results \o Append(progressCh, r) = Append(results \o progressCh, r)
        BY <2>1, <2>2, AppendToConcat
      <4> QED BY <2>2, <3>1, <4>1, <4>2
    <3> QED BY <3>2, <3>3
  <2>3. CASE ReportOpenFailure
    <3>1. Result(0, "failed") \in Results
      BY DEF Result, Results, Errors
    <3> QED BY <2>2, <2>3, <3>1 DEF ReportOpenFailure, pyVars
  <2>4. CASE ReportProgress
    <3>1. Result(next, ReportedFailure) \in Results
      BY Positions DEF Result, Results, ReportedFailure, SequenceTypeOK
    <3> QED BY <2>2, <2>4, <3>1 DEF ReportProgress, pyVars
  <2>5. CASE ReportElapsed
    <3>1. Result(total - 1, "nil") \in Results
      <4>1. total - 1 \in Nat
        BY <2>5, Positions DEF ReportElapsed, Loop
      <4> QED BY <4>1 DEF Result, Results, Errors
    <3>2. UNCHANGED <<results, sends>>
      BY <2>5 DEF ReportElapsed, pyVars
    <3>3. CASE UNCHANGED <<progressCh, published>>
      BY <3>2, <3>3 DEF ResultsInOrder
    <3> QED BY <2>2, <2>5, <3>1, <3>2, <3>3 DEF ReportElapsed
  <2>6. CASE OpenInterface \/ SendSinglePacket \/ CloseProgress \/ SetComplete \/ AskComplete
    BY <2>6 DEF OpenInterface, SendSinglePacket, CloseProgress, SetComplete, AskComplete, goVars,
                pyVars, ResultsInOrder
  <2>7. CASE TakeResult \/ TakeLastResult
    <3>1. results \o progressCh = published /\ UNCHANGED published
      BY <2>7 DEF TakeResult, TakeLastResult, GetNextResult, ResultsInOrder
    <3>2. CASE UNCHANGED <<results, progressCh>>
      BY <3>1, <3>2
    <3>3. CASE progressCh # <<>> /\ results' = Append(results, Head(progressCh))
               /\ progressCh' = Tail(progressCh)
      BY <2>1, <3>1, <3>3, HeadMovesOver
    <3> QED BY <2>7, <3>2, <3>3 DEF TakeResult, TakeLastResult, GetNextResult, OldestResult
  <2>8. ASSUME NEW n \in Lengths, AddPacket(n) PROVE (results \o progressCh = published)'
    BY <2>8 DEF AddPacket, goVars, ResultsInOrder
  <2>9. CASE Send
    <3>1. sends = 0 /\ results' = <<>> /\ UNCHANGED <<progressCh, published>>
      BY <2>9 DEF Send, Control
    <3>2. progressCh = <<>> /\ published = <<>>
      BY <3>1 DEF Control
    <3> QED BY <2>1, <3>1, <3>2, ConcatEmptySeq
  <2>10. CASE Clear
    BY <2>10 DEF Clear
  <2>11. CASE UNCHANGED vars
    BY <2>11 DEF vars, goVars, pyVars, ResultsInOrder
  <2> QED
    BY <2>3, <2>4, <2>5, <2>6, <2>7, <2>8, <2>9, <2>10, <2>11 DEF Next, Goroutine, Collect
<1> QED BY <1>1, <1>2, TypeCorrect, ControlHolds, PTL DEF Spec

-----------------------------------------------------------------------------
\* How many outcomes and results there are, by where the goroutine is.
Ledger ==
  sends = 1 =>
    /\ Len(outcomes) <= total
    /\ goroutine \in {"opening", "open failed"} =>
         next = 0 /\ outcomes = <<>> /\ published = <<>>
    /\ goroutine = "sending" => Len(outcomes) = next /\ Len(published) = next
    /\ goroutine = "reporting" =>
         Len(outcomes) = next + 1 /\ Len(published) = next /\ outcomes[next + 1] = err

\* What has been published, collected and written.
LEMMA LedgerHolds == Spec => []Ledger
<1>1. Init => Ledger
  BY DEF Init, Fresh, Ledger
<1>2. SequenceTypeOK /\ Loop /\ Control /\ Ledger /\ [Next]_vars => Ledger'
  <2> SUFFICES ASSUME SequenceTypeOK, Loop, Control, Ledger, [Next]_vars, sends' = 1
               PROVE  Ledger'
    BY DEF Ledger
  <2>1. outcomes \in Seq(Errors) /\ published \in Seq(Results)
        /\ Len(outcomes) \in Nat /\ Len(published) \in Nat
    BY LenProperties DEF SequenceTypeOK
  <2>2. CASE OpenInterface
    BY <2>2 DEF OpenInterface, pyVars, Ledger
  <2>3. CASE ReportOpenFailure
    <3>1. goroutine' \in {"closing", "panicked"} /\ UNCHANGED <<outcomes, total, sends>>
      BY <2>3 DEF ReportOpenFailure, Publish, Panic, pyVars
    <3> QED BY <3>1 DEF Ledger
  <2>4. CASE SendSinglePacket
    <3>1. /\ goroutine = "sending" /\ next < total /\ goroutine' = "reporting"
          /\ outcomes' = Append(outcomes, err') /\ UNCHANGED <<next, total, published, sends>>
      BY <2>4 DEF SendSinglePacket, pyVars
    <3>2. err' \in Errors
      BY <2>4 DEF SendSinglePacket, Errors
    <3>3. Len(outcomes) = next /\ Len(published) = next
      BY <3>1 DEF Ledger
    <3>4. Len(outcomes') = next + 1 /\ outcomes'[next + 1] = err'
      BY <2>1, <3>1, <3>2, <3>3, AppendProperties
    <3>5. next + 1 <= total
      BY <3>1, Positions
    <3> QED BY <3>1, <3>3, <3>4, <3>5 DEF Ledger
  <2>5. CASE ReportProgress
    <3>1. goroutine = "reporting" /\ next' = next + 1 /\ UNCHANGED <<total, outcomes, sends>>
      BY <2>5 DEF ReportProgress, NextPacket, pyVars
    <3>2. Len(outcomes) = next + 1 /\ Len(published) = next /\ Len(outcomes) <= total
      BY <3>1 DEF Ledger
    <3>3. CASE closed
      <4>1. goroutine' = "panicked"
        BY <2>5, <3>3 DEF ReportProgress, Publish, Panic
      <4> QED BY <3>1, <3>2, <4>1 DEF Ledger
    <3>4. CASE ~closed
      <4>1. goroutine' = "sending" /\ published' = Append(published, Result(next, err))
        BY <2>5, <3>4 DEF ReportProgress, Publish, ReportedFailure
      <4>2. Result(next, err) \in Results
        BY Positions DEF Result, Results, SequenceTypeOK
      <4>3. Len(published') = next + 1
        BY <2>1, <3>2, <4>1, <4>2, AppendProperties
      <4> QED BY <3>1, <3>2, <4>1, <4>3 DEF Ledger
    <3> QED BY <3>3, <3>4
  <2>6. CASE ReportElapsed \/ CloseProgress \/ SetComplete
    <3>1. goroutine' \in {"closing", "panicked", "flagging", "off"}
          /\ UNCHANGED <<outcomes, total, sends>>
      BY <2>6 DEF ReportElapsed, CloseProgress, SetComplete, AfterFinish, AfterComplete, Publish,
                  Panic, pyVars
    <3> QED BY <3>1 DEF Ledger
  <2>7. CASE Collect \/ (\E n \in Lengths : AddPacket(n)) \/ UNCHANGED vars
    BY <2>7 DEF Collect, AskComplete, TakeResult, TakeLastResult, GetNextResult, AddPacket, vars,
                goVars, pyVars, Ledger
  <2>8. CASE Send
    <3>1. sends = 0 /\ goroutine' = "opening" /\ next' = 0 /\ total' = Len(payloads)
          /\ UNCHANGED <<outcomes, published>>
      BY <2>8 DEF Send, Control
    <3>2. outcomes = <<>> /\ published = <<>>
      BY <3>1 DEF Control
    <3>3. Len(outcomes') <= total'
      BY <3>1, <3>2, Positions, EmptySeq
    <3> QED BY <3>1, <3>2, <3>3 DEF Ledger
  <2>9. CASE Clear
    BY <2>9 DEF Clear
  <2> QED
    BY <2>2, <2>3, <2>4, <2>5, <2>6, <2>7, <2>8, <2>9 DEF Next, Goroutine
<1> QED BY <1>1, <1>2, TypeCorrect, ControlHolds, PTL DEF Spec

\* The results tell which packets failed (core/transmit.go 376-388).
THEOREM ResultsAreTrueHolds == Spec => []ResultsAreTrue
<1> DEFINE True(k) ==
      \/ k <= Len(outcomes) /\ published[k] = Result(k - 1, outcomes[k])
      \/ k = total + 1 /\ published[k] = Result(total - 1, "nil")
      \/ k = 1 /\ outcomes = <<>> /\ published[k] = Result(0, "failed")
<1>1. Init => ResultsAreTrue
  BY DEF Init, Fresh, ResultsAreTrue
<1>2. SequenceTypeOK /\ Loop /\ Control /\ Ledger /\ ResultsAreTrue /\ [Next]_vars
        => ResultsAreTrue'
  <2> SUFFICES ASSUME SequenceTypeOK, Loop, Control, Ledger, ResultsAreTrue, [Next]_vars,
                      sends' = 1, NEW k \in DOMAIN published'
               PROVE  True(k)'
    BY DEF ResultsAreTrue
  <2>1. outcomes \in Seq(Errors) /\ published \in Seq(Results)
        /\ Len(outcomes) \in Nat /\ Len(published) \in Nat
        /\ DOMAIN published = 1..Len(published)
    BY LenProperties DEF SequenceTypeOK
  <2>2. ASSUME sends = 1, UNCHANGED <<outcomes, published, total>> PROVE True(k)'
    BY <2>2 DEF ResultsAreTrue
  \* A new result at the end: the others are as they were.
  <2>3. ASSUME NEW r \in Results, NEW to, Publish(r, to), UNCHANGED <<outcomes, total, sends>>,
               k = Len(published) + 1 =>
                 \/ k <= Len(outcomes) /\ r = Result(k - 1, outcomes[k])
                 \/ k = total + 1 /\ r = Result(total - 1, "nil")
                 \/ k = 1 /\ outcomes = <<>> /\ r = Result(0, "failed")
        PROVE  True(k)'
    <3>1. CASE closed
      BY <2>2, <2>3, <3>1 DEF Publish, Panic
    <3>2. CASE ~closed
      <4>1. published' = Append(published, r)
        BY <2>3, <3>2 DEF Publish
      <4>2. k \in 1..(Len(published) + 1)
        BY <2>1, <2>3, <4>1, AppendProperties, LenProperties
      <4>3. CASE k \in DOMAIN published
        <5>1. published'[k] = published[k]
          BY <2>1, <2>3, <4>1, <4>3, AppendProperties
        <5>2. True(k)
          BY <2>3, <4>3 DEF ResultsAreTrue
        <5> QED BY <2>3, <5>1, <5>2
      <4>4. CASE k = Len(published) + 1
        <5>1. published'[k] = r
          BY <2>1, <2>3, <4>1, <4>4, AppendProperties
        <5> QED BY <2>3, <4>4, <5>1
      <4> QED BY <2>1, <4>2, <4>3, <4>4
    <3> QED BY <3>1, <3>2
  <2>4. CASE ReportOpenFailure
    <3>1. Result(0, "failed") \in Results
      BY DEF Result, Results, Errors
    <3>2. outcomes = <<>> /\ Len(published) = 0
      BY <2>4, EmptySeq DEF ReportOpenFailure, pyVars, Ledger
    <3>3. k = Len(published) + 1 => k = 1 /\ outcomes = <<>>
      BY <3>2
    <3>4. Publish(Result(0, "failed"), "closing") /\ UNCHANGED <<outcomes, total, sends>>
      BY <2>4 DEF ReportOpenFailure, pyVars
    <3> QED BY <2>3, <3>1, <3>3, <3>4
  <2>5. CASE ReportProgress
    <3>1. Result(next, err) \in Results
      BY Positions DEF Result, Results, SequenceTypeOK
    <3>2. Len(published) = next /\ Len(outcomes) = next + 1 /\ outcomes[next + 1] = err
      BY <2>5 DEF ReportProgress, pyVars, Ledger
    <3>3. k = Len(published) + 1 => k <= Len(outcomes) /\ Result(next, err) = Result(k - 1, outcomes[k])
      BY <2>1, <3>2
    <3> QED BY <2>3, <2>5, <3>1, <3>3 DEF ReportProgress, ReportedFailure, pyVars
  <2>6. CASE ReportElapsed
    <3>1. goroutine = "sending" /\ next >= total /\ UNCHANGED <<outcomes, total, sends>>
      BY <2>6 DEF ReportElapsed, pyVars
    <3>2. Len(published) = next /\ next = total
      BY <3>1, Positions DEF Ledger, SequenceTypeOK
    <3>3. Result(total - 1, "nil") \in Results
      <4>1. total - 1 \in Nat
        BY <3>1, Positions DEF Loop
      <4> QED BY <4>1 DEF Result, Results, Errors
    <3>4. CASE UNCHANGED published
      BY <2>2, <3>1, <3>4
    <3> QED BY <2>3, <2>6, <3>1, <3>2, <3>3, <3>4 DEF ReportElapsed
  <2>7. CASE SendSinglePacket
    <3>1. goroutine = "sending" /\ next < total /\ outcomes' = Append(outcomes, err')
          /\ err' \in Errors /\ UNCHANGED <<published, total, sends>>
      BY <2>7 DEF SendSinglePacket, pyVars, Errors
    <3>2. Len(outcomes) = next /\ Len(published) = next
      BY <3>1 DEF Ledger
    <3>3. k \in 1..next /\ k # total + 1
      BY <2>1, <3>1, <3>2, Positions
    <3>4. True(k)
      BY <2>1, <3>1, <3>2, <3>3 DEF ResultsAreTrue
    <3>5. outcomes # <<>>
      BY <3>2, <3>3, EmptySeq
    <3>6. published[k] = Result(k - 1, outcomes[k])
      BY <3>3, <3>4, <3>5
    <3>7. Len(outcomes') = next + 1 /\ outcomes'[k] = outcomes[k]
      BY <2>1, <3>1, <3>2, <3>3, AppendProperties
    <3>8. k <= Len(outcomes') /\ published'[k] = Result(k - 1, outcomes'[k])
      <4>1. k <= next + 1
        BY <3>1, <3>3, Positions
      <4> QED BY <3>1, <3>6, <3>7, <4>1
    <3> QED BY <3>8
  <2>8. CASE OpenInterface \/ CloseProgress \/ SetComplete \/ Collect
             \/ (\E n \in Lengths : AddPacket(n)) \/ UNCHANGED vars
    <3>1. UNCHANGED <<outcomes, published, total, sends>>
      BY <2>8 DEF OpenInterface, CloseProgress, SetComplete, Collect, AskComplete, TakeResult,
                  TakeLastResult, GetNextResult, AddPacket, vars, goVars, pyVars
    <3> QED BY <2>2, <3>1
  <2>9. CASE Send
    <3>1. sends = 0 /\ UNCHANGED published
      BY <2>9 DEF Send, Control
    <3>2. published = <<>>
      BY <3>1 DEF Control
    <3>3. DOMAIN published' = {}
      BY <2>1, <3>1, <3>2, EmptySeq
    <3> QED BY <3>3
  <2>10. CASE Clear
    BY <2>10 DEF Clear
  <2> QED
    BY <2>4, <2>5, <2>6, <2>7, <2>8, <2>9, <2>10 DEF Next, Goroutine
<1> QED BY <1>1, <1>2, TypeCorrect, ControlHolds, LedgerHolds, PTL DEF Spec

-----------------------------------------------------------------------------
\* Packets go out in order and none twice, short ones never, and one that is said
\* to be sent was written (core/transmit.go 376-388).
THEOREM WireInOrderHolds == Spec => []WireInOrder
<1>1. Init => WireInOrder
  <2> SUFFICES ASSUME Init PROVE WireInOrder
    OBVIOUS
  <2>1. sends = 0
    BY DEF Init, Fresh
  <2> QED BY <2>1 DEF WireInOrder
<1>2. SequenceTypeOK /\ Control /\ Ledger /\ WireInOrder /\ [Next]_vars => WireInOrder'
  <2> SUFFICES ASSUME SequenceTypeOK, Control, Ledger, WireInOrder, [Next]_vars, sends' = 1
               PROVE  WireInOrder'
    BY DEF WireInOrder
  <2>1. /\ outcomes \in Seq(Errors) /\ wire \in Seq(Nat) /\ payloads \in Seq(Nat)
        /\ Len(outcomes) \in Nat /\ Len(wire) \in Nat /\ Len(payloads) \in Nat
        /\ DOMAIN outcomes = 1..Len(outcomes) /\ DOMAIN wire = 1..Len(wire)
    BY LenProperties DEF SequenceTypeOK
  <2>2. ASSUME sends = 1, UNCHANGED <<outcomes, wire, payloads>> PROVE WireInOrder'
    BY <2>2 DEF WireInOrder
  <2>3. CASE SendSinglePacket
    <3>1. /\ goroutine = "sending" /\ next < total /\ outcomes' = Append(outcomes, err')
          /\ err' \in Errors /\ UNCHANGED <<payloads, sends>>
      BY <2>3 DEF SendSinglePacket, pyVars, Errors
    <3>2. Len(outcomes) = next /\ next \in Nat
      BY <3>1, Positions DEF Ledger
    <3>3. /\ DOMAIN outcomes' = 1..(next + 1) /\ outcomes'[next + 1] = err'
          /\ \A k \in 1..next : outcomes'[k] = outcomes[k]
      <4>1. outcomes' \in Seq(Errors) /\ Len(outcomes') = next + 1
        BY <2>1, <3>1, <3>2, AppendProperties
      <4>2. outcomes'[next + 1] = err' /\ \A k \in 1..next : outcomes'[k] = outcomes[k]
        BY <2>1, <3>1, <3>2, AppendProperties
      <4>3. DOMAIN outcomes' = 1..(next + 1)
        BY <4>1, LenProperties
      <4> QED BY <4>2, <4>3
    <3>4. /\ \A k, m \in DOMAIN wire : k < m => wire[k] < wire[m]
          /\ \A k \in DOMAIN wire : wire[k] < next /\ payloads[wire[k] + 1] >= MinPayloadSize
          /\ \A k \in 1..next : outcomes[k] = "nil" => \E m \in DOMAIN wire : wire[m] = k - 1
      BY <2>1, <3>1, <3>2 DEF WireInOrder
    <3>5. \A k \in DOMAIN wire : wire[k] \in Nat
      BY <2>1, ElementOfSeq
    <3>6. Len(outcomes') = next + 1
      BY <2>1, <3>1, <3>2, AppendProperties
    <3>7. CASE err' = "failed" /\ UNCHANGED wire
      <4>1. \A k \in DOMAIN wire :
              wire[k] < Len(outcomes') /\ payloads[wire[k] + 1] >= MinPayloadSize
        BY <3>2, <3>4, <3>5, <3>6
      <4>2. \A k \in DOMAIN outcomes' :
              outcomes'[k] = "nil" => \E m \in DOMAIN wire : wire[m] = k - 1
        BY <3>2, <3>3, <3>4, <3>7
      <4> QED BY <3>1, <3>4, <3>7, <4>1, <4>2 DEF WireInOrder
    <3>8. CASE payloads[next + 1] >= MinPayloadSize /\ wire' = Append(wire, next)
      <4>2. /\ DOMAIN wire' = 1..(Len(wire) + 1) /\ wire'[Len(wire) + 1] = next
            /\ \A k \in 1..Len(wire) : wire'[k] = wire[k]
        BY <2>1, <3>2, <3>8, AppendProperties, LenProperties
      <4>3. ASSUME NEW k \in DOMAIN wire', NEW m \in DOMAIN wire', k < m
            PROVE  wire'[k] < wire'[m]
        <5>1. k \in 1..Len(wire) /\ wire'[k] = wire[k]
          BY <2>1, <4>2, <4>3
        <5>2. CASE m \in 1..Len(wire)
          <6>1. wire[k] < wire[m] /\ wire'[m] = wire[m]
            BY <2>1, <3>4, <4>2, <4>3, <5>1, <5>2
          <6> QED BY <5>1, <6>1
        <5>3. CASE m = Len(wire) + 1
          <6>1. wire[k] < next /\ wire'[m] = next
            BY <2>1, <3>4, <4>2, <5>1, <5>3
          <6> QED BY <5>1, <6>1
        <5> QED BY <2>1, <4>2, <5>2, <5>3
      <4>4. ASSUME NEW k \in DOMAIN wire'
            PROVE  wire'[k] < Len(outcomes') /\ payloads[wire'[k] + 1] >= MinPayloadSize
        <5>1. CASE k \in 1..Len(wire)
          BY <2>1, <3>2, <3>4, <3>5, <3>6, <4>2, <5>1
        <5>2. CASE k = Len(wire) + 1
          BY <3>2, <3>6, <3>8, <4>2, <5>2
        <5> QED BY <2>1, <4>2, <5>1, <5>2
      <4>5. ASSUME NEW k \in DOMAIN outcomes', outcomes'[k] = "nil"
            PROVE  \E m \in DOMAIN wire' : wire'[m] = k - 1
        <5>1. CASE k \in 1..next
          <6>1. PICK m \in DOMAIN wire : wire[m] = k - 1
            BY <3>3, <3>4, <4>5, <5>1
          <6>2. m \in DOMAIN wire' /\ wire'[m] = wire[m]
            BY <2>1, <4>2
          <6> QED BY <6>1, <6>2
        <5>2. CASE k = next + 1
          <6>1. Len(wire) + 1 \in DOMAIN wire' /\ wire'[Len(wire) + 1] = k - 1
            BY <2>1, <3>2, <4>2, <5>2
          <6> QED BY <6>1
        <5> QED BY <3>2, <3>3, <5>1, <5>2
      <4> QED BY <3>1, <4>3, <4>4, <4>5 DEF WireInOrder
    <3> QED BY <2>3, <3>7, <3>8 DEF SendSinglePacket
  <2>4. CASE \E n \in Lengths : AddPacket(n)
    <3>1. PICK n \in Lengths : payloads' = Append(payloads, n)
      BY <2>4 DEF AddPacket
    <3>2. sends = 1 /\ UNCHANGED <<outcomes, wire>>
      BY <2>4 DEF AddPacket, goVars
    <3>3. Len(outcomes) <= Len(payloads)
      <4>1. Len(outcomes) <= total /\ total \in 0..Len(payloads)
        BY <3>2 DEF Ledger, SequenceTypeOK
      <4> QED BY <2>1, <4>1
    <3>4. \A k \in 1..Len(payloads) : payloads'[k] = payloads[k]
      BY <2>1, <3>1, SequenceAssumption, AppendProperties
    <3>5. ASSUME NEW k \in DOMAIN wire
          PROVE  payloads'[wire[k] + 1] = payloads[wire[k] + 1]
      <4>1. wire[k] \in Nat /\ wire[k] < Len(outcomes)
        BY <2>1, <3>2, ElementOfSeq DEF WireInOrder
      <4>2. wire[k] + 1 \in 1..Len(payloads)
        BY <2>1, <3>3, <4>1
      <4> QED BY <3>4, <4>2
    <3> QED BY <3>2, <3>5 DEF WireInOrder
  <2>5. CASE Send
    <3>1. sends = 0 /\ UNCHANGED <<outcomes, wire>>
      BY <2>5 DEF Send, Control
    <3>2. outcomes = <<>> /\ wire = <<>>
      BY <3>1 DEF Control
    <3>3. DOMAIN outcomes' = {} /\ DOMAIN wire' = {}
      BY <2>1, <3>1, <3>2, EmptySeq
    <3> QED BY <3>3 DEF WireInOrder
  <2>6. CASE Clear
    BY <2>6 DEF Clear
  <2>7. CASE OpenInterface \/ ReportOpenFailure \/ ReportProgress \/ ReportElapsed
             \/ CloseProgress \/ SetComplete \/ Collect \/ UNCHANGED vars
    <3>1. UNCHANGED <<outcomes, wire, payloads, sends>>
      BY <2>7 DEF OpenInterface, ReportOpenFailure, ReportProgress, ReportElapsed, CloseProgress,
                  SetComplete, Collect, AskComplete, TakeResult, TakeLastResult, GetNextResult,
                  vars, goVars, pyVars
    <3> QED BY <2>2, <3>1
  <2> QED
    BY <2>3, <2>4, <2>5, <2>6, <2>7 DEF Next, Goroutine
<1> QED BY <1>1, <1>2, TypeCorrect, ControlHolds, LedgerHolds, PTL DEF Spec
=============================================================================
