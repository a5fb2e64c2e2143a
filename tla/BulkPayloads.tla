--------------------------- MODULE BulkPayloads ---------------------------
(***************************************************************************)
(* How lists of Python bytes become the Payloads of a MultiStreamSender    *)
(* (transmit.py, parallel_utils.py, core/send_stream.go,                   *)
(* core/utilities.go).  Threads that share one sender each make one call:  *)
(*                                                                         *)
(*   "flat"     add_batch_payloads_flat: processes flatten the list, the   *)
(*              flat data crosses to Go, goroutines cut it up again        *)
(*   "batch"    add_batch_payloads: processes convert the items; what they *)
(*              return is then added one by one                            *)
(*   "add"      add_payloads: added one by one                             *)
(*   "convert"  convert_payloads                                           *)
(*                                                                         *)
(* Only appends to Payloads, under payloadMutex, are seen by the others;   *)
(* between them every call has a place pc, the tasks of its process pool   *)
(* or goroutines that are still pending, and what these have produced.     *)
(*                                                                         *)
(* Item i of caller c is the sequence of its bytes, each of which knows    *)
(* where it comes from, or NotBytes, something that is no bytes object.    *)
(* The conversion of "batch" gives numbers of Go's byte-slice registry, or *)
(* of the tables of another process, wrapped as handles of this one's:     *)
(* Foreign stands for the bytes these name here, whatever they are.        *)
(* Offsets are (start, length) pairs.  Indices count from 1 here.          *)
(***************************************************************************)
EXTENDS Integers, SequencesExt, FiniteSetsExt

CONSTANTS
  Callers,
  CallsOf(_),    \* the calls a caller may make: [method, items, workers]
  NotBytes,
  Foreign,       \* what a converted item's handle names in this process
  Nil,           \* a result that has not been stored
  FlattenFrom,   \* fewer items are flattened in the process, 10000
  ConvertFrom,   \* fewer items are converted in the process, 1000
  PythonBatch,   \* items that add_batch_payloads adds between two counts, 100000
  DirectBelow,   \* fewer arrays are rebuilt without goroutines, 100
  GoBatch,       \* arrays that AddPayloadsFlat rebuilds at a time, 250000
  AppendBatch,   \* payloads appended under one lock, 10000
  UtilWorkers,   \* GetUtilWorkers() * 2, at most 32
  CopyWorkers    \* runtime.NumCPU() * 2, at most 32

Bytes == Seq(Callers \X Nat \X Nat)

ASSUME SizesPositive ==
  {FlattenFrom, ConvertFrom, PythonBatch, DirectBelow, GoBatch, AppendBatch,
   UtilWorkers, CopyWorkers} \subseteq Nat \ {0}

ASSUME CallsAssumption ==
  \A c \in Callers :
    CallsOf(c) \subseteq [method : {"flat", "batch", "add", "convert"},
                         items : Seq(Nat \cup {NotBytes}), workers : Nat \ {0}]

ASSUME NoBytes ==
  /\ Nil \notin Bytes /\ NotBytes \notin Bytes /\ Foreign \notin Bytes
  /\ Nil # NotBytes /\ Nil # Foreign /\ NotBytes # Foreign

VARIABLES
  payloads,   \* ms.Payloads
  call,       \* call[c]: method, lengths of the items, number of processes
  pc,
  pending,    \* tasks of the pool or the WaitGroup that have not finished
  parts,      \* parts[c][k]: what pool task k returned
  flat,       \* the flattened list: data and offsets
  batchStart, \* arrays of earlier batches
  rebuilt,    \* ReconstructByteArrays' result for this batch
  results,    \* what is still to be appended
  added,      \* payloads this call has appended
  answer      \* what the call returned

vars == <<payloads, call, pc, pending, parts, flat, batchStart, rebuilt, results,
          added, answer>>

Init ==
  /\ payloads = <<>>
  /\ call \in {f \in [Callers -> UNION {CallsOf(c) : c \in Callers}] :
                 \A c \in Callers : f[c] \in CallsOf(c)}
  /\ pc = [c \in Callers |-> "called"]
  /\ pending = [c \in Callers |-> {}]
  /\ parts = [c \in Callers |-> <<>>]
  /\ flat = [c \in Callers |-> [data |-> <<>>, offsets |-> <<>>]]
  /\ batchStart = [c \in Callers |-> 0]
  /\ rebuilt = [c \in Callers |-> <<>>]
  /\ results = [c \in Callers |-> <<>>]
  /\ added = [c \in Callers |-> 0]
  /\ answer = [c \in Callers |-> 0]

-----------------------------------------------------------------------------
CeilDiv(n, d) == (n + d - 1) \div d
Least(a, b) == IF a < b THEN a ELSE b

\* The indices that worker w of a team handles, size each, n in all.
Share(w, size, n) == ((w - 1) * size + 1) .. Least(w * size, n)

\* The workers of a team that get any.
Team(n, workers) ==
  {w \in 1..workers : Share(w, CeilDiv(n, workers), n) # {}}

\* A list cut into the shares of a team.
Chunks(list, workers) ==
  LET size == CeilDiv(Len(list), workers)
  IN [w \in Team(Len(list), workers) |->
        SubSeq(list, (w - 1) * size + 1, Least(w * size, Len(list)))]

\* The elements of a list at some of its positions, in the order of the list.
Picked(list, positions) ==
  [k \in 1..Cardinality(positions) |->
     list[CHOOSE i \in positions : Cardinality({j \in positions : j <= i}) = k]]

-----------------------------------------------------------------------------
(***************************************************************************)
(* Faulty variants, not used by the specification, each named after the    *)
(* definition below that it breaks.                                        *)
(***************************************************************************)

\* Combine without moving the offsets.
CombineUnmoved(fs) ==
  [data |-> FlattenSeq([k \in DOMAIN fs |-> fs[k].data]),
   offsets |-> FlattenSeq([k \in DOMAIN fs |-> fs[k].offsets])]

\* The next batch starts one too far.
AfterBatchPlusOne(c) == batchStart[c] + GoBatch + 1

\* ShareDone for a goroutine without wg.Done when its share has one element.
ShareDoneUnlessSingle(c, w, n, workers) ==
  IF Cardinality(Share(w, CeilDiv(n, workers), n)) = 1 THEN pending[c] ELSE pending[c] \ {w}

-----------------------------------------------------------------------------
\* Where each array begins when they follow one another, and where they all end.
Starts(arrays) ==
  LET start[i \in 1..Len(arrays) + 1] ==
        IF i = 1 THEN 0 ELSE start[i - 1] + Len(arrays[i - 1])
  IN start

\* flatten_byte_arrays: the bytes one after another, and where each array is.
Flatten(arrays) ==
  [data |-> FlattenSeq(arrays),
   offsets |-> [i \in 1..Len(arrays) |->
                  [start |-> Starts(arrays)[i], length |-> Len(arrays[i])]]]

\* Flattened chunks joined: every chunk's offsets move behind the data of the
\* chunks before it.
Combine(fs) ==
  LET datas == [k \in DOMAIN fs |-> fs[k].data]
      moved(k) == [i \in DOMAIN fs[k].offsets |->
                     [fs[k].offsets[i] EXCEPT !.start = @ + Starts(datas)[k]]]
  IN [data |-> FlattenSeq(datas), offsets |-> FlattenSeq([k \in DOMAIN fs |-> moved(k)])]

\* The checks on the chunks before they are joined, and on the outcome.
Consistent(fs, arrays) ==
  /\ \A k \in DOMAIN fs :
       fs[k].offsets # <<>> =>
         Last(fs[k].offsets).start + Last(fs[k].offsets).length = Len(fs[k].data)
  /\ Len(Combine(fs).data) = Len(FlattenSeq(arrays))
  /\ Len(Combine(fs).offsets) = Len(arrays)

\* An entry of the offsets that the Go side accepts, and the bytes it names.
Valid(o, data) == o.start >= 0 /\ o.length > 0 /\ o.start + o.length <= Len(data)
BytesAt(o, data) == IF Valid(o, data) THEN SubSeq(data, o.start + 1, o.start + o.length)
                                      ELSE <<>>

-----------------------------------------------------------------------------
Item(c, i) == IF call[c].items[i] = NotBytes THEN NotBytes
              ELSE [k \in 1..call[c].items[i] |-> <<c, i, k>>]
Items(c) == [i \in DOMAIN call[c].items |-> Item(c, i)]

IsBytes(item) == item # NotBytes
AllBytes(list) == \A i \in DOMAIN list : IsBytes(list[i])

Goes(c, from, to) == pc[c] = from /\ pc' = [pc EXCEPT ![c] = to]
Returns(c, from, n) == Goes(c, from, "returned") /\ answer' = [answer EXCEPT ![c] = n]

\* Nothing that the others see, and nothing of the answer.
Quiet == UNCHANGED <<payloads, call, added, answer>>
ListsUnchanged == UNCHANGED <<parts, flat, batchStart, rebuilt, results>>

-----------------------------------------------------------------------------
\* An empty list: all methods return at once.
EmptyCall(c) ==
  /\ call[c].items = <<>>
  /\ Returns(c, "called", 0)
  /\ UNCHANGED <<payloads, call, pending, added>> /\ ListsUnchanged

\* convert_payloads: the task of the pool is a function inside the method, which
\* cannot be handed to another process.
ConvertRaises(c) ==
  /\ call[c].method = "convert"
  /\ call[c].items # <<>>
  /\ Goes(c, "called", "raised")
  /\ UNCHANGED pending /\ Quiet /\ ListsUnchanged

\* flatten_byte_arrays of the whole list, which fails on an item that is no bytes.
FlattenAll(c, from) ==
  /\ IF AllBytes(Items(c))
     THEN /\ Goes(c, from, "flattened")
          /\ flat' = [flat EXCEPT ![c] = Flatten(Items(c))]
     ELSE Goes(c, from, "raised") /\ UNCHANGED flat
  /\ UNCHANGED <<parts, batchStart, rebuilt, results>>

\* parallel_flatten_byte_arrays of a short list.
FlattenHere(c) ==
  /\ call[c].method = "flat"
  /\ Len(call[c].items) \in 1 .. FlattenFrom - 1
  /\ FlattenAll(c, "called")
  /\ UNCHANGED pending /\ Quiet

\* A pool for the tasks of a list, one chunk each.
StartPool(c, to) ==
  /\ Goes(c, "called", to)
  /\ pending' = [pending EXCEPT ![c] = Team(Len(call[c].items), call[c].workers)]
  /\ parts' = [parts EXCEPT ![c] = [k \in Team(Len(call[c].items), call[c].workers) |-> Nil]]
  /\ UNCHANGED <<flat, batchStart, rebuilt, results>> /\ Quiet

FlattenInPool(c) ==
  /\ call[c].method = "flat"
  /\ Len(call[c].items) >= FlattenFrom
  /\ StartPool(c, "flattening")

\* A process finishes a chunk.
PoolTask(c, k, part) ==
  /\ k \in pending[c]
  /\ pending' = [pending EXCEPT ![c] = @ \ {k}]
  /\ parts' = [parts EXCEPT ![c][k] = part]
  /\ UNCHANGED <<pc, flat, batchStart, rebuilt, results>> /\ Quiet

\* _flatten_chunk of chunk k.
FlattenTask(c, k) ==
  /\ pc[c] = "flattening"
  /\ LET chunk == Chunks(Items(c), call[c].workers)[k]
     IN AllBytes(chunk) /\ PoolTask(c, k, Flatten(chunk))

\* starmap raises, because of a chunk that cannot be flattened or of the pool
\* itself: the whole list is flattened in the process.
FlattenPoolRaises(c) ==
  /\ pc[c] = "flattening"
  /\ pending[c] # {}
  /\ FlattenAll(c, "flattening")
  /\ pending' = [pending EXCEPT ![c] = {}]
  /\ Quiet

\* All chunks are there: they are checked and joined, or flattened again.
JoinFlattened(c) ==
  /\ pending[c] = {}
  /\ Goes(c, "flattening", "flattened")
  /\ flat' = [flat EXCEPT ![c] =
                IF Consistent(parts[c], Items(c)) THEN Combine(parts[c]) ELSE Flatten(Items(c))]
  /\ UNCHANGED <<pending, parts, batchStart, rebuilt, results>> /\ Quiet

-----------------------------------------------------------------------------
\* AddPayloadsFlat without data, that is, when all items were empty.
AddNothing(c) ==
  /\ flat[c].data = <<>>
  /\ Returns(c, "flattened", 0)
  /\ UNCHANGED <<payloads, call, pending, added>> /\ ListsUnchanged

\* AddPayloadsFlat of few arrays: all of them under one lock.
AddDirectly(c) ==
  LET arrays == [i \in DOMAIN flat[c].offsets |-> BytesAt(flat[c].offsets[i], flat[c].data)]
      valid == Picked(arrays, {i \in DOMAIN arrays : arrays[i] # <<>>})
  IN /\ flat[c].data # <<>>
     /\ Len(flat[c].offsets) < DirectBelow
     /\ Returns(c, "flattened", Len(valid))
     /\ payloads' = payloads \o valid
     /\ added' = [added EXCEPT ![c] = Len(valid)]
     /\ UNCHANGED <<call, pending>> /\ ListsUnchanged

\* The offsets of the batch after the arrays before batchStart.
BatchOffsets(c) ==
  SubSeq(flat[c].offsets, batchStart[c] + 1,
         Least(batchStart[c] + GoBatch, Len(flat[c].offsets)))

\* batchStart += batchSize
AfterBatch(c) == batchStart[c] + GoBatch

StartBatches(c) ==
  /\ flat[c].data # <<>>
  /\ Len(flat[c].offsets) >= DirectBelow
  /\ Goes(c, "flattened", "batch")
  /\ UNCHANGED pending /\ Quiet /\ ListsUnchanged

\* processOrderedBatch: ReconstructByteArrays starts its goroutines, or rebuilds
\* a small last batch by itself.
StartRebuild(c) ==
  LET offsets == BatchOffsets(c)
      n == Len(offsets)
  IN /\ batchStart[c] < Len(flat[c].offsets)
     /\ Goes(c, "batch", "rebuilding")
     /\ IF n < DirectBelow
        THEN /\ rebuilt' = [rebuilt EXCEPT ![c] =
                              [i \in 1..n |-> BytesAt(offsets[i], flat[c].data)]]
             /\ UNCHANGED pending
        ELSE /\ rebuilt' = [rebuilt EXCEPT ![c] = [i \in 1..n |-> Nil]]
             /\ pending' = [pending EXCEPT ![c] = Team(n, Least(UtilWorkers, n))]
     /\ UNCHANGED <<parts, flat, batchStart, results>> /\ Quiet

\* What is pending after worker w's wg.Done().
ShareDone(c, w, n, workers) == pending[c] \ {w}

\* A goroutine of ReconstructByteArrays rebuilds its share.
RebuildTask(c, w) ==
  LET offsets == BatchOffsets(c)
      n == Len(offsets)
      workers == Least(UtilWorkers, n)
  IN /\ pc[c] = "rebuilding"
     /\ w \in pending[c]
     /\ pending' = [pending EXCEPT ![c] = ShareDone(c, w, n, workers)]
     /\ rebuilt' = [rebuilt EXCEPT ![c] =
                      [i \in 1..n |-> IF i \in Share(w, CeilDiv(n, workers), n)
                                      THEN BytesAt(offsets[i], flat[c].data) ELSE @[i]]]
     /\ UNCHANGED <<pc, parts, flat, batchStart, results>> /\ Quiet

\* wg.Wait(), then goroutines that copy the arrays into a list of results.
StartCopy(c) ==
  LET n == Len(rebuilt[c])
  IN /\ pending[c] = {}
     /\ Goes(c, "rebuilding", "copying")
     /\ pending' = [pending EXCEPT ![c] = Team(n, CopyWorkers)]
     /\ results' = [results EXCEPT ![c] = [i \in 1..n |-> Nil]]
     /\ UNCHANGED <<parts, flat, batchStart, rebuilt>> /\ Quiet

\* One of them copies its share; empty arrays stay nil.
CopyTask(c, w) ==
  LET n == Len(rebuilt[c])
      mine == Share(w, CeilDiv(n, CopyWorkers), n)
  IN /\ pc[c] = "copying"
     /\ w \in pending[c]
     /\ pending' = [pending EXCEPT ![c] = ShareDone(c, w, n, CopyWorkers)]
     /\ results' = [results EXCEPT ![c] =
                      [i \in 1..n |-> IF i \in mine /\ rebuilt[c][i] # <<>>
                                      THEN rebuilt[c][i] ELSE @[i]]]
     /\ rebuilt' = [rebuilt EXCEPT ![c] =
                      [i \in 1..n |-> IF i \in mine /\ @[i] # <<>> THEN Nil ELSE @[i]]]
     /\ UNCHANGED <<pc, parts, flat, batchStart>> /\ Quiet

\* Results that are not nil go to Payloads, AppendBatch under one lock.
AppendResults(c) ==
  LET rest == Picked(results[c], {i \in DOMAIN results[c] : results[c][i] # Nil})
      n == Least(AppendBatch, Len(rest))
  IN /\ pc[c] = "copying"
     /\ pending[c] = {}
     /\ rest # <<>>
     /\ payloads' = payloads \o SubSeq(rest, 1, n)
     /\ added' = [added EXCEPT ![c] = @ + n]
     /\ results' = [results EXCEPT ![c] = SubSeq(rest, n + 1, Len(rest))]
     /\ UNCHANGED <<pc, call, pending, parts, flat, batchStart, rebuilt, answer>>

\* The batch is done.
NextBatch(c) ==
  /\ pending[c] = {}
  /\ \A i \in DOMAIN results[c] : results[c][i] = Nil
  /\ Goes(c, "copying", "batch")
  /\ batchStart' = [batchStart EXCEPT ![c] = AfterBatch(c)]
  /\ UNCHANGED <<pending, parts, flat, rebuilt, results>> /\ Quiet

\* AddPayloadsFlat returns the number of payloads it has added.
FlatReturns(c) ==
  /\ batchStart[c] >= Len(flat[c].offsets)
  /\ Returns(c, "batch", added[c])
  /\ UNCHANGED <<payloads, call, pending, added>> /\ ListsUnchanged

-----------------------------------------------------------------------------
\* add_batch_payloads refuses a list whose first item is no bytes.
BatchRefuses(c) ==
  /\ call[c].method = "batch"
  /\ call[c].items # <<>>
  /\ ~IsBytes(Item(c, 1))
  /\ Goes(c, "called", "raised")
  /\ UNCHANGED pending /\ Quiet /\ ListsUnchanged

\* Go objects for n converted items.
Handles(n) == [i \in 1..n |-> Foreign]

\* parallel_bytes_to_go of a short list: Go stores all items in its registry, and
\* the numbers it returns are wrapped; or an exception, of an item or of a call.
ConvertHere(c) ==
  /\ call[c].method = "batch"
  /\ Len(call[c].items) \in 1 .. ConvertFrom - 1
  /\ IsBytes(Item(c, 1))
  /\ \/ /\ AllBytes(Items(c))
        /\ Goes(c, "called", "adding")
        /\ results' = [results EXCEPT ![c] = Handles(Len(call[c].items))]
     \/ Goes(c, "called", "raised") /\ UNCHANGED results
  /\ UNCHANGED <<pending, parts, flat, batchStart, rebuilt>> /\ Quiet

ConvertInPool(c) ==
  /\ call[c].method = "batch"
  /\ Len(call[c].items) >= ConvertFrom
  /\ IsBytes(Item(c, 1))
  /\ StartPool(c, "converting")

\* _process_chunk: Go converts the chunk; if that fails each item is converted by
\* itself, and skipped when it cannot be.  Either way the objects are those of
\* the pool's process, and come back as their numbers.
ConvertTask(c, k) ==
  /\ pc[c] = "converting"
  /\ LET chunk == Chunks(Items(c), call[c].workers)[k]
     IN PoolTask(c, k, Handles(Cardinality({i \in DOMAIN chunk : IsBytes(chunk[i])})))

\* starmap raises; nothing catches it.
ConvertPoolRaises(c) ==
  /\ pending[c] # {}
  /\ Goes(c, "converting", "raised")
  /\ pending' = [pending EXCEPT ![c] = {}]
  /\ Quiet /\ ListsUnchanged

\* The converted chunks in the order of the tasks.
GatherConverted(c) ==
  /\ pending[c] = {}
  /\ Goes(c, "converting", "adding")
  /\ results' = [results EXCEPT ![c] = FlattenSeq(parts[c])]
  /\ UNCHANGED <<pending, parts, flat, batchStart, rebuilt>> /\ Quiet

\* add_payloads takes the items as they are.
StartAdd(c) ==
  /\ call[c].method = "add"
  /\ call[c].items # <<>>
  /\ Goes(c, "called", "adding")
  /\ results' = [results EXCEPT ![c] = Items(c)]
  /\ UNCHANGED <<pending, parts, flat, batchStart, rebuilt>> /\ Quiet

\* add_batch_payloads counts a batch in a variable it has not initialised: the
\* exception comes when the first batch is in.
MayAdd(c) == call[c].method = "batch" => added[c] < PythonBatch

\* AddPayload of the next item; a handle that names nothing adds nothing.
AddNext(c) ==
  /\ pc[c] = "adding"
  /\ results[c] # <<>>
  /\ IsBytes(Head(results[c]))
  /\ MayAdd(c)
  /\ \/ payloads' = Append(payloads, Head(results[c]))
     \/ Head(results[c]) = Foreign /\ UNCHANGED payloads
  /\ added' = [added EXCEPT ![c] = @ + 1]
  /\ results' = [results EXCEPT ![c] = Tail(@)]
  /\ UNCHANGED <<pc, call, pending, parts, flat, batchStart, rebuilt, answer>>

\* An item or a handle that Go does not take, or the count.
AddRaises(c) ==
  /\ \/ results[c] # <<>> /\ Head(results[c]) \in {NotBytes, Foreign}
     \/ call[c].method = "batch" /\ results[c] = <<>>
     \/ ~MayAdd(c)
  /\ Goes(c, "adding", "raised")
  /\ UNCHANGED pending /\ Quiet /\ ListsUnchanged

AddReturns(c) ==
  /\ call[c].method = "add"
  /\ results[c] = <<>>
  /\ Returns(c, "adding", Len(call[c].items))
  /\ UNCHANGED <<payloads, call, pending, added>> /\ ListsUnchanged

-----------------------------------------------------------------------------
FlatStep(c) ==
  \/ FlattenHere(c) \/ FlattenInPool(c) \/ FlattenPoolRaises(c) \/ JoinFlattened(c)
  \/ AddNothing(c) \/ AddDirectly(c)
  \/ StartBatches(c) \/ StartRebuild(c) \/ StartCopy(c) \/ AppendResults(c)
  \/ NextBatch(c) \/ FlatReturns(c)
  \/ \E w \in pending[c] : FlattenTask(c, w) \/ RebuildTask(c, w) \/ CopyTask(c, w)

OneByOneStep(c) ==
  \/ BatchRefuses(c) \/ ConvertHere(c) \/ ConvertInPool(c) \/ ConvertPoolRaises(c)
  \/ GatherConverted(c) \/ StartAdd(c) \/ AddNext(c) \/ AddRaises(c) \/ AddReturns(c)
  \/ \E k \in pending[c] : ConvertTask(c, k)

CallStep(c) == EmptyCall(c) \/ ConvertRaises(c) \/ FlatStep(c) \/ OneByOneStep(c)

Next == \E c \in Callers : CallStep(c)

Spec == Init /\ [][Next]_vars
\* Threads, processes and goroutines are scheduled fairly.
FairSpec == Spec /\ \A c \in Callers : WF_vars(CallStep(c))

-----------------------------------------------------------------------------
(***************************************************************************)
(* Properties                                                              *)
(***************************************************************************)
\* The items that have bytes in them.
Solid(list) == {i \in DOMAIN list : list[i] \notin {NotBytes, <<>>}}

\* Of the items of a list that have bytes, s holds those behind position from up to
\* position to, each once and in their order.
Covers(s, list, from, to) ==
  /\ \A k \in DOMAIN s, a \in Solid(list) : s[k] = list[a] => from < a /\ a <= to
  /\ \A a \in Solid(list) : from < a /\ a <= to => \E k \in DOMAIN s : s[k] = list[a]
  /\ \A j, k \in DOMAIN s, a, b \in Solid(list) :
       s[j] = list[a] /\ s[k] = list[b] /\ j < k => a < b

\* Whatever the number of processes, goroutines, batches and other callers: the
\* payloads of a call of add_batch_payloads_flat or add_payloads are its items from
\* the first on, unaltered, in order, none twice and none left out, and everything
\* else in Payloads comes from a handle of add_batch_payloads (parallel_utils.py
\* 292-422, send_stream.go 845-1015).
PayloadsIntact ==
  /\ \A k \in DOMAIN payloads :
       \/ payloads[k] = Foreign /\ \E c \in Callers : call[c].method = "batch"
       \/ \E c \in Callers : \E i \in DOMAIN Items(c) :
            /\ call[c].method \in {"flat", "add"}
            /\ IsBytes(Item(c, i)) /\ payloads[k] = Item(c, i)
  /\ \A c \in Callers : call[c].method \in {"flat", "add"} =>
       \E m \in 0..Len(Items(c)) : Covers(payloads, Items(c), 0, m)

\* A call that returns has added everything and answers the number: of the items
\* that have bytes (add_batch_payloads_flat), of all items (add_payloads).
ReturnedAddsAll ==
  \A c \in Callers : pc[c] = "returned" /\ call[c].method \in {"flat", "add"} =>
    /\ Covers(payloads, Items(c), 0, Len(Items(c)))
    /\ answer[c] = IF call[c].method = "flat" THEN Cardinality(Solid(Items(c)))
                   ELSE Len(Items(c))

\* Every call ends: no task is forgotten and no batch taken for ever.
CallsEnd == \A c \in Callers : <>(pc[c] \in {"returned", "raised"})
=============================================================================
