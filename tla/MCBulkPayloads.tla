-------------------------- MODULE MCBulkPayloads --------------------------
(***************************************************************************)
(* One thread makes any call with up to four items, while another adds a   *)
(* few payloads in a way that shows in between.                            *)
(***************************************************************************)
EXTENDS BulkPayloads, TLC

CONSTANTS c1, c2

MaxItems == 4

Mixed == BoundedSeq({0, 2, NotBytes}, MaxItems - 1)

MCCallsOf(c) ==
  IF c = c1
  THEN [method : {"flat", "batch", "add", "convert"}, items : Mixed, workers : {2}]
       \cup [method : {"flat"}, items : TupleOf({0, 1}, MaxItems), workers : {3}]
       \cup [method : {"batch"}, items : {<<1, 0, NotBytes, 1>>}, workers : {2, 3}]
       \cup [method : {"flat"}, items : {<<1, 2, 1, 1>>}, workers : {2, 5}]
  ELSE {[method |-> "add", items |-> <<1, 0>>, workers |-> 1],
        [method |-> "flat", items |-> <<1, 1>>, workers |-> 1]}
=============================================================================
