--------------------------- MODULE Transmission ---------------------------
(***************************************************************************)
(* What a sender promises, whatever its goroutines do: every payload       *)
(* submitted before the start is written to the interface at most once or  *)
(* rejected, never both; with ordering on, the packets leave in the order  *)
(* their payloads were submitted and without gaps; completion is reported  *)
(* once every payload is accounted for, and nothing happens after it.      *)
(***************************************************************************)
EXTENDS Naturals, Sequences, Functions

CONSTANTS
  Lengths,     \* the payload lengths users submit
  Sendable(_)  \* can a payload of this length be made into a packet

VARIABLES
  payloads,   \* the lengths of the payloads submitted
  unordered,  \* may packets overtake each other
  started,
  wire,       \* indices of the packets written, in order
  rejected,   \* indices of the payloads refused
  complete

vars == <<payloads, unordered, started, wire, rejected, complete>>

Accounted == Range(wire) \cup rejected
Outstanding == (0 .. Len(payloads) - 1) \ Accounted

Init ==
  /\ payloads = <<>>
  /\ unordered = FALSE
  /\ started = FALSE
  /\ wire = <<>>
  /\ rejected = {}
  /\ complete = FALSE

Submit ==
  /\ ~started
  /\ \E len \in Lengths : payloads' = Append(payloads, len)
  /\ UNCHANGED <<unordered, started, wire, rejected, complete>>

Configure ==
  /\ ~started
  /\ unordered' \in BOOLEAN
  /\ UNCHANGED <<payloads, started, wire, rejected, complete>>

Start ==
  /\ ~started
  /\ started' = TRUE
  /\ UNCHANGED <<payloads, unordered, wire, rejected, complete>>

Write(i) ==
  /\ started
  /\ Sendable(payloads[i + 1])
  /\ unordered \/ i = Len(wire)
  /\ wire' = Append(wire, i)
  /\ UNCHANGED <<payloads, unordered, started, rejected, complete>>

Reject(i) ==
  /\ started
  /\ ~Sendable(payloads[i + 1])
  /\ rejected' = rejected \cup {i}
  /\ UNCHANGED <<payloads, unordered, started, wire, complete>>

Complete ==
  /\ started
  /\ Outstanding = {}
  /\ complete' = TRUE
  /\ UNCHANGED <<payloads, unordered, started, wire, rejected>>

Next ==
  \/ Submit \/ Configure \/ Start \/ Complete
  \/ \E i \in Outstanding : Write(i) \/ Reject(i)

Spec == Init /\ [][Next]_vars
=============================================================================
