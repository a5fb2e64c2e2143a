--------------------------- MODULE Configuration ---------------------------
(***************************************************************************)
(* The configuration objects (config.py, core/config.go) and what a        *)
(* MultiStreamSender takes from them when it is made (transmit.py,         *)
(* core/send_stream.go), as one thread of a program uses them.             *)
(*                                                                         *)
(* A Python object of a class of settings is a wrapper that points to a Go *)
(* struct, its cell.  A Go Config points to a PcapConfig and a             *)
(* PacketConfig, but contains its DebugOptions; assigning those copies     *)
(* them.  A Python Config has wrappers for the three and a Go Config, and  *)
(* it is the order in which they were put together that makes both sides   *)
(* talk of the same cells.                                                 *)
(*                                                                         *)
(* Objects are numbered.  Of the fields of a class those are kept that     *)
(* stand for the kinds of checks there are.  All values are integers: of a *)
(* text 0 is the empty one, negative ones cannot be parsed.  A call that   *)
(* raises changes nothing and is no step.                                  *)
(***************************************************************************)
EXTENDS Integers, Sequences

CONSTANTS
  Inputs,      \* values that a program tries
  MaxObjects,  \* bound on the wrappers
  MaxCalls,    \* bound on the calls
  MaxPort,     \* 65535
  MACLengthOK, \* the MAC addresses with a number of bytes that is right
  GoInterval   \* ReportInterval of a new Go sender, 1000

ASSUME ConfigurationAssumption ==
  /\ Inputs \subseteq Int
  /\ MaxPort \in Nat
  /\ MACLengthOK \subseteq Nat \ {0}
  /\ GoInterval \in Nat \ {0}

VARIABLES
  cells,      \* the Go structs: the values of their fields
  wrappers,   \* the Python objects: class, cell, and the filter if they show one
  goConfigs,  \* the Go Configs: cells of Pcap, Packet and Debug
  configs,    \* the Python Configs: wrappers and Go Config
  senders,    \* the senders: Config, Go Config, parameters
  logging,    \* GlobalDebug
  calls       \* history

vars == <<cells, wrappers, goConfigs, configs, senders, logging, calls>>

Init ==
  /\ cells = <<>> /\ wrappers = <<>>
  /\ goConfigs = <<>> /\ configs = <<>> /\ senders = <<>>
  /\ logging = [enabled |-> 0, level |-> 0]
  /\ calls = 0

-----------------------------------------------------------------------------
(***************************************************************************)
(* Faulty variants, not used by the specification, each named after the    *)
(* definition below that it breaks.                                        *)
(***************************************************************************)
\* Redirect that forgets the Go side.
RedirectNothing(go, part, cell) == go

-----------------------------------------------------------------------------
(***************************************************************************)
(* The checks of the setters, and the values of a new object.              *)
(***************************************************************************)
PcapAccepts(f, v) == f = "snap_len" => v > 0
PacketAccepts(f, v) ==
  /\ f = "src_port" => v \in 0..MaxPort
  /\ f \in {"src_ip", "src_mac"} => v >= 0
DebugAccepts(f, v) == f = "level" => v >= 0
StreamAccepts(f, v) ==
  /\ f \in {"packet_workers", "turnstile_burst"} => v > 0
  /\ f \in {"report_interval", "rate_limit"} => v >= 0

Accepts(class, f, v) ==
  /\ class = "pcap" => PcapAccepts(f, v)
  /\ class = "packet" => PacketAccepts(f, v)
  /\ class = "debug" => DebugAccepts(f, v)
  /\ class = "stream" => StreamAccepts(f, v)

\* An empty MAC address leaves the old one.
Stored(f, old, v) == IF f = "src_mac" /\ v = 0 THEN old ELSE v

NewPcap == [snap_len |-> 1]
NewPacket == [src_mac |-> 0, src_ip |-> 0, src_port |-> 0, bpf_filter |-> 0]
NewDebug == [enabled |-> 0, level |-> 0]
NewStream == [packet_workers |-> 1, turnstile_burst |-> 1, report_interval |-> 1,
              rate_limit |-> 0]

Fresh(class) ==
  CASE class = "pcap" -> NewPcap
    [] class = "packet" -> NewPacket
    [] class = "debug" -> NewDebug
    [] class = "stream" -> NewStream

Classes == {"pcap", "packet", "debug", "stream"}
Objects(class) == {w \in DOMAIN wrappers : wrappers[w].class = class}
Cell(w) == wrappers[w].cell

\* A wrapper.  PcapConfig has a bpf_filter for which Go has no field: Python keeps it
\* in the object, and only if something was assigned, as the constructor does.
Wrapper(class, cell) ==
  [class |-> class, cell |-> cell, filter |-> IF class = "pcap" THEN {0} ELSE {}]

Call == calls < MaxCalls /\ calls' = calls + 1
Room(n) == Len(wrappers) + n <= MaxObjects

-----------------------------------------------------------------------------
\* PcapConfig(...), PacketConfig(...), DebugOptions(...) and MultiStreamConfig(...)
\* go through the setters, one argument unlike its default.
Create(class, f, v) ==
  /\ Call /\ Room(1)
  /\ Accepts(class, f, v)
  /\ cells' = Append(cells, [Fresh(class) EXCEPT ![f] = Stored(f, @, v)])
  /\ wrappers' = Append(wrappers, Wrapper(class, Len(cells) + 1))
  /\ UNCHANGED <<goConfigs, configs, senders, logging>>

\* It gives its arguments to MultiStreamConfig.
CreateDefaultMultiStreamConfig(f, v) == Create("stream", f, v)

\* A property is assigned.
SetField(w, f, v) ==
  /\ Call
  /\ Accepts(wrappers[w].class, f, v)
  /\ cells' = [cells EXCEPT ![Cell(w)][f] = Stored(f, @, v)]
  /\ UNCHANGED <<wrappers, goConfigs, configs, senders, logging>>

\* pcap.bpf_filter = ..., also in the constructor: Go is not told.
SetPcapFilter(w, v) ==
  /\ Call
  /\ wrappers' = [wrappers EXCEPT ![w].filter = {v}]
  /\ UNCHANGED <<cells, goConfigs, configs, senders, logging>>

\* Config(pcap, packet, debug): the debug options are copied.
NewConfig(p, k, d) ==
  /\ Call
  /\ cells' = Append(cells, cells[Cell(d)])
  /\ goConfigs' = Append(goConfigs, [pcap |-> Cell(p), packet |-> Cell(k),
                                     debug |-> Len(cells) + 1])
  /\ configs' = Append(configs, [pcap |-> p, packet |-> k, debug |-> d,
                                 go |-> Len(goConfigs) + 1])
  /\ UNCHANGED <<wrappers, senders, logging>>

\* The Go side of an assignment.
Redirect(go, part, cell) == [go EXCEPT ![part] = cell]

\* config.pcap = ..., config.packet = ...
AssignPart(c, part, w) ==
  /\ Call
  /\ configs' = [configs EXCEPT ![c][part] = w]
  /\ goConfigs' = [goConfigs EXCEPT ![configs[c].go] = Redirect(@, part, Cell(w))]
  /\ UNCHANGED <<cells, wrappers, senders, logging>>

\* config.debug = ..., which copies, as in the constructor.
AssignDebug(c, w) ==
  /\ Call
  /\ configs' = [configs EXCEPT ![c].debug = w]
  /\ cells' = [cells EXCEPT ![goConfigs[configs[c].go].debug] = cells[Cell(w)]]
  /\ UNCHANGED <<wrappers, goConfigs, senders, logging>>

\* enable_debug sets the level of the Config, unchecked, and of the whole process.
EnableDebug(c, level) ==
  /\ Call
  /\ cells' = [cells EXCEPT ![goConfigs[configs[c].go].debug] =
                 [enabled |-> 1, level |-> level]]
  /\ logging' = [enabled |-> 1, level |-> level]
  /\ UNCHANGED <<wrappers, goConfigs, configs, senders>>

\* disable_debug leaves the process as it is.
DisableDebug(c) ==
  /\ Call
  /\ cells' = [cells EXCEPT ![goConfigs[configs[c].go].debug].enabled = 0]
  /\ UNCHANGED <<wrappers, goConfigs, configs, senders, logging>>

\* The wrappers of the three parts of a Config, for cells c + 1 to c + 3.
Parts(c, filter) == <<[class |-> "pcap", cell |-> c + 1, filter |-> filter],
                      Wrapper("packet", c + 2), Wrapper("debug", c + 3)>>

\* Config() makes the parts that it was not given; with some of them given it is a
\* Create of the others and a NewConfig.
NewConfigOfDefaults ==
  LET c == Len(cells)
      w == Len(wrappers)
  IN /\ Call /\ Room(3)
     /\ cells' = cells \o <<NewPcap, NewPacket, NewDebug, NewDebug>>
     /\ wrappers' = wrappers \o Parts(c, {0})
     /\ goConfigs' = Append(goConfigs, [pcap |-> c + 1, packet |-> c + 2, debug |-> c + 4])
     /\ configs' = Append(configs, [pcap |-> w + 1, packet |-> w + 2, debug |-> w + 3,
                                    go |-> Len(goConfigs) + 1])
     /\ UNCHANGED <<senders, logging>>

\* NewDefaultConfig checks the addresses, but no port, and has its own idea of the
\* settings for pcap.
GoAccepts(packet) == packet.src_mac \in MACLengthOK /\ packet.src_ip > 0

\* create_default_config: wrappers are made and pointed to the parts of the Go
\* Config, then a Config is made of them, and its Go Config replaced by that one.
\* The filter goes to the packet settings, and the wrapper for pcap shows none.
CreateDefaultConfig(packet) ==
  LET c == Len(cells)
      w == Len(wrappers)
  IN /\ Call /\ Room(3)
     /\ GoAccepts(packet)
     /\ cells' = cells \o <<NewPcap, packet, NewDebug>>
     /\ wrappers' = wrappers \o Parts(c, {})
     /\ goConfigs' = Append(goConfigs, [pcap |-> c + 1, packet |-> c + 2, debug |-> c + 3])
     /\ configs' = Append(configs, [pcap |-> w + 1, packet |-> w + 2, debug |-> w + 3,
                                    go |-> Len(goConfigs) + 1])
     /\ UNCHANGED <<senders, logging>>

\* SetStreamConfig passes over an interval of 0, which config.py allows.
Interval(v) == IF v > 0 THEN v ELSE GoInterval

\* MultiStreamSender(config, stream_config): the stream settings are copied, the
\* Config is not.  Without stream settings it makes the default ones.
NewSender(c, stream) ==
  /\ Call
  /\ senders' = Append(senders,
                  [config |-> c, go |-> configs[c].go,
                   RateLimit |-> stream.rate_limit,
                   PacketWorkers |-> stream.packet_workers,
                   TurnstileBurst |-> stream.turnstile_burst,
                   ReportInterval |-> Interval(stream.report_interval)])
  /\ UNCHANGED <<cells, wrappers, goConfigs, configs, logging>>

-----------------------------------------------------------------------------
Next ==
  \/ \E class \in Classes : \E f \in DOMAIN Fresh(class), v \in Inputs : Create(class, f, v)
  \/ \E f \in DOMAIN NewStream, v \in Inputs : CreateDefaultMultiStreamConfig(f, v)
  \/ \E w \in DOMAIN wrappers : \E f \in DOMAIN cells[Cell(w)], v \in Inputs : SetField(w, f, v)
  \/ \E w \in Objects("pcap"), v \in Inputs : SetPcapFilter(w, v)
  \/ \E p \in Objects("pcap"), k \in Objects("packet"), d \in Objects("debug") :
       NewConfig(p, k, d)
  \/ \E c \in DOMAIN configs, part \in {"pcap", "packet"} :
       \E w \in Objects(part) : AssignPart(c, part, w)
  \/ \E c \in DOMAIN configs : \E w \in Objects("debug") : AssignDebug(c, w)
  \/ \E c \in DOMAIN configs : (\E level \in Inputs : EnableDebug(c, level)) \/ DisableDebug(c)
  \/ \E mac, ip, port, bpf \in Inputs :
       CreateDefaultConfig([src_mac |-> mac, src_ip |-> ip, src_port |-> port,
                            bpf_filter |-> bpf])
  \/ NewConfigOfDefaults
  \/ \E c \in DOMAIN configs :
       \E stream \in {NewStream} \cup {cells[Cell(w)] : w \in Objects("stream")} :
         NewSender(c, stream)

Spec == Init /\ [][Next]_vars

-----------------------------------------------------------------------------
(***************************************************************************)
(* Properties                                                              *)
(***************************************************************************)
\* A Config's wrappers for pcap and packet settings point to the structs that Go
\* uses, after any sequence of constructions, assignments and defaults, so that their
\* fields are shown as they are used; and no two Configs have the same debug options,
\* so that those of one can be changed without the others (config.py 480-514 and
\* 592-611).  Debug options are copied, and Python may show others than Go uses.
SettingsReachGo ==
  \A c \in DOMAIN configs :
    /\ \A part \in {"pcap", "packet"} :
         goConfigs[configs[c].go][part] = Cell(configs[c][part])
    /\ \A g \in DOMAIN goConfigs :
         goConfigs[g].debug = goConfigs[configs[c].go].debug => g = configs[c].go
=============================================================================
