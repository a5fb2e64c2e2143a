------------------------ MODULE ConfigurationProofs ------------------------
(***************************************************************************)
(* The invariants of Configuration.tla, proved for any values, objects and *)
(* sequences of calls.                                                     *)
(***************************************************************************)
EXTENDS Configuration, SequenceTheorems, TLAPS

PcapCells == [snap_len : Int]
PacketCells == [src_mac : Int, src_ip : Int, src_port : Int, bpf_filter : Int]
DebugCells == [enabled : Int, level : Int]
StreamCells == [packet_workers : Nat \ {0}, turnstile_burst : Nat \ {0},
                report_interval : Nat, rate_limit : Nat]

CellsOf(class) ==
  CASE class = "pcap" -> PcapCells
    [] class = "packet" -> PacketCells
    [] class = "debug" -> DebugCells
    [] class = "stream" -> StreamCells

AllCells == PcapCells \cup PacketCells \cup DebugCells \cup StreamCells

Wrappers == [class : Classes, cell : Nat, filter : SUBSET Int]
GoConfigs == [pcap : Nat, packet : Nat, debug : Nat]
Configs == [pcap : Nat, packet : Nat, debug : Nat, go : Nat]

\* Cell i exists among the cells cs and is one of a class.
Is(cs, i, class) == i \in DOMAIN cs /\ cs[i] \in CellsOf(class)

Types ==
  /\ cells \in Seq(AllCells) /\ wrappers \in Seq(Wrappers)
  /\ goConfigs \in Seq(GoConfigs) /\ configs \in Seq(Configs)

\* Pointers lead to cells of the right class.
WrappersPoint == \A w \in DOMAIN wrappers : Is(cells, wrappers[w].cell, wrappers[w].class)
GoPoints ==
  \A g \in DOMAIN goConfigs :
    Is(cells, goConfigs[g].packet, "packet") /\ Is(cells, goConfigs[g].debug, "debug")

\* Each Config has a Go Config of its own, and both have the same pcap and packet settings.
Pairs ==
  /\ Len(configs) = Len(goConfigs)
  /\ \A c \in DOMAIN configs :
       /\ configs[c].go = c
       /\ \A part \in {"pcap", "packet"} :
            /\ configs[c][part] \in Objects(part)
            /\ goConfigs[c][part] = Cell(configs[c][part])

\* Every Go Config has its own debug options.
DebugOwn ==
  \A g, h \in DOMAIN goConfigs : goConfigs[g].debug = goConfigs[h].debug => g = h

ConfigurationInv ==
  Types /\ WrappersPoint /\ GoPoints /\ Pairs /\ DebugOwn

-----------------------------------------------------------------------------
\* A record cannot be of two classes.
LEMMA ClassesDiffer ==
  /\ PcapCells \cap PacketCells = {} /\ PcapCells \cap DebugCells = {}
  /\ PcapCells \cap StreamCells = {} /\ PacketCells \cap DebugCells = {}
  /\ PacketCells \cap StreamCells = {} /\ DebugCells \cap StreamCells = {}
<1>1. \A x \in PcapCells : DOMAIN x = {"snap_len"}
  BY DEF PcapCells
<1>2. \A x \in PacketCells : DOMAIN x = {"src_mac", "src_ip", "src_port", "bpf_filter"}
  BY DEF PacketCells
<1>3. \A x \in DebugCells : DOMAIN x = {"enabled", "level"}
  BY DEF DebugCells
<1>4. \A x \in StreamCells :
        DOMAIN x = {"packet_workers", "turnstile_burst", "report_interval", "rate_limit"}
  BY DEF StreamCells
<1>5. "snap_len" \notin {"src_mac", "src_ip", "src_port", "bpf_filter"} /\ "snap_len" \notin {"enabled", "level"}
      /\ "snap_len" \notin {"packet_workers", "turnstile_burst", "report_interval", "rate_limit"}
      /\ "enabled" \notin {"src_mac", "src_ip", "src_port", "bpf_filter"}
      /\ "enabled" \notin {"packet_workers", "turnstile_burst", "report_interval", "rate_limit"}
      /\ "src_mac" \notin {"packet_workers", "turnstile_burst", "report_interval", "rate_limit"}
  OBVIOUS
<1> QED BY <1>1, <1>2, <1>3, <1>4, <1>5, Zenon

\* So a cell is of one class.
LEMMA OneClass ==
  ASSUME NEW cs, NEW i, NEW a \in Classes, NEW b \in Classes, Is(cs, i, a), Is(cs, i, b)
  PROVE  a = b
BY ClassesDiffer DEF Is, CellsOf, Classes

\* The values of a new object are of its class.
LEMMA FreshCells ==
  /\ NewPcap \in PcapCells /\ NewPacket \in PacketCells
  /\ NewDebug \in DebugCells /\ NewStream \in StreamCells
BY DEF NewPcap, NewPacket, NewDebug, NewStream, PcapCells, PacketCells, DebugCells, StreamCells

\* The classes one by one.
LEMMA CellsOfClasses ==
  /\ CellsOf("pcap") = PcapCells /\ CellsOf("packet") = PacketCells
  /\ CellsOf("debug") = DebugCells /\ CellsOf("stream") = StreamCells
BY DEF CellsOf

\* The cells of a class are cells.
LEMMA CellsAreCells ==
  ASSUME NEW class \in Classes
  PROVE  CellsOf(class) \subseteq AllCells
BY DEF CellsOf, AllCells, Classes

\* The same by class.
LEMMA FreshOf ==
  ASSUME NEW class \in Classes
  PROVE  Fresh(class) \in CellsOf(class)
<1>1. CASE class = "pcap"
  BY <1>1, FreshCells DEF Fresh, CellsOf
<1>2. CASE class = "packet"
  BY <1>2, FreshCells DEF Fresh, CellsOf
<1>3. CASE class = "debug"
  BY <1>3, FreshCells DEF Fresh, CellsOf
<1>4. CASE class = "stream"
  BY <1>4, FreshCells DEF Fresh, CellsOf
<1> QED BY <1>1, <1>2, <1>3, <1>4 DEF Classes

\* A value that the setter accepts is stored, and the cell keeps its class.
LEMMA SetterKeepsClass ==
  ASSUME NEW class \in Classes, NEW x \in CellsOf(class), NEW f \in DOMAIN x, NEW v \in Int,
         Accepts(class, f, v)
  PROVE  [x EXCEPT ![f] = Stored(f, @, v)] \in CellsOf(class)
<1>1. CASE class = "pcap"
  BY <1>1 DEF CellsOf, PcapCells, Stored
<1>2. CASE class = "packet"
  BY <1>2 DEF CellsOf, PacketCells, Stored
<1>3. CASE class = "debug"
  BY <1>3 DEF CellsOf, DebugCells, Stored
<1>4. CASE class = "stream"
  BY <1>4 DEF CellsOf, StreamCells, Stored, Accepts, StreamAccepts
<1> QED BY <1>1, <1>2, <1>3, <1>4 DEF Classes

-----------------------------------------------------------------------------
(***************************************************************************)
(* What happens to cells: one is written, or some are added.               *)
(***************************************************************************)
\* A cell is written with values of its class: every cell keeps its classes.
LEMMA CellWritten ==
  ASSUME cells \in Seq(AllCells), NEW a \in Classes, NEW i, Is(cells, i, a),
         NEW x \in CellsOf(a), cells' = [cells EXCEPT ![i] = x]
  PROVE  /\ cells' \in Seq(AllCells) /\ Len(cells') = Len(cells) /\ DOMAIN cells' = DOMAIN cells
         /\ \A j : \A class \in Classes : Is(cells, j, class) => Is(cells', j, class)
         /\ cells'[i] = x /\ \A j \in DOMAIN cells : j # i => cells'[j] = cells[j]
<1>1. i \in DOMAIN cells /\ x \in AllCells
  BY CellsAreCells DEF Is
<1>2. cells' \in Seq(AllCells) /\ Len(cells') = Len(cells) /\ DOMAIN cells' = DOMAIN cells
  BY <1>1
<1>3. cells'[i] = x /\ \A j \in DOMAIN cells : j # i => cells'[j] = cells[j]
  BY <1>1
<1>4. ASSUME NEW j, NEW class \in Classes, Is(cells, j, class)
      PROVE  Is(cells', j, class)
  <2>1. CASE j = i
    BY <2>1, <1>2, <1>3, <1>4, OneClass DEF Is
  <2>2. CASE j # i
    BY <2>2, <1>2, <1>3, <1>4 DEF Is
  <2> QED BY <2>1, <2>2
<1> QED BY <1>2, <1>3, <1>4

\* Cells are added: the others stay.
LEMMA CellsAdded ==
  ASSUME cells \in Seq(AllCells), NEW new \in Seq(AllCells), cells' = cells \o new
  PROVE  /\ cells' \in Seq(AllCells) /\ Len(cells') = Len(cells) + Len(new)
         /\ \A j \in DOMAIN cells : j \in DOMAIN cells' /\ cells'[j] = cells[j]
         /\ \A j \in DOMAIN new : Len(cells) + j \in DOMAIN cells' /\ cells'[Len(cells) + j] = new[j]
         /\ \A j \in DOMAIN cells' : j \notin DOMAIN cells =>
              j - Len(cells) \in DOMAIN new /\ cells'[j] = new[j - Len(cells)]
         /\ \A j : \A class \in Classes : Is(cells, j, class) => Is(cells', j, class)
<1>1. cells' \in Seq(AllCells) /\ Len(cells') = Len(cells) + Len(new)
  BY ConcatProperties
<1>2. DOMAIN cells' = 1 .. Len(cells) + Len(new) /\ DOMAIN cells = 1 .. Len(cells)
      /\ DOMAIN new = 1 .. Len(new) /\ Len(cells) \in Nat /\ Len(new) \in Nat
  BY <1>1
<1>3. \A j \in 1 .. Len(cells) + Len(new) :
        cells'[j] = IF j <= Len(cells) THEN cells[j] ELSE new[j - Len(cells)]
  BY ConcatProperties
<1>4. \A j \in DOMAIN cells : j \in DOMAIN cells' /\ cells'[j] = cells[j]
  BY <1>2, <1>3
<1>5. \A j \in DOMAIN new : Len(cells) + j \in DOMAIN cells' /\ cells'[Len(cells) + j] = new[j]
  BY <1>2, <1>3
<1>6. \A j \in DOMAIN cells' : j \notin DOMAIN cells =>
        j - Len(cells) \in DOMAIN new /\ cells'[j] = new[j - Len(cells)]
  BY <1>2, <1>3
<1> QED BY <1>1, <1>4, <1>5, <1>6 DEF Is

\* One cell is added.
LEMMA CellAppended ==
  ASSUME cells \in Seq(AllCells), NEW x \in AllCells, cells' = Append(cells, x)
  PROVE  /\ cells' \in Seq(AllCells) /\ Len(cells') = Len(cells) + 1
         /\ \A j \in DOMAIN cells : j \in DOMAIN cells' /\ cells'[j] = cells[j]
         /\ Len(cells) + 1 \in DOMAIN cells' /\ cells'[Len(cells) + 1] = x
         /\ \A j \in DOMAIN cells' : j \in DOMAIN cells \/ j = Len(cells) + 1
         /\ \A j : \A class \in Classes : Is(cells, j, class) => Is(cells', j, class)
<1>1. /\ cells' \in Seq(AllCells) /\ Len(cells') = Len(cells) + 1
      /\ \A j \in 1 .. Len(cells) : cells'[j] = cells[j]
      /\ cells'[Len(cells) + 1] = x
  BY AppendProperties
<1>2. DOMAIN cells' = 1 .. Len(cells) + 1 /\ DOMAIN cells = 1 .. Len(cells) /\ Len(cells) \in Nat
  BY <1>1
<1> QED BY <1>1, <1>2 DEF Is

\* The same of any list.
LEMMA ListAppended ==
  ASSUME NEW S, NEW list \in Seq(S), NEW x \in S, NEW new, new = Append(list, x)
  PROVE  /\ new \in Seq(S) /\ Len(new) = Len(list) + 1
         /\ \A j \in DOMAIN list : j \in DOMAIN new /\ new[j] = list[j]
         /\ \A j \in DOMAIN new : j \in DOMAIN list \/ j = Len(list) + 1
         /\ new[Len(list) + 1] = x
<1>1. /\ new \in Seq(S) /\ Len(new) = Len(list) + 1
      /\ \A j \in 1 .. Len(list) : new[j] = list[j]
      /\ new[Len(list) + 1] = x
  BY AppendProperties
<1>2. DOMAIN new = 1 .. Len(list) + 1 /\ DOMAIN list = 1 .. Len(list) /\ Len(list) \in Nat
  BY <1>1
<1> QED BY <1>1, <1>2

\* The elements of the lists.
LEMMA Elements ==
  ASSUME Types
  PROVE  /\ \A w \in DOMAIN wrappers :
              w \in Nat /\ wrappers[w].class \in Classes /\ wrappers[w].cell \in Nat
         /\ \A g \in DOMAIN goConfigs :
              g \in Nat /\ goConfigs[g].packet \in Nat /\ goConfigs[g].debug \in Nat
         /\ DOMAIN configs = 1 .. Len(configs) /\ DOMAIN goConfigs = 1 .. Len(goConfigs)
         /\ Len(cells) \in Nat /\ Len(wrappers) \in Nat /\ DOMAIN cells = 1 .. Len(cells)
         /\ DOMAIN wrappers = 1 .. Len(wrappers) /\ Len(configs) \in Nat
<1>1. \A w \in DOMAIN wrappers : w \in Nat /\ wrappers[w] \in Wrappers
  BY ElementOfSeq DEF Types
<1>2. \A g \in DOMAIN goConfigs : g \in Nat /\ goConfigs[g] \in GoConfigs
  BY ElementOfSeq DEF Types
<1>3. /\ DOMAIN configs = 1 .. Len(configs) /\ DOMAIN goConfigs = 1 .. Len(goConfigs)
      /\ Len(cells) \in Nat /\ Len(wrappers) \in Nat /\ DOMAIN cells = 1 .. Len(cells)
      /\ DOMAIN wrappers = 1 .. Len(wrappers) /\ Len(configs) \in Nat
  BY DEF Types
<1>4. \A x \in Wrappers : x.class \in Classes /\ x.cell \in Nat
  BY DEF Wrappers
<1>5. \A x \in GoConfigs : x.packet \in Nat /\ x.debug \in Nat
  BY DEF GoConfigs
<1> QED BY <1>1, <1>2, <1>3, <1>4, <1>5

\* Pointers stay right as long as nobody redirects them and cells keep their classes.
LEMMA PointersStay ==
  ASSUME ConfigurationInv, UNCHANGED <<wrappers, goConfigs>>,
         \A j : \A class \in Classes : Is(cells, j, class) => Is(cells', j, class)
  PROVE  WrappersPoint' /\ GoPoints'
<1>1. \A w \in DOMAIN wrappers : wrappers[w].class \in Classes
  BY Elements DEF ConfigurationInv
<1>2. "packet" \in Classes /\ "debug" \in Classes
  BY DEF Classes
<1> QED BY <1>1, <1>2 DEF ConfigurationInv, WrappersPoint, GoPoints

\* A wrapper's class and cell.
LEMMA WrapperCell ==
  ASSUME ConfigurationInv, NEW class \in Classes, NEW w \in Objects(class)
  PROVE  /\ w \in DOMAIN wrappers /\ w \in Nat /\ Cell(w) \in Nat
         /\ Is(cells, Cell(w), class)
BY Elements DEF ConfigurationInv, WrappersPoint, Objects, Cell

\* Nothing that happens to wrappers but to their classes and cells disturbs Configs.
LEMMA PairsStay ==
  ASSUME ConfigurationInv, UNCHANGED <<goConfigs, configs>>,
         \A w \in DOMAIN wrappers :
           /\ w \in DOMAIN wrappers'
           /\ wrappers'[w].class = wrappers[w].class /\ wrappers'[w].cell = wrappers[w].cell
  PROVE  Pairs' /\ DebugOwn'
<1>1. \A part \in {"pcap", "packet"} : \A w \in Objects(part) :
        w \in Objects(part)' /\ Cell(w)' = Cell(w)
  BY DEF Objects, Cell
<1>2. Pairs'
  BY <1>1 DEF ConfigurationInv, Pairs
<1>3. DebugOwn'
  BY DEF ConfigurationInv, DebugOwn
<1> QED BY <1>2, <1>3

-----------------------------------------------------------------------------
(***************************************************************************)
(* The calls, each with what it can disturb.                               *)
(***************************************************************************)
\* Nothing exists in the beginning.
LEMMA InitInv == Init => ConfigurationInv
BY DEF Init, ConfigurationInv, Types, WrappersPoint, GoPoints, Pairs, DebugOwn

\* A new object gets a cell of its own, with values of its class.
LEMMA CreateInv ==
  ASSUME ConfigurationInv, NEW class \in Classes, NEW f \in DOMAIN Fresh(class),
         NEW v \in Inputs, Create(class, f, v)
  PROVE  ConfigurationInv'
<1> DEFINE x == [Fresh(class) EXCEPT ![f] = Stored(f, @, v)]
           wrapper == Wrapper(class, Len(cells) + 1)
<1>1. v \in Int /\ Accepts(class, f, v)
  BY ConfigurationAssumption DEF Create
<1>2. x \in CellsOf(class) /\ x \in AllCells
  BY <1>1, FreshOf, SetterKeepsClass, CellsAreCells
<1>3. Types
  BY DEF ConfigurationInv
<1>4. cells \in Seq(AllCells) /\ cells' = Append(cells, x)
  BY <1>3 DEF Types, Create
<1> HIDE DEF x
<1>5. /\ cells' \in Seq(AllCells)
      /\ \A j \in DOMAIN cells : j \in DOMAIN cells' /\ cells'[j] = cells[j]
      /\ Len(cells) + 1 \in DOMAIN cells' /\ cells'[Len(cells) + 1] = x
      /\ \A j \in DOMAIN cells' : j \in DOMAIN cells \/ j = Len(cells) + 1
      /\ \A j : \A b \in Classes : Is(cells, j, b) => Is(cells', j, b)
  BY <1>2, <1>4, CellAppended
<1>6. wrappers \in Seq(Wrappers) /\ wrapper \in Wrappers /\ wrappers' = Append(wrappers, wrapper)
  BY <1>3, Elements DEF Types, Create, Wrappers, Wrapper
<1>7. /\ wrappers' \in Seq(Wrappers)
      /\ \A w \in DOMAIN wrappers : w \in DOMAIN wrappers' /\ wrappers'[w] = wrappers[w]
      /\ \A w \in DOMAIN wrappers' : w \in DOMAIN wrappers \/ w = Len(wrappers) + 1
      /\ wrappers'[Len(wrappers) + 1] = wrapper
  BY <1>6, ListAppended
<1>8. UNCHANGED <<goConfigs, configs>>
  BY DEF Create
<1>9. Types'
  BY <1>3, <1>5, <1>7, <1>8 DEF Types
<1>10. WrappersPoint'
  <2>1. Is(cells', wrapper.cell, wrapper.class)
    BY <1>2, <1>5 DEF Is, Wrapper
  <2>2. \A w \in DOMAIN wrappers : Is(cells', wrappers[w].cell, wrappers[w].class)
    BY <1>3, <1>5, Elements DEF ConfigurationInv, WrappersPoint
  <2> QED BY <2>1, <2>2, <1>7 DEF WrappersPoint
<1>11. GoPoints'
  BY <1>5, <1>8 DEF ConfigurationInv, GoPoints, Classes
<1>12. Pairs' /\ DebugOwn'
  BY <1>7, <1>8, PairsStay
<1> QED BY <1>9, <1>10, <1>11, <1>12 DEF ConfigurationInv

\* What a call that writes one cell leaves as it is.
LEMMA WriteInv ==
  ASSUME ConfigurationInv, NEW a \in Classes, NEW i, Is(cells, i, a), NEW x \in CellsOf(a),
         cells' = [cells EXCEPT ![i] = x], UNCHANGED <<wrappers, goConfigs>>
  PROVE  /\ cells' \in Seq(AllCells) /\ WrappersPoint' /\ GoPoints'
         /\ DOMAIN cells' = DOMAIN cells /\ cells'[i] = x
         /\ \A j \in DOMAIN cells : j # i => cells'[j] = cells[j]
<1>1. cells \in Seq(AllCells)
  BY DEF ConfigurationInv, Types
<1>2. /\ cells' \in Seq(AllCells) /\ DOMAIN cells' = DOMAIN cells
      /\ \A j : \A class \in Classes : Is(cells, j, class) => Is(cells', j, class)
      /\ cells'[i] = x /\ \A j \in DOMAIN cells : j # i => cells'[j] = cells[j]
  BY <1>1, CellWritten
<1>3. WrappersPoint' /\ GoPoints'
  BY <1>2, PointersStay
<1> QED BY <1>2, <1>3

\* A property is assigned: the cell keeps its class.
LEMMA SetFieldInv ==
  ASSUME ConfigurationInv, NEW w \in DOMAIN wrappers, NEW f \in DOMAIN cells[Cell(w)],
         NEW v \in Inputs, SetField(w, f, v)
  PROVE  ConfigurationInv'
<1> DEFINE a == wrappers[w].class
           i == Cell(w)
           x == [cells[i] EXCEPT ![f] = Stored(f, @, v)]
<1>1. Types /\ a \in Classes /\ Is(cells, i, a)
  BY Elements DEF ConfigurationInv, WrappersPoint, Cell
<1>2. v \in Int /\ Accepts(a, f, v) /\ cells[i] \in CellsOf(a) /\ i \in DOMAIN cells
  BY <1>1, ConfigurationAssumption DEF SetField, Is
<1>3. x \in CellsOf(a)
  BY <1>1, <1>2, SetterKeepsClass
<1>4. cells' = [cells EXCEPT ![i] = x] /\ UNCHANGED <<wrappers, goConfigs, configs>>
  BY <1>2 DEF SetField
<1> HIDE DEF x, i, a
<1>5. /\ cells' \in Seq(AllCells) /\ WrappersPoint' /\ GoPoints'
      /\ DOMAIN cells' = DOMAIN cells /\ cells'[i] = x
      /\ \A j \in DOMAIN cells : j # i => cells'[j] = cells[j]
  BY <1>1, <1>3, <1>4, WriteInv, ZenonT(30)
<1>6. Types'
  BY <1>1, <1>4, <1>5 DEF Types
<1>7. Pairs' /\ DebugOwn'
  BY <1>4, PairsStay
<1> QED BY <1>5, <1>6, <1>7 DEF ConfigurationInv

\* The filter that a wrapper shows is nobody else's business.
LEMMA SetPcapFilterInv ==
  ASSUME ConfigurationInv, NEW w \in Objects("pcap"), NEW v \in Inputs, SetPcapFilter(w, v)
  PROVE  ConfigurationInv'
<1>1. Types /\ w \in DOMAIN wrappers /\ {v} \in SUBSET Int
  BY ConfigurationAssumption DEF ConfigurationInv, Objects
<1>2. wrappers[w] \in Wrappers
  BY <1>1, ElementOfSeq DEF Types
<1>3. wrappers' = [wrappers EXCEPT ![w] = [wrappers[w] EXCEPT !.filter = {v}]]
      /\ UNCHANGED <<cells, goConfigs, configs>>
  BY DEF SetPcapFilter
<1>4. /\ [wrappers[w] EXCEPT !.filter = {v}] \in Wrappers
      /\ [wrappers[w] EXCEPT !.filter = {v}].class = wrappers[w].class
      /\ [wrappers[w] EXCEPT !.filter = {v}].cell = wrappers[w].cell
  BY <1>1, <1>2 DEF Wrappers
<1>5. wrappers' \in Seq(Wrappers) /\ DOMAIN wrappers' = DOMAIN wrappers
  BY <1>1, <1>3, <1>4 DEF Types
<1>6. \A u \in DOMAIN wrappers :
        /\ u \in DOMAIN wrappers'
        /\ wrappers'[u].class = wrappers[u].class /\ wrappers'[u].cell = wrappers[u].cell
  BY <1>1, <1>3, <1>4, <1>5
<1>7. Types'
  BY <1>1, <1>3, <1>5 DEF Types
<1>8. WrappersPoint' /\ GoPoints'
  BY <1>3, <1>5, <1>6 DEF ConfigurationInv, WrappersPoint, GoPoints
<1>9. Pairs' /\ DebugOwn'
  BY <1>3, <1>6, PairsStay
<1> QED BY <1>7, <1>8, <1>9 DEF ConfigurationInv

\* Setting the debug options of a Config.
LEMMA DebugInv ==
  ASSUME ConfigurationInv, NEW c \in DOMAIN configs, NEW x \in DebugCells,
         cells' = [cells EXCEPT ![goConfigs[configs[c].go].debug] = x],
         UNCHANGED <<wrappers, goConfigs>>
  PROVE  /\ cells' \in Seq(AllCells) /\ WrappersPoint' /\ GoPoints' /\ DebugOwn'
         /\ configs' = configs => ConfigurationInv'
<1>1. Types /\ c \in DOMAIN goConfigs /\ configs[c].go = c
  BY Elements DEF ConfigurationInv, Pairs
<1>2. Is(cells, goConfigs[c].debug, "debug") /\ "debug" \in Classes /\ x \in CellsOf("debug")
  BY <1>1, CellsOfClasses DEF ConfigurationInv, GoPoints, Classes
<1>3. cells' \in Seq(AllCells) /\ WrappersPoint' /\ GoPoints' /\ DebugOwn'
  BY <1>1, <1>2, WriteInv DEF ConfigurationInv, DebugOwn
<1>4. ASSUME configs' = configs PROVE Types' /\ Pairs' /\ DebugOwn'
  BY <1>1, <1>3, <1>4, PairsStay DEF Types
<1> QED BY <1>3, <1>4 DEF ConfigurationInv

\* A Config and its Go Config are added.
LEMMA PairAdded ==
  ASSUME ConfigurationInv, NEW k \in Configs, NEW g \in GoConfigs,
         configs' = Append(configs, k), goConfigs' = Append(goConfigs, g),
         \A w \in DOMAIN wrappers : w \in DOMAIN wrappers' /\ wrappers'[w] = wrappers[w],
         \A j : \A class \in Classes : Is(cells, j, class) => Is(cells', j, class),
         k.go = Len(goConfigs) + 1,
         \A part \in {"pcap", "packet"} : k[part] \in Objects(part)' /\ g[part] = wrappers'[k[part]].cell,
         Is(cells', g.packet, "packet"), Is(cells', g.debug, "debug"),
         g.debug \notin DOMAIN cells
  PROVE  /\ configs' \in Seq(Configs) /\ goConfigs' \in Seq(GoConfigs)
         /\ GoPoints' /\ Pairs' /\ DebugOwn'
<1>1. Types /\ configs \in Seq(Configs) /\ goConfigs \in Seq(GoConfigs)
      /\ Len(configs) = Len(goConfigs) /\ DOMAIN configs = DOMAIN goConfigs
  BY Elements DEF ConfigurationInv, Types, Pairs
<1>2. /\ configs' \in Seq(Configs) /\ Len(configs') = Len(configs) + 1
      /\ \A c \in DOMAIN configs : c \in DOMAIN configs' /\ configs'[c] = configs[c]
      /\ \A c \in DOMAIN configs' : c \in DOMAIN configs \/ c = Len(configs) + 1
      /\ configs'[Len(configs) + 1] = k
  BY <1>1, ListAppended
<1>3. /\ goConfigs' \in Seq(GoConfigs) /\ Len(goConfigs') = Len(goConfigs) + 1
      /\ \A c \in DOMAIN goConfigs : c \in DOMAIN goConfigs' /\ goConfigs'[c] = goConfigs[c]
      /\ \A c \in DOMAIN goConfigs' : c \in DOMAIN goConfigs \/ c = Len(goConfigs) + 1
      /\ goConfigs'[Len(goConfigs) + 1] = g
  BY <1>1, ListAppended
<1>4. GoPoints'
  BY <1>3 DEF ConfigurationInv, GoPoints, Classes
<1>5. \A part \in {"pcap", "packet"} : \A w \in Objects(part) :
        w \in Objects(part)' /\ wrappers'[w].cell = Cell(w)
  BY DEF Objects, Cell
<1>6. ASSUME NEW c \in DOMAIN configs'
      PROVE  /\ configs'[c].go = c
             /\ \A part \in {"pcap", "packet"} :
                  /\ configs'[c][part] \in Objects(part)'
                  /\ goConfigs'[c][part] = wrappers'[configs'[c][part]].cell
  <2>1. CASE c \in DOMAIN configs
    BY <2>1, <1>1, <1>2, <1>3, <1>5 DEF ConfigurationInv, Pairs
  <2>2. CASE c = Len(configs) + 1
    BY <2>2, <1>1, <1>2, <1>3
  <2> QED BY <2>1, <2>2, <1>2
<1>7. Pairs'
  BY <1>1, <1>2, <1>3, <1>6 DEF Pairs, Cell
<1>8. DebugOwn'
  <2>1. \A h \in DOMAIN goConfigs : goConfigs[h].debug # g.debug
    BY DEF ConfigurationInv, GoPoints, Is
  <2> QED BY <2>1, <1>3 DEF ConfigurationInv, DebugOwn
<1> QED BY <1>2, <1>3, <1>4, <1>7, <1>8

\* A new Config points where its wrappers do, but has debug options of its own.
LEMMA NewConfigInv ==
  ASSUME ConfigurationInv, NEW p \in Objects("pcap"), NEW k \in Objects("packet"),
         NEW d \in Objects("debug"), NewConfig(p, k, d)
  PROVE  ConfigurationInv'
<1> DEFINE x == cells[Cell(d)]
           g == [pcap |-> Cell(p), packet |-> Cell(k), debug |-> Len(cells) + 1]
           config == [pcap |-> p, packet |-> k, debug |-> d, go |-> Len(goConfigs) + 1]
<1>1. Types /\ cells \in Seq(AllCells)
  BY DEF ConfigurationInv, Types
<1>2. /\ p \in Nat /\ Cell(p) \in Nat /\ k \in Nat /\ Cell(k) \in Nat /\ d \in Nat
      /\ Is(cells, Cell(k), "packet") /\ Is(cells, Cell(d), "debug")
  BY WrapperCell DEF Classes
<1>3. x \in DebugCells /\ x \in AllCells /\ x \notin PacketCells
  BY <1>2, CellsOfClasses, ClassesDiffer DEF Is, AllCells
<1> HIDE DEF x
<1>4. cells' = Append(cells, x) /\ configs' = Append(configs, config)
      /\ goConfigs' = Append(goConfigs, g) /\ UNCHANGED wrappers
  BY DEF NewConfig, x
<1>5. /\ cells' \in Seq(AllCells)
      /\ \A j \in DOMAIN cells : j \in DOMAIN cells' /\ cells'[j] = cells[j]
      /\ Len(cells) + 1 \in DOMAIN cells' /\ cells'[Len(cells) + 1] = x
      /\ \A j \in DOMAIN cells' : j \in DOMAIN cells \/ j = Len(cells) + 1
      /\ \A j : \A b \in Classes : Is(cells, j, b) => Is(cells', j, b)
  BY <1>1, <1>3, <1>4, CellAppended
<1>6. g \in GoConfigs /\ config \in Configs
  BY <1>1, <1>2, Elements DEF GoConfigs, Configs, Types
<1>7. Is(cells', g.packet, "packet") /\ Is(cells', g.debug, "debug")
  BY <1>2, <1>3, <1>5, CellsOfClasses DEF Is, Classes
<1>8. \A part \in {"pcap", "packet"} :
        config[part] \in Objects(part)' /\ g[part] = wrappers'[config[part]].cell
  BY <1>4 DEF Objects, Cell
<1>9. /\ configs' \in Seq(Configs) /\ goConfigs' \in Seq(GoConfigs)
      /\ GoPoints' /\ Pairs' /\ DebugOwn'
  <2>1. config.go = Len(goConfigs) + 1 /\ g.debug \notin DOMAIN cells
    BY <1>1, Elements
  <2>2. \A w \in DOMAIN wrappers : w \in DOMAIN wrappers' /\ wrappers'[w] = wrappers[w]
    BY <1>4
  <2> HIDE DEF g, config
  <2> QED BY <2>1, <2>2, <1>4, <1>5, <1>6, <1>7, <1>8, PairAdded
<1>10. Types'
  BY <1>1, <1>4, <1>5, <1>9 DEF Types
<1>11. WrappersPoint'
  BY <1>1, <1>4, <1>5, Elements DEF ConfigurationInv, WrappersPoint
<1> QED BY <1>9, <1>10, <1>11 DEF ConfigurationInv

\* Both sides are redirected together.
LEMMA AssignPartInv ==
  ASSUME ConfigurationInv, NEW c \in DOMAIN configs, NEW part \in {"pcap", "packet"},
         NEW w \in Objects(part), AssignPart(c, part, w)
  PROVE  ConfigurationInv'
<1>1. Types /\ c \in DOMAIN goConfigs /\ configs[c].go = c
  BY Elements DEF ConfigurationInv, Pairs
<1>2. configs[c] \in Configs /\ goConfigs[c] \in GoConfigs
  BY <1>1, ElementOfSeq DEF Types
<1>3. w \in Nat /\ Cell(w) \in Nat /\ Is(cells, Cell(w), part)
  BY WrapperCell DEF Classes
<1>4. /\ configs' = [configs EXCEPT ![c] = [configs[c] EXCEPT ![part] = w]]
      /\ goConfigs' = [goConfigs EXCEPT ![c] = [goConfigs[c] EXCEPT ![part] = Cell(w)]]
      /\ UNCHANGED <<cells, wrappers>>
  BY <1>1 DEF AssignPart, Redirect
<1>5. /\ [configs[c] EXCEPT ![part] = w] \in Configs
      /\ [goConfigs[c] EXCEPT ![part] = Cell(w)] \in GoConfigs
  BY <1>2, <1>3 DEF Configs, GoConfigs
<1>6. /\ configs' \in Seq(Configs) /\ goConfigs' \in Seq(GoConfigs)
      /\ Len(configs') = Len(configs) /\ Len(goConfigs') = Len(goConfigs)
      /\ DOMAIN configs' = DOMAIN configs /\ DOMAIN goConfigs' = DOMAIN goConfigs
  BY <1>1, <1>4, <1>5 DEF Types
<1>7. Types' /\ WrappersPoint'
  BY <1>1, <1>4, <1>6 DEF Types, ConfigurationInv, WrappersPoint
<1>8. ASSUME NEW e \in DOMAIN goConfigs
      PROVE  Is(cells, goConfigs'[e].packet, "packet") /\ Is(cells, goConfigs'[e].debug, "debug")
  <2>1. CASE e # c
    BY <2>1, <1>4 DEF ConfigurationInv, GoPoints
  <2>2. CASE e = c
    <3>1. goConfigs'[e] = [goConfigs[c] EXCEPT ![part] = Cell(w)]
      BY <2>2, <1>1, <1>4
    <3>2. /\ goConfigs'[e].debug = goConfigs[c].debug
          /\ goConfigs'[e].packet = IF part = "packet" THEN Cell(w) ELSE goConfigs[c].packet
      BY <3>1, <1>2 DEF GoConfigs
    <3> QED BY <3>2, <1>1, <1>3 DEF ConfigurationInv, GoPoints
  <2> QED BY <2>1, <2>2
<1>9. GoPoints'
  BY <1>4, <1>6, <1>8 DEF GoPoints
<1>10. ASSUME NEW e \in DOMAIN configs, NEW q \in {"pcap", "packet"}
       PROVE  /\ configs'[e].go = e /\ configs'[e][q] \in Objects(q)
              /\ goConfigs'[e][q] = Cell(configs'[e][q])
  <2>1. CASE e # c
    <3>1. e \in DOMAIN goConfigs
      BY <1>1, Elements DEF ConfigurationInv, Pairs
    <3> QED BY <2>1, <3>1, <1>4 DEF ConfigurationInv, Pairs
  <2>2. CASE e = c
    <3>1. /\ configs'[e] = [configs[c] EXCEPT ![part] = w]
          /\ goConfigs'[e] = [goConfigs[c] EXCEPT ![part] = Cell(w)]
      BY <2>2, <1>1, <1>4
    <3>2. /\ configs'[e].go = configs[c].go
          /\ configs'[e][q] = IF q = part THEN w ELSE configs[c][q]
          /\ goConfigs'[e][q] = IF q = part THEN Cell(w) ELSE goConfigs[c][q]
      BY <3>1, <1>2 DEF Configs, GoConfigs
    <3> QED BY <3>2, <2>2, <1>1 DEF ConfigurationInv, Pairs
  <2> QED BY <2>1, <2>2
<1>11. Pairs'
  BY <1>4, <1>6, <1>10 DEF ConfigurationInv, Pairs, Objects, Cell
<1>12. \A e \in DOMAIN goConfigs : goConfigs'[e].debug = goConfigs[e].debug
  <2>1. [goConfigs[c] EXCEPT ![part] = Cell(w)].debug = goConfigs[c].debug
    BY <1>2 DEF GoConfigs
  <2> QED BY <2>1, <1>1, <1>4
<1>13. DebugOwn'
  BY <1>6, <1>12 DEF ConfigurationInv, DebugOwn
<1> QED BY <1>7, <1>9, <1>11, <1>13 DEF ConfigurationInv

\* Debug options are copied into the cell that Go has.
LEMMA AssignDebugInv ==
  ASSUME ConfigurationInv, NEW c \in DOMAIN configs, NEW w \in Objects("debug"),
         AssignDebug(c, w)
  PROVE  ConfigurationInv'
<1>1. Types /\ configs[c] \in Configs
  BY ElementOfSeq DEF ConfigurationInv, Types
<1>2. w \in Nat /\ cells[Cell(w)] \in DebugCells
  BY WrapperCell, CellsOfClasses DEF Classes, Is
<1>3. /\ configs' = [configs EXCEPT ![c] = [configs[c] EXCEPT !.debug = w]]
      /\ cells' = [cells EXCEPT ![goConfigs[configs[c].go].debug] = cells[Cell(w)]]
      /\ UNCHANGED <<wrappers, goConfigs>>
  BY DEF AssignDebug
<1>4. cells' \in Seq(AllCells) /\ WrappersPoint' /\ GoPoints' /\ DebugOwn'
  BY <1>2, <1>3, DebugInv
<1>5. [configs[c] EXCEPT !.debug = w] \in Configs
  BY <1>1, <1>2 DEF Configs
<1>6. configs' \in Seq(Configs) /\ Len(configs') = Len(configs)
      /\ DOMAIN configs' = DOMAIN configs
  BY <1>1, <1>3, <1>5 DEF Types
<1>7. ASSUME NEW e \in DOMAIN configs
      PROVE  configs'[e].go = configs[e].go
             /\ \A part \in {"pcap", "packet"} : configs'[e][part] = configs[e][part]
  <2>1. CASE e # c
    BY <2>1, <1>3
  <2>2. CASE e = c
    <3>1. configs'[e] = [configs[c] EXCEPT !.debug = w]
      BY <2>2, <1>3
    <3> QED BY <3>1, <2>2, <1>1 DEF Configs
  <2> QED BY <2>1, <2>2
<1>8. Types'
  BY <1>1, <1>3, <1>4, <1>6 DEF Types
<1>9. Pairs'
  BY <1>3, <1>6, <1>7 DEF ConfigurationInv, Pairs, Objects, Cell
<1> QED BY <1>4, <1>8, <1>9 DEF ConfigurationInv

\* enable_debug writes that cell,
LEMMA EnableDebugInv ==
  ASSUME ConfigurationInv, NEW c \in DOMAIN configs, NEW level \in Inputs,
         EnableDebug(c, level)
  PROVE  ConfigurationInv'
<1>1. [enabled |-> 1, level |-> level] \in DebugCells
  BY ConfigurationAssumption DEF DebugCells
<1> QED BY <1>1, DebugInv DEF EnableDebug

\* and so does disable_debug.
LEMMA DisableDebugInv ==
  ASSUME ConfigurationInv, NEW c \in DOMAIN configs, DisableDebug(c)
  PROVE  ConfigurationInv'
<1> DEFINE i == goConfigs[configs[c].go].debug
           x == [cells[i] EXCEPT !.enabled = 0]
<1>1. Types /\ c \in DOMAIN goConfigs /\ configs[c].go = c
  BY Elements DEF ConfigurationInv, Pairs
<1>2. cells[i] \in DebugCells
  BY <1>1, CellsOfClasses DEF ConfigurationInv, GoPoints, Is
<1>3. x \in DebugCells
  BY <1>2 DEF DebugCells
<1>4. cells' = [cells EXCEPT ![i] = x] /\ UNCHANGED <<wrappers, goConfigs, configs>>
  BY DEF DisableDebug
<1> HIDE DEF x
<1> QED BY <1>3, <1>4, DebugInv

\* The three new wrappers.
LEMMA PartsAdded ==
  ASSUME Types, NEW filter \in SUBSET Int, wrappers' = wrappers \o Parts(Len(cells), filter)
  PROVE  /\ wrappers' \in Seq(Wrappers)
         /\ \A w \in DOMAIN wrappers : w \in DOMAIN wrappers' /\ wrappers'[w] = wrappers[w]
         /\ \A w \in DOMAIN wrappers' :
              w \in DOMAIN wrappers \/ w - Len(wrappers) \in {1, 2, 3}
         /\ \A w \in {1, 2, 3} : Len(wrappers) + w \in DOMAIN wrappers'
         /\ \A w \in {1, 2, 3} : wrappers'[Len(wrappers) + w].cell = Len(cells) + w
         /\ wrappers'[Len(wrappers) + 1].class = "pcap"
         /\ wrappers'[Len(wrappers) + 2].class = "packet"
         /\ wrappers'[Len(wrappers) + 3].class = "debug"
<1> DEFINE new == Parts(Len(cells), filter)
<1>1. wrappers \in Seq(Wrappers) /\ Len(cells) \in Nat /\ Len(wrappers) \in Nat
      /\ DOMAIN wrappers = 1 .. Len(wrappers)
  BY Elements DEF Types
<1>2. /\ new \in Seq(Wrappers) /\ Len(new) = 3
      /\ new[1].class = "pcap" /\ new[1].cell = Len(cells) + 1
      /\ new[2].class = "packet" /\ new[2].cell = Len(cells) + 2
      /\ new[3].class = "debug" /\ new[3].cell = Len(cells) + 3
  BY <1>1 DEF Parts, Wrapper, Wrappers, Classes
<1>a. wrappers' = wrappers \o new
  OBVIOUS
<1> HIDE DEF new
<1>b. /\ wrappers' \in Seq(Wrappers) /\ Len(wrappers') = Len(wrappers) + Len(new)
      /\ \A w \in 1 .. Len(wrappers) + Len(new) :
           wrappers'[w] = IF w <= Len(wrappers) THEN wrappers[w] ELSE new[w - Len(wrappers)]
  <2>1. wrappers \in Seq(Wrappers) /\ new \in Seq(Wrappers)
    BY <1>1, <1>2
  <2> HIDE <1>1, <1>2
  <2> QED BY <2>1, <1>a, ConcatProperties
<1>3. /\ wrappers' \in Seq(Wrappers) /\ Len(wrappers') = Len(wrappers) + 3
      /\ \A w \in 1 .. Len(wrappers) + 3 :
           wrappers'[w] = IF w <= Len(wrappers) THEN wrappers[w] ELSE new[w - Len(wrappers)]
  BY <1>2, <1>b
<1>4. DOMAIN wrappers' = 1 .. Len(wrappers) + 3
  BY <1>3
<1>5. \A w \in {1, 2, 3} :
        Len(wrappers) + w \in DOMAIN wrappers' /\ wrappers'[Len(wrappers) + w] = new[w]
  BY <1>1, <1>3, <1>4, SMTT(30)
<1>6. \A w \in DOMAIN wrappers' :
        w \in DOMAIN wrappers \/ w - Len(wrappers) \in {1, 2, 3}
  BY <1>1, <1>4
<1>7. \A w \in DOMAIN wrappers : w \in DOMAIN wrappers' /\ wrappers'[w] = wrappers[w]
  BY <1>1, <1>3, <1>4
<1> QED BY <1>2, <1>3, <1>5, <1>6, <1>7, SMTT(30)

\* Positions behind the end of a list.
LEMMA Sums ==
  ASSUME NEW n \in Nat, NEW d \in Nat
  PROVE  /\ n + 1 \in Nat /\ n + 2 \in Nat /\ n + 3 \in Nat /\ n + d \in Nat
         /\ d > 0 => n + d \notin 1 .. n
OBVIOUS

\* A Config of new parts: cell packet is the second of the new cells, the debug options
\* that Go has are the d-th.
LEMMA NewPartsInv ==
  ASSUME ConfigurationInv, NEW new \in Seq(AllCells), NEW d \in DOMAIN new,
         NEW filter \in SUBSET Int,
         {1, 2, 3} \subseteq DOMAIN new,
         new[1] \in PcapCells, new[2] \in PacketCells, new[3] \in DebugCells,
         new[d] \in DebugCells,
         cells' = cells \o new, wrappers' = wrappers \o Parts(Len(cells), filter),
         goConfigs' = Append(goConfigs, [pcap |-> Len(cells) + 1, packet |-> Len(cells) + 2,
                                         debug |-> Len(cells) + d]),
         configs' = Append(configs, [pcap |-> Len(wrappers) + 1, packet |-> Len(wrappers) + 2,
                                     debug |-> Len(wrappers) + 3, go |-> Len(goConfigs) + 1])
  PROVE  ConfigurationInv'
<1> DEFINE g == [pcap |-> Len(cells) + 1, packet |-> Len(cells) + 2, debug |-> Len(cells) + d]
           config == [pcap |-> Len(wrappers) + 1, packet |-> Len(wrappers) + 2,
                      debug |-> Len(wrappers) + 3, go |-> Len(goConfigs) + 1]
<1>1. Types /\ cells \in Seq(AllCells) /\ Len(cells) \in Nat /\ Len(wrappers) \in Nat
      /\ Len(goConfigs) \in Nat /\ d \in Nat /\ DOMAIN new \subseteq Nat
  <2>1. Types
    BY DEF ConfigurationInv
  <2>2. d \in Nat /\ DOMAIN new \subseteq Nat
    BY SMTT(30)
  <2>3. cells \in Seq(AllCells) /\ Len(goConfigs) \in Nat
    BY <2>1 DEF Types
  <2> QED BY <2>1, <2>2, <2>3, Elements
<1>2. /\ cells' \in Seq(AllCells)
      /\ \A j \in DOMAIN cells : j \in DOMAIN cells' /\ cells'[j] = cells[j]
      /\ \A j \in DOMAIN new : Len(cells) + j \in DOMAIN cells' /\ cells'[Len(cells) + j] = new[j]
      /\ \A j \in DOMAIN cells' : j \notin DOMAIN cells =>
           j - Len(cells) \in DOMAIN new /\ cells'[j] = new[j - Len(cells)]
      /\ \A j : \A class \in Classes : Is(cells, j, class) => Is(cells', j, class)
  BY <1>1, CellsAdded
<1>3. /\ wrappers' \in Seq(Wrappers)
      /\ \A w \in DOMAIN wrappers : w \in DOMAIN wrappers' /\ wrappers'[w] = wrappers[w]
      /\ \A w \in DOMAIN wrappers' :
           w \in DOMAIN wrappers \/ w - Len(wrappers) \in {1, 2, 3}
      /\ \A w \in {1, 2, 3} : Len(wrappers) + w \in DOMAIN wrappers'
      /\ \A w \in {1, 2, 3} : wrappers'[Len(wrappers) + w].cell = Len(cells) + w
      /\ wrappers'[Len(wrappers) + 1].class = "pcap"
      /\ wrappers'[Len(wrappers) + 2].class = "packet"
      /\ wrappers'[Len(wrappers) + 3].class = "debug"
  BY <1>1, PartsAdded
<1>4. /\ Is(cells', Len(cells) + 1, "pcap") /\ Is(cells', Len(cells) + 2, "packet")
      /\ Is(cells', Len(cells) + 3, "debug") /\ Is(cells', Len(cells) + d, "debug")
  BY <1>2, CellsOfClasses DEF Is
<1>5. g \in GoConfigs /\ config \in Configs
  <2>1. Len(cells) + 1 \in Nat /\ Len(cells) + 2 \in Nat /\ Len(cells) + d \in Nat
        /\ Len(wrappers) + 1 \in Nat /\ Len(wrappers) + 2 \in Nat
        /\ Len(wrappers) + 3 \in Nat /\ Len(goConfigs) + 1 \in Nat
    BY <1>1, Sums, Zenon
  <2> QED BY <2>1 DEF GoConfigs, Configs
<1>6. \A part \in {"pcap", "packet"} :
        config[part] \in Objects(part)' /\ g[part] = wrappers'[config[part]].cell
  <2>1. Len(wrappers) + 1 \in Objects("pcap")' /\ Len(wrappers) + 2 \in Objects("packet")'
    BY <1>3 DEF Objects
  <2>2. g.pcap = wrappers'[config.pcap].cell /\ g.packet = wrappers'[config.packet].cell
    BY <1>3
  <2>3. config.pcap \in Objects("pcap")' /\ config.packet \in Objects("packet")'
    BY <2>1
  <2> HIDE DEF g, config
  <2> QED BY <2>2, <2>3
<1>7. /\ configs' \in Seq(Configs) /\ goConfigs' \in Seq(GoConfigs)
      /\ GoPoints' /\ Pairs' /\ DebugOwn'
  <2>a. g.debug \notin DOMAIN cells
    <3>1. DOMAIN new = 1 .. Len(new) /\ Len(new) \in Nat
      BY LenProperties
    <3>2. d > 0 /\ DOMAIN cells = 1 .. Len(cells)
      BY <3>1, <1>1, Elements
    <3>3. Len(cells) + d \notin 1 .. Len(cells)
      BY <3>2, <1>1, Sums, Zenon
    <3>4. g.debug = Len(cells) + d
      OBVIOUS
    <3> QED BY <3>2, <3>3, <3>4, Zenon
  <2>1. config.go = Len(goConfigs) + 1
        /\ Is(cells', g.packet, "packet") /\ Is(cells', g.debug, "debug")
        /\ configs' = Append(configs, config) /\ goConfigs' = Append(goConfigs, g)
    BY <1>4
  <2> HIDE DEF g, config
  <2> QED BY <2>a, <2>1, <1>2, <1>3, <1>5, <1>6, PairAdded
<1>8. Types'
  BY <1>1, <1>2, <1>3, <1>7 DEF Types
<1>9. WrappersPoint'
  <2>1. \A w \in DOMAIN wrappers : Is(cells', wrappers[w].cell, wrappers[w].class)
    BY <1>1, <1>2, Elements DEF ConfigurationInv, WrappersPoint
  <2>2. \A w \in DOMAIN wrappers' : w \in DOMAIN wrappers \/ w = Len(wrappers) + 1
          \/ w = Len(wrappers) + 2 \/ w = Len(wrappers) + 3
    <3>1. \A w \in DOMAIN wrappers' : w \in Nat
      BY <1>3, SMTT(30)
    <3>2. \A w \in Nat : w - Len(wrappers) \in {1, 2, 3} =>
            w = Len(wrappers) + 1 \/ w = Len(wrappers) + 2 \/ w = Len(wrappers) + 3
      BY <1>1
    <3> QED BY <3>1, <3>2, <1>3
  <2> QED BY <2>1, <2>2, <1>3, <1>4, ZenonT(30) DEF WrappersPoint
<1> QED BY <1>7, <1>8, <1>9 DEF ConfigurationInv

\* Config() copies its debug options.
LEMMA NewConfigOfDefaultsInv ==
  ASSUME ConfigurationInv, NewConfigOfDefaults
  PROVE  ConfigurationInv'
<1> DEFINE new == <<NewPcap, NewPacket, NewDebug, NewDebug>>
<1>1. /\ new \in Seq(AllCells) /\ DOMAIN new = 1 .. 4
      /\ new[1] = NewPcap /\ new[2] = NewPacket /\ new[3] = NewDebug /\ new[4] = NewDebug
  BY FreshCells DEF AllCells
<1>3. cells' = cells \o new
  BY DEF NewConfigOfDefaults
<1> HIDE DEF new
<1>5. {1, 2, 3} \subseteq DOMAIN new /\ 4 \in DOMAIN new
  BY <1>1
<1>6. /\ wrappers' = wrappers \o Parts(Len(cells), {0})
      /\ goConfigs' = Append(goConfigs, [pcap |-> Len(cells) + 1, packet |-> Len(cells) + 2,
                                         debug |-> Len(cells) + 4])
      /\ configs' = Append(configs, [pcap |-> Len(wrappers) + 1, packet |-> Len(wrappers) + 2,
                                     debug |-> Len(wrappers) + 3, go |-> Len(goConfigs) + 1])
  BY DEF NewConfigOfDefaults
<1>7. {0} \in SUBSET Int
  OBVIOUS
<1> QED BY <1>1, <1>3, <1>5, <1>6, <1>7, FreshCells, NewPartsInv

\* create_default_config has Go make the Config, and shows no filter for pcap.
LEMMA CreateDefaultConfigInv ==
  ASSUME ConfigurationInv, NEW packet \in PacketCells, CreateDefaultConfig(packet)
  PROVE  ConfigurationInv'
<1> DEFINE new == <<NewPcap, packet, NewDebug>>
<1>1. /\ new \in Seq(AllCells) /\ DOMAIN new = 1 .. 3
      /\ new[1] = NewPcap /\ new[2] = packet /\ new[3] = NewDebug
  BY FreshCells DEF AllCells
<1>3. cells' = cells \o new
  BY DEF CreateDefaultConfig
<1> HIDE DEF new
<1>5. {1, 2, 3} \subseteq DOMAIN new /\ 3 \in DOMAIN new
  BY <1>1
<1>6. /\ wrappers' = wrappers \o Parts(Len(cells), {})
      /\ goConfigs' = Append(goConfigs, [pcap |-> Len(cells) + 1, packet |-> Len(cells) + 2,
                                         debug |-> Len(cells) + 3])
      /\ configs' = Append(configs, [pcap |-> Len(wrappers) + 1, packet |-> Len(wrappers) + 2,
                                     debug |-> Len(wrappers) + 3, go |-> Len(goConfigs) + 1])
  BY DEF CreateDefaultConfig
<1>7. {} \in SUBSET Int
  OBVIOUS
<1> QED BY <1>1, <1>3, <1>5, <1>6, <1>7, FreshCells, NewPartsInv

\* A sender copies its numbers and leaves the settings alone.
LEMMA NewSenderInv ==
  ASSUME ConfigurationInv, NEW c, NEW stream, NewSender(c, stream)
  PROVE  ConfigurationInv'
BY DEF NewSender, ConfigurationInv, Types, WrappersPoint, GoPoints, Pairs, DebugOwn, Objects, Cell

-----------------------------------------------------------------------------
\* Every call keeps the invariant.
LEMMA NextInv ==
  ASSUME ConfigurationInv, [Next]_vars
  PROVE  ConfigurationInv'
<1>1. CASE UNCHANGED vars
  BY <1>1 DEF vars, ConfigurationInv, Types, WrappersPoint, GoPoints, Pairs, DebugOwn,
              Objects, Cell
<1>2. ASSUME NEW class \in Classes, NEW f \in DOMAIN Fresh(class), NEW v \in Inputs,
             Create(class, f, v)
      PROVE  ConfigurationInv'
  BY <1>2, CreateInv
<1>3. ASSUME NEW f \in DOMAIN NewStream, NEW v \in Inputs,
             CreateDefaultMultiStreamConfig(f, v)
      PROVE  ConfigurationInv'
  <2>1. "stream" \in Classes /\ Fresh("stream") = NewStream
    BY DEF Classes, Fresh
  <2> QED BY <2>1, <1>3, CreateInv DEF CreateDefaultMultiStreamConfig
<1>4. ASSUME NEW w \in DOMAIN wrappers, NEW f \in DOMAIN cells[Cell(w)], NEW v \in Inputs,
             SetField(w, f, v)
      PROVE  ConfigurationInv'
  BY <1>4, SetFieldInv
<1>5. ASSUME NEW p \in Objects("pcap"), NEW k \in Objects("packet"),
             NEW d \in Objects("debug"), NewConfig(p, k, d)
      PROVE  ConfigurationInv'
  BY <1>5, NewConfigInv
<1>6. ASSUME NEW c \in DOMAIN configs, NEW part \in {"pcap", "packet"},
             NEW w \in Objects(part), AssignPart(c, part, w)
      PROVE  ConfigurationInv'
  BY <1>6, AssignPartInv
<1>7. ASSUME NEW c \in DOMAIN configs, NEW w \in Objects("debug"), AssignDebug(c, w)
      PROVE  ConfigurationInv'
  BY <1>7, AssignDebugInv
<1>8. ASSUME NEW c \in DOMAIN configs,
             (\E level \in Inputs : EnableDebug(c, level)) \/ DisableDebug(c)
      PROVE  ConfigurationInv'
  BY <1>8, EnableDebugInv, DisableDebugInv
<1>9. ASSUME NEW mac \in Inputs, NEW ip \in Inputs, NEW port \in Inputs, NEW bpf \in Inputs,
             CreateDefaultConfig([src_mac |-> mac, src_ip |-> ip, src_port |-> port,
                                  bpf_filter |-> bpf])
      PROVE  ConfigurationInv'
  <2>1. [src_mac |-> mac, src_ip |-> ip, src_port |-> port, bpf_filter |-> bpf] \in PacketCells
    BY ConfigurationAssumption DEF PacketCells
  <2> QED BY <2>1, <1>9, CreateDefaultConfigInv
<1>10. CASE NewConfigOfDefaults
  BY <1>10, NewConfigOfDefaultsInv
<1>11. ASSUME NEW c \in DOMAIN configs, NEW stream, NewSender(c, stream)
       PROVE  ConfigurationInv'
  BY <1>11, NewSenderInv
<1>12. ASSUME NEW w \in Objects("pcap"), NEW v \in Inputs, SetPcapFilter(w, v)
       PROVE  ConfigurationInv'
  BY <1>12, SetPcapFilterInv
<1> QED
  BY <1>1, <1>2, <1>3, <1>4, <1>5, <1>6, <1>7, <1>8, <1>9, <1>10, <1>11, <1>12 DEF Next

\* So it always holds.
LEMMA ConfigurationCorrect == Spec => []ConfigurationInv
<1>1. ConfigurationInv /\ [Next]_vars => ConfigurationInv'
  BY NextInv
<1> QED BY InitInv, <1>1, PTL DEF Spec

\* The wrappers of a Config point to the structs that Go uses, and its debug options
\* are its own (config.py 480-514 and 592-611).
THEOREM SettingsReachGoHolds == Spec => []SettingsReachGo
<1>1. ConfigurationInv => SettingsReachGo
  BY Elements DEF ConfigurationInv, Pairs, DebugOwn, SettingsReachGo
<1> QED BY <1>1, ConfigurationCorrect, PTL
=============================================================================
