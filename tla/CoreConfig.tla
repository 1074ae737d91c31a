------------------------------ MODULE CoreConfig ------------------------------
(*****************************************************************************)
(* Core discovery: DtbReader::scan walks the device tree, DtbCoreScanner of  *)
(* src/arch/arm_common/dtb_cpu.rs reads the cpus and cpu nodes, and          *)
(* CoreConfig::add_core (src/arch/common/cpu.rs) keeps the list of cores,    *)
(* the primary first, and a hash map from core ID to index.                  *)
(*                                                                           *)
(* A node is its name, its properties in the order of the blob, and the      *)
(* words between them and the next node's name.  A turn of scan reads no     *)
(* further than that, so that the nodes are chosen as the scan goes.         *)
(*****************************************************************************)
EXTENDS HashTable, DtbReader

CONSTANTS
  MAX_CORES,
  CELL, USIZE,  \* number of values of a word and of a usize
  CoreId,       \* IDs in the device tree; FDT_PROP, which would be read as a
                \* property header after reg, is left out
  primary_id,
  Headers,      \* what the blob may begin with
  Nodes,        \* the nodes there may be
  MaxNodes      \* bound on the cpu nodes of a device tree

ASSUME CoreAssumption ==
  /\ MAX_CORES \in Nat \ {0} /\ MaxNodes \in Nat
  /\ CELL \in Nat \ {0} /\ USIZE \in {CELL, CELL * CELL}
  /\ CoreId \subseteq 0 .. USIZE - 1 /\ primary_id \in CoreId /\ FDT_PROP \notin CoreId

VARIABLES
  phase,               \* "new", "scan", "check", "done" or "failed"
  addr_cells, def_enable_method,
  cores,               \* the first core_count cores
  id_map,              \* hash table from ID to index, counted from 0
  scanned              \* ghost: the cpu nodes scanned

vars == <<phase, addr_cells, def_enable_method, cores, id_map, hash, scanned>>

NewCore == [id |-> 0, enable_method |-> "Invalid", release_addr |-> 0]

Init ==
  /\ phase = "new" /\ addr_cells = 0 /\ def_enable_method = "Invalid"
  /\ cores = <<>> /\ id_map = EmptyTable /\ hash \in [CoreId -> HashValue]
  /\ scanned = <<>>

InsertId(map, id, index) == InsertKey(map, hash[id], id, index)

(* get_core_config up to the scan: the blob is one. *)
NewReader(header) ==
  /\ phase = "new"
  /\ phase' = IF ReaderNew(header) THEN "scan" ELSE "failed"
  /\ UNCHANGED <<addr_cells, def_enable_method, cores, id_map, hash, scanned>>

(* The blob ends in a node's name. *)
NameCutOff ==
  /\ phase = "scan" /\ phase' = "failed"
  /\ UNCHANGED <<addr_cells, def_enable_method, cores, id_map, hash, scanned>>

(* Where a turn of scan leads. *)
AfterNode(ok, dtb) ==
  IF ~ok THEN "failed"
  ELSE CASE ScanToNextNode(dtb, 1) = "node" -> "scan"
         [] ScanToNextNode(dtb, 1) = "end" -> "check"
         [] OTHER -> "failed"

(* What a node says about its core, whatever the order of its properties. *)
Said(props, name, default) ==
  IF \E i \in DOMAIN props : props[i].name = name
  THEN props[CHOOSE i \in DOMAIN props : props[i].name = name].value ELSE default

Reg(props) == Said(props, "reg", 0)
RegFits(props, cells) == cells # 0 => Reg(props) < CELL ^ cells

ASSUME NodesAssumption == \A node \in Nodes : node.name = "cpu@N" => Reg(node.props) \in CoreId

(* The words of a property, and of a node from its name on. *)
PropertyWords(prop, reg_cells) ==
  CASE prop.name = "nop" -> <<U32(FDT_NOOP)>>
    [] prop.name \in {"#address-cells", "#size-cells"} -> Property(prop.name, 4, <<U32(prop.value)>>)
    [] prop.name = "cpu-release-addr" ->
         Property(prop.name, 4 * Len(prop.value), [i \in DOMAIN prop.value |-> U32(prop.value[i])])
    [] prop.name = "compatible" ->
         Property(prop.name, 4 * Len(prop.value), [i \in DOMAIN prop.value |-> Str(prop.value[i])])
    [] prop.name = "reg" ->
         Property(prop.name, 4 * reg_cells,
                  [i \in 1 .. reg_cells |-> U32((prop.value \div CELL ^ (reg_cells - i)) % CELL)])
    [] OTHER -> Property(prop.name, 3, <<Str(prop.value)>>)

NodeWords(node, reg_cells) ==
  FlattenSeq([i \in DOMAIN node.props |-> PropertyWords(node.props[i], reg_cells)]) \o node.after

-----------------------------------------------------------------------------
(* The loops over a node's properties keep a record of the cursor, whether   *)
(* there was an error, and what was read.                                    *)
Failed(st) == [st EXCEPT !.ok = FALSE]

EnableMethods == [x \in {"spin-table", "brcm,bcm2836-smp"} |->
                    IF x = "spin-table" THEN "SpinTable" ELSE "Bcm2836"]

(* read_enable_method: an unknown or unsupported method is an error. *)
ReadEnableMethod(dtb, loc, st) ==
  IF HasU32(dtb, loc) /\ GetString(dtb, loc) \in DOMAIN EnableMethods
  THEN [st EXCEPT !.loc = loc + 1, !.enable_method = EnableMethods[GetString(dtb, loc)]]
  ELSE Failed(st)

(* A turn of the loop of scan_cpus_node. *)
CpusProperty(dtb, st) ==
  LET header == GetNextProperty(dtb, st.loc)
      loc == header.loc
  IN CASE ~st.ok \/ ~header.found -> st
       [] header.name = "#address-cells" ->
            IF HasU32(dtb, loc) THEN [st EXCEPT !.loc = loc + 1, !.addr_cells = GetU32(dtb, loc)]
            ELSE Failed(st)
       [] header.name = "#size-cells" ->
            IF HasU32(dtb, loc) /\ GetU32(dtb, loc) = 0 THEN [st EXCEPT !.loc = loc + 1]
            ELSE Failed(st)
       [] header.name = "enable-method" -> ReadEnableMethod(dtb, loc, st)
       [] OTHER -> [st EXCEPT !.loc = SkipAndAlign(dtb, loc, header.size)]

ReadCpusNode(dtb, cells, method) ==
  FoldLeft(LAMBDA acc, word : CpusProperty(dtb, acc),
           [loc |-> 1, ok |-> TRUE, addr_cells |-> cells, enable_method |-> method],
           PropertyMarkers(dtb))

(* scan_cpus_node: "We need at least one address cell". *)
ScanCpusNode(dtb) ==
  LET st == ReadCpusNode(dtb, addr_cells, def_enable_method)
  IN /\ phase' = AfterNode(st.ok /\ st.addr_cells # 0, dtb)
     /\ addr_cells' = st.addr_cells /\ def_enable_method' = st.enable_method
     /\ UNCHANGED <<cores, id_map, hash, scanned>>

(* read_cpu_release_addr: one or two cells. *)
ReadCpuReleaseAddr(dtb, header, st) ==
  LET n == header.size \div FDT_WORD_BYTES
      addr == GetCells(dtb, header.loc, n, CELL)
  IN IF header.size \in {4, 8} /\ HasU32(dtb, header.loc + n - 1) /\ addr < USIZE
     THEN [st EXCEPT !.loc = header.loc + n, !.release_addr = addr]
     ELSE Failed(st)

(* read_thread_id: a division by the size of a pair, and a copy of the       *)
(* cursor is moved, so that the loop goes on at the value.                   *)
ReadThreadId(dtb, loc, cells, st) ==
  IF HasRegPair(dtb, loc, cells, 0)
  THEN [st EXCEPT !.loc = loc, !.id = GetRegPair(dtb, loc, cells, 0, CELL).addr % USIZE]
  ELSE Failed(st)

(* A turn of the loop of scan_cpu_node.  read_compatible takes the first     *)
(* string of the list for all of it, so that the loop goes on at the second. *)
CpuProperty(dtb, cells, st) ==
  LET header == GetNextProperty(dtb, st.loc)
      loc == header.loc
  IN CASE ~st.ok \/ ~header.found -> st
       [] header.name = "compatible" ->
            IF HasU32(dtb, loc) THEN [st EXCEPT !.loc = loc + 1] ELSE Failed(st)
       [] header.name = "enable-method" -> ReadEnableMethod(dtb, loc, st)
       [] header.name = "cpu-release-addr" -> ReadCpuReleaseAddr(dtb, header, st)
       [] header.name = "reg" -> ReadThreadId(dtb, loc, cells, st)
       [] OTHER -> [st EXCEPT !.loc = SkipAndAlign(dtb, loc, header.size)]

ReadNode(dtb, cells) ==
  FoldLeft(LAMBDA acc, word : CpuProperty(dtb, cells, acc),
           [loc |-> 1, ok |-> TRUE, id |-> 0, enable_method |-> "Invalid", release_addr |-> 0],
           PropertyMarkers(dtb))

(* The core that the properties of a node tell of, with a method for those   *)
(* that name none.                                                           *)
Told(props, default) ==
  [id            |-> Reg(props),
   enable_method |-> LET method == Said(props, "enable-method", "none")
                     IN IF method = "none" THEN default ELSE EnableMethods[method],
   release_addr  |-> LET words == Said(props, "cpu-release-addr", <<0>>)
                     IN IF Len(words) = 1 THEN words[1] ELSE words[1] * CELL + words[2]]

(* The address cells that a cpus node can give, ... *)
CpusCells ==
  {0} \cup {ReadCpusNode(NodeWords(node, 0), 0, "Invalid").addr_cells :
             node \in {n \in Nodes : n.name = "cpus"}}

(* ... and the reader's part, which TLC checks for the nodes of a model: the *)
(* ID it finds in the words of a cpu node is the node's.                     *)
ASSUME CpuReaderAssumption ==
  \A cells \in CpusCells : \A node \in {n \in Nodes : n.name = "cpu@N"} :
    LET read == ReadNode(NodeWords(node, cells), cells)
    IN RegFits(node.props, cells) /\ read.ok => read.id = Reg(node.props)

(* Mutant: the method of the cpus node replaces the core's own. *)
WithMethodAlways(core) == [core EXCEPT !.enable_method = def_enable_method]

(* A core without a method of its own gets that of the cpus node. *)
WithMethod(core) ==
  IF core.enable_method = "Invalid" THEN [core EXCEPT !.enable_method = def_enable_method] ELSE core

(* Mutant: the map keeps the old index of the core that makes room. *)
MapAddedStale(core) ==
  LET map1 == InsertId(id_map, core.id, Len(cores))
  IN IF core.id # primary_id THEN map1 ELSE InsertId(map1, core.id, 0)

(* add_core's updates of the map: the core at index 0 makes room. *)
MapAdded(core) ==
  LET map1 == InsertId(id_map, core.id, Len(cores))
      first == IF cores = <<>> THEN core ELSE cores[1]
  IN IF core.id # primary_id THEN map1
     ELSE InsertId(InsertId(map1, first.id, Len(cores)), core.id, 0)

(* add_core's updates of the list: append, then swap the primary core in. *)
ListAdded(core) ==
  IF core.id # primary_id \/ cores = <<>> THEN Append(cores, core)
  ELSE Append([cores EXCEPT ![1] = core], cores[1])

(* Mutant: the reserved spot is kept from the primary core too. *)
HasRoomReserved(core) == Len(cores) < MAX_CORES - 1

(* The two tests for a full configuration, of scan_cpu_node and add_core. *)
HasRoom(core) ==
  /\ core.id = primary_id \/ Len(cores) <= MAX_CORES - 1
  /\ Len(cores) < MAX_CORES

(* scan_cpu_node. *)
ScanCpuNode(dtb, props) ==
  LET read == ReadNode(dtb, addr_cells)
      core == WithMethod([x \in DOMAIN NewCore |-> read[x]])
  IN /\ scanned' = Append(scanned, props)
     /\ phase' = AfterNode(read.ok, dtb)
     /\ IF read.ok /\ HasRoom(core)
        THEN cores' = ListAdded(core) /\ id_map' = MapAdded(core)
        ELSE UNCHANGED <<cores, id_map>>
     /\ UNCHANGED <<addr_cells, def_enable_method, hash>>

(* A turn of scan with scan_node: any other node is passed over. *)
ScanNode(node) ==
  LET dtb == NodeWords(node, addr_cells)
  IN /\ phase = "scan"
     /\ CASE node.name = "cpus" -> ScanCpusNode(dtb)
          [] node.name = "cpu@N" -> ScanCpuNode(dtb, node.props)
          [] OTHER -> /\ phase' = AfterNode(TRUE, dtb)
                      /\ UNCHANGED <<addr_cells, def_enable_method, cores, id_map, hash, scanned>>

(* The end of get_core_config: a core, and a method for each, or init panics. *)
EndScan ==
  /\ phase = "check"
  /\ phase' = IF cores = <<>> \/ \E c \in ToSet(cores) : c.enable_method = "Invalid"
              THEN "failed" ELSE "done"
  /\ UNCHANGED <<addr_cells, def_enable_method, cores, id_map, hash, scanned>>

(* A tree has one cpus node, before its cpu nodes, and no two of these for   *)
(* one core; a reg value fits its cells.                                     *)
NextNodes ==
  {node \in Nodes :
     CASE phase # "scan" -> FALSE
       [] node.name = "cpus" -> addr_cells = 0 /\ scanned = <<>>
       [] node.name = "cpu@N" -> /\ Len(scanned) < MaxNodes
                                 /\ RegFits(node.props, addr_cells)
                                 /\ \A other \in ToSet(scanned) : Reg(other) # Reg(node.props)
       [] OTHER -> TRUE}

(* init_core_config, a step at a time. *)
Next ==
  \/ \E header \in Headers : NewReader(header)
  \/ NameCutOff
  \/ \E node \in NextNodes : ScanNode(node)
  \/ EndScan

Spec == Init /\ [][Next]_vars

(* get_core_index: {} or the one index, by the search that up to 32 cores    *)
(* use and by the one that more cores use.                                   *)
LinearIndex(id) ==
  LET found == {i \in DOMAIN cores : cores[i].id = id}
  IN IF found = {} THEN {} ELSE {Min(found) - 1}
MappedIndex(id) == Find(id_map, hash[id], id)

-----------------------------------------------------------------------------
(*****************************************************************************)
(* Properties.                                                               *)
(*****************************************************************************)

(* get_core_index never gets a wrong index from the hash map, whatever the   *)
(* swaps of add_core and the inserts that find no slot, whose failure it     *)
(* ignores; and while the cores are at most half as many as the slots the    *)
(* map has every core, so that the answer is that of the linear search on    *)
(* both sides of the number of cores at which one replaces the other.        *)
IndexesAgree ==
  \A id \in CoreId :
    /\ MappedIndex(id) \subseteq LinearIndex(id)
    /\ Len(cores) <= (N + 1) \div 2 => MappedIndex(id) = LinearIndex(id)

(* The configuration has the cores of the device tree, by ID and each once,  *)
(* and only those; cores are ignored only "if there are too many": at most   *)
(* the spot that is reserved for the primary core stays free.  "The primary  *)
(* core is always given an index of 0", wherever its node is in the tree.    *)
CoresListed ==
  phase # "failed" =>
    LET ids == {Reg(props) : props \in ToSet(scanned)}
        kept == {core.id : core \in ToSet(cores)}
        room == IF primary_id \in ids THEN MAX_CORES ELSE MAX_CORES - 1
    IN /\ kept \subseteq ids
       /\ \A i, j \in DOMAIN cores : cores[i].id = cores[j].id => i = j
       /\ Len(scanned) <= room => kept = ids
       /\ Len(scanned) > room => Len(cores) \in {MAX_CORES - 1, MAX_CORES}
       /\ \A i \in DOMAIN cores : cores[i].id = primary_id => i = 1

Described(props) == Told(props, def_enable_method)
RegLast(props) == \A i \in DOMAIN props : props[i].name = "reg" => i = Len(props)

(* A core is what its node says, if reg is the node's last property: its     *)
(* method and release address are its own, whatever the cells, the noops,    *)
(* the order of the properties and the nodes around it; "if a cpu@N node     *)
(* does not specify a core enable method, the method found here [in the cpus *)
(* node] will be used", and only then.                                       *)
CoresAsDescribed ==
  phase # "failed" =>
    \A core \in ToSet(cores) : \E props \in ToSet(scanned) :
      Reg(props) = core.id /\ (RegLast(props) => core = Described(props))

(* The same for every node, whatever comes behind reg: read_thread_id leaves *)
(* the cursor on reg's value, which ends the loop.  (The code does not keep  *)
(* this.)                                                                    *)
PropertiesBehindRegRead ==
  phase # "failed" =>
    \A core \in ToSet(cores) : \E props \in ToSet(scanned) :
      Reg(props) = core.id /\ core = Described(props)

(* "Reserve a spot in the configuration to ensure that we always add the     *)
(* primary core."                                                            *)
PrimaryAlwaysAdded ==
  phase = "done" /\ (\E props \in ToSet(scanned) : Reg(props) = primary_id) =>
    \E c \in ToSet(cores) : c.id = primary_id

=============================================================================
