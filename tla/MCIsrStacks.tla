----------------------------- MODULE MCIsrStacks ------------------------------
(* Device tree blobs for TLC. *)
EXTENDS IsrStacks

P(name, value) == [name |-> name, value |-> value]

Words(seq) == [i \in DOMAIN seq |-> U32(seq[i])]

Node(name, props, after) == [name |-> name, props |-> props, after |-> Words(after)]

(* A good header, one that is shorter than new reads, another magic word. *)
MCHeaders ==
  {[blob |-> 1, magic |-> FDT_MAGIC, total_size |-> 96],
   [blob |-> 1, magic |-> FDT_MAGIC, total_size |-> 36],
   [blob |-> 1, magic |-> "0", total_size |-> 96]}

(* One and two address cells, none, and size cells; a default method or not. *)
CpusNodes ==
  {Node("cpus", <<P("#address-cells", n), P("#size-cells", 0)>>, <<1>>) : n \in 0 .. 2}
    \cup {Node("cpus", <<P("enable-method", m), P("nop", 0), P("#size-cells", 0),
                         P("#address-cells", 1)>>, <<1>>) : m \in {"brcm,bcm2836-smp", "psci"}}
    \cup {Node("cpus", <<P("#size-cells", 1), P("#address-cells", 1)>>, <<1>>)}

(* reg comes last, or first, as the Raspberry Pi's trees have it; a list of  *)
(* two compatible strings only behind it.  A sibling, a child or the end of  *)
(* the tree follows.  The two cells of ID 68 read as FDT_NOOP.               *)
CpuNodes ==
  {Node("cpu@N", <<P("compatible", <<"arm">>), P("nop", 0), P("reg", id)>>, after) :
     id \in CoreId, after \in {<<2, 1>>, <<2, 2, 2, 9>>}}
    \cup {Node("cpu@N", <<P("device_type", "cpu"), P("enable-method", m),
                          P("cpu-release-addr", <<0, 8>>), P("reg", id)>>, <<4, 1>>) :
            m \in {"spin-table", "psci"}, id \in CoreId}
    \cup {Node("cpu@N", <<P("reg", id), P("cpu-release-addr", <<8>>), P("enable-method", "spin-table"),
                          P("compatible", <<"arm", "v8">>)>>, <<2, 1>>) : id \in CoreId}

(* Nodes whose last property breaks off in its header or before its value. *)
CutOffNodes ==
  {[Node(name, <<>>, <<3, 4>>) EXCEPT !.after = @ \o rest] :
     name \in {"cpus", "cpu@N"},
     rest \in {<<>>} \cup {<<Str(prop)>> : prop \in {"#address-cells", "enable-method", "reg"}}}

(* Nodes of no interest, a blob that breaks off, a word that is no marker. *)
MCNodes ==
  CpusNodes \cup CpuNodes \cup CutOffNodes
    \cup {Node("", <<P("#address-cells", 2), P("model", "x")>>, after) :
            after \in {<<1>>, <<2, 4, 9>>, <<2>>, <<2, 7>>, <<7>>}}

=============================================================================
