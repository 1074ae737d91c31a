---------------------------- MODULE MCMemoryConfig ----------------------------
(* The builds, the device trees and the memory areas for TLC, in pages. *)
EXTENDS MemoryConfig

CONSTANTS RegBase, RegSize   \* bases and sizes of memory

(* ARM built for release, with a high zone, and AArch64 in the dev profile. *)
MCMachines ==
  {[high_mem_size |-> 4, page_database |-> Area(13, 1), overflow_checks |-> FALSE, cell |-> 64],
   [high_mem_size |-> 0, page_database |-> Area(0, 0), overflow_checks |-> TRUE, cell |-> 8]}

MCBlob == Area(6, 1)

MCHeaders ==
  {[blob |-> 1, magic |-> FDT_MAGIC, total_size |-> 96],
   [blob |-> 0, magic |-> FDT_MAGIC, total_size |-> 96],
   [blob |-> 1, magic |-> FDT_MAGIC, total_size |-> FDT_MAX_SIZE + 1]}

P(name, value) == [name |-> name, value |-> value]

Node(name, props, after) ==
  [name |-> name, props |-> props, after |-> [i \in DOMAIN after |-> U32(after[i])]]

Sibling == <<2, 1>>

RootNodes ==
  {Node("", <<P("#address-cells", 2), P("model", "x"), P("#size-cells", 2)>>, <<1>>),
   Node("", <<P("model", "x")>>, <<1>>)}

(* Memory with the root's cells; with its own, which come after reg; two     *)
(* pairs; a type that is not memory, no type, no reg, and a reg of three     *)
(* words.                                                                    *)
DeviceNodes ==
  {Node("x", <<P("device_type", "memory"), P("reg", <<<<base, size>>>>)>>, Sibling) :
     base \in RegBase, size \in RegSize}
    \cup {Node("x", <<P("reg", <<<<base, 4>>>>), P("#size-cells", 1), P("nop", 0),
                      P("device_type", "memory"), P("#address-cells", 1)>>, Sibling) :
            base \in RegBase}
    \cup {Node("x", <<P("device_type", "memory"), P("reg", <<<<base, 2>>, <<20, 31>>>>)>>, Sibling) :
            base \in RegBase}
    \cup {Node("x", <<P("device_type", "cpu"), P("reg", <<<<1, 2>>>>)>>, Sibling),
          Node("x", <<P("reg", <<<<1, 2>>>>)>>, <<4, 1>>),
          Node("x", <<P("device_type", "memory")>>, <<1>>),
          Node("x", <<P("device_type", "memory"), P("odd reg", 3)>>, Sibling)}

(* The end of the tree, a property or a tree that breaks off, a word that is *)
(* no marker.                                                                *)
LastNodes ==
  {Node(name, <<>>, after) : name \in {"", "x"}, after \in {<<2, 4, 2, 9>>, <<2>>, <<2, 7>>, <<7>>}}
    \cup {[Node("x", <<>>, <<3, 4>>) EXCEPT !.after = @ \o rest] :
            rest \in {<<>>, <<Str("#size-cells")>>}}

MCNodes == RootNodes \cup DeviceNodes \cup LastNodes

=============================================================================
