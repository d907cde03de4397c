-------------------------------- MODULE Node --------------------------------
(***************************************************************************)
(* Node::serialise and Node::unserialise of src/src/endpoint.cc: the wire  *)
(* form in which a node (address, http and binary ports, region, name)     *)
(* travels between cluster members, and the reader that takes nodes off a *)
(* buffer one at a time through a pointer.                                 *)
(*                                                                         *)
(* serialise_length / unserialise_length / serialise_string /              *)
(* unserialise_string are in length.h, not among the sources here.  A      *)
(* length, however many bytes it takes, is one token Ln(v), v an unsigned  *)
(* long long; a name is a sequence of character tokens.  unserialise_length *)
(* throws SerialisationError at the end of the buffer; with check_remaining *)
(* it also throws when fewer bytes than the length remain.                 *)
(*                                                                         *)
(* Widths are scaled down: unsigned long long is LongWidth bits, int and   *)
(* in_addr_t are IntWidth bits.  serialise_length takes an unsigned long   *)
(* long, so an int field is converted to it (a negative one wraps); the    *)
(* reader casts the value back with static_cast<int>, and the address is   *)
(* then stored into the unsigned s_addr.                                   *)
(***************************************************************************)
EXTENDS Integers, Sequences, SequencesExt

CONSTANTS
  Nodes,      \* nodes a member serialises: [addr, http, binary, region, name]
  IntWidth,   \* bits of int and in_addr_t
  LongWidth   \* bits of unsigned long long

ASSUME IntWidth \in Nat \ {0} /\ LongWidth >= IntWidth

Ln(v) == [t |-> "len", v |-> v]

\* Conversions: to unsigned long long, static_cast<int>, to in_addr_t.
ULL(x)   == x % 2^LongWidth
IntOf(u) == LET m == u % 2^IntWidth IN
            IF m >= 2^(IntWidth - 1) THEN m - 2^IntWidth ELSE m
U32(x)   == x % 2^IntWidth

\* serialise_string: the length, then the characters.
SerialiseString(s) == <<Ln(Len(s))>> \o s

\* Node::serialise: nothing for a node without a name.
Serialise(n) ==
  IF n.name = <<>> THEN <<>>
  ELSE <<Ln(ULL(n.addr)), Ln(ULL(n.http)), Ln(ULL(n.binary)), Ln(ULL(n.region))>>
       \o SerialiseString(n.name)

(***************************************************************************)
(* Node::unserialise(&p, end) on buffer b with *p = i: [ok, node, p, err], *)
(* p being *p after the call.  The four lengths and the name are read      *)
(* through the local ptr; *p is written only once the node is complete.    *)
(***************************************************************************)
Thrown(b, i, e) == [ok |-> FALSE, node |-> <<>>, p |-> i, err |-> e]

\* A variant of Unserialise that reads through *p itself, so a throw leaves
\* *p past the lengths it had read.
UnserialiseInPlace(b, i) ==
  LET k == IF i + 4 <= Len(b) THEN b[i + 4].v ELSE 0 IN
  IF i + 4 > Len(b) \/ i + 4 + k > Len(b)
  THEN Thrown(b, IF i + 4 > Len(b) THEN Len(b) + 1 ELSE i + 5, "serialisation")
  ELSE LET name == SubSeq(b, i + 5, i + 4 + k) IN
       IF name = <<>> THEN Thrown(b, i + 5, "no_name")
       ELSE [ok |-> TRUE, p |-> i + 5 + k, err |-> "none",
             node |-> [addr |-> U32(IntOf(b[i].v)), http |-> IntOf(b[i + 1].v),
                       binary |-> IntOf(b[i + 2].v), region |-> IntOf(b[i + 3].v),
                       name |-> name]]

\* A variant of Unserialise that keeps the address as the int the cast gave.
UnserialiseSignedAddr(b, i) ==
  LET k == IF i + 4 <= Len(b) THEN b[i + 4].v ELSE 0 IN
  IF i + 4 > Len(b) \/ i + 4 + k > Len(b) THEN Thrown(b, i, "serialisation")
  ELSE LET name == SubSeq(b, i + 5, i + 4 + k) IN
       IF name = <<>> THEN Thrown(b, i, "no_name")
       ELSE [ok |-> TRUE, p |-> i + 5 + k, err |-> "none",
             node |-> [addr |-> IntOf(b[i].v), http |-> IntOf(b[i + 1].v),
                       binary |-> IntOf(b[i + 2].v), region |-> IntOf(b[i + 3].v),
                       name |-> name]]

Unserialise(b, i) ==
  LET k == IF i + 4 <= Len(b) THEN b[i + 4].v ELSE 0 IN
  \* a length past the end, or a name longer than what remains
  IF i + 4 > Len(b) \/ i + 4 + k > Len(b) THEN Thrown(b, i, "serialisation")
  ELSE LET name == SubSeq(b, i + 5, i + 4 + k) IN
       IF name = <<>> THEN Thrown(b, i, "no_name")
       ELSE [ok |-> TRUE, p |-> i + 5 + k, err |-> "none",
             node |-> [addr |-> U32(IntOf(b[i].v)), http |-> IntOf(b[i + 1].v),
                       binary |-> IntOf(b[i + 2].v), region |-> IntOf(b[i + 3].v),
                       name |-> name]]

-----------------------------------------------------------------------------
(* A reader that calls Node::unserialise until the pointer reaches the end *)
(* or a call throws: the nodes it got, where the pointer is, and whether   *)
(* it stopped on an exception.                                             *)

RECURSIVE ReadNodes(_, _)
ReadNodes(b, i) ==
  IF i > Len(b) THEN [nodes |-> <<>>, at |-> i, failed |-> FALSE]
  ELSE LET r == Unserialise(b, i) IN
       IF ~r.ok THEN [nodes |-> <<>>, at |-> r.p, failed |-> TRUE]
       ELSE LET rest == ReadNodes(b, r.p) IN
            [rest EXCEPT !.nodes = <<r.node>> \o @]

\* What a member puts on the wire for the nodes ns, and that cut after c
\* tokens.
FullWire(ns) == FlattenSeq([j \in DOMAIN ns |-> Serialise(ns[j])])
Wire(ns, c)  == SubSeq(FullWire(ns), 1, c)

\* The length of the wire form of the first j nodes of ns.
Prefix(ns, j) == Len(FlattenSeq([x \in 1..j |-> Serialise(ns[x])]))

\* The number of nodes of ns whose wire form fits in the first c tokens.
Whole(ns, c) == CHOOSE j \in 0..Len(ns) :
                  /\ Prefix(ns, j) <= c
                  /\ j = Len(ns) \/ Prefix(ns, j + 1) > c

Named(n) == n.name # <<>>

\* Every list of at most two nodes, with every cut of its wire form.
Transmissions ==
  UNION {{[ns |-> ns, c |-> c] : c \in 0..Len(FullWire(ns))} : ns \in SeqOf(Nodes, 2)}

-----------------------------------------------------------------------------
(***************************************************************************)
(* Node::unserialise inverts Node::serialise: a reader of what a member    *)
(* serialised gets back, in order, the named nodes whose wire form arrived *)
(* whole, with their addresses (above INT_MAX included, through the int    *)
(* cast) and negative regions intact; it throws only when the buffer ends  *)
(* inside a node.  Nameless nodes are not sent and not received.           *)
(***************************************************************************)
NodesRoundTrip ==
  \A tr \in Transmissions :
    LET r == ReadNodes(Wire(tr.ns, tr.c), 1)
        w == Whole(tr.ns, tr.c)
    IN  /\ r.nodes = SelectSeq(SubSeq(tr.ns, 1, w), Named)
        /\ r.failed = (Prefix(tr.ns, w) < tr.c)

(***************************************************************************)
(* A throwing Node::unserialise leaves *p where the call began: when the    *)
(* reader stops on an exception, the pointer is at the first token of the  *)
(* node that did not arrive whole, so everything before it was returned    *)
(* as nodes and a caller can wait for more bytes and read on from there.   *)
(***************************************************************************)
FailedReadKeepsPointer ==
  \A tr \in Transmissions :
    LET r == ReadNodes(Wire(tr.ns, tr.c), 1) IN
    r.failed => r.at = Prefix(tr.ns, Whole(tr.ns, tr.c)) + 1

=============================================================================
