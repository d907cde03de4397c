---------------------------- MODULE MCPathParser ----------------------------
(***************************************************************************)
(* Instantiation of PathParser for TLC.  "a" stands for any ordinary       *)
(* character; "_" starts a command; ",", ":" and "@" are the endpoint      *)
(* separators.                                                             *)
(***************************************************************************)
EXTENDS PathParser

HasSegment(p) == \E i \in DOMAIN p : p[i] # "/"

\* Paths with at least one segment, for the init run: up to three segments
\* ("a/_a/a"), and up to two with an endpoint separator in the id.
MCInitPaths == {p \in BoundedSeq({"a", "_", "/"}, 5) \cup BoundedSeq({"a", "_", "/", ":"}, 4) :
                  HasSegment(p)}

\* Every path up to three characters, "" and "/" included.

MCAllPaths == BoundedSeq({"a", "_", "/"}, 3)

\* Endpoint lists up to four characters, and up to three followed by an id
\* or a command segment that ends the list.
EndpointLists(n) == {p \in BoundedSeq({"a", ",", ":", "@"}, n) : HasSegment(p)}

MCEndpointPaths == EndpointLists(4) \cup
                   {e \o t : e \in EndpointLists(3), t \in {<<"/", "a">>, <<"/", "_">>}}

\* The paths of the pass run.
MCPaths == MCInitPaths \cup MCEndpointPaths

=============================================================================
