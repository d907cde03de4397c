----------------------------- MODULE MCEndpoint -----------------------------
(***************************************************************************)
(* Instantiation of Endpoint for TLC: URIs put together from a protocol,  *)
(* a user part, a host, a port, a path and a search, each drawn from a     *)
(* small set that includes the empty and the odd cases.                    *)
(***************************************************************************)
EXTENDS Endpoint

Protocols == {<<>>, <<"xapian", ":", "/", "/">>, <<"file", ":", "/", "/">>}

\* none, user only, user and password, password only, user = password
UserParts == {<<>>, <<"u", "@">>, <<"u", ":", "p", "@">>, <<":", "p", "@">>,
              <<"u", ":", "u", "@">>}

Ports == {<<>>, <<":", "7">>}

Paths == {<<>>, <<"/", "d">>, <<"/", "d", "/">>, <<"/", "/", "d">>}

Searches == {<<>>, <<"?", "d">>}

MCURIs == {pr \o up \o <<"h">> \o po \o pa \o se :
             pr \in Protocols, up \in UserParts, po \in Ports, pa \in Paths,
             se \in Searches}

MCLocalHost == <<"n">>

\* A node on the wire: a plain one; one whose address is above INT_MAX
\* (8 with IntWidth 4) and whose region is negative; and a node not yet
\* named (local_node before the cluster names it).
MCNodes ==
  {[addr |-> 1, http |-> 3, binary |-> 5, region |-> 0, name |-> <<"a">>],
   [addr |-> 12, http |-> 3, binary |-> 0, region |-> -1, name |-> <<"b", "a">>],
   [addr |-> 0, http |-> 0, binary |-> 0, region |-> 0, name |-> <<>>]}

=============================================================================
