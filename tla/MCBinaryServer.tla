--------------------------- MODULE MCBinaryServer ---------------------------
(***************************************************************************)
(* Three producers, two of them with two tasks, so that producers can push *)
(* while the callback drains the others' tasks and three sends can        *)
(* coalesce, and two client sockets, so that both accept and replication   *)
(* can run out of descriptors.                                            *)
(***************************************************************************)
EXTENDS BinaryServer

MCOwner == [t \in {"t1", "t2", "t3", "t4", "t5"} |->
              CASE t \in {"t1", "t2"} -> "p1"
                [] t \in {"t3", "t4"} -> "p2"
                [] OTHER             -> "p3"]

=============================================================================
