-------------------------- MODULE MCMsgPackPatcher --------------------------
(* The patch helpers over targets of at most two characters of "-", "0",   *)
(* "1" and "x", with ULONG_MAX scaled to 9 so that "10" and "11" overflow   *)
(* std::stoul.                                                             *)
EXTENDS MsgPackPatcher

TargetChars == {"-", "0", "1", "x"}

MCAllTargets == {<<>>} \cup {<<a>> : a \in TargetChars}
                  \cup {<<a, b>> : a, b \in TargetChars}

\* The targets std::stoul reads as an index although RFC 6901 does not:
\* a leading zero before a digit, and "-0".
Lenient == {<<"0", "0">>, <<"0", "1">>, <<"-", "0">>}

MCTargets == MCAllTargets \ Lenient

MCLeaves == {Str, Num(0)}
MCDeltas == {-1, 0, 1}
MCLimits == {-1, 1}
MCMaxNum == 2
=============================================================================
