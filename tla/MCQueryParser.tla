---------------------------- MODULE MCQueryParser ----------------------------
(* Instantiation of QueryParser for TLC: the names next() is asked for.   *)
EXTENDS QueryParser

\* "a" is a hex digit, so "%aa" is a percent escape; "aa" is a second name
\* that starts like the first, so a scan for one passes over the other.
MCNames == {<<"a">>, <<"a", "a">>}

=============================================================================
