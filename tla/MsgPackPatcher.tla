--------------------------- MODULE MsgPackPatcher ---------------------------
(***************************************************************************)
(* The JSON-patch helpers of src/src/msgpack_patcher.h applied to the      *)
(* object a patch operation addresses: _add, _erase, _incr and _incr with  *)
(* a limit.  The object is a map, an array, a number or a string; a value  *)
(* put into it is a leaf.                                                  *)
(*                                                                         *)
(* An array target is parsed by stox(std::stoul, target): std::stoul      *)
(* skips an optional sign, reads the leading digits (invalid_argument if   *)
(* none, out_of_range above ULONG_MAX) and negates modulo ULONG_MAX + 1 for *)
(* a '-'; stox (utils.h, not among the sources here) throws                *)
(* invalid_argument unless the whole target was read.  ULongMax stands for *)
(* ULONG_MAX, scaled down so that an overflowing index is a short string.  *)
(* MsgPack's insert and erase of an array position past the end throw      *)
(* std::out_of_range, as the catch in _erase expects of erase.             *)
(*                                                                         *)
(* Each step records its outcome: "ok", "client_error" or "limit_error"    *)
(* (the ClientError and LimitError the helpers throw), or "out_of_range"   *)
(* for a std::out_of_range that leaves the helper.                         *)
(***************************************************************************)
EXTENDS Integers, Sequences, SequencesExt

CONSTANTS
  Targets,    \* the target strings (last path tokens) of the operations
  Leaves,     \* the values _add puts
  Deltas,     \* the values _incr adds
  Limits,     \* the limits of _incr with a limit
  ULongMax,   \* ULONG_MAX
  MaxLen,     \* bound: the size of the object
  MaxNum      \* bound: the magnitude of a number

VARIABLES
  doc,        \* the object o the helper is applied to
  res,        \* history: the outcome of the last step
  last        \* history: the last step, as a record

vars == <<doc, res, last>>

Digits == <<"0", "1", "2", "3", "4", "5", "6", "7", "8", "9">>
IsDigit(c) == \E i \in 1..10 : Digits[i] = c
DigitVal(c) == CHOOSE i \in 0..9 : Digits[i + 1] = c

Num(n) == [type |-> "num", n |-> n]
Str    == [type |-> "str"]
Arr(s) == [type |-> "array", a |-> s]
Map(f) == [type |-> "map", m |-> f]

Size(o) == CASE o.type = "array" -> Len(o.a)
             [] o.type = "map"   -> Cardinality(DOMAIN o.m)
             [] OTHER            -> 0

-----------------------------------------------------------------------------
(* Parsing an array target.                                                *)

\* The number of leading digits of s.
RECURSIVE DigitRun(_)
DigitRun(s) == IF s # <<>> /\ IsDigit(Head(s)) THEN 1 + DigitRun(Tail(s)) ELSE 0

Value(s) == FoldLeft(LAMBDA acc, c : 10 * acc + DigitVal(c), 0, s)

\* std::stoul(t, &pos): [err, val, pos].
Stoul(t) ==
  LET sl == IF t # <<>> /\ t[1] \in {"+", "-"} THEN 1 ELSE 0
      ds == SubSeq(t, sl + 1, sl + DigitRun(SubSeq(t, sl + 1, Len(t))))
      v  == Value(ds)
  IN  CASE ds = <<>>     -> [err |-> "invalid", val |-> 0, pos |-> 0]
        [] v > ULongMax  -> [err |-> "range", val |-> 0, pos |-> 0]
        [] OTHER         -> [err |-> "none",
                             val |-> IF sl = 1 /\ t[1] = "-" THEN (ULongMax + 1 - v) % (ULongMax + 1)
                                     ELSE v,
                             pos |-> sl + Len(ds)]

\* stox(std::stoul, t): the whole of t must be read.
Stox(t) ==
  LET r == Stoul(t) IN
  IF r.err = "none" /\ r.pos # Len(t) THEN [r EXCEPT !.err = "invalid"] ELSE r

-----------------------------------------------------------------------------
(* The helpers.  Each gives [res, doc].                                    *)

Ok(o)    == [res |-> "ok", doc |-> o]
Fail(r)  == [res |-> r, doc |-> doc]

\* Offsets are 0-based, SequencesExt's InsertAt and RemoveAt 1-based.

\* _add(o, val, target)
AddOutcome(o, v, t) ==
  CASE o.type = "map" ->
         Ok(Map([k \in DOMAIN o.m \cup {t} |-> IF k = t THEN v ELSE o.m[k]]))
    [] o.type = "array" /\ t = <<"-">> -> Ok(Arr(Append(o.a, v)))
    [] o.type = "array" ->
         LET r == Stox(t) IN
         CASE r.err = "invalid"  -> Fail("client_error")
           [] r.err = "range"    -> Fail("out_of_range")
           [] r.val > Len(o.a)   -> Fail("out_of_range")
           [] OTHER              -> Ok(Arr(InsertAt(o.a, r.val + 1, v)))
    [] OTHER -> Fail("client_error")

\* _erase(o, target): the outer catch turns std::out_of_range into a
\* ClientError.
EraseOutcome(o, t) ==
  CASE o.type = "map" /\ t \in DOMAIN o.m ->
         Ok(Map([k \in DOMAIN o.m \ {t} |-> o.m[k]]))
    [] o.type = "array" ->
         LET r == Stox(t) IN
         IF r.err = "none" /\ r.val < Len(o.a) THEN Ok(Arr(RemoveAt(o.a, r.val + 1)))
         ELSE Fail("client_error")
    [] OTHER -> Fail("client_error")

\* A variant of IncrOutcome without the catch of msgpack::type_error.
IncrOutcomeUncaught(o, d) ==
  IF o.type = "num" THEN Ok(Num(o.n + d)) ELSE Fail("type_error")

\* _incr(o, val): o += val, a type_error becoming a ClientError.
IncrOutcome(o, d) ==
  IF o.type = "num" THEN Ok(Num(o.n + d)) ELSE Fail("client_error")

\* A variant of IncrLimitOutcome with the limit test the wrong way round
\* for a decrement.
IncrLimitOutcomeSwapped(o, d, l) ==
  IF o.type # "num" THEN Fail("client_error")
  ELSE LET n == o.n + d IN
       IF (d < 0 /\ n >= l) \/ (d >= 0 /\ n >= l)
       THEN [res |-> "limit_error", doc |-> Num(n)] ELSE Ok(Num(n))

\* _incr(o, val, limit): o += val, then LimitError if a decrement reached
\* the limit or below, or an increment reached it or above.
IncrLimitOutcome(o, d, l) ==
  IF o.type # "num" THEN Fail("client_error")
  ELSE LET n == o.n + d IN
       IF (d < 0 /\ n <= l) \/ (d >= 0 /\ n >= l)
       THEN [res |-> "limit_error", doc |-> Num(n)] ELSE Ok(Num(n))

-----------------------------------------------------------------------------
Apply(op, out) == doc' = out.doc /\ res' = out.res /\ last' = op

Add(v, t)      == /\ Size(doc) < MaxLen
                  /\ Apply([op |-> "add", v |-> v, t |-> t], AddOutcome(doc, v, t))
Erase(t)       == Apply([op |-> "erase", t |-> t], EraseOutcome(doc, t))
Incr(d)        == /\ doc.type = "num" => -MaxNum <= doc.n + d /\ doc.n + d <= MaxNum
                  /\ Apply([op |-> "incr", d |-> d], IncrOutcome(doc, d))
IncrLimit(d, l) == /\ doc.type = "num" => -MaxNum <= doc.n + d /\ doc.n + d <= MaxNum
                   /\ Apply([op |-> "incr_limit", d |-> d, l |-> l], IncrLimitOutcome(doc, d, l))

\* The object a patch addresses: an empty or one-member map or array, a
\* number, or a string.
Docs == {Map([k \in {} |-> Str]), Arr(<<>>), Str}
          \cup {Arr(<<v>>) : v \in Leaves}
          \cup {Map([k \in {t} |-> v]) : t \in Targets, v \in Leaves}
          \cup {Num(n) : n \in -1..1}

Init == doc \in Docs /\ res = "none" /\ last = [op |-> "none"]

Next ==
  \/ \E v \in Leaves, t \in Targets : Add(v, t)
  \/ \E t \in Targets : Erase(t)
  \/ \E d \in Deltas : Incr(d)
  \/ \E d \in Deltas, l \in Limits : IncrLimit(d, l)

Spec == Init /\ [][Next]_vars

-----------------------------------------------------------------------------
(* RFC 6902 add/remove on the object, RFC 6901 array indices, and the      *)
(* incr extension: the reference the helpers are checked against.         *)

\* An array index of RFC 6901: "0", or digits without a leading zero.
IsIndex(t) == t # <<>> /\ \A i \in DOMAIN t : IsDigit(t[i])
              /\ (t[1] = "0" => Len(t) = 1)

RefAdd(o, v, t) ==
  CASE o.type = "map" -> [ok |-> TRUE, doc |-> AddOutcome(o, v, t).doc]
    [] o.type = "array" /\ t = <<"-">> -> [ok |-> TRUE, doc |-> Arr(Append(o.a, v))]
    [] o.type = "array" /\ IsIndex(t) /\ Value(t) <= Len(o.a) ->
         [ok |-> TRUE, doc |-> Arr(InsertAt(o.a, Value(t) + 1, v))]
    [] OTHER -> [ok |-> FALSE, doc |-> o]

RefRemove(o, t) ==
  CASE o.type = "map" /\ t \in DOMAIN o.m ->
         [ok |-> TRUE, doc |-> Map([k \in DOMAIN o.m \ {t} |-> o.m[k]])]
    [] o.type = "array" /\ IsIndex(t) /\ Value(t) < Len(o.a) ->
         [ok |-> TRUE, doc |-> Arr(RemoveAt(o.a, Value(t) + 1))]
    [] OTHER -> [ok |-> FALSE, doc |-> o]

RefIncr(o, d) ==
  IF o.type = "num" THEN [ok |-> TRUE, doc |-> Num(o.n + d)] ELSE [ok |-> FALSE, doc |-> o]

\* incr with a limit: the new value must stay strictly on this side of it.
RefIncrLimit(o, d, l) ==
  LET r == RefIncr(o, d) IN
  IF r.ok /\ ((d < 0 /\ r.doc.n <= l) \/ (d >= 0 /\ r.doc.n >= l))
  THEN [ok |-> FALSE, doc |-> o] ELSE r

RefStep(op, o) ==
  CASE op.op = "add"   -> RefAdd(o, op.v, op.t)
    [] op.op = "erase" -> RefRemove(o, op.t)
    [] op.op = "incr"  -> RefIncr(o, op.d)
    [] OTHER           -> RefIncrLimit(o, op.d, op.l)

-----------------------------------------------------------------------------
TypeOK ==
  /\ doc.type \in {"map", "array", "num", "str"}
  /\ doc.type = "array" => doc.a \in Seq(Leaves) /\ Len(doc.a) <= MaxLen
  /\ doc.type = "map" => DOMAIN doc.m \subseteq Targets
  /\ doc.type = "num" => doc.n \in -MaxNum..MaxNum
  \* no exception leaves a helper but these
  /\ res \in {"none", "ok", "client_error", "limit_error", "out_of_range"}

(***************************************************************************)
(* Every helper step does what RFC 6902 (and the incr extension) says of   *)
(* it: it succeeds exactly when the reference does, with the reference's   *)
(* result; a ClientError or an escaping out_of_range leaves the object as  *)
(* it was.  A LimitError is only required to be a failure: _incr has       *)
(* already added by the time it checks the limit.                          *)
(***************************************************************************)
PatchFollowsRFC ==
  [][ LET r == RefStep(last', doc) IN
      /\ (res' = "ok") = r.ok
      /\ res' = "ok" => doc' = r.doc
      /\ res' \in {"client_error", "out_of_range"} => doc' = doc ]_vars

(***************************************************************************)
(* A failing helper raises a ClientError or a LimitError, the errors the   *)
(* HTTP layer reports to the client: no std::out_of_range leaves _add.     *)
(* _erase catches out_of_range for the same purpose.                       *)
(***************************************************************************)
FailuresAreClientErrors == res # "out_of_range"

=============================================================================
