----------------------------- MODULE PathParser -----------------------------
(***************************************************************************)
(* PathParser of src/src/url_parser.cc.  init(p) scans the path backwards  *)
(* for the last segments: an id, or a command (a segment starting with     *)
(* '_') with the parameter after it and the id before it.  next() then     *)
(* scans forward from the start, one comma-separated endpoint per call, up *)
(* to the segment init found first, splitting each endpoint into          *)
(* namespace ("nsp:"), path and host ("@hst").                             *)
(*                                                                         *)
(* Pointers are 1-based positions in path; Null is nullptr.  Position 0 is *)
(* the byte before path.data(): reading it is a read outside the string,  *)
(* and what it holds is not determined (Before is its possible values).    *)
(***************************************************************************)
EXTENDS Integers, Sequences, SequencesExt

CONSTANTS
  Paths,     \* the strings the caller passes to init()
  Before,    \* the values the byte before path.data() may hold
  Null       \* nullptr

NUL  == "x00"
Seps == {",", ":", "@"}

NoSlice == [off |-> Null, len |-> 0]
Fields  == {"pth", "hst", "nsp", "pmt", "cmd", "id"}

VARIABLES
  path,      \* PathParser::path
  off,       \* PathParser::off, a position in path (0: never set)
  f,         \* off_x/len_x for x in Fields
  lastState, \* history: the State the last init() or next() returned
             \* ("none" after rewind() and clear())
  k,         \* history: the endpoints next() has handed out since init/rewind
  oob        \* history: init() read a byte outside the path

vars == <<path, off, f, lastState, k, oob>>

\* cn = (n1 >= nf || n1 < ni) ? '\0' : *n1
CharAt(p, i) == IF i >= Len(p) + 1 \/ i < 1 THEN NUL ELSE p[i]

\* *(n1 + 1): the byte actually in memory there.
Deref(p, i, bf) == IF i = 0 THEN bf ELSE CharAt(p, i)

-----------------------------------------------------------------------------
(* init(): the backward scan.  Each case of the switch is one operator;   *)
(* a case that does not break falls through to the next one.               *)

\* case State::ID: set the id if none, and return.
AtId(st, n0, n1, g, bad) ==
  [state |-> st,
   f     |-> IF g.id.off = Null /\ n0 - n1 # 0
             THEN [g EXCEPT !.id = [off |-> n1 + 1, len |-> n0 - n1]] ELSE g,
   oob   |-> bad]

RECURSIVE Back(_, _, _, _, _, _, _)

\* A variant of AtCmd that leaves the id where it is instead of turning it
\* into the parameter.
AtCmdKeepsId(p, bf, st, n0, n1, g, bad) ==
  IF n0 - n1 # 0 /\ Deref(p, n1 + 1, bf) = "_"
  THEN Back(p, bf, "ID", n1 - 1, n1 - 1,
            [g EXCEPT !.cmd = [off |-> n1 + 1, len |-> n0 - n1]],
            bad \/ n1 + 1 < 1)
  ELSE AtId(st, n0, n1, g, bad \/ (n0 - n1 # 0 /\ n1 + 1 < 1))

\* case State::CMD: a segment starting with '_' is the command, and the id
\* seen so far becomes the parameter; otherwise fall through.
AtCmd(p, bf, st, n0, n1, g, bad) ==
  IF n0 - n1 # 0 /\ Deref(p, n1 + 1, bf) = "_"
  THEN Back(p, bf, "ID", n1 - 1, n1 - 1,
            [g EXCEPT !.pmt = g.id, !.id = NoSlice,
                      !.cmd = [off |-> n1 + 1, len |-> n0 - n1]],
            bad \/ n1 + 1 < 1)
  ELSE AtId(st, n0, n1, g, bad \/ (n0 - n1 # 0 /\ n1 + 1 < 1))

\* A variant of AtPmt that computes the id's length as n1 - n0.
AtPmtNegLen(p, bf, st, n0, n1, g, bad) ==
  IF n0 - n1 # 0 /\ Deref(p, n1 + 1, bf) # "_"
  THEN Back(p, bf, "CMD", n1 - 1, n1 - 1,
            [g EXCEPT !.id = [off |-> n1 + 1, len |-> n1 - n0]],
            bad \/ n1 + 1 < 1)
  ELSE AtCmd(p, bf, st, n0, n1, g, bad \/ (n0 - n1 # 0 /\ n1 + 1 < 1))

\* case State::PMT: a segment not starting with '_' is taken as the id;
\* otherwise fall through.
AtPmt(p, bf, st, n0, n1, g, bad) ==
  IF n0 - n1 # 0 /\ Deref(p, n1 + 1, bf) # "_"
  THEN Back(p, bf, "CMD", n1 - 1, n1 - 1,
            [g EXCEPT !.id = [off |-> n1 + 1, len |-> n0 - n1]],
            bad \/ n1 + 1 < 1)
  ELSE AtCmd(p, bf, st, n0, n1, g, bad \/ (n0 - n1 # 0 /\ n1 + 1 < 1))

Back(p, bf, st, n0, n1, g, bad) ==
  LET cn == CharAt(p, n1) IN
  IF cn \in {NUL, "/"} THEN
    CASE st = "START" -> IF cn = NUL THEN Back(p, bf, "PMT", n1, n1 - 1, g, bad)
                                     ELSE Back(p, bf, st, n0, n1 - 1, g, bad)
      [] st = "PMT"   -> AtPmt(p, bf, st, n0, n1, g, bad)
      [] st = "CMD"   -> AtCmd(p, bf, st, n0, n1, g, bad)
      [] st = "ID"    -> AtId(st, n0, n1, g, bad)
  ELSE IF st = "START" THEN Back(p, bf, "PMT", n1, n1 - 1, g, bad)
  ELSE IF cn \in Seps /\ st = "ID" THEN [state |-> st, f |-> g, oob |-> bad]
  ELSE Back(p, bf, st, n0, n1 - 1, g, bad)

\* rewind(): off = path.data(), and pth, hst, nsp cleared.
Rewound(g) == [g EXCEPT !.pth = NoSlice, !.hst = NoSlice, !.nsp = NoSlice]

\* clear(): rewind(), and pmt, cmd, id cleared too.
Cleared == [x \in Fields |-> NoSlice]

-----------------------------------------------------------------------------
(* next(): the forward scan.                                               *)

\* The end of the endpoint list: one before the first of pmt, cmd and id,
\* at least path.data().
ListEnd(p, g) ==
  LET lim(x, n) == IF g[x].off # Null /\ g[x].off < n THEN g[x].off - 1 ELSE n
      e == lim("id", lim("cmd", lim("pmt", Len(p) + 1)))
  IN  IF e < 1 THEN 1 ELSE e

RECURSIVE Fwd(_, _, _, _, _, _)
Fwd(p, nf, st, n0, n1, g) ==
  LET cn  == IF n1 >= nf \/ n1 < 1 THEN NUL ELSE p[n1]
      len == n1 - n0
  IN
  IF cn \in {NUL, ","} /\ st \in {"NSP", "PTH"} THEN
    [state |-> st, off |-> n1 + 1, f |-> [g EXCEPT !.pth = [off |-> n0, len |-> len]]]
  ELSE IF cn \in {NUL, ","} /\ st = "HST" THEN
    IF len = 0 THEN [state |-> "INVALID_HST", off |-> Null, f |-> g]
    ELSE [state |-> st, off |-> n1 + 1, f |-> [g EXCEPT !.hst = [off |-> n0, len |-> len]]]
  ELSE IF cn = ":" /\ st = "NSP" THEN
    IF len = 0 THEN [state |-> "INVALID_NSP", off |-> Null, f |-> g]
    ELSE Fwd(p, nf, "PTH", n1 + 1, n1 + 1, [g EXCEPT !.nsp = [off |-> n0, len |-> len]])
  ELSE IF cn = "@" /\ st \in {"NSP", "PTH"} THEN
    Fwd(p, nf, "HST", n1 + 1, n1 + 1, [g EXCEPT !.pth = [off |-> n0, len |-> len]])
  ELSE Fwd(p, nf, st, n0, n1 + 1, g)


\* The raw text of a field: what get_x() url-decodes (empty for nullptr).
Text(p, g, x) ==
  IF g[x].off = Null THEN <<>> ELSE SubSeq(p, g[x].off, g[x].off + g[x].len - 1)

-----------------------------------------------------------------------------
(* The reference decomposition of a path.                                  *)

\* The '/'-separated segments of p, as slices.
Segs(p) ==
  LET c == <<0>> \o SelectSeq([i \in DOMAIN p |-> IF p[i] = "/" THEN i ELSE 0],
                              LAMBDA i : i # 0)
             \o <<Len(p) + 1>>
  IN  [i \in 1..Len(c) - 1 |-> [off |-> c[i] + 1, len |-> c[i+1] - c[i] - 1]]

Under(p, s) == s.len > 0 /\ p[s.off] = "_"
IdOf(p, s)  == IF s.len > 0 /\ \A i \in s.off..s.off + s.len - 1 : p[i] \notin Seps
               THEN s ELSE NoSlice

\* From the last non-empty segment back: [.../][id/][_cmd/][pmt], where a
\* last segment starting with '_' is the command, and an id holds no
\* endpoint separators.
RefInit(p) ==
  LET s  == Segs(p)
      ne == {i \in DOMAIN s : s[i].len > 0}
      t  == IF ne = {} THEN 0 ELSE CHOOSE i \in ne : \A j \in ne : j <= i
      seg(i) == IF i >= 1 THEN s[i] ELSE [off |-> 1, len |-> 0]
  IN  IF t = 0 THEN [state |-> "START", pmt |-> NoSlice, cmd |-> NoSlice, id |-> NoSlice]
      ELSE IF Under(p, s[t])
      THEN [state |-> "ID", pmt |-> NoSlice, cmd |-> s[t], id |-> IdOf(p, seg(t - 1))]
      ELSE IF Under(p, seg(t - 1))
      THEN [state |-> "ID", pmt |-> s[t], cmd |-> seg(t - 1), id |-> IdOf(p, seg(t - 2))]
      ELSE [state |-> "CMD", pmt |-> NoSlice, cmd |-> NoSlice, id |-> s[t]]

\* The comma-separated endpoints before the first of pmt, cmd and id.
Pieces(p, g) ==
  LET r == SubSeq(p, 1, ListEnd(p, g) - 1)
      c == <<0>> \o SelectSeq([i \in DOMAIN r |-> IF r[i] = "," THEN i ELSE 0],
                              LAMBDA i : i # 0)
             \o <<Len(r) + 1>>
  IN  [i \in 1..Len(c) - 1 |-> SubSeq(r, c[i] + 1, c[i+1] - 1)]

FirstOf(s, cs) ==
  LET at == {i \in DOMAIN s : s[i] \in cs}
  IN  IF at = {} THEN 0 ELSE CHOOSE i \in at : \A j \in at : i <= j

\* One endpoint: "nsp:" if a ':' comes before any '@', then the path, then
\* "@hst".  An empty namespace or host is invalid.
RefPiece(e) ==
  LET i    == FirstOf(e, {":", "@"})
      hasN == i # 0 /\ e[i] = ":"
      nsp  == IF hasN THEN SubSeq(e, 1, i - 1) ELSE <<>>
      rest == IF hasN THEN SubSeq(e, i + 1, Len(e)) ELSE e
      j    == FirstOf(rest, {"@"})
      pth  == IF j = 0 THEN rest ELSE SubSeq(rest, 1, j - 1)
      hst  == IF j = 0 THEN <<>> ELSE SubSeq(rest, j + 1, Len(rest))
  IN  [nsp |-> nsp, pth |-> pth, hst |-> hst, hasNsp |-> hasN,
       state |-> IF hasN /\ nsp = <<>> THEN "INVALID_NSP"
                 ELSE IF j # 0 /\ hst = <<>> THEN "INVALID_HST"
                 ELSE IF j # 0 THEN "HST"
                 ELSE IF hasN THEN "PTH" ELSE "NSP"]

-----------------------------------------------------------------------------
(* The calls.                                                              *)

\* PathParser(): every slice nullptr, path empty; off is not initialised.
Init ==
  /\ path = <<>> /\ off = 0
  /\ f = Cleared /\ lastState = "none" /\ k = 0 /\ oob = FALSE

\* init(p): clear(); path = p; the backward scan, which sets
\* off = path.data() wherever it returns.
InitCall(p) ==
  \E bf \in Before :
    LET r == Back(p, bf, "START", Len(p), Len(p), Cleared, FALSE) IN
    /\ path' = p
    /\ off' = 1
    /\ f' = r.f
    /\ lastState' = r.state
    /\ k' = 0
    /\ oob' = r.oob

\* A variant of NextCall that ends the list when off reaches nf.
NextCallEndEarly ==
  /\ off # 0
  /\ LET g0 == [f EXCEPT !.hst = NoSlice]
         nf == ListEnd(path, f)
         r  == Fwd(path, nf, "NSP", off, off, g0)
     IN  IF off >= nf
         THEN /\ f' = g0 /\ lastState' = "END" /\ UNCHANGED <<off, k>>
         ELSE /\ f' = r.f
              /\ lastState' = r.state
              /\ off' = IF r.off = Null THEN off ELSE r.off
              /\ k' = IF r.off = Null THEN k ELSE k + 1
  /\ UNCHANGED <<path, oob>>

\* next(): off_hst = nullptr; END if off is past the endpoint list, else
\* scan one endpoint.  An invalid endpoint leaves off where it was.
NextCall ==
  /\ off # 0
  /\ LET g0 == [f EXCEPT !.hst = NoSlice]
         nf == ListEnd(path, f)
         r  == Fwd(path, nf, "NSP", off, off, g0)
     IN  IF off > nf
         THEN /\ f' = g0 /\ lastState' = "END" /\ UNCHANGED <<off, k>>
         ELSE /\ f' = r.f
              /\ lastState' = r.state
              /\ off' = IF r.off = Null THEN off ELSE r.off
              /\ k' = IF r.off = Null THEN k ELSE k + 1
  /\ UNCHANGED <<path, oob>>

\* rewind()
RewindCall ==
  /\ off' = 1 /\ f' = Rewound(f) /\ k' = 0
  /\ lastState' = "none"
  /\ UNCHANGED <<path, oob>>

\* clear(): rewind(), the other slices cleared, path.clear() (which keeps
\* the buffer).
ClearCall ==
  /\ path' = <<>> /\ off' = 1 /\ f' = Cleared /\ k' = 0
  /\ lastState' = "none"
  /\ UNCHANGED oob

Next ==
  \/ \E p \in Paths : InitCall(p)
  \/ NextCall
  \/ RewindCall
  \/ ClearCall

Spec == Init /\ [][Next]_vars

-----------------------------------------------------------------------------
Slices == [off : Int \cup {Null}, len : Nat]

TypeOK ==
  /\ path \in Seq(STRING)
  /\ off \in Nat
  /\ f \in [Fields -> Slices]
  /\ k \in Nat
  /\ oob \in BOOLEAN

\* The slices init() set: pmt, cmd and id are left alone by next().
InitSlices == [pmt |-> f.pmt, cmd |-> f.cmd, id |-> f.id]

(***************************************************************************)
(* init() finds the reference's parameter, command and id: the fallthrough *)
(* chain PMT -> CMD -> ID of the backward scan, the '_' test, and the stop *)
(* at an endpoint separator agree with the segment reading of the path.    *)
(***************************************************************************)
InitMatchesReference ==
  LET r == RefInit(path) IN
  /\ InitSlices = [pmt |-> r.pmt, cmd |-> r.cmd, id |-> r.id]

(***************************************************************************)
(* Successive next() calls hand out the endpoints before the id/command in *)
(* order: the k-th call returns the state the reference gives the k-th     *)
(* endpoint, the path, host and namespace that state vouches for are that  *)
(* endpoint's, an invalid endpoint is reported as such, and END comes      *)
(* after the last one.                                                     *)
(***************************************************************************)
EndpointsMatchReference ==
  LET ps == Pieces(path, f) IN
  /\ lastState \in {"NSP", "PTH", "HST"} =>
       /\ k \in 1..Len(ps)
       /\ LET r == RefPiece(ps[k]) IN
          /\ lastState = r.state
          /\ Text(path, f, "pth") = r.pth
          /\ lastState = "HST" => Text(path, f, "hst") = r.hst
          /\ r.hasNsp => Text(path, f, "nsp") = r.nsp
  /\ lastState = "END" => k = Len(ps)
  /\ lastState \in {"INVALID_NSP", "INVALID_HST"} =>
       k + 1 \in 1..Len(ps) /\ RefPiece(ps[k + 1]).state = lastState

(***************************************************************************)
(* After next() returns an endpoint, every getter describes that endpoint: *)
(* get_nsp() is empty when the endpoint has no namespace.                  *)
(***************************************************************************)
GettersDescribeCurrentEndpoint ==
  lastState \in {"NSP", "PTH", "HST"} /\ k \in 1..Len(Pieces(path, f)) =>
    Text(path, f, "nsp") = RefPiece(Pieces(path, f)[k]).nsp

(***************************************************************************)
(* init() reads only bytes of the path.                                    *)
(***************************************************************************)
InitInBounds == ~oob

=============================================================================
