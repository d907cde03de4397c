----------------------------- MODULE QueryParser -----------------------------
(***************************************************************************)
(* QueryParser of src/src/url_parser.cc: a query string and a cursor       *)
(* (off, len) kept between calls.  next(name) scans forward from the end  *)
(* of the last match for the next parameter called name and leaves the    *)
(* cursor on its value; get() url-decodes the value under the cursor.      *)
(*                                                                         *)
(* Pointers are 1-based positions in query; 0 is nullptr.  The character  *)
(* at position Len(query) + 1 is the terminating NUL of the std::string;   *)
(* reading any later position is a read past the end of the buffer.       *)
(*                                                                         *)
(* The module is checked against a reference reading of the query: split  *)
(* at '&' and ';', each parameter split at its first '='.                 *)
(***************************************************************************)
EXTENDS Integers, Sequences, SequencesExt

CONSTANTS
  Chars,      \* the characters a query is made of (single-char strings)
  MaxLen,     \* longest query
  Names       \* the names the caller asks next() for (sequences of Chars)

ASSUME \A n \in Names : n # <<>> /\ \A i \in DOMAIN n : n[i] \notin {"=", "&", ";"}

NUL == "x00"
HexDigits == {"0", "1", "2", "3", "4", "5", "6", "7", "8", "9",
              "a", "b", "c", "d", "e", "f", "A", "B", "C", "D", "E", "F"}

\* The character strtol("<d1><d2>", 16) gives, named by its two lower-case
\* hex digits; "x00" is NUL.
LowerHex(d) == CASE d = "A" -> "a" [] d = "B" -> "b" [] d = "C" -> "c"
                 [] d = "D" -> "d" [] d = "E" -> "e" [] d = "F" -> "f"
                 [] OTHER -> d
Byte(d1, d2) == "x" \o LowerHex(d1) \o LowerHex(d2)

VARIABLES
  query,      \* QueryParser::query
  off, len,   \* QueryParser::off (0 = nullptr) and len
  lastNext,   \* what the last next() returned: "found" (0), "notfound" (-1)
  lastGet,    \* what the last get() returned
  ref,        \* history: index of the parameter the reference cursor is on
  refNext,    \* history: what the reference says the last next() returns
  refGet,     \* history: what the reference says the last get() returns
  overread    \* history: a next() read past the end of query

vars == <<query, off, len, lastNext, lastGet, ref, refNext, refGet, overread>>

-----------------------------------------------------------------------------
(* urldecode(str, size): copy into a NUL-terminated buffer, then for      *)
(* i < strlen(dStr): "%hh" becomes one character (memmove drops the two   *)
(* digits), '+' becomes ' '; return std::string(dStr), which stops at the *)
(* first NUL.                                                              *)

StrLen(d) ==
  IF \E i \in DOMAIN d : d[i] = NUL
  THEN (CHOOSE i \in DOMAIN d : d[i] = NUL /\ \A j \in 1..i-1 : d[j] # NUL) - 1
  ELSE Len(d)

CString(d) == SubSeq(d, 1, StrLen(d))

\* A variant of DecodeFrom that leaves '+' as it is.
RECURSIVE DecodeFromNoPlus(_, _)
DecodeFromNoPlus(d, i) ==
  IF i > StrLen(d) THEN CString(d)
  ELSE IF d[i] = "%" THEN
         IF i + 1 > StrLen(d) THEN CString(d)
         ELSE IF i + 2 <= StrLen(d) /\ d[i+1] \in HexDigits /\ d[i+2] \in HexDigits
              THEN DecodeFromNoPlus(SubSeq(d, 1, i - 1) \o <<Byte(d[i+1], d[i+2])>>
                                      \o SubSeq(d, i + 3, Len(d)), i + 1)
              ELSE DecodeFromNoPlus(d, i + 1)
  ELSE DecodeFromNoPlus(d, i + 1)

RECURSIVE DecodeFrom(_, _)
DecodeFrom(d, i) ==
  IF i > StrLen(d) THEN CString(d)
  ELSE IF d[i] = "%" THEN
         IF i + 1 > StrLen(d) THEN CString(d)
         ELSE IF i + 2 <= StrLen(d) /\ d[i+1] \in HexDigits /\ d[i+2] \in HexDigits
              THEN DecodeFrom(SubSeq(d, 1, i - 1) \o <<Byte(d[i+1], d[i+2])>>
                                \o SubSeq(d, i + 3, Len(d)), i + 1)
              ELSE DecodeFrom(d, i + 1)
  ELSE IF d[i] = "+" THEN DecodeFrom([d EXCEPT ![i] = " "], i + 1)
  ELSE DecodeFrom(d, i + 1)

\* urldecode(off, len) of the characters at [from, from + n).
UrlDecode(q, from, n) == DecodeFrom(SubSeq(q, from, from + n - 1), 1)

-----------------------------------------------------------------------------
(* next(name).  The scan: n0 is the start of the parameter, n1 the        *)
(* character looked at, v0 the '=' seen in it (0 = nullptr).              *)

Delims == {"&", ";"}

CharAt(q, p) == IF p = Len(q) + 1 THEN NUL ELSE q[p]

\* The value scan: the first position at or after v1 holding NUL, & or ;.
RECURSIVE ValueEnd(_, _)
ValueEnd(q, v1) ==
  IF CharAt(q, v1) \in {NUL} \cup Delims THEN v1 ELSE ValueEnd(q, v1 + 1)

\* What one call ends with: "found" is return 0 with off/len set,
\* "notfound" is return -1, "overread" is a scan that ran past the NUL.
Found(o, l) == [ret |-> "found", off |-> o, len |-> l]
NotFound    == [ret |-> "notfound", off |-> 0, len |-> 0]
PastEnd     == [ret |-> "overread", off |-> 0, len |-> 0]

\* Variants of Scan: one that does not clear v0 at a delimiter, one that
\* leaves off two past a valueless name instead of one.
RECURSIVE ScanNoReset(_, _, _, _, _)
ScanNoReset(q, name, n0, n1, v0) ==
  IF n1 > Len(q) + 1 THEN PastEnd
  ELSE
    LET cn == CharAt(q, n1)
        v  == IF cn = "=" THEN n1 ELSE v0
    IN  IF cn \notin {"=", NUL} \cup Delims THEN ScanNoReset(q, name, n0, n1 + 1, v0)
        ELSE IF n1 - n0 = Len(name) /\ SubSeq(q, n0, n1 - 1) = name
             THEN IF v # 0 THEN Found(v + 1, ValueEnd(q, v + 1) - v - 1)
                           ELSE Found(n1 + 1, 0)
        ELSE IF cn = NUL THEN NotFound
        ELSE IF cn # "=" THEN ScanNoReset(q, name, n1 + 1, n1 + 1, v0)
        ELSE ScanNoReset(q, name, n0, n1 + 1, v)

RECURSIVE ScanSkip(_, _, _, _, _)
ScanSkip(q, name, n0, n1, v0) ==
  IF n1 > Len(q) + 1 THEN PastEnd
  ELSE
    LET cn == CharAt(q, n1)
        v  == IF cn = "=" THEN n1 ELSE v0
    IN  IF cn \notin {"=", NUL} \cup Delims THEN ScanSkip(q, name, n0, n1 + 1, v0)
        ELSE IF n1 - n0 = Len(name) /\ SubSeq(q, n0, n1 - 1) = name
             THEN IF v # 0 THEN Found(v + 1, ValueEnd(q, v + 1) - v - 1)
                           ELSE Found(n1 + 2, 0)
        ELSE IF cn = NUL THEN NotFound
        ELSE IF cn # "=" THEN ScanSkip(q, name, n1 + 1, n1 + 1, 0)
        ELSE ScanSkip(q, name, n0, n1 + 1, v)

RECURSIVE Scan(_, _, _, _, _)
Scan(q, name, n0, n1, v0) ==
  IF n1 > Len(q) + 1 THEN PastEnd
  ELSE
    LET cn == CharAt(q, n1)
        v  == IF cn = "=" THEN n1 ELSE v0
    IN  IF cn \notin {"=", NUL} \cup Delims THEN Scan(q, name, n0, n1 + 1, v0)
        ELSE IF n1 - n0 = Len(name) /\ SubSeq(q, n0, n1 - 1) = name
             THEN IF v # 0 THEN Found(v + 1, ValueEnd(q, v + 1) - v - 1)
                           ELSE Found(n1 + 1, 0)
        ELSE IF cn = NUL THEN NotFound
        ELSE IF cn # "=" THEN Scan(q, name, n1 + 1, n1 + 1, 0)
        ELSE Scan(q, name, n0, n1 + 1, v)

\* QueryParser::next: start at the query or at off + len.
NextResult(name) ==
  LET start == IF off = 0 THEN 1 ELSE off + len
  IN  Scan(query, name, start, start, 0)

-----------------------------------------------------------------------------
(* The reference: the parameters of q and their names and values.         *)

\* Positions of the delimiters, with sentinels before and after q.
Cuts(q) == <<0>> \o SelectSeq([i \in DOMAIN q |-> IF q[i] \in Delims THEN i ELSE 0],
                              LAMBDA i : i # 0)
                 \o <<Len(q) + 1>>

Params(q) == LET c == Cuts(q) IN
  [k \in 1..Len(c) - 1 |-> SubSeq(q, c[k] + 1, c[k+1] - 1)]

HasEq(p) == \E i \in DOMAIN p : p[i] = "="
FirstEq(p) == CHOOSE i \in DOMAIN p : p[i] = "=" /\ \A j \in 1..i-1 : p[j] # "="
KeyOf(p) == IF HasEq(p) THEN SubSeq(p, 1, FirstEq(p) - 1) ELSE p
ValOf(p) == IF HasEq(p) THEN SubSeq(p, FirstEq(p) + 1, Len(p)) ELSE <<>>

\* Percent-decoding: %hh is the character hh, + is a space.
RECURSIVE PercentDecode(_)
PercentDecode(s) ==
  IF s = <<>> THEN <<>>
  ELSE IF s[1] = "%" /\ Len(s) >= 3 /\ s[2] \in HexDigits /\ s[3] \in HexDigits
       THEN <<Byte(s[2], s[3])>> \o PercentDecode(SubSeq(s, 4, Len(s)))
  ELSE <<IF s[1] = "+" THEN " " ELSE s[1]>> \o PercentDecode(Tail(s))

\* The first parameter after the k-th called name, 0 if there is none.
RefFind(q, name, k) ==
  LET ps == Params(q)
      hits == {j \in k + 1..Len(ps) : KeyOf(ps[j]) = name}
  IN  IF hits = {} THEN 0 ELSE CHOOSE j \in hits : \A h \in hits : j <= h


-----------------------------------------------------------------------------
(* The calls.                                                             *)

Queries == BoundedSeq(Chars, MaxLen)

\* What the reference says get() returns with its cursor on parameter k.
RefValue(q, k) == IF k = 0 THEN <<>> ELSE PercentDecode(ValOf(Params(q)[k]))

\* QueryParser(): query empty, off = nullptr, len = 0.
Init ==
  /\ query = <<>> /\ off = 0 /\ len = 0
  /\ lastNext = "none" /\ refNext = "none"
  /\ lastGet = <<>> /\ refGet = <<>>
  /\ ref = 0
  /\ overread = FALSE

\* The history variables record the calls made on the current query; a
\* new query starts them afresh.
ForgetCalls ==
  /\ lastNext' = "none" /\ refNext' = "none"
  /\ lastGet' = <<>> /\ refGet' = <<>>
  /\ overread' = FALSE

\* init(q): clear(), then query = q.
InitQuery(q) ==
  /\ query' = q /\ off' = 0 /\ len' = 0 /\ ref' = 0
  /\ ForgetCalls

\* next(name): on a match the cursor moves to the value and 0 is returned;
\* otherwise -1 and the cursor stays.  A scan that runs off the buffer
\* reads whatever follows it; the model takes the outcome where the next
\* byte is a NUL, so -1 is returned.
Next(name) ==
  LET r == NextResult(name)
      j == RefFind(query, name, ref)
  IN  /\ IF r.ret = "found"
         THEN off' = r.off /\ len' = r.len /\ lastNext' = "found"
         ELSE UNCHANGED <<off, len>> /\ lastNext' = "notfound"
      /\ overread' = (overread \/ r.ret = "overread")
      /\ ref' = IF j = 0 THEN ref ELSE j
      /\ refNext' = IF j = 0 THEN "notfound" ELSE "found"
      /\ UNCHANGED <<query, lastGet, refGet>>

\* get(): "" if off is nullptr, else urldecode(off, len).
Get ==
  /\ lastGet' = IF off = 0 THEN <<>> ELSE UrlDecode(query, off, len)
  /\ refGet' = RefValue(query, ref)
  /\ UNCHANGED <<query, off, len, lastNext, refNext, ref, overread>>

\* rewind(): len = 0, off = nullptr.
Rewind ==
  /\ off' = 0 /\ len' = 0 /\ ref' = 0
  /\ UNCHANGED <<query, lastNext, lastGet, refNext, refGet, overread>>

\* clear(): rewind(), then query.clear().
Clear ==
  /\ query' = <<>> /\ off' = 0 /\ len' = 0 /\ ref' = 0
  /\ ForgetCalls

Step ==
  \/ \E q \in Queries : InitQuery(q)
  \/ \E name \in Names : Next(name)
  \/ Get
  \/ Rewind
  \/ Clear

Spec == Init /\ [][Step]_vars

-----------------------------------------------------------------------------
TypeOK ==
  /\ query \in Queries
  /\ off \in 0..MaxLen + 2 /\ len \in 0..MaxLen
  /\ lastNext \in {"none", "found", "notfound"}
  /\ refNext \in {"none", "found", "notfound"}
  /\ ref \in 0..MaxLen + 1
  /\ overread \in BOOLEAN

(***************************************************************************)
(* Successive next(name) calls, with any names, rewinds and re-inits in    *)
(* between, walk the parameters of the query the way the reference does:   *)
(* each returns what the reference returns, the cursor is set exactly when *)
(* the reference cursor is, and the bytes under (off, len) are the raw     *)
(* value of the parameter the reference cursor is on.                      *)
(***************************************************************************)
NextAgreesWithReference ==
  /\ lastNext = refNext
  /\ (off = 0) = (ref = 0)
  /\ ref # 0 => SubSeq(query, off, off + len - 1) = ValOf(Params(query)[ref])

(***************************************************************************)
(* get() returns the percent-decoded value of the parameter the last       *)
(* successful next() found: urldecode agrees with %hh / '+' decoding.      *)
(***************************************************************************)
GetIsPercentDecoded == lastGet = refGet

(***************************************************************************)
(* No next() call reads a byte past the terminating NUL of the query.      *)
(***************************************************************************)
NoOverread == ~overread

=============================================================================
