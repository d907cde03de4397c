------------------------------ MODULE Endpoint ------------------------------
(***************************************************************************)
(* Endpoint of src/src/endpoint.cc: the constructor that slices a URI into *)
(* protocol, user, password, host, port, path and search; to_string(),     *)
(* which prints an endpoint back as a URI; hash(), the XOR of the hashes   *)
(* of its fields; and operator==, which compares those hashes.             *)
(*                                                                         *)
(* A string is a sequence of atoms: the delimiters ":", "/", "@", "?", the *)
(* digits, and words that contain none of them.  std::string::find of a    *)
(* delimiter only looks at delimiter characters, so a word behaves as a    *)
(* unit.                                                                   *)
(*                                                                         *)
(* std::hash<std::string> is taken to be collision free: a field's hash is *)
(* the field's value itself, and an XOR of string hashes is the set of     *)
(* strings that occur an odd number of times.  std::hash<int> is the       *)
(* identity (libstdc++), so the port is XORed in as a number; it never     *)
(* cancels against a string hash.  Every collision the model shows is thus *)
(* one the code has whatever the string hash function is.                  *)
(*                                                                         *)
(* The caller holds two endpoints, a and b, and constructs either anew     *)
(* from a URI; the properties relate the two, and each to its printed     *)
(* form.                                                                   *)
(***************************************************************************)
EXTENDS Integers, Sequences, SequencesExt, FiniteSetsExt, Bitwise, Node

CONSTANTS
  URIs,            \* the uri_ strings the caller constructs endpoints from
  LocalHost,       \* local_node->host()
  LocalBinaryPort, \* local_node->binary_port
  DefaultPort      \* XAPIAND_BINARY_SERVERPORT

ASSUME DefaultPort \in Nat \ {0} /\ LocalBinaryPort \in Nat

VARIABLES a, b

vars == <<a, b>>

Digits == <<"0", "1", "2", "3", "4", "5", "6", "7", "8", "9">>
IsDigit(c) == \E i \in 1..10 : Digits[i] = c
DigitVal(c) == CHOOSE i \in 0..9 : Digits[i + 1] = c

ProtoSep == <<":", "/", "/">>
Cwd == <<"/">>   \* Endpoint::cwd

-----------------------------------------------------------------------------
(* String helpers the constructor uses.                                    *)

\* subject.find(delimiter): the first position of delimiter, 0 for npos.
Find(s, d) ==
  LET at == {i \in 1..Len(s) - Len(d) + 1 : SubSeq(s, i, i + Len(d) - 1) = d}
  IN  IF at = {} THEN 0 ELSE CHOOSE i \in at : \A j \in at : i <= j

(***************************************************************************)
(* Endpoint::slice_after: the text after the delimiter; the subject is cut *)
(* at the delimiter only when that text is not empty.                      *)
(***************************************************************************)
SliceAfter(s, d) ==
  LET loc == Find(s, d)
      out == SubSeq(s, loc + Len(d), Len(s))
  IN  IF loc = 0 THEN [out |-> <<>>, subj |-> s]
      ELSE [out |-> out, subj |-> IF out # <<>> THEN SubSeq(s, 1, loc - 1) ELSE s]

\* Endpoint::slice_before: the text before the delimiter; the subject
\* becomes the text after it.
SliceBefore(s, d) ==
  LET loc == Find(s, d)
  IN  IF loc = 0 THEN [out |-> <<>>, subj |-> s]
      ELSE [out |-> SubSeq(s, 1, loc - 1), subj |-> SubSeq(s, loc + Len(d), Len(s))]

\* atoi: the value of the leading digits, 0 if there are none.
RECURSIVE AtoiAcc(_, _)
AtoiAcc(s, acc) ==
  IF s = <<>> \/ ~IsDigit(Head(s)) THEN acc
  ELSE AtoiAcc(Tail(s), 10 * acc + DigitVal(Head(s)))
Atoi(s) == AtoiAcc(s, 0)

\* std::to_string of a non-negative int.
RECURSIVE Itoa(_)
Itoa(n) == IF n < 10 THEN <<Digits[n + 1]>>
           ELSE Itoa(n \div 10) \o <<Digits[(n % 10) + 1]>>

(***************************************************************************)
(* normalize_path (utils, not among the sources here) on a path without   *)
(* "." segments: runs of "/" become one.                                   *)
(***************************************************************************)
RECURSIVE NormalizePath(_)
NormalizePath(s) ==
  IF Len(s) < 2 THEN s
  ELSE IF s[1] = "/" /\ s[2] = "/" THEN NormalizePath(Tail(s))
  ELSE <<s[1]>> \o NormalizePath(Tail(s))

\* A variant of DefaultedPort that keeps a port of 0.
DefaultedPortKeepsZero(p) == p

\* if (!port) port = XAPIAND_BINARY_SERVERPORT;
DefaultedPort(p) == IF p = 0 THEN DefaultPort ELSE p

\* The path fix-up after slicing: make it absolute, normalise, strip the
\* cwd prefix and a trailing "/" (unless the path is exactly one char).
FixPath(p) ==
  LET p1 == IF p # <<>> /\ p[1] = "/" THEN p ELSE Cwd \o p
      p2 == NormalizePath(p1)
      p3 == IF SubSeq(p2, 1, Len(Cwd)) = Cwd THEN SubSeq(p2, Len(Cwd) + 1, Len(p2)) ELSE p2
  IN  IF Len(p3) # 1 /\ p3 # <<>> /\ p3[Len(p3)] = "/" THEN SubSeq(p3, 1, Len(p3) - 1)
      ELSE p3

(***************************************************************************)
(* Endpoint::Endpoint(uri_, node_ = nullptr, ...): the fields hash() and   *)
(* to_string() use.  node_name and mastery_level are copied from the       *)
(* arguments and take part in neither, so they are left out.              *)
(***************************************************************************)
Endpoint(uri) ==
  LET sp   == SliceBefore(uri, ProtoSep)
      file == sp.out = <<>> \/ sp.out = <<"file">>
      ss   == SliceAfter(sp.subj, <<"?">>)
      sh   == SliceAfter(ss.subj, <<"/">>)
      su   == SliceBefore(sh.subj, <<"@">>)
      sw   == SliceAfter(su.out, <<":">>)
      so   == SliceAfter(su.subj, <<":">>)
      path == IF ~file THEN sh.out
              ELSE IF sh.out = <<>> THEN so.subj ELSE so.subj \o <<"/">> \o sh.out
  IN  [user     |-> IF file THEN <<>> ELSE sw.subj,
       password |-> IF file THEN <<>> ELSE sw.out,
       host     |-> IF file THEN LocalHost ELSE so.subj,
       port     |-> DefaultedPort(IF file THEN LocalBinaryPort ELSE Atoi(so.out)),
       path     |-> FixPath(path),
       search   |-> IF file THEN <<>> ELSE ss.out]

\* A variant of Uri that prints the user part only when there is a user.
UriUserOnly(e) ==
  IF e.path = <<>> THEN <<>>
  ELSE <<"xapian">> \o ProtoSep
       \o (IF e.user # <<>>
           THEN e.user \o (IF e.password # <<>> THEN <<":">> \o e.password ELSE <<>>)
                \o <<"@">>
           ELSE <<>>)
       \o e.host
       \o (IF e.port > 0 THEN <<":">> \o Itoa(e.port) ELSE <<>>)
       \o (IF e.host # <<>> \/ e.port > 0 THEN <<"/">> ELSE <<>>)
       \o e.path
       \o (IF e.search # <<>> THEN <<"?">> \o e.search ELSE <<>>)

\* Endpoint::to_string.
Uri(e) ==
  IF e.path = <<>> THEN <<>>
  ELSE <<"xapian">> \o ProtoSep
       \o (IF e.user # <<>> \/ e.password # <<>>
           THEN e.user \o (IF e.password # <<>> THEN <<":">> \o e.password ELSE <<>>)
                \o <<"@">>
           ELSE <<>>)
       \o e.host
       \o (IF e.port > 0 THEN <<":">> \o Itoa(e.port) ELSE <<>>)
       \o (IF e.host # <<>> \/ e.port > 0 THEN <<"/">> ELSE <<>>)
       \o e.path
       \o (IF e.search # <<>> THEN <<"?">> \o e.search ELSE <<>>)

(***************************************************************************)
(* Endpoint::hash: hash(path) ^ hash(user) ^ hash(password) ^ hash(host)   *)
(* ^ hash(port) ^ hash(search).  The string part is the set of strings     *)
(* occurring an odd number of times; the int part is the port.             *)
(***************************************************************************)
Hash(e) ==
  [strings |-> FoldLeft(LAMBDA acc, s : SymDiff(acc, {s}), {},
                        <<e.path, e.user, e.password, e.host, e.search>>),
   int     |-> e.port]

\* operator==(const Endpoint&, const Endpoint&): the hashes are equal.
Equal(x, y) == Hash(x) = Hash(y)

-----------------------------------------------------------------------------
(***************************************************************************)
(* Endpoints: a list of Endpoint, iterated from cbegin() to cend().  The   *)
(* class and the members that change it are declared in endpoint.h, which  *)
(* is not among the sources here; its const members are, and are these.    *)
(***************************************************************************)

\* Endpoints::to_string: the endpoints' to_string() joined with ";".
EndpointsToString(l) ==
  FoldLeftDomain(LAMBDA acc, i : acc \o (IF i > 1 THEN <<";">> ELSE <<>>) \o Uri(l[i]),
                 <<>>, l)

\* Endpoints::hash: 0 XOR the std::hash<Endpoint> of every endpoint.
EndpointsHash(l) ==
  FoldLeft(LAMBDA h, e : [strings |-> SymDiff(h.strings, Hash(e).strings),
                          int     |-> h.int ^^ Hash(e).int],
           [strings |-> {}, int |-> 0], l)

\* operator==(const Endpoints&, const Endpoints&): the hashes are equal.
EndpointsEqual(x, y) == EndpointsHash(x) = EndpointsHash(y)

-----------------------------------------------------------------------------
Parsed == {Endpoint(u) : u \in URIs}

Init == a \in Parsed /\ b \in Parsed

\* The caller constructs one of its endpoints from a URI.
ConstructA(u) == a' = Endpoint(u) /\ UNCHANGED b
ConstructB(u) == b' = Endpoint(u) /\ UNCHANGED a

Next == \E u \in URIs : ConstructA(u) \/ ConstructB(u)

Spec == Init /\ [][Next]_vars

-----------------------------------------------------------------------------
Str == Seq(STRING)

TypeOK ==
  \A e \in {a, b} :
    /\ e.user \in Str /\ e.password \in Str /\ e.host \in Str
    /\ e.path \in Str /\ e.search \in Str
    /\ e.port \in 1..65535

(***************************************************************************)
(* Printing and parsing agree: an endpoint with a path, printed with       *)
(* to_string() and parsed back by the constructor, has the same user,      *)
(* password, host, port, path and search.  This is what makes the string  *)
(* form (logged, sent to other nodes) a faithful name for the endpoint.   *)
(***************************************************************************)
PrintParseRoundTrip ==
  \A e \in {a, b} : e.path # <<>> => Endpoint(Uri(e)) = e

(***************************************************************************)
(* operator== is field equality: two endpoints compare equal exactly when  *)
(* their user, password, host, port, path and search are equal.            *)
(***************************************************************************)
EqualityIsFieldEquality == Equal(a, b) <=> a = b

=============================================================================
