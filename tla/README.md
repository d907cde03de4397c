# TLA+ models of Xapiand (the parts in `src/`)

This directory holds TLA+ models of the Xapiand sources in `src/src/` and
the TLC configurations that check them. Each module is a translation of
named code, and `PROJECT.json` records the source lines each definition
models. Some models come from `spec.md` because the code is not in the
repository (`deflate_compressor.cc`). Those definitions are marked
`spec_modelled` in `PROJECT.json`.

## 1. Inventory

| Component | Source | State it keeps | Operations | Interacts with |
|---|---|---|---|---|
| Block stream engine | `deflate_compressor.h` 50-181 | `state` (NONE/INIT/END), `gzip`, `strm` (zlib), `cmpBuf`/`buffer` | `begin()` → `Impl::init()`; `iterator::operator++` → `Impl::next()`; `iterator::read()`; `operator==`/`end()`; `operator bool` | The Impl variants, through CRTP (`_init`/`_next`). The caller holds the iterator. |
| Memory source | `deflate_compressor.h` 184-250 | `data`, `data_size`, `data_offset` | constructor, `add_data`, `reset` | Read by `Impl::next()`. |
| File source | `deflate_compressor.h` 253-363 | `fd`, `fd_offset`, `fd_nbytes`, `fd_internal` (plus `bytes_readed`, `size_file`, and the decompressor's `data_size`/`data_offset`) | `open`, `add_fildes`, `add_file`, the `reset` overloads, `~DeflateFile` | Read by `Impl::next()` with `pread`. Owns the process's descriptors. |
| init/next of the 4 variants | `deflate_compressor.cc` (not in `src/`) | the zlib stream | `init`, `next` | The codec (zlib) |
| Endpoint / Node | `endpoint.cc` | the fields of an endpoint (protocol, user, password, host, port, path, search) and of a node | URI parsing (`slice_before`/`slice_after`), `to_string`, `hash`, `==`, `Node::serialise/unserialise` | Used by replication (`BinaryServer::trigger_replication`) and by the schemas cache |
| Query string parser | `url_parser.cc` 29-163 | `query`, cursor `off`/`len` | `init`, `next(name)`, `get`, `rewind`, `clear`, `urldecode` | HTTP server (not in `src/`) |
| Path parser | `url_parser.cc` 166-446 | `path` and six offset/length pairs | `init` (backward scan), `next` (forward scan), the getters | HTTP server |
| JSON-patch helpers | `msgpack_patcher.h` | the document being patched | `_add`, `_erase`, `_incr` (with and without limit), `_tokenizer` | `apply_patch` (not in `src/`) |
| Binary server | `servers/server_binary.cc` | the listening socket and the task queue | `io_accept_cb`, `signal_async_cb`, `trigger_replication` | libev loop, `BinaryClient` (not in `src/`) |
| Schemas LRU | `schemas_lru.h` | LRU of schemas guarded by `smtx` | declarations only | — |
| Logger | `logger.h` | handlers, stack levels, the scheduled `Log` tasks | declarations and forwarding templates only | Scheduler (not in `src/`) |

How the parts interact. A caller builds one of the four stream variants
over a source and iterates. It either loops with `operator++` until the
iterator equals `end()` (an empty chunk), or it calls `read()` until it
returns 0. Each pull calls `Impl::next()`. That call takes the next slice
of the source, gives it to zlib, and returns at most one block of output.
`reset()` and `add_data()` rebind the source of a used instance so that
the instance can be reused.

What is hard here:
- The order of calls on one instance. Reset or add_data can come in the
  middle of a stream, an iterator can be held across a reset, and a retry
  can follow an exception.
- Chunk boundaries and the window arithmetic. These are `fd_offset`/`fd_nbytes`
  clipping, the end of file inside a window, and a block that is exactly
  full.
- The two iteration surfaces, which decide "end of stream" differently.
  `operator==` compares chunk contents; `read()` pulls once and then returns 0.
- Descriptor ownership across `open`, `add_fildes` and `reset`.
- Elsewhere: equality of endpoints decided by an XOR of hashes, scanners
  that keep a cursor between calls, and a patch operation that throws
  after it has already modified the document.

What makes each part correct:
- Stream: every byte the caller receives is the next byte of the
  (de)compression of the source bound now. The caller stops only at END,
  and by then it has received everything. A reused instance behaves like
  a fresh one. A caller that keeps pulling reaches END. A truncated input
  is not passed off as complete.
- File source: caller descriptors are never closed, and nothing the
  instance opened is still open after it is destroyed.
- Endpoint: `==` is field equality, and parse/print round trips.
- Query parser: successive `next(name)` calls return the values of `name`
  in order and never read outside the query.
- Patch helpers: a failing operation leaves the document unchanged.
- Binary server: every queued task is eventually run by the async callback.

## 2. Plan

Modules, in order of importance (done ones first):

1. **DeflateStream** (done): one stream instance, all four variants, and
   the caller's iterator. It composes the source adapters and the codec.
2. **DeflateFile** (done): descriptor ownership over construction, reset
   and destruction.
3. **QueryParser** (done): the `next(name)` scanner with its persistent
   cursor and `urldecode`, checked against a reference split of the query
   and a reference percent-decoder.
4. **Endpoint** (done): URI slicing, `to_string`, and hash-based equality,
   checked against a print/parse round trip and field equality.
5. **PathParser** (done): the backward scan for pmt/cmd/id and the forward
   scan for endpoints, checked against a reference decomposition of the
   path.
6. **DeflateStreamContract** (done): the abstract stream. After any
   rebind, the caller receives `Expected(src)` in pieces of at most one
   block. The detailed DeflateStream is checked against it through
   INSTANCE ... WITH.
7. **MsgPackPatcher** (done): `_add`/`_erase`/`_incr` on an abstract
   map/array/number/string object, checked against RFC 6902/6901.
8. **BinaryServer** (done): the task queue drained by `signal_async_cb`,
   racing with the threads that enqueue and signal. The property is
   liveness: no queued task is left behind.
9. **Endpoints** (done): `Endpoints::to_string`, the list hash (XOR of
   endpoint hashes) and list equality, in the Endpoint module over lists
   of the caller's endpoints.
10. **Node** (done): `Node::serialise` and `Node::unserialise`. They are
    operators of `Node.tla`, which the Endpoint module extends. They are
    checked over every cut of the wire form of up to two nodes.

Not modelled:
- SchemasLRU and Logger. Only their declarations are in `src/`: the
  class bodies and the LRU they build on are in files not in `src/`.
- The byte format of `length.h` (not in `src/`). Node models a length,
  however many bytes it takes, as one token. So a buffer can only be cut
  between tokens, and `unserialise_length` is not checked on a length
  whose bytes are cut.
- The "Bad Node: No name" branch of `Node::unserialise`.
  `Node::serialise` never writes an empty name, so no wire form the
  model builds reaches that branch.
- `Endpoint::operator<`. It compares `hash()` values as numbers, and the
  model abstracts a hash to the set of fields it XORs. That set has no
  order the code's order would agree with.
- The members that fill an `Endpoints` (in `endpoint.h`, not in `src/`).
  The Endpoints properties range over every list of at most two of the
  caller's endpoints instead.
- The JSON-patch `_tokenizer`. It is a loop over rapidjson's
  `GenericPointer` tokens, and rapidjson is not in the repository.

## 3. Modules and runs

### DeflateStream (`DeflateStream.tla`, `MCDeflateStream.tla`)

State. The variables correspond to the code as follows:
- `dir` and `medium` are the Impl variant.
- `gzip`, `state` and `codec` are `DeflateBlockStreaming`'s members.
  `codec` abstracts `strm`.
- `data` and `dataOffset` are `DeflateData`'s members.
- `fdOffset` and `fdNbytes` are `DeflateFile`'s members.
- `it` is the caller's iterator: `current_str`, `offset`, the surface it
  uses, and what `read()` last returned.
- There are history variables: `src` (the source bound by the last rebind),
  `consumed`, `fresh` and `used`.

Actions. Each action is one call:
- `Begin` is `begin()`, which calls `init()` and so yields the first chunk.
- `Increment` is `operator++`.
- `Read(k)` is `read(buf, k)`.
- `ResetData` is the memory `reset`.
- `AddData` is `add_data`.
- `ResetFile` is either file `reset` overload.

`Impl::next()` is the operator `NextOutcomes`. It gives the set of outcomes
of one pull: the chunk and the new state, a codec error, or (for files) a
read error.

zlib is abstracted to tokens. A compressed stream is:
- a header token for the framing;
- one run token per run of equal bytes in each flushed slice;
- a trailer token whose checksum is the data itself.

One token counts as one byte of compressed input. Decompression rejects
the following as a codec error: a header of the other framing, a second
header, and a trailer whose checksum does not match.

Bounds:
- 2 byte values.
- `BlockSize = 2`, so a buffer of 3 bytes spans two blocks and a
  compressed stream spans up to three chunks.
- Memory buffers of up to 3 bytes. For decompression these are every
  intact stream of them, every truncation, and a corrupted stream.
- A 3-byte raw file, and the 5-token zlib stream of "xyy" as the
  compressed file.
- File windows at every offset from 0 to one past EOF, with every count
  including -1.
- `read` sizes 1 and 3. These are below and above a block.

With these bounds every case the code distinguishes happens: an empty
source, a source of exactly one block, a window past EOF, a short final
read, and a read that spans a chunk boundary.

| Run | Checks | Result |
|---|---|---|
| `deflate_stream` | `TypeOK`, `ConsumerSeesSource`, with a caller that begins once per binding and adds data only to a fresh instance; `PullTerminates` and `ImplementsContract` under `WF(Pulling)` | pass |

**Refinement.** `DeflateStreamContract.tla` is the promise without zlib,
sources or iterators. It has three variables:

- `out`, the stream the bound source gives;
- `taken`, what the caller has received;
- `status`, which is ready, open or failed.

Its actions are `Bind`, `Open`, `Take` (the next 1 to `BlockSize`
elements) and `Fail`. It has weak fairness on `Take`.

`DeflateStream` maps onto it as follows:

- `out <- Expected`;
- `taken <- consumed`;
- `status <- ContractStatus`, which is ready while `fresh`, failed after a
  call raised, and open otherwise.

`ImplementsContract == Contract!Spec` is checked as a property. Each
detailed step maps to one contract step or to a stutter:

- construction, `reset()` and `add_data()` are `Bind`;
- `begin()` is `Open`;
- a pull or a copy that hands out bytes is `Take`;
- an exception is `Fail`;
- empty pulls and zero-length reads are stutters.

Under `WF(Pulling)` the contract's fairness holds: a caller that keeps
pulling receives the whole stream unless it fails.

Two caller disciplines are constants of the module, and both are FALSE in
the run. With `StaleIterators = TRUE` (an iterator kept across `reset()`),
`ConsumerSeesSource` fails: `reset()` sets `gzip`, `stream` and
`data_offset` but leaves `state` and `strm`, so the old iterator pulls the
old stream (deflate_compressor.h:222). With `AddDataAfterUse = TRUE`,
`ConsumerSeesSource` fails too: `add_data()` rebinds a buffer but keeps
`data_offset` at the end of the old one, so the new stream is emitted
without its data (deflate_compressor.h:198). Earlier versions of the project kept a
run for each; they were folded into these constants to make room for the
patcher and the binary server.

Fairness. The engine does no work of its own, because the protocol is
pull-driven. `PullTerminates` is therefore conditional on a caller that
keeps pulling (`WF_vars(Pulling)`). `Pulling` is a pull that does not end
in a read error: a failing `pread` is a nondeterministic outcome of the
file system, not something the caller's persistence guarantees, so it may
not stand in for progress. A codec error is part of `Pulling`, because it
is determined by the input. Resets stay possible, so the caller is never
forced to finish.

Truncated compressed input reaches END without an error (the decompressor
stops at end of input). The spec is ambiguous about whether this is an
error (4.1 against 8.6), so no run checks it.

### DeflateFile (`DeflateFile.tla`, `MCDeflateFile.tla`)

State: `fd`, `fd_offset`, `fd_nbytes`, `fd_internal`, the process's open
descriptors, and the history of descriptors opened. `open`, `add_fildes`,
the constructors, both `reset` overloads and the destructor are actions.
`io::open` returns the lowest free descriptor of a pool of two. It fails on
a missing path or when the pool is exhausted. There are two caller
descriptors (0, the default constructor's, and 7).

`add_fildes` takes `fd_offset_` and `fd_nbytes_` as `size_t` and stores
them in `off_t` fields. The default constructors pass -1 for both. The
model keeps that round trip: `SizeT` wraps modulo `2^Width`, and `OffT`
reads the top half back as negative. `Width` is 16; the round trip does
not depend on the width. The offsets passed include -1. `TypeOK` checks
that the fields hold the values the caller passed. A mutant that keeps
the unsigned value breaks it.

| Run | Checks | Result |
|---|---|---|
| `deflate_file_ownership` | `TypeOK`, `NeverClosesForeign` | pass (225 states) |
| `deflate_file_leak` | `NoLeakAfterDestroy` | violation: `open()` overwrites a descriptor the instance owns |

The model stops once the instance is destroyed, so deadlock is not
checked there.

### QueryParser (`QueryParser.tla`, `MCQueryParser.tla`)

State: `query`, the cursor `off`/`len`, and the results of the last `next`
and `get` calls together with what the reference gives for them. The
results are history variables. `init`/`clear` reset them so that the state
space stays small. Positions are 1-based. 0 is `nullptr`, and `Len + 1` is
the terminating NUL.

Actions: `InitQuery(q)`, `Next(name)`, `Get`, `Rewind` and `Clear`.
`Next(name)` is the whole of `QueryParser::next`. The scan is the recursive
operator `Scan`, one step per loop iteration of the code. `urldecode` is
the recursive `DecodeFrom` over the bytes of a C string. The decoded byte
of `%hh` is a symbol for the byte, and `CString` cuts a string at the first
NUL, as `std::string(const char*)` does.

The reference splits the query on `&` and `;`, takes key and value at the
first `=`, and percent-decodes with `+` as a space.

Bounds. Queries are every string of up to 5 characters over
`a = & % +`, with the names `a` and `aa`. That is enough for:
- a prefix name (`aa` against `a`);
- an empty value and a valueless key;
- a key at the end of the query;
- an escape cut short by the end.

| Run | Checks | Result |
|---|---|---|
| `query_parser` | `TypeOK`, `NextAgreesWithReference`, `GetIsPercentDecoded` | pass |
| `query_overread` | `NoOverread` | violation: a valueless match at the end leaves `off` past the NUL (url_parser.cc:140) |

`urldecode` of `%00` puts a NUL in its buffer, and `std::string(dStr)`
stops there (url_parser.cc:62). The pass run leaves the digit 0 out of its
alphabet, so that this is not reported again. With `0` among `Chars`,
`GetIsPercentDecoded` fails on `a=%00`.

### Endpoint (`Endpoint.tla`, `MCEndpoint.tla`)

The constructor `Endpoint(uri)` is one operator. It translates the chain
of `slice_before`/`slice_after` calls, the `file` protocol branch, the
default port, and the path fix-up. A string is a sequence of atoms: the
delimiters, the digits, and words.

Hashing:
- `std::hash<std::string>` is taken as collision-free, so the XOR of
  string hashes is the set of strings that occur an odd number of times.
- `std::hash<int>` is the identity, so the port is its own component.
- A collision the model shows is therefore one the code has whatever the
  string hash is.

`normalize_path` is not in the repository's sources. It is modelled as
collapsing runs of `/` and marked `spec_modelled`. The URIs used contain
no `.` segments.

Endpoints, the list, has three const members in `endpoint.cc`, each an
operator over a sequence of endpoints:
- `EndpointsToString` joins the endpoints' `to_string()` with `;`.
- `EndpointsHash` XORs the endpoint hashes. String parts use set
  symmetric difference; ports use `^^` from the Bitwise module.
- `EndpointsEqual` compares those hashes.

No run checks a property of these. A round trip of the list's name
follows from `PrintParseRoundTrip` and the `if (i)` guard before the `;`,
and nothing in `src/` parses a list's name back. Insensitivity to order
holds because XOR is commutative, whatever the code does. What can go
wrong is stated as two hazards: a pathless endpoint prints as an empty
piece (endpoint.cc:226), and a duplicated endpoint cancels out of the
hash (endpoint.cc:240). Both are violations, and each would need a run
of its own.

The caller holds two endpoints and reconstructs either from a URI. The
URIs combine:
- three protocols (none, `xapian://`, `file://`);
- five user parts, including a password-only part and a user equal to the
  password;
- with and without a port;
- four path shapes, including a double slash and a trailing slash;
- with and without a search.

| Run | Checks | Result |
|---|---|---|
| `endpoint_roundtrip` | `TypeOK`, `PrintParseRoundTrip`, `NodesRoundTrip`, `FailedReadKeepsPointer` | pass (1,764 states) |
| `endpoint_equality` | `EqualityIsFieldEquality` | violation: `u:u@h:7/d` equals `h:7/d`, because equal user and password hashes cancel in the XOR (endpoint.cc:249) |

### Node (`Node.tla`, checked in `endpoint_roundtrip`)

`Node::serialise` writes four lengths (the address, the http and binary
ports, the region) and then the name as a string. It writes nothing for
a node without a name. `Node::unserialise` reads the same fields through
a local pointer and writes `*p` only once the node is complete. It
throws on a buffer that ends inside a node and on an empty name.

Abstractions:
- A length, whatever its byte width, is one token `Ln(v)`.
- Name characters are tokens.
- Widths are scaled to a 4-bit `int`/`in_addr_t` and an 8-bit
  `unsigned long long`.
- The code's conversions are kept: `ULL` for `int` to
  `unsigned long long`, `IntOf` for `static_cast<int>`, and `U32` for the
  assignment to `s_addr`.

The reader that calls `unserialise` until the buffer ends or a call
throws (`ReadNodes`) is the caller's loop. That loop is not in the
repository, so it is marked as modelled from the specification.

`MCNodes` has three nodes:
- a plain one;
- one whose address is above the scaled `INT_MAX` and whose region is
  -1;
- one without a name, like `local_node` before the cluster names it.

Transmissions are every list of at most two of these nodes, cut after
every token of their wire form.

Properties:
- `NodesRoundTrip`: the reader gets back, in order, the named nodes whose
  wire form arrived whole, with every field intact. It throws exactly
  when the cut falls inside a node.
- `FailedReadKeepsPointer`: when the reader stops on an exception, `*p`
  is at the first token of the node that did not arrive whole.

Mutants:
- `NodesRoundTrip` fails when the address keeps the negative `int` the
  cast gave.
- `FailedReadKeepsPointer` fails when the fields are read through `*p`
  itself.

These properties do not depend on the endpoint variables. TLC evaluates
them in each of the run's states, which adds about three seconds.

### PathParser (`PathParser.tla`, `MCPathParser.tla`)

State:
- `path`, `off`, and the six slices `f` (`off_x`/`len_x`);
- the history variables `lastState` (what the last call returned), `k`
  (how many endpoints `next` has handed out), and `oob` (`init` read
  outside the path).

`init` is the recursive `Back`, the backward scan. The fallthrough of the
switch from PMT to CMD to ID is expressed by the operators `AtPmt`,
`AtCmd` and `AtId`, each calling the next. `next` is `ListEnd` (the
clipping of `nf`) followed by the recursive `Fwd`, the forward scan.

The byte before `path.data()` is one of `Before`. `nullptr` is the model
value `Null`. The constructor leaves `off` uninitialised, and the model's
caller calls `next` only after `init`, `rewind` or `clear`.

References:
- `RefInit` reads the segments of the path from the last non-empty one
  back: `[id/][_cmd/][pmt]`.
- `Pieces` and `RefPiece` split the endpoint list into comma-separated
  `nsp:pth@hst` pieces.

The pass run uses two sets of paths:
- every path with a segment up to 5 characters over `a _ /`, and up to 4
  over `a _ / :`;
- every endpoint list up to 4 characters over `a , : @`, and up to 3
  followed by `/a` or `/_`.

Together they cover:
- a command with and without a parameter and an id;
- an id holding a separator;
- empty, invalid and trailing endpoints;
- a list ended by an id or a command.

| Run | Checks | Result |
|---|---|---|
| `path_parser` | `TypeOK`, `InitMatchesReference`, `EndpointsMatchReference` | pass |
| `path_stale_nsp` | `GettersDescribeCurrentEndpoint` | violation: `next` clears `off_hst` per endpoint but not `off_nsp`, so after `a:,a` the second endpoint reports namespace `a` (url_parser.cc:315) |

`InitInBounds` (`init` never reads before the string) is kept in the
module without a run: over `MCAllPaths` with `Before = {"x00", "_"}` it
fails, because `init("")` and `init("/")` read `*(ni - 1)` and make it the
id (url_parser.cc:233).

After an INVALID state, `next` returns without advancing `off`, so a caller
that loops until END repeats the same state forever. The callers are not in
`src/`, so no run checks this.

### BinaryServer (`BinaryServer.tla`, `MCBinaryServer.tla`)

The server runs on one libev loop thread. Other threads push replication
tasks on `binary->tasks` and call `signal_async.send()`. libev's `ev_async`
keeps a single pending flag: sends coalesce, and the loop clears the flag
before it invokes the callback.

- State: `queue` (the task queue), `pending` (the async flag), `inCb` (the
  loop is inside `signal_async_cb`), `pc` (each producer is idle or between
  push and send), `client` (the BinaryClient on each socket), and the
  history sets `pushed` and `ran`.
- Environment actions, which are not in `src/`:
  - `Push` and `Send`, a producer's two steps;
  - `Dispatch`, libev's clearing of the flag;
  - `ClientEnds`, a client that finishes.
- Actions of the code:
  - `SignalAsyncCb` is one iteration of `while (tasks.call(...))`. It pops
    a task and runs `TriggerReplication`, or it returns on an empty queue.
  - `IoAcceptCb` handles one accept event.
  - `NewClient` is the shared "make a client, destroy it if init fails"
    step of `io_accept_cb` and `trigger_replication`. A failing
    `accept()`/`connection_socket()` changes nothing.
- Fairness:
  - weak fairness on each producer's `Send`, because a thread that pushed
    goes on to send;
  - weak fairness on `Dispatch` and `SignalAsyncCb`, because the loop
    thread runs pending watchers and the `while` loop;
  - none on accepts or clients, which are up to peers.
- Bounds: 3 producers, 5 tasks (two producers with 2 each, one with 1),
  and 2 sockets. This gives 71,452 states. These bounds let a push land
  between the callback's last empty `call()` and its return, let three
  sends coalesce into one callback, and let accept and replication both
  find no free socket.

| Run | Checks | Result |
|---|---|---|
| `binary_server` | `TypeOK` (no client is left half made), `TasksEventuallyRun` | pass |

Mutating `while` into `if` (one task per callback) makes
`TasksEventuallyRun` fail: two pushes coalesce into one signal and the
second task is never run.

### MsgPackPatcher (`MsgPackPatcher.tla`, `MCMsgPackPatcher.tla`)

`doc` is the object a patch operation addresses: a map, an array of
leaves, a number or a string. `Add`, `Erase`, `Incr` and `IncrLimit` are
`_add`, `_erase`, `_incr` and `_incr` with a limit. Each action records
its outcome in `res` (ok, ClientError, LimitError or an escaping
`std::out_of_range`) and the step in `last`.

- An array target is parsed as `stox(std::stoul, target)`: a sign is
  allowed, "-1" wraps to `ULONG_MAX`, a value above `ULONG_MAX` throws
  `out_of_range`, and a partly read target is invalid. `ULongMax` is
  scaled to 9, so "10" and "11" overflow.
- MsgPack's `insert` and `erase` past the end are taken to throw
  `std::out_of_range`, which is what `_erase`'s catch expects. `msgpack.h`
  is not in `src/`.
- Targets are the strings of at most two characters over "-", "0", "1"
  and "x", which covers every branch of the parse.
- The pass run leaves out "00", "01" and "-0". `stoul` reads these as
  indices and RFC 6901 does not, so `PatchFollowsRFC` fails on them.
- `_tokenizer` only copies rapidjson's tokens into a vector and is not
  modelled.

| Run | Checks | Result |
|---|---|---|
| `msgpack_patcher` | `TypeOK`, `PatchFollowsRFC`: each step succeeds exactly when RFC 6902 add/remove (or incr) does, with its result, and a ClientError leaves the object as it was | pass |
| `msgpack_errors` | `FailuresAreClientErrors` | violation: `_add` catches only `invalid_argument`, so an index past the end, "-1" or one above `ULONG_MAX` lets `std::out_of_range` escape, where `_erase` turns it into a ClientError (msgpack_patcher.h:88) |

A LimitError is only required to be a failure. `_incr` adds before it
checks the limit, so the object is modified when the error is thrown.

## 4. What the runs show

- The stream delivers exactly the (de)compression of the source bound
  now, across resets, when the caller takes a fresh iterator per binding.
  With a stale iterator, or `add_data` on a used instance, it does not.
- `open()` leaks the descriptor it owned.
- The two scanners agree with reference grammars on every bounded input,
  except for:
  - the query over-read;
  - the `%00` truncation;
  - the path parser's stale namespace;
  - `init`'s read before the path (a module property, not a run).
- A node survives serialise/unserialise through the integer casts. A
  short read leaves the pointer at the start of the incomplete node.
- Endpoint equality is not field equality. List equality XORs the endpoint hashes, so it inherits the
  endpoint collisions. By the definition of `EndpointsHash`, a duplicated
  endpoint also cancels out; no run checks this (see the hazard
  endpoint.cc:240).
- The binary server runs every task a producer pushes, whatever the
  interleaving of pushes, sends and the callback.
- The patch helpers agree with RFC 6902 on RFC index targets. `_add` lets
  `std::out_of_range` escape where `_erase` reports a ClientError.

