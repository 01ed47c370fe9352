# A TLA+ model of beco

beco is a C library for browser *native messaging* hosts: programs a browser
starts and talks to over stdin and stdout, in JSON texts preceded by their
length.  The library gives a host a context with command handlers and a main
loop, an object type to convert JSON to and from, and a mock framework that
plays the browser in tests.  It carries yyjson and uthash with it.  This
directory holds TLA+ modules translated from `beco.c`, `mock.c`, `3rd/yyjson.c`,
`3rd/yyjson.h` and `3rd/uthash.h`, TLC configurations that check them on small
instances, and proofs for every value of their constants, checked by TLAPS.

Line numbers in the modules refer to `beco.c` unless another file is named.

## Inventory

| Component | State | Operations | Talks to |
|---|---|---|---|
| Framing | local `size`, `len`; the FILEs' buffers; the pipe | `BecoReadRaw` 333-362, `BecoWriteRaw` 364-396 | called by `BecoRead`, `BecoWrite`; the other process |
| Host loop and handlers | `handler_entries`, `null_cmd_handler`, `default_cmd_handler`; `*exit`, `exit_on_fail` | `BecoRegisterCommand`, `BecoRemoveCommand`, `BecoSetNullCmdHandler`, `BecoSetDefaultCmdHandler`, `BecoMainLoop`, `BecoNext`, `BecoSendResponse`, `BecoContextDestroy` | application handlers (callbacks), signal handlers (`*exit`), framing |
| Context | `in`, `out`, `log` | 76-186 | stdio, signals |
| Objects, requests | trees of `BecoObject`, `BecoMap`, `BecoArray`, `BecoKV`; `cmd`, `data` | 434-517, 597-774 | uthash; handlers |
| JSON conversions | none (functions) | `JsonTo...`, `...ToJson` 795-1046, `BecoObjectDumpJson` | yyjson; called by `BecoRead`, `BecoWrite` |
| Mock | pipe ends, the child, the driver's context | `BecoMockStart`, `BecoMockFinish` (`mock.c`) | the operating system; the host as a child process |
| yyjson: reader | values in a block that grows; open containers linked through `ofs` | `yyjson_read_opts` and its three readers | `JsonToObj`, through `BecoRead` |
| yyjson: writers | text and stack in one block, from both ends | `yyjson_write_opts`, `yyjson_mut_write_opts`, two layouts each; `yyjson_doc_mut_copy` | `BecoWrite` |
| yyjson: strings, numbers | the text, decoded in place; registers | `read_string`, `write_string`, `read_number` with its big integers, `write_u64` | reader, writers |
| yyjson: mutable containers | rings of cells from a pool; iterators | `yyjson_mut_arr_...`, `yyjson_mut_obj_...` | `ObjToJson` |
| uthash | two lists through every item; buckets | `HASH_ADD`, `HASH_FIND`, `HASH_DEL`, `HASH_ITER`, `HASH_SORT`, ... | the command table, `BecoMap` |

What is hard here, and what each component must therefore get right:

* **Framing.** A frame crosses a stdio buffer and a bounded pipe in pieces;
  either side may fail or die in the middle; a write may have to wait for the
  reader.  Right means: whole frames, in order, unchanged, up to the first one
  torn; what was acknowledged cannot be lost; no write hangs while somebody reads.
* **Host.** Handlers change the table they are called from; a signal arrives at
  any point of the loop; the peer may be slow, silent or gone.  Right means: the
  table behaves as a table, no pointer of a living context dangles, no frame is forgotten, and the
  loop ends when it has to.
* **Context.** Every context begins on stdin and stdout, a failed creation closes
  them, the setters forget what they replace, and nobody closes the log.  Right
  means: rules under which each stream is closed once and not used afterwards.
* **Objects.** Every free function assumes its argument owns what it holds and
  that every pointer in it was set.  Right means: a discipline under which nothing
  is freed twice, and an exact account of what is lost all the same.
* **JSON.** The conversion is recursive and goes both ways, and drops what it
  fails on.  Right means: what a passage through a host does to a document can be
  stated exactly, also for a container with missing members.
* **Mock.** Two processes, two pipes, four ends; every step of the start can
  fail, and the POSIX and the Windows halves differ.  Right means: who holds
  which end is known afterwards, no call waits for ever on a dead process, and
  reply *n* belongs to request *n*.
* **yyjson.** The readers are labels and gotos over a block that moves when it
  grows; some stores are not preceded by a check and rest on one made earlier; a
  string is decoded over itself with moves that store more than they copy; a
  number near the middle of two doubles is settled by truncated big integers; a
  removal in a ring depends on which cell the container points to.  Right means:
  a text is the tree the grammar says or is refused where it goes wrong, what is
  written reads back, and nothing is stored or read out of bounds.
* **uthash.** An item is in two lists at once, and an expansion moves every item.
  Right means: the lists agree, a search finds what was added last.

`PROJECT.json` lists the hazards at their lines, each with the properties that
would notice it going wrong.

## Modules

    MessageChannel    what one direction of the connection promises
      ^ refined by
    BecoWire          the same, byte by byte          BecoWireProofs
    CommandTable      what the handlers of a context promise
      ^ refined by
    BecoHost          handlers, loop, signals, peer   BecoHostProofs
    BecoContext       the streams of contexts         BecoContextProofs
    BecoMock          the mock framework              BecoMockProofs
    BecoJson          the conversions, on values
    YySequence        what a mutable container promises
      ^ refined by
    YyMut             the ring, its caller, an iterator   YyMutProofs
      EXTENDS YyRing  the ring and its functions
    BecoToJson        containers with missing members, on YyRing
      ^ extended by
    BecoObjects       blocks, owners, frees           BecoObjectsProofs
    UtHash            the hash table
    YyRead            the reader of documents
      ^ extended by
    YyWrite           the writers, and the mutable copy
    YyString          strings, in place               YyStringProofs
    YyInteger         write_u64                       YyIntegerProofs
      ^ extended by
    YyNumber          read_number
    MC...             the instances TLC checks

Each layer takes the one below as atomic: `BecoHost` and `BecoMock` treat a
frame as one item of a pipe, which `BecoWire` justifies; `BecoHost` takes from
`BecoJson` only that a frame yields a command, no command, or
`BECO_ERR_INVALID_JSON`; `BecoJson` takes a document as a value, which `YyRead`
and `YyWrite` justify, over lexemes that `YyString` and `YyNumber` read.

### BecoWire

The bytes ever put into the FILE are one sequence, `log`; the positions `fr`,
`rd`, `dr` say which of them earlier `fread`s took, which the current one took,
and which are in the pipe; the rest is in the writer's buffer.  A byte is the
pair of its frame and its index, so that the model can tell a header from bytes
which merely stand where a header should.

| Action | Code |
|---|---|
| `Refuse`, `StartWrite` | `BecoWrite` 312-331 and the limit of `BecoWriteRaw` 370-372 |
| `PutHeader`, `PutData`, `DataWritten`, `Flushed` | the two `fwrite`s and the `fflush` 374-392 |
| `Drain` | stdio writing to the pipe, at any moment within a call |
| `WriteFault`, `ReadFault` | a failing `write(2)` or `read(2)`: the error returns |
| `ReadByte`, `HeaderRead`, `BodyRead`, `ReadEof` | the two `fread`s 341-361 |
| `StartClose`, `Closed`, `Crash` | `fclose` in `BecoContextDestroy`; the process killed |

Garbled lengths and payloads, once the reader is out of step, are arbitrary.
`bad` is the first frame torn by an error; the properties speak of the frames
before it.

### BecoHost

An entry is an index into `made`, the history of `CreateHandler`'s calls; `live`
is the heap, `table`, `nullH` and `defaultH` are the context's pointers, `lost`
the entries that are allocated and unreachable.  `Calling` says where the
application may use the table: outside the loop and inside a handler.  `pc`
follows `BecoMainLoop` and `BecoNext`:

    app -> top -> reading -> dispatch -> handling <-> sending
            ^         |          |           |
            +-------check <------+-----------+

`slack` and `late` are history: the request the loop may still answer after
`*exit` was set, and those it did answer.  `BecoContextDestroy` frees the null and
the default handler and leaves the context's pointers at them; the context must
not be used afterwards, and `HeapExact` counts the pointers (`Led`) of one that
is not destroyed.  Destroyed, it leaves behind exactly what `lost` says.

`Find` returns the newest entry of a command: `HASH_ADD_STR` puts an entry at the
head of its bucket and `HASH_FIND_STR` takes the first equal key.  That holds
until a bucket reaches ten entries and uthash expands its table, which turns the
chains around (`uthash.h:778`, `869`; `FindsNewest` of `UtHash`).  `MaxTable`
bounds the entries of the table at a time, and `TableAssumption` keeps it below
ten: what `CommandTable` promises is a promise of such a table only.  Behind an
expansion the older of two handlers of a command may answer.

### BecoMock

`parent`, `child` and `files` say who holds the four ends; `mpc` follows
`BecoMockStart` through its failures, `host` the loop of the spawned process,
`dpc` the driver between `BecoWrite` and `BecoRead`.  A pipe item is a request,
the reply of the same number, or `Text`: what the host logged to its stderr,
which `BecoMockStart` makes the same pipe (`mock.c:64`).  With `exitOnFail` the
host ends at the end of its input (`HostEof`); without it, as the README and the
examples call the loop, every further read fails at once and it spins (`HostSpin`,
`beco.c:208-210`); `NobodyWaits` says which of the two happens.  On POSIX the child
inherits all ends and nobody closes any; on Windows the child gets two and the
parent closes those.  The missing `return` of the Windows error path is a
nondeterministic choice.  `twice` keeps the ends that are closed by one who does
not hold them: none on POSIX, and on Windows the one that `mock.c:113` closes
as a descriptor and once more with its `FILE`, which is what `ClosedOnce` says.

### BecoJson

`JsonToObj`, `ObjToJson` and their companions are recursive operators on
values.  A number carries the subtype yyjson gives it, a string is cut at NUL by
`strdup` (`CString`), integers have `Width` values, and a map keeps its entries
in the order they were put.  `Collapse` is the reference: what one reading is
known to lose, written on JSON alone.  Documents travel: `Read` (`BecoRead`),
`Put` (a handler's `BecoMapPut`), `Write` (`BecoWrite`), the next `Read`.

### BecoContext

`ctx` holds the `FILE` pointers of each context, `open` the streams that are
open, `owner` who may close each of them.  The actions are `BecoContextNew` (and
`BecoContextInit`), `BecoContextNewWithConf` where it succeeds and where it
fails, the three setters, any use, `BecoContextDestroy` (and `Free`), and the
program closing what is its own.  `beco.h` does not say who closes what, so the
module states it: `CtxRules` are two rules a program keeps, and `StreamsOwned`
holds while it keeps both.  Without either one TLC finds a stream used or closed
after it was closed.

### BecoToJson, BecoObjects

A heap of blocks with addresses that are never given out again, so that a second
free shows.  `ObjectFree`, `MapFree`, `ArrayFree`, `KVFree` and `RequestFree` are the
frees of `beco.c` with their omissions: `BecoKVFree` frees the key and the value
and not the pair, `BecoArrayFree` not the slots, and `BecoMapFree` not the pairs
and, deleting no entry, not the table and the buckets that uthash allocated for
the first of them (one block of the model, `Table`).  A message leaves a block
behind as well (`Frame`): `BecoRead` never frees what `BecoReadRaw` gave it,
whether the text is a request (`Receive`) or none (`Refuse`), and `BecoWrite` not
the text it has written (`Write`).  `KnownLeaks` is the whole list.  These functions call one another: `calls` is the
stack of the calls still to be made, `Release` puts the first one there, and a
step takes the first and puts in its place those it makes; one for `NULL` returns
at once (`Return`), and `BlockFree` is `free(3)`.  The caller waits until `calls`
is empty, and the properties hold at every step of the recursion.  `Rules` are
the four that the functions need and `beco.h` does not state: "give" (no use of
what was given away), "fill" (every slot of an array set before it is freed:
`BecoArrayNew` leaves them uninitialised), "once" (nothing is set twice) and
"dup" (no duplicate of a map or an array).  Without any one of them a property
fails.

`BecoToJson` follows `ArrToJson` and `MapToJson` down to the ring of cells for
members that are `NULL`: the conversion of the member fails, its result is not
looked at, and the cell of the member before is appended once more, which closes
the ring too early.  `NullsWrap` says what is written then.

### YyRing, YySequence, YyMut

`YyRing` has one operator per function of `yyjson.h`: the next pointers, the
container's pointer to its last cell, the length.  `YyMut` drives them as a
caller does, with a pool that runs out and an iterator that inserts and removes;
its `Contract` says, action by action, that the sequence of members changes as
`YySequence` promises (`ArrTold` of an array, `ObjTold` of an object).
`RingShape` is what every function relies on.

An iterator that removes stands, afterwards, at the member behind the removed
one, which it does not return, and its `idx` no longer says where it is; `place`
and `plain` are the history that does.  What `..._iter_remove` takes `idx` for is
whether the member is the last and `uni.ptr` has to move; `IdxTells` says where
that is right.  A caller with `Careful` removes by an iterator only there, however
often, and removes by `yyjson_mut_obj_remove_str`, which has such an iterator of
its own, only keys that occur once at most (`Once`).  The header asks for neither.
With `Careful` FALSE the ring breaks: TLC violates `RingShape` and `IterAhead`, and
the run `containers_remove` shows pairs that `remove_str` leaves.

### UtHash

A table is a record with the items' six pointers, the buckets and their counters.
`HASH_ADD` is the whole macro: appending, hashing, the head of the chain, and the
expansion with its ideal chain length.  `Sort` says what the merge sort of
`HASH_SRT` does to the list, merge by merge.
Two additions with the same key are allowed, as in `BecoRegisterCommand`.  An
expansion turns the chains around, so that the newest item of a key is found for
certain only before the first one.

### YyRead, YyWrite

The text is a sequence of lexemes: structural characters and white space, one
byte each; a number, a string, a literal, right or wrong; a comment, closed or
not; an illegal character.  Labels are actions, `pc` is the label, and a container
keeps its parent's distance in `ofs` and its children's number in `len` while it
is open, as the code does.  The two readers that loop, minified and pretty, share
the definition of each label and differ in what they look at beyond it
(`SkipEnd`, `Break`, `Indent`, `Both`).  `Supply` adds lexemes only when a step
would look at them: texts that are refused early are not continued.
`Document(text)` is the reference, a recursive grammar that knows nothing of the
reader.

`YyWrite` writes what the reader made: as it lies, or as the mutable copy.  Four
writers share the label definitions and differ in `Val`, `FirstOf`, `NextOf`, the
size of a context and the layout.  `out` is kept as lexemes, and the bytes they
take, with the text's end, the highest byte stored, the length of the block and
the stack at its other end, as integers; the four spaces of an indentation are one
blank.  The reader's block starts without the part estimated from the length
of the text, the least there can be, so that it has to grow.

### YyString

Bytes are numbers, and memory is the text with the zeros behind it.  The labels
of `read_string` copy in moves of 2, 4, 8 and 16 bytes that store more than they
advance; the run is then written by `write_string` with and without its flags,
and what is written is read once more.  `Says` is the reference decoder.

### YyInteger, YyNumber

`YyInteger` is `write_u64` with the numbers of the code: the divisions are
multiplications and shifts.  `YyNumber` is `read_number`: sign, integral part,
point, fraction, exponent, what is cut off and where the significand ends; then
zero, infinity, an integer, or the comparison of two big integers that the slow
path ends in.  Its widths are parameters (64 bits and 19 safe digits in the code,
10 bits and 3 in the runs); `NumberAssumption` keeps what
the code needs of them.  The floating-point arithmetic of the fast paths and of the
approximation is left out; instead, the comparison is made with every boundary of
the instance of the same decimal order.

## Runs

| Run | Instance | Shows |
|---|---|---|
| `wire` | 2 frames of 6 kinds, header 2, pipe 2, failing writes and reads, a writer that dies; 388 thousand states | `FaithfulUntilTorn`, `AckedHasLeft`, `BoundedAllocation`; the bytes implement `MessageChannel`; `WriteReturns`, `AckedArrives` |
| `host_table` | 2 commands, 2 functions, 3 entries, 1 frame; up to 9 in the table; 561 thousand states | `HeapExact`; the context implements `CommandTable` |
| `host_loop` | 3 frames, pipes of 2 and 1, 1 entry; 178 thousand states | `LateBound`, `Served`, `Stops` |
| `mock` | both platforms and logs, `exit_on_fail` or not, 3 requests; or 2 contexts and 3 files; 11 thousand states | `Residue`, `ClosedOnce`, `InStep`, `NobodyWaits`; `StreamsOwned` |
| `json` | 2553 documents, 4-bit integers, 2 hosts, 1 member added in each; 431 thousand states | `OnlyKnownLosses`, `IntsRead`, `CommandAgrees` |
| `containers` | an array of up to 4 members or an object of up to 3, an iterator; or 5 items, 3 keys, expansion of 2 buckets to 4; 57 thousand states | `RingShape`, `IterAhead`, `Reads`, `Contract`; `Fsck`, `FindsNewest`, `IterOrder` |
| `objects` | 6 blocks and 2 for what a request brings, 2 pointers held, containers of up to 3, each call of a free a step; 1.5 million states | `NoDangling`, `OneOwner`, `KnownLeaks`, `NullsWrap` |
| `document` | 5 sets of flags and lexemes, texts of up to 10, 6, 6, 5 and 4 lexemes; 1.2 million states | `ReadsText`, `ErrorPlace`, `ReadsBack`, `InBounds`, `Terminates` |
| `scalars` | 27 thousand strings; 27 thousand numbers, a word of 10 bits; 543 thousand states | `Decodes`, `InPlace`, `Rereads`; `ReadsNumbers`, `Rounds` |
| `containers_remove`, `objects_dup`, `rounding` | as above | each violates one sentence of the documentation |

Where two modules share a run, `on` in the MC module (or the initial state) says
which of them moves; the other stays as it starts.

Every property of a passing run has a *mutant*, a definition that differs from
the code as a slip would (a dropped check, a wrong end, a step left out), with
which TLC finds the property violated.  The mutants stand beside the definitions
they change and nothing else uses them.

**Why the bounds are enough.**

* `wire`: the payloads are empty, one byte, longer than the pipe, one over the
  limit, and one over the width of the length, so that every comparison has both
  outcomes and a writer blocks within a frame; two frames are enough for a tear to
  shift the next one and for one to be acknowledged before a crash.
* `host_table`: three entries allow a duplicate to be covered, removed and
  uncovered while a null or default handler exists; the symmetry of commands and
  functions is sound because the run checks no liveness.  `host_loop`: three
  frames let one be served, one be in the pipe and one be sent when `*exit` is set.
* `mock`: three requests let an answer be missing, late or doubled with another
  one following.  Two contexts share stdin and stdout, and three files are one
  more than a context needs for its input and output.
* `json`: two levels reach every pair of containers, and recursion treats each
  level alike.
* `containers`: a ring of one, two and more cells are its three shapes, and one
  cell stays outside it.  In the table all items share a bucket until it expands;
  the view drops only pointers of cells and items outside the structure, which
  every function writes before it reads them, and, once the table has grown, the
  order of arrival, which no property speaks of then.  The marks by which uthash
  gives up expanding (`noexpand`) need a second expansion and are not reached.
* `objects`: six blocks are an array in an array with a slot each, or a map with
  its table, a member and an array or an empty map in it; two more let a request have
  an object with a command in it, besides its frame.  `Room` cuts the instance: a
  program that has had all blocks but one goes on until it has freed one structure,
  and what it then frees or builds is seen with up to four; and one with two messages
  behind it goes no further.
* `document`: ten lexemes reach containers in containers with members on both
  sides; the others vary flags, white space, what is wrong, and memory that runs
  out.  The blocks grow within these texts because a header takes 4 values and a
  string up to 122 bytes.
* `scalars`: the strings pair every escape and every kind of character with each
  other and with what is wrong, runs of 0 to 18 bytes cover each length a move can
  leave over, and the lead and second bytes stand at the limits of the UTF-8
  ranges.  The numbers are every text of up to five characters, all integers
  around the width, and, around each boundary, the boundary itself, what is just
  below and just above it, with the point at every place and exponents at and
  beyond the limits.

**Fairness.**  `BecoWire`: a call that is not blocked goes on, and the reader
calls `BecoReadRaw` again: this is what `BecoMainLoop` does.  `BecoHost`: the
loop's thread runs, handlers return, and the peer reads what it is sent; nobody
has to send, to set `*exit` or to close.  `BecoMock`: calls in progress and the
host go on.  `YyWrite`: the one thread goes on.  All are weak fairness on the
steps of one thread of control.  Signals, faults, crashes, closing and the
application's own calls are never fair.

Deadlock is not checked: a closed connection, a destroyed context, a finished
mock, a document written and a heap without a free address are final, and a
program may stop calling.

## Where code and documentation differ

With a run:

* `containers_remove`: `yyjson_mut_obj_remove_str` "removes all key-value pairs for
  the given key" (`yyjson.h:1997-2004`).  It goes on with the iterator it has removed
  by, which steps over the pair that followed: of an object with the keys k2, k, k it
  leaves one k.  With k, k2, k the last removal leaves `uni.ptr` at the pair
  removed, outside the ring.  (Of k, k both go: the iterator comes around.)
* `objects_dup`: `BecoObjectDup` is documented to copy deeply on request
  (`beco.h:372`); it copies the pointer to a map or an array, and freeing both
  objects frees that twice.
* `rounding`: `yyjson.h:483` promises correct rounding.  A number with more digits
  than the slow path keeps is taken for greater than it is when those it leaves
  out are zeros, and is off by a factor of ten when they have the point among them
  (`yyjson.c:2943-2944`, `2955-2958`).  In the code,
  `1.00000000000000011102230246251565404236316680908203125` followed by 715 zeros
  reads as 1.0000000000000002.  `Miscut` describes these texts, and `Rounds` says
  that there are no others.

Seen while modelling; the passing properties say what holds instead:

* `README.md:16` promises a seamless conversion; `JsonToObj` looks at a type whose
  subtype is masked away (`beco.c:842`), so that -8 is read as an unsigned number,
  and written as 18446744073709551608, and a real as 0.  `OnlyKnownLosses` says exactly
  what is lost, `IntsRead` that `BecoObjectGetInt64` still sees the negative number.
* `BecoMainLoop` returns `BECO_ERR_OK` always, not the last error (`beco.h:202`);
  `exit_on_fail` does not see what a handler returns (`beco.h:201`); blocked in
  `fread`, the loop does not end when `exit` turns true (`beco.h:200`).  `Stops`
  and `LateBound` say when it does.
* `BecoSetLog` ignores `NULL`, which `beco.h:139` says disables the log.
* With the default log, the README's driver (`README.md:85`) meets log text before
  the response (`mock.c:64`).  `InStep` says what holds with a log file, and that
  without one no read of the driver returns a reply.
* The sample loop of `yyjson.h:1458-1471` skips the member behind one that it
  removes (`yyjson.h:3047`), against the comments at 1463 and 1484, and
  `yyjson_mut_obj_iter_getn` leaves an iterator that has gone around the end without
  noticing (`yyjson.h:3715`).  `IterAhead` says where such an iterator stands.
* `[1,]` is refused as an unexpected end, where `yyjson.h:540` speaks of the
  structure; and `[Inf]` is refused where `Inf` alone is read (`yyjson.c:4510`,
  against `yyjson.h:510-512`).  `ErrorPlace` and `Accepts` follow the code.
* `BecoRequestGetData` is declared and not defined; `BecoConf.exit_flag` is not
  used.

## Proofs

All theorems hold for every value of the constants that satisfies the named
assumptions of the modules.

**`BecoWireProofs`.**  `FaithfulUntilTorn` is not inductive: it says nothing of
the bytes under way.  `IInv` describes them.  Every byte of `log` is labelled by
its frame and index, the labels are ordered, and neighbours are consecutive
(`Labelled`, `Ordered`, `Chained`, `Rooted`); `WriterAt`, `WriterClean` and
`PipeCut` fix where the writer and its pipe are in that sequence; `ReaderAt` says
that a reader before the first tear stands in the header or the body of precisely
the next frame.  `InductiveInvariant` proves it, step by step;
`TypeCorrect`, `Faithful`, `Durable` and `Bounded` are consequences, the last
with `MaxSize < Width`: the cast to `uint32_t` never truncates.  `Refinement`
proves that every step of `BecoWire` is a step of `MessageChannel` or a stutter.

**`BecoHostProofs`.**  `HeapExact` is inductive with the types; a destroyed context
still points to its null and default handlers, which are freed, so that `Led` is of
one that is in use.  `TypeOK` needs to
know how many frames there are (`Counted`), `LateBound` where the loop was when
`*exit` was set (`Slackened`).  That `HASH_FIND_STR` finds an entry of the table
(`FindInTable`) uses the well-foundedness of `<`, to have a maximum.
`TableRefinement` proves from `IInv` that every step of the host, of its handlers
and of its peer is a step of `CommandTable` or a stutter: the stack of a command
is its entries in the order they were registered, so that registering puts one on
top and removing takes the top off.  Commands and registrations in a context's life
are any number; the entries of the table at a time are those of `TableAssumption`,
below uthash's expansion.

**`BecoMockProofs`.**  `EndsInv` ties the parent's ends to the progress of the
start, which gives `ResidueIsExact` and `NoDoubleClose`: on POSIX nothing is closed twice,
on Windows only `in_wr`, in a start that failed.  `Conversation` rests on
`Lockstep`: at most one request is under way, in one of the pipes or in the host,
and its number is the driver's; or the host is gone and its pipe empty
(`Gone`), when no reply can come any more.  `NoHolders` links the two: a
driver's call that fails has lost the host for good.

**`BecoContextProofs`.**  `StreamsAreOwned`: with both rules in `CtxRules`,
`CtxTypeOK` and `StreamsOwned` together are inductive, for any contexts and any
files.  A step that closes or gives a stream needs that the owner of a stream is
one of the contexts, the program, a log or nobody.

**`YyIntegerProofs`.**  `WriteU64Exact`: for every 64-bit integer the digits
`write_u64` writes are its decimal digits, without a leading zero.  First each
multiplication and shift is the division it stands for in the range it is used in
(`v * 5243 >> 19` for four digits, `v * 109951163 >> 40` for eight, `v * 429497
>> 32` for six); then each chunk of four is four digits of the number, and
chunks are joined by position.  TLC cannot evaluate these numbers, and the ranges
end where the next division would be wrong.

**`YyStringProofs`.**  For every text of bytes.  `InPlace` (`NeverAhead`) needs that
from `src` on the memory is still the text and that, behind the first escape,
`dst` is behind `src` (`Unread`): each move of 2, 4, 8 or 16 bytes stores at most
what was read before.  It also needs what is known of the byte at `src` when a
label is reached (`Stopped`), and that a string that was read ends between two
characters (`Ended`), since the writer looks at the first byte of each only.
`Padding >= 4` is what the four-byte loads of the code need; with 3 TLC finds
a load beyond the block, for a text that ends in a character of two bytes.  `Decodes`
(`SaysWhatItReads`) needs `Decoding`: the string so far, followed by what the text
says from `src` on, is what the whole text says.  `Says` is a recursive function; that
it satisfies its equation, and what it makes of a run of plain characters, is
proved by taking the least place where it would be false.

**`YyMutProofs`.**  For every pool, every set of keys and every size of the
container, `RingShape`, `IterAhead`, `Reads` and `Contract`.  None of them is
inductive: a ring is next pointers, and `Hop` follows them.  `IInv` says that some
`g` goes once along the cells of the ring, as many different ones as the length
says (`Sound`), in an object with keys at the even places (`Paired`, `KeyCells`),
and that the iterator stands at the cell `g` has at its index (`ArrAt`, `ObjAt`).
Each function of `YyRing` is shown to turn one such `g` into another: a cell put
in, a stretch left out, the ring turned.  `obj_remove` and `remove_strn` loop
while they remove; `Turning` and `Seeking` are the invariants of their loops.  What
becomes of `g` is then what becomes of `Elements` and `Pairs`, which is `Contract`.
The iterator's `idx` is not its place once it has removed or searched around the
end, so that `ArrAt` and `ObjAt` speak of `place`, and `IdxTells` is what makes a
removal move `uni.ptr` exactly when it must.  `RingHolds`, `IteratorsAhead`,
`ReadersRead` and `Contracted` have the hypothesis `Careful`, the two rules
`yyjson.h` does not state; the iterator may remove any number of members and search
in between.  Without `Careful` TLC refutes the first two.  `KeysAssumption` keeps keys and
cells apart, so that a cell of the model shows whether it is a key, as the type
tag of the code does.

**`BecoObjectsProofs`.**  `NothingDangles`, `OneOwnerEach` and `OnlyKnownLeaks`: a
caller who keeps the four `Rules` frees structures of any size and depth, each
block once, and loses only what no function frees: the pairs and the table of each
map, the slots of each array, and a block for each message read or written.  With three of the rules TLC
finds a counterexample, so the hypothesis cannot be weakened.  `NoDangling` is
not inductive: a block with two owners is alive until one of them is freed.
`IInv` says that what can be reached is a forest: its blocks are alive and of the
kind their pointers take them for (`Fit`: a map leads to its table, the table to pairs, a pair to an
object, an object to what its type says), each is pointed to from one place
(`Single`), and the roots, which are the caller's pointers and the calls a free
has still to make, from none (`Rooted`).  Those calls are for different blocks
(`Pending`), and no slot that was never set is under them (`Settled`, from `Full`
when the free begins).  What can be reached is the fixed point of a bounded
iteration: `SpreadIs` proves, by counting, that it is closed within as many
steps as there are blocks, and `ReachLeast` that it is the least such set.  An
action of the caller then adds a tree of fresh blocks (`Planted`), or pointers
to what the caller gives away (`Put`); a call replaces a block by calls for its
pointers (`Freed`), so that what it pointed to is as reachable as before and
still owned once.

**Only model-checked.**

* The liveness properties (`WriteReturns`, `AckedArrives`, `Served`, `Stops`,
  `NobodyWaits`, `Terminates`): liveness under fairness is out of the prover's
  reach.
* `BecoJson`, `YyRead`, `YyWrite`, `YyNumber` and `Rereads` of
  `YyString`: they are about RECURSIVE operators, or compare with one, and the
  SMT backend does not work in a module that reaches such an operator.  A recursive
  *function* can be reasoned about by its least counterexample, as
  `YyStringProofs` does, or turned into a stack of calls, as in `BecoObjects`, so
  that these proofs begin with another form of the definitions.
* `NullsWrap` of `BecoObjects`: what it says of the members that are written
  counts and repeats them, an induction over the sequence that `ArrToJson` builds
  in a ring.
* `Fsck`, `FindsNewest` and `IterOrder` of `UtHash`: an expansion goes through
  every item and relinks it, a sort merges lists; both are folds, and their
  proofs need an induction over the fold.

## Not modelled

* The floating-point arithmetic of `read_number` (fast paths, approximation) and
  the writing of doubles: TLA+ has no floating-point numbers, and what remains of
  these functions without them is a table look-up.
* The file functions of yyjson, which open and close a file around the modelled
  ones, and its pool allocator, which beco does not use.
* The getters of immutable values, JSON pointer, merge patch and equality, which
  change nothing.  `yyjson_mut_equals` is asymmetric for objects with repeated
  keys; beco does not call it.
* Hash functions (the values are arbitrary), the Bloom filter, `HASH_SELECT` and
  the mode of uthash that survives a failed `malloc`: beco compiles none of them.
* A failing `malloc` in `beco.c`, which the code does not check, and in uthash,
  where it ends the process.
* The byte order of a length: both ends run on one machine.
* `BecoObjectDumpF`, `BecoLog`'s text, the tests, the examples, the build.

## Plan

1. `Fsck` and `FindsNewest` of `UtHash`, with the expansion and the sort as
   recursive functions and the order of the items as the witness that
   `g` is in `YyMutProofs`.
2. `BecoSession`: the host over two instances of `MessageChannel` instead of
   pipes of frames, so that a torn frame meets `BecoMainLoop`.
