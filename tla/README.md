# A specification of libara

libara gives a random-access resource (a file, a piece of memory) an asynchronous
interface with six operations: open, close, end, read, write, unlink. A client
registers a *worker* for each type of work it supports, calls `ara_open()`,
`ara_read()`, ... and is called back; the library turns each call into a request
that a libuv loop delivers to the worker.

This directory holds TLA+ modules that model the library, TLC configurations that
check them on small instances, and theorems checked by TLAPS for every instance.

    tlc -config MCAraCore.cfg MCAra.tla        (and the other configurations)
    tlapm AraProofs.tla                        (and the other *Proofs modules)

## 1. The system

### Components

| component | code | state it keeps | operations |
|---|---|---|---|
| session | `src/ara.c`, `include/ara/ara.h`, `work.h` | `ara_t`: status, error, loop, table of workers, bit mask of registered types | `ara_init`, `ara_set_loop`, `ara_set`, `ara_throw`, `ara_call` |
| operations | `src/{open,close,end,read,write,unlink}.c`, `src/op.h` | none of their own | `ara_<op>()` at the call, `on_async_begin()` at the delivery, `on_done()` at the completion |
| requests | `src/async.c` | `ara_async_req_t`: async handle, owner, response, buffer | new, init, send, end, destroy; the two libuv callbacks |
| errors | `src/error.c` | the last error of a session | set, clear, describe |
| buffers | `src/buffer.c` | `ara_buffer_t`: base, length, two libuv views, bytes written | new, init, realloc, write, read, destroy |
| no-op callbacks | `src/noop.c` | none | |
| random access file | `example/raf/{init,open,close,end,read,write,unlink}.c`, `util.h` | descriptor, mode, size and times of the file; a record, and the progress of a transfer, per request | `raf_<op>()` at the call, its worker, the callbacks of its file-system requests |
| raf program | `example/raf/main.c` | a buffer, the options of its requests | `main()` and four callbacks |
| simple example | `example/simple/main.c` | a buffer as memory, a session | `main()` and four workers |
| tests | `test` | | clients of the API |

### How they interact

Everything runs on the thread of one libuv loop. What makes the code hard is that
control goes back and forth between it and its client:

1. `ara_<op>()` tests the status (all but `ara_open()`), then the macro `OP` tests
   the loop and the bits of the type, allocates a request, initialises its async
   handle and marks it pending. It returns `ARA_TRUE`.
2. An iteration of the loop delivers the handle to `on_async_begin()`, which tests
   bits and status **again**, may move the session to OPENING or CLOSING, and calls
   the worker; or it goes straight to `on_done()`.
3. The worker calls `done(req)`: inside its own frame, from a file-system callback
   much later, or from inside any other callback. That is `on_done()`: if an error
   is pending or the status is not the expected one the request ends; otherwise the
   status moves to OPENED or CLOSED, the client's callback runs **inside**
   `on_done()`, and then the request ends.
4. To end a request is `uv_close()` on its handle; the closing phase of the loop
   calls `on_uv_close()`, which frees it. Until then a worker that is still on the
   stack may use it.

Callbacks and workers may call the API and `done()` of other requests, so steps 1
and 3 nest to any depth. The error is a field of the *session*, is set by whatever
fails, and stays until the next `ara_set()`.

The random access file is a client of this. Each `raf_<op>()` registers its worker again
(which also clears the error) and makes its request. A worker gives libuv a file-system
request that a *thread pool* serves; the callback of a short read or write starts another one
for the rest, the callbacks of an open and of a write ask `fstat()` for the size, and the last
one calls `done()`. What fails ends the process (`panic`). The two programs are clients on top:
`raf/main.c` of the file and of a buffer, `simple/main.c` of a session and of a buffer.

### What is hard, and the properties that make each component correct

| component | hard behaviour | properties |
|---|---|---|
| session | late completions against close; second open or close that joins the first; a completion that is skipped because of somebody else's error | statuses go forward only; running client code sees one status; one opener and one closer; no session hangs in OPENING or CLOSING without an error |
| operations | tests at the call are stale at the delivery; types are or-ed as masks although they are 1, 2, 3, ... | a request is lost only if its type has no worker; none is lost when the types are unaliased |
| requests | nested `done()`; use after `done()`; one free per request; re-initialisation while requests are in flight | one owner; no dangling request; every request ends |
| errors | one sticky error for all requests | a request that is dropped leaves an error |
| buffers | growth rule, stale copies of base and length, 32-bit counts, failing allocations | base and views never refer to freed memory; a buffer is a string of bytes; a careful client overruns nothing |
| random access file | partial reads and writes, answers of the thread pool in any order, stale sizes, a worker that does not call `done()` | transfers are exact and answered when whole; no request dies under the pool; reads stay in the file, writes are visible; requests end |
| the programs | callbacks in any order decide when to print; requests made through finished requests | the text is printed once and in place; the program ends |

`PROJECT.json` lists each hazard at its line, with the property that catches it.

## 2. The modules

| module | what it is |
|---|---|
| `AraTypes` | the enumerations of the headers (work types as the sets of bits they are used as), `ara_set_error()`'s filter, and one record per operation file with the statuses its three entry points test and set |
| `Ara` | one session and its requests; properties; the refinement mapping to `AraContract` |
| `AraContract` | what the library promises, with no handles, workers, bits or stacks |
| `ByteStore` | what a buffer promises: a string of bytes |
| `Buffer` | one `ara_buffer_t`, its memory and its client; properties; the refinement mapping to `ByteStore` |
| `RafTypes` | the flags of `raf_open()`, read as the code reads them, and how `raf_read()` cuts a range |
| `RandomAccessFile` | the file: extends `Ara`, and each of its steps contains the step of `Ara` it takes |
| `RafProgram` | `example/raf/main.c`: extends `RandomAccessFile`, with an instance of `Buffer` |
| `SimpleProgram` | `example/simple/main.c`: extends `Ara`, with an instance of `Buffer` |
| `MCAra`, `MCAraContract`, `MCBuffer`, `MCRandomAccessFile`, `MCRafProgram`, `MCSimpleProgram` | the instances TLC checks; what tests, assertions and messages of the repository say of the code |
| `AraProofs` | ownership, dropped requests, status, stranded requests |
| `AraContractProofs` | the contract's own invariant |
| `AraRefinementProofs` | `Ara` implements `AraContract` |
| `BufferProofs` | the memory of a buffer; `Buffer` implements `ByteStore` |
| `RandomAccessFileProofs` | the file is a client of `Ara`; ownership, progress and visibility of transfers |
| `RafOrderlyProofs` | an orderly client of the file sees no panic of the library's own |
| `RafProgramProofs` | `raf/main.c`: it is an orderly client; its buffer is long enough; what it prints |
| `SimpleProgramProofs` | `simple/main.c`: it is a client of `Ara`; what it prints |

Operators named `<Definition>_<Word>` and commented "Plausible bug" are variants of the
definition that follows them. No specification uses them: they stand for mistakes the
code could have made, and each property is known to fail for at least one of them
(`mutants` in `PROJECT.json`).

### `Ara`: state and code

| variable | code |
|---|---|
| `status`, `error` | `self->status`, `self->error.code` |
| `loop` | `self->loop` is not NULL |
| `work` | the types with `self->work[type]` set |
| `bitfield` | the bits set in `self->bitfield.work` |
| `op` | the operation each heap slot's request was made for; `UNKNOWN` is a free slot |
| `sent` | requests whose async handle is pending (`uv_async_send()` done, not delivered) |
| `held` | requests whose worker was called and has not called `done()` |
| `closing` | requests whose handle `uv_close()` was called on |
| `stack` | the workers and callbacks that are running, innermost last |

A request in none of `sent`, `held`, `closing` and no callback is `Stranded`: memory and a
live handle that nothing will touch again.

| action | code |
|---|---|
| `AraInit`, `AraSetLoop`, `AraSet`, `AraThrow` | `src/ara.c`. `ara_clear_error()` on a session is `AraSet` of a type that is already set |
| `ApiCall(t)` | `ara_<op>()` and `OP`: `CallBadState`, `CallNoLoop`, `CallNoCallback`, `CallInitFails`, `CallAccepted` in the order of the tests; a failed `malloc()` changes nothing and is a stutter |
| `OnAsyncBegin(r)` | delivery: `BeginNoCallback` (returns without `on_done()`), `BeginWork`, `BeginUnserved` (`ara_call()` finds no worker and its result is not read), `BeginJoin`, `BeginBadState` |
| `OnDone(r, e)` | `on_done()`: `DropPending`, `DropBadState`, `Notify`; part of the actions that call it |
| `WorkDone(r)` | a worker's `done(r)`, at any time and any depth, once. The effect alone is `Done(r)`, which, like `on_done()`, does not look whether `r` is still held |
| `ReturnWork`, `ReturnCallback` | client code returns; after a callback `on_done()` goes on to `ara_async_req_end()` |
| `OnUvClose(r)` | `on_uv_close()` and `ara_async_req_destroy()` |

What is assumed of code outside the library:

- *The loop is not re-entered.* Delivery and closing happen with an empty stack.
- *Deliveries come in any order.* libuv promises no order between handles, and
  `ara_set_loop()` may spread the requests of one session over several loops run one
  after the other. The order a given libuv happens to use is one of those.
- *`uv_async_init()` may fail, `uv_async_send()` does not*: in libuv 1.x it returns 0 for
  every initialised handle.
- *A worker calls `done()` at most once for each request.* That is its contract; the library
  does not check it, and `Ara` assumes it (the guard of `WorkDone`). The workers of
  `example/raf` and `example/simple` are not assumed to keep it: their modules use `Done`, and that each
  `done()` comes once and while its request is held is `UsesAra` and `SimpleUsesAra`.
- *The client* is otherwise arbitrary: it calls anything at any time in any callback,
  registers in any order, forgets `ara_init()`, throws. `ReInit` says whether it also calls
  `ara_init()` on a struct in use.

Data is left out where the code does not look at it: a request's data pointer, offset and
length, the text of errors. NULL arguments return at once and change nothing.

### `Buffer`: state and code

| variable | code |
|---|---|
| `buffer` | `self->data` (base, length, `buffer` as `view`, `buffer_mut` as `mut`) and `self->written` |
| `alloc`, `present` | `self->alloc`, and whether the client has a struct |
| `heap` | the regions `malloc()` has given out, each a function from offsets to bytes |
| `answer` | the result of the last call and the bytes it copied out |
| `up`, `spilled` | the process runs; it has touched memory outside a region |
| `made`, `careful` | history: the client has made the buffer; so far it has kept the rules (made the buffer before its use, once, long enough for every range) and been given memory |

| action | code |
|---|---|
| `BufferInit`, `BufferNew`, `BufferDestroy` | the functions of these names |
| `BufferWrite`, `BufferWriteDies` | `ara_buffer_write()`, with the `ara_buffer_init()` (`Prepared`) and `ara_buffer_realloc()` (`Sized`: `Grows`, `Acquires`) it calls |
| `BufferRead`, `BufferReadDies` | `ara_buffer_read()` |
| `TakeView` | what `raf/read.c:55-57` and `write.c:85-87` do to a request's buffer |

A function that allocates is a *set of outcomes*, one for each region `malloc()` may choose and one
for its failure. Undefined behaviour is a choice: the process dies, or goes on with its regions
intact (`spilled`). Two cases are modelled as the build makes them: `configure:416` compiles with
`-O2`, where `malloc()` and `memset()` in `ara_buffer_init()` become `calloc()` and the test for NULL
after them is dropped, because `memset()` may not be given NULL; so a failed allocation may return
`ARA_TRUE`. And `ara_buffer_realloc()` clears the bytes *after* the new region (`region + length`), so
every growth spills. The client does
anything at any time; what is said of a client that keeps the rules is said of behaviours where `careful` holds.

### `RandomAccessFile`: state and code

| variable | code |
|---|---|
| `up`, `calling` | no `exit()` yet; the `raf_<op>()` that is between its `ara_set()` and its `ara_<op>()` |
| `orderly` | history: every call so far was `InOrder` |
| `fd`, `readable`, `writable`, `size`, `dated` | `struct RandomAccessFile`; `dated` is `atime` or `mtime` not 0 |
| `descriptor`, `fileSize` | the kernel's: the descriptor is open, the length of the file |
| `stage[r]` | what a `RandomAccessFileRequest` waits for: its worker, the pool, its callback, ... |
| `opts[r]`, `view[r]` | its range and flags; how far `buffer_mut` has been advanced, what is left, the file offset |
| `result[r]`, `moved[r]` | `fs->result` or the size `fstat()` saw; the bytes the kernel has moved (history) |
| `region` | the requests whose buffer has memory |

| action | code |
|---|---|
| `RafInit` | `raf_init()` |
| `RafSet(t)`, then `RafAccepted` or `RafRefused` | the two halves of `raf_<op>()`; nothing of the process runs between them (`calling`) |
| `RafDeliver(r)` | the loop delivers a request; if a worker starts it runs to its end before anything else |
| `WorkSubmits`, `WorkPanics` | a worker that starts a file-system request, or finds no descriptor or no right to use it |
| `WorkEnds`, `WorkEndReturns`, `WorkEndStalls` | `ara_work_end()`, whose three branches are `done()` and two empty ones |
| `ServeOpen` ... `ServeStat` | the thread pool, at any time and in any order; any part of a transfer, or an error if `Faults` allows |
| `OnFsOpen`, `OnFsPlain`, `OnFsRead`, `OnFsWrite`, `OnFsStat`, `OnFsFailure` | the callbacks; `Resume` and `Ended` are `UV_FS_PROCESS_REQ` |
| `RafReturn` | `ON_ARA_WORK_DONE` after the client's callback; the request is deleted |
| `RafUvClose` | the request's buffer is freed with it |

The buffer each request owns is in this module as `region` and `view`, so the composition of requests
and buffers needs no module of its own: a request's buffer is made once (or not, if `malloc()` fails,
which `ara_async_req_send()` does not notice), used at most by one transfer, and freed with its request.

Assumed: clients leave the options of a request alone until its callback (the code keeps a pointer);
the pool answers each request once; `fstat()` sees the size the file has when it is served. Clients do
anything `raf.h` lets them do, except `raf_init()` on a file in use. A behaviour stays `orderly` as long as its
client opens once, makes requests while the session is open and as the file was opened for, and closes
when all are answered.

### `RafProgram` and `SimpleProgram`

The code of a callback or a worker is a *script*: the sequence of calls it makes, each an action
(`MainInit`, `CallMade`, `BufferMade`, `Kept`, `Printed`, ...; `RamMade`, `RequestMade`,
`DoneCalled`, `Loaded`, ...). The scripts are `OnOpen` and `Code`. An action of a script conjoins the step of
`RandomAccessFile` or `Ara` with that of `Buffer`, whose `up` is the process's. The loop goes on when the
script is empty. In `RafProgram` the bytes of a piece are one value (`text`), which tells a byte that is
in place from one that is not.

In `SimpleProgram` a worker has no variable in common with the next one. `static` holds the `ara_work_data_t`
of `onopen()` and that of `onwrite()`, and `posted[r]` what `ara_async_req_send()` copied from such a struct into request
`r` (`Given`, `RequestMade`). `DataFilled` is the assignments to a struct: `onopen()` fills it with the text and its range,
`onwrite()` with the range of *its request*. `Stored` and `Loaded` use the data of the request that runs and
nothing else.

## 3. The runs

| run | instance | question |
|---|---|---|
| `core` | 3 requests; OPEN, CLOSE, READ; fairness | does the session keep its order and its word while calls and completions nest; does every request end, and every session settle? |
| `ops` | 3 requests; all six operations and the type 0 | which requests are lost when bits alias, and do they disturb others? |
| `reinit` | 3 requests; OPEN, CLOSE, UNLINK; `ara_init()` at any time, client errors | do stale requests stay memory-safe? |
| `contract` | 3 requests | is the contract itself right? |
| `buffer` | 2 regions, lengths 0 and 2, ranges inside, across and past the end, allocations may fail | what can any client do to a buffer, and a careful one? |
| `raf_core` | 2 requests, six operations, 3 ranges, files of 0 and 2 bytes; OPEN, CLOSE, UNLINK, STAT, ASYNC may fail | are transfers exact, whole and visible, in any order of answers; is each `done()` called once, while its request is held; does an orderly client see no panic? |
| `raf_live` | 2 requests; OPEN, END, READ, WRITE, CLOSE; buffers may have no memory, reads may fail; fairness | does every request of the file end, and is no read answered that did not arrive? |
| `raf_program` | `raf/main.c` with 2 pieces of text, files of 0, 1, 3 and 4 bytes, `--unlink` or not; ASYNC, OPEN, READ, STAT, UNLINK may fail; fairness | does it run, print its text, and end? |
| `simple_program` | `simple/main.c`; fairness | does it print what it wrote, all of it, and end? |
| `alias`, `raf_write`, `raf_mode` | 1 or 2 requests | three statements of the repository that the code does not keep |

*Bounds.*

- `Req` is the number of request slots on the heap; slots are freed and used again. No counter is
  bounded, because there is none: calls, errors, re-initialisations and deliveries go on for ever in
  every run. Three requests allow an opener, a second opener that joins it, and a closer, each nested in
  another's callback; the counterexamples of the variants take two or three. READ stands for END and
  WRITE in `core`, whose records are equal; UNLINK differs at the call only and is in `ops` and
  `reinit`. Slots are symmetric in the safety runs; the runs with liveness use no symmetry.
- `raf_core` has two requests, so any two operations overlap in any way: two opens, a read and a
  write of overlapping ranges, a close under a transfer. A range of three bytes is moved in up to three
  parts. `Faults` leaves reads, writes and allocations alone, because the write half of `AnsweredWhole` and
  `OwnWriteVisible` are about writes the system does not refuse (`raf_write` shows what a refused one
  does); reads that fail and buffers without memory are in `raf_live`. Its file has no time, so that its END must be
  answered too. `Wrap = 16` is above all offsets; the theorems hold for every `Wrap`.
- `buffer` has two regions, so `realloc()` may move a buffer or leave it; length 2 and ranges of
  up to 2 bytes at offsets up to 3 give a write inside, one that fills, one across the end (no growth) and one past it
  (growth); `Wrap = 2` lets `written` wrap after two bytes.
- `raf_program` has pieces of 2 and 1 bytes (the program has three pieces), 5 slots (two writes, the two reads made in their
  callbacks and a handle that is still closing), and files shorter than, as long as and longer than
  the text. The calls of `onopen()` are one script, so the order of their answers and what fails are
  the only choices. Writes do not fail here: `raf_write` shows that the file reports a failed one as done, and then
  what is printed is not the text. `malloc()` gives the program its memory (it does not look either).

`CHECK_DEADLOCK FALSE` is in the runs whose process may exit or whose program ends.

*What the properties say:*

- `FrameStatus` (invariant): a callback of open runs in OPENED, one of close in CLOSED, any
  other in OPENED; an open worker runs in OPENING and a close worker in CLOSING until they
  call `done()`; any other worker in OPENED, from its first instruction to its last. The
  tests assert the status on entry only.
- `OneStarter`: at most one open and one close worker owe a `done()`; what workers hold in
  which status.
- `SessionOrder` (action property): the six statuses in order, CLOSED is final.
- `DropsAreReported` (action property): a request ends after its callback or with an error pending.
- `OneOwner`, `NoDanglingRequest`: no double `uv_close()`, no use after free.
- `NoStranded`, `OnlyUnregisteredStrand`: which requests the loop gives up.
- `KeepsContract`: `Ara` implements `AraContract`. `RequestsEnd`, `SessionSettles` (liveness), below.
- `OwnRegion`, `ViewHolds`: `base` and the libuv view are memory that is allocated, as long as they
  say, whichever allocation fails. `CarefulIsSafe`: no leak, no overrun for a client that keeps the rules;
  for another one there are both. `KeepsBytes`: `Buffer` implements `ByteStore`.
- `UsesAra`: the file implements `Ara`. Its actions contain steps of `Ara`, except for `done()`, which happens where
  the code calls it, whether or not the request is held; so the property is that every path through workers, pool and
  callbacks calls `done()` once at most, and not after the request was given up.
- `IoIsOwned`: no request dies, ends or is answered while the pool works on it.
- `TransferExact`, `AnsweredWhole`: each byte of a range is moved once and in place, and the
  callback comes when all are. `ReadsInFile`, `OwnWriteVisible`: `raf->size` is never ahead of the
  file, and reaches past a write in that write's callback, although answers of `fstat()` overtake each other.
- `OrderlyRunsClean`: as long as the process of an orderly client runs, no error is pending; and if it
  stops, a call of the system, one of those in `Faults`, has failed and its answer is there to be seen (`Blamed`).
  No `panic()` of `example/raf` is for a call that was legal.
- `RafRequestsEnd` (liveness): each request of the file is freed, unless the process exits or it is
  the END of a file with a time, which the code never answers.
- `MainRuns`, `PrintsText`: with a file that has room for its text (`Roomy`), `raf/main.c` never overruns
  its buffer and is stopped by a failed call of the system only, and prints the text once, in order, or not at all
  (when the file is longer). With a shorter file `ara_buffer_write()` runs past its buffer. `NothingMisplaced`: even
  then no byte is printed in the place of another. Offsets do not wrap (`NoWrap`) and, in the last two, writes succeed
  (`WritesSucceed`). `EchoesText`: `simple/main.c` prints the text of `onopen()`, all of it, or nothing; to get there its
  range goes through two structs and two requests, and the text through one of each and the memory. `ProgramEnds`,
  `SimpleEnds` (liveness).

*Fairness.*

- `FairSpec` (`Ara`). Client code returns, and a worker calls `done()`: weak fairness, both
  are contracts of the client, and the library cannot do without. Each iteration of the loop visits
  every pending async handle and every closing one: strong fairness of `OnAsyncBegin(r)` and
  `OnUvClose(r)`, because they need an empty stack and other deliveries keep taking it away
  between iterations. Nothing is assumed of a client's calls. `SessionSettles` asks for an
  error *or* a new status: a session can hang in OPENING after its open worker finished
  while an unrelated error was pending, and a later `ara_set()` then clears the error.
  This is how the code is written, and the reason the property is not stronger.
- `RFairSpec` (`RandomAccessFile`). A `raf_<op>()` that has begun finishes, callbacks and workers return, and the
  pool serves what it is given: weak fairness. Deliveries, callbacks of file-system requests and closing
  handles: strong fairness, as in `Ara`. Here no worker is *assumed* to call `done()`; that follows, except for END.
- The programs (`PFairSpec`, `SFairSpec`): weak fairness of the whole next-state relation, that is, the process is
  given time as long as it can do anything.

*What the runs found* (the `violation` runs):

- `alias`: `enum ara_work` counts 1, 2, 3 but is used as a mask. With workers for
  OPEN (1) and CLOSE (2), `ara_end()` (3) is accepted; nobody serves the request, and it
  is never freed. `test/end.c:66` says it should return `ARA_FALSE`.
- `raf_write`: `on_uv_fs_write()` does not look at the result of its write, and `fstat()` overwrites it: a
  write that failed is answered as a success. `write.c:15` would panic.
- `raf_mode`: the flags of `raf_open()` count 1, 2, 3 too and the widest is tested first as a mask: a file opened
  `RAF_OPEN_READ_ONLY` is opened for both, and `raf->writable` is set. `open.c:79-83` is dead code.

Three more disagreements were met while modelling and have no run of their own, because each is one test in
one function: `ara_set(&ara, 0, cb)` stores `cb` and returns `ARA_TRUE` (the title at `test/ara.c:65` says
otherwise; the call under it passes no callback); `ara_open()` on a struct that has a loop and a worker but was never
initialised returns `ARA_TRUE` (`test/open.c:47` sets no loop), and the delivery ends the request with
BADSTATE; and the callback of a second `raf_open()` made while the first is opening finds no descriptor,
which `raf/main.c:149` would report as a file that does not exist. All three are behaviours of the models.

## 4. The proofs

All theorems hold for any values of the constants that the `ASSUME`s allow (TLC evaluates those): any
number of requests, any set of types, any client; any ranges, sizes, faults and width of the offsets; any
memory and any lengths of buffers; a text cut into any number of pieces. `ReInit` may be true unless the
property says otherwise. What the programs need of their constants is what the sources fix: in `ProgramAssumption`,
the pieces are not empty and lie one after the other without a gap (`main.c:142-144`) and the file may be opened for both; in
`SimpleAssumption`, the range is inside the memory (`[32, 16]` of `BUFSIZ`) and the four types main() registers exist.

| theorem | property |
|---|---|
| `TypeCorrect`, `UniqueOwner`, `NoUseAfterFree` | `TypeOK`, `OneOwner`, `NoDanglingRequest` |
| `NoSilentDrop` | `DropsAreReported` |
| `StableFrames`, `SingleStarter`, `StatusesInOrder` | `FrameStatus`, `OneStarter`, `SessionOrder` |
| `EveryRequestOwned`, `StrandedUnregistered` | `NoStranded`, `OnlyUnregisteredStrand` |
| `AnswersTruthful` | `AnswersAgree`, of the contract |
| `Implements` | `KeepsContract` |
| `FileTypes`, `FileUsesAra` | `RTypeOK`, `UsesAra`: each `done()` is called once, while its request is held |
| `OwnedIo`, `ExactTransfers`, `WholeAnswers` | `IoIsOwned`, `TransferExact`, `AnsweredWhole` |
| `ReadsStayInFile`, `WritesAreVisible` | `ReadsInFile`, `OwnWriteVisible` |
| `BufferTypes`, `RegionIsOwned`, `ViewIsHeld` | `BTypeOK`, `OwnRegion`, `ViewHolds` |
| `CarefulClientsAreSafe` | `CarefulIsSafe` |
| `BufferIsByteStore` | `KeepsBytes` |
| `OrderlyClientsRun` | `OrderlyRunsClean` |
| `ProgramRuns`, `PrintsItsText`, `NothingIsMisplaced` | `MainRuns`, `PrintsText`, `NothingMisplaced` |
| `ProgramIsOrderly`, `ProgramUsesFile` | `raf/main.c` is an orderly client; with room for the text its behaviours are those of `RandomAccessFile` |
| `SimpleEchoes` | `EchoesText` |
| `SimpleUsesAra` | the behaviours of `simple/main.c` are those of `Ara`: each worker's `done()` is called once, while its request is held |

*The session* (`AraProofs`, `AraRefinementProofs`), in three layers.

1. `Ownership` = `TypeOK` + `OneOwner` + `NoDanglingRequest` is inductive. The three need each
   other: a free slot has no owner, so a new request has one; an owned request has an operation,
   so `Op[op[r]]` is defined and the status it sets is a status; a request that has one owner
   can be handed on by that owner only. `OnDoneOwnership` is shared by delivery and completion.
2. `Session` = `FrameStatus` + `OneStarter`. `FrameStatus` alone is not inductive: `done(r)`
   may be called inside any frame, and would change the status under it. If the status changes,
   it changes from OPENING or CLOSING, so no callback is running (callbacks run in OPENED or
   CLOSED) and a worker that is running and still owes its `done()` would have the same
   type as `r`, hence be `r`: that is `OneStarter`.
3. `Service` = `BitsOfWork` + `SentAreServed` + `NoStranded`. The bits are the union of the
   bits of the registered types. If types are unaliased, `OP`'s test of the bits is a test of the
   worker, and it stays true until the delivery. `StepStrands` shows that a step can strand
   only the request it delivers, and only if its type has no worker.

`AraRefinementProofs` maps each action to a step of the contract: `on_done()` to `Answer` or
`Drop`, the delivery that starts an opener or closer to `Begin`, every refused call to `Report`,
`ReturnWork` to a step that changes nothing the contract sees. The only facts used about sequences
are those of `Append` and `SubSeq` in `EnterStack` and `LeaveStack`.

*The file* (`RandomAccessFileProofs`).

1. `FileOwned` = `Ownership` + the types + `Owned`: a request in flight is held by its worker, and only by it.
   The three are inductive together, and that comes first: a `done()` is known to be a step of `Ara` only if its
   request is held, which is `Owned`, and `Owned` survives a step because `Ownership` does. `RafStepIsAraStep` then
   maps each step to one of `Ara` or a stutter, so `Session` is at hand too. On them:
2. `Progressing`: what has been moved, what the buffer was advanced by and what is left add up to the range.
   The offset of a resumption is computed from the range and what is left, so this sum is all it needs.
3. `OpensFirst`, `Finishing`: until the first open has been answered there is no transfer, and
   a request that calls `done()` has what its answer claims.
4. `InFile`: the size any `fstat()` has seen, and `raf->size`, are at most the size of the file, because
   no action makes the file shorter; a range that `raf_read()` has cut lies inside `raf->size`. Each write's
   own `fstat()` is served after its last byte, and a later answer is never smaller than its range.

*The buffer* (`BufferProofs`). `Sound(b, h)` relates a struct to a memory: `base` and `view.base` are allocated as
long as their lengths say, and a buffer that has memory has a length and its view is of that memory. Without the last two
`realloc()` could free a region under the view. `MallocFacts` and `ReallocFacts` say what the allocator does,
and `InitSound`, `ReallocationSound`, `CopySound`, `WriteSound` that each outcome of each function is sound again; with the
types this is `BufferInvariant`. `CarefulInvariant` adds, for careful behaviours, that the only region is the
buffer's. `StringStep` maps every step to one of `ByteStore`.

*The orderly client* (`RafOrderlyProofs`), on the invariants of the file, in three layers.

1. `OrderlySession`: an OPEN is sent when there is no other request, a CLOSE when none is sent or held, and
   anything else while the session is open. So a delivery always finds the status that starts its worker, and
   `done()` the status the worker started in: none of the branches of `Ara` that throw is taken. A `raf_<op>()` whose
   `ara_set()` was in order finds the session as it was, because only the pool runs in between.
2. `OrderlyHandle`: the descriptor is there from the answer of the OPEN to the CLOSE, and a request that is in
   flight is one the modes of the file allow.
3. `OrderlyAnswers`: each answer of the pool that moves less than it was asked for is explained by `Faults` or by a
   buffer without memory. A read that comes back short of its range has not met the end of the file, by `InFile`.

*`simple/main.c`* (`SimpleProgramProofs`). `Passing` says where the program is: at any time either code is
running, with what is left of its script, or one request has been made; and for each such place what is in the memory. A worker's script
has one `done()`, so with `Ownership` of the session a `done()` finds its request held. `Handed` says that a struct
that has been filled contains the text or the range, and that the request made with it, or running, has the data its worker
needs (`Structs` is their type): in each script the `FILL` comes before the `MAKE`. The four are inductive together. It does not
matter which request is refused: then nothing leads on.

*`raf/main.c`* (`RafProgramProofs`), on the invariants of the file and of its orderly client.

1. `Program`: it is orderly, because what is left of a script belongs to the callback that runs (`Conducted`), a
   callback runs in an open session, and its requests are for the pieces of the text. Its steps are those of
   `RandomAccessFile`, except that one which overruns the buffer may also end the process.
2. `Sized`, `Buffered`, for a file with room: writes do not make it longer, so every `fstat()` and `raf->size` say what
   they said at the start; the buffer `onopen()` makes is that long; what is read fits and the buffer never grows.
   `Buffered` needs `Unmade`: nothing is written before the buffer is made, in the same callback.
3. `Placing`, `Tidy`, for any file: a piece is asked for again when the callback of its write runs, where by
   `OwnWriteVisible` `raf_read()` does not cut it, so what is kept is a piece, at its own offset. Each byte of any region is then
   one of its place in the text, or one nobody has written; `realloc()` copies and keeps that.
4. `Single`, `Beginning`, `Tally`: the counting. `onread()` compares two numbers; that they mean what they should
   is because each piece is in one place at a time (still to be written, to be read, in flight, or to be kept), so it is
   kept once. `Tally`: there is a set of pieces that are nowhere any more, `buffer.written` is the *number* of bytes these
   fill (a cardinality: pieces do not overlap), and those bytes are in the buffer. If that number is the size of
   the file, which is at least the length of the text, all pieces are in the set; then no script has another print in it.

*Only model-checked:* `RequestsEnd`, `SessionSettles`, `RafRequestsEnd`, `ProgramEnds` and `SimpleEnds`: liveness
under fairness needs reasoning about ENABLED, which the provers do not do. The safety properties and refinements
that the passing runs check are all theorems.

## 5. What is not modelled, and the plan

- *Threads:* libuv allows `uv_async_init()` on the loop's thread only, and the library documents no threads.
- *The failure of `uv_async_send()`* and a worker that calls `done()` twice: see section 2.
- *The programs:* parsing of options, texts, exit statuses, the number of processors; the rings of eight
  options in `raf/main.c` (it has three requests at a time); the lifetime of the local struct the macro `raf()` returns a pointer to.
- *The bytes of the file* are in `RafProgram` only, where each range is written once and by one piece.
- *`ara_strerror()`, logging and other texts; no-op callbacks; tests, build files and vendored dependencies.*

The plan for what is left, in this order:

1. The buffers of the programs as instances of `Buffer`'s own specification (an `exit()` of the process has
   to be a step of it), so that `CarefulIsSafe` holds of `simple/main.c`: it is a client that keeps the rules.
2. The safety half of the liveness properties: `SimpleEnds` and `ProgramEnds` say what is true when nothing is left to
   do; that a program with nothing left to do has printed and closed needs no fairness.
3. What a client may rely on across a re-initialisation: which requests of the old session act on the new one.
