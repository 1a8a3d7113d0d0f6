# CSE130: models and proofs

The repository holds the assignments of a course on systems programming, in C.
This directory holds TLA+ modules that model them, TLC configurations that
check the modules on small instances, and proofs for every value of the
constants. It has no other dependency than TLA+ itself, the community modules
and TLAPS. `PROJECT.json` is the index: components, runs, theorems, the lines
each definition stands for, the known disagreements and the hazards.

## 1. The system

| component | state it keeps | operations | who it talks to | what is hard |
|---|---|---|---|---|
| bounded queue, `asgn3/queue.c` | ring `buffer`, `in`, `out`, `count`, a mutex, condition variables `full` and `empty` | `queue_new`, `queue_push`, `queue_pop`, `queue_delete` | called by any number of threads | the signal is sent after the mutex is released; wakeups may be taken by others or be spurious |
| server, dispatcher, `asgn4/httpserver.c:106-145` | the listening socket, `bounded_buf`, the worker threads | accept, push, pop, `handle_connection`, close | clients by sockets; the queue by calls | the queue and the descriptor table are finite; failed accepts |
| server, requests, `asgn4/httpserver.c:147-350` | `creation_lock`, `creating`, `creation_waiting`, `req_id`; files, their flocks, the audit log | `handle_get`, `handle_put`, `handle_unsupported`, `audit_log` | the file system; workers among themselves by the mutex, the flocks and `req_id` | readers and writers of one file, order of the log, waiting for a turn, failures in the middle |
| cache simulator, `asgn5` | the cache (array and count), the set of evicted items, the clock hand, two miss counters | `insert_FIFO`, `insert_LRU`, `insert_CLOCK`; `cache_*`, `set_*` | reads lines from stdin, prints HIT or MISS | ownership of strings; an unbounded loop; answers that depend on the whole history |
| get/set, `asgn1/memory.c` | command, file name and descriptor, as far as read | one loop of `read` | stdin, one file | the meaning of the input must not depend on how `read` splits it |
| sequential server, `asgn2` | the request being served, its file's descriptor, the status code; the files; the descriptor table | accept, `read_until` and `parse`, `handle_request`, `method_put`, `method_get`, `handle_response`, `closefrom` | one client at a time, the file system | where the body starts, how much of it was read with the head, what uninitialised memory holds, which descriptors are closed |
| hello, `asgn0` | none | prints a line | | |
| helper libraries, `*.a` | binary, no source | sockets, parsing, transfer, a queue | called by asgn2 and asgn4 | modelled as their callers use them |

What makes each component correct:

* queue: elements leave in the order they came, once each; a thread does not
  sleep beside an element or a slot that is meant for it; calls return.
* dispatcher: no connection is lost or served twice, nothing that is not a
  connection is served, descriptors are given back.
* requests: the audit log is a linear order of the requests that explains
  every answer; a turn ends on every path; request ids order GETs after the
  PUTs they wait for; every request is answered.
* cache: FIFO, LRU and CLOCK as the textbooks define them, from the input
  alone; the two counters; each string freed exactly once; CLOCK's loop ends.
* get/set: the outcome is a function of the bytes, not of the reads.
* sequential server: the body is found where it starts; a PUT stores what was
  sent and a later GET gets it; the codes tell what happened to the file; the
  server can accept the next client.

The repository has no tests. Its documents are the READMEs of the assignments
and the comments; where they say something definite that the code does not do,
a run records it (section 5).

## 2. Modules

| module | models | remarks |
|---|---|---|
| `Fifo` | what a bounded queue promises | abstract; used twice |
| `BoundedQueue` | `asgn3/queue.c` | `ImplementsFifo` refines `Fifo` |
| `BoundedQueueProofs` | | proofs about `BoundedQueue` |
| `HttpServer` | `asgn4/httpserver.c` | its queue is an instance of `Fifo` |
| `HttpServerProofs` | | proofs about `HttpServer`: the turns |
| `HttpFilesProofs` | | extends it: files, flocks and the audit log |
| `HttpConnsProofs` | | extends it: connections, descriptors, ids, types |
| `SecondChance` | what the CLOCK policy promises | abstract |
| `Cacher` | `asgn5` | `ImplementsSecondChance` refines `SecondChance` |
| `CacherProofs` | | proofs about `Cacher` that hold for all policies |
| `CacherPolicyProofs` | | extends it: FIFO, LRU and CLOCK |
| `Memory` | `asgn1/memory.c` | |
| `MemoryProofs` | | proofs about `Memory` |
| `SequentialServer` | `asgn2` | |
| `SequentialServerProofs` | | proofs about `SequentialServer` |
| `MCBoundedQueue`, `MCHttpServer`, `MCCacher`, `MCMemory`, `MCSequentialServer` | | instances for TLC, and the statements that documents make and the code contradicts |

The modules also hold *faults*: definitions such as
`PushStoreWithoutLoop`, marked "Fault", that say what a slip in the code would
make of the definition they stand before. No specification uses them.
`PROJECT.json` ("mutants") names for each property a fault that violates it, so
that a property that could not fail is noticed.

### BoundedQueue

A step is what a thread does between two points where others can interleave.
`PushCall`/`PopCall` enter the function; `PushLock`/`PopLock` acquire the mutex
(the first time, and after a wait); `PushWait`/`PopWait` are
`pthread_cond_wait` up to the point where the thread blocks; `PushStore`/
`PopTake` are the critical section up to `pthread_mutex_unlock`;
`PushSignal`/`PopSignal` the signal after it. A blocked thread is in the set
`full` or `empty`. `SpuriousWakeup` is what POSIX allows. The calls with a null
queue, which return false at once, are left out, and `queue_delete` is planned.

### HttpServer

A step is one operation on state that threads share. `hand` is `main`'s
variable `connfd`, `connfd[w]` that of worker `w`; `pc[w]` says where in the
handler `w` is. `TakeTurn` is "lock; while (creating) wait; creating = true",
`EndTurn` with `SignalTurn` its reverse, and both are used by all handlers as
the code repeats them. Where several statements cannot be told apart by other
threads (they touch only the thread's own variables, or are done inside the
turn), they are one step. The turn itself is something the model must not take
for granted: a PUT's `access` and its creating `open` are two steps
(`PutAccess`, `PutCreate`), followed by the second `open` (`PutOpen`).

* The files: `kind[u]` is what `access`, `open` and `fstat` see of a file,
  `data[u]` its chunks. Nobody but the server changes them. A chunk carries the
  name of the connection that wrote it, so that mixtures of two writers, a hole
  and an initial chunk are told apart. `Flock` grants shared and exclusive
  locks on files.
* Writing and reading: `PutRecv` writes one chunk at the writer's offset, and
  may stop at any time (`PutReceived`: the client stops or is done, which the
  library reports as success; `PutWriteFails`: a write fails). `GetSend` sends
  one chunk as long as there is one and the size seen by `fstat` is not
  reached. What is compared with the log is the body a client that stays on
  gets. A transfer to a client that left ends the same way for the server.
* Connections are named after their descriptor, at least 3. `connfd` has type
  `uintptr_t`; `Word` stands for the number of its values, so `ErrorFd`, which
  is `(-1) % Word`, is the largest. A descriptor number that the system reuses
  is a new name here.
* `fds` counts descriptors in use and `FdLimit` bounds them; `accept` and
  `open` fail at the limit.
* The audit log's line and the descriptors' closing are the last steps of a
  handler, `AuditLog` and `Close`; the file is closed in the step that also
  closes the connection, since no other thread looks at the connection.
* `Quiet` is the state in which all clients have been served, where `main`
  blocks in `accept` for ever; it is there so that every other state without
  a successor is reported as a deadlock.
* The library's queue is a promise here (`Fifo`); `BoundedQueue` shows that
  asgn3's queue, for which the library was the reference, keeps it.

### Cacher

A step is one line of input; for CLOCK, `MissCLOCK` and each round of the loop
(`ClockPasses`, `ClockReplaces`, `ClockFills`) are steps of their own. `Slots`
that are not in use hold `Null`, as `calloc` leaves them. Strings are pointers:
`text[p]` is what `p` points at, `live` what is allocated. The `item` structs,
which have one owner and one use each, are values. A hit in FIFO and CLOCK
frees the string just read, which never becomes visible; the one `insert_LRU`
allocates on a hit is freed in the same call.

### Memory

A step is one `read` of the main loop with everything `main` does with the
piece (`ReadLine`, or `ReadContents` once the file is open), or one `write` of
`writeCommand`, which may be short. `ParseCommand` and `ParseName` are the two
loops over the piece; `tmp` is the word that goes on in the next piece.
`Fail` is a failed read or write at any time; a failed `open` of a set is the
second alternative of `ReadLine`. `file` is the file that is named, whatever
its name. A NUL byte, at which `strncat` and `strlen` stop, is not among the
bytes, and words stay shorter than `tmp`. A failed write to a pipe that nobody
reads ends the program without a message; it is not told apart from `Fail`.

### SequentialServer

`main`, `process_connection`, and the functions of the other files that they
call; a step is one of these calls. Nothing runs concurrently. What is
uncertain is how much of the body comes with the head, how far a transfer gets,
what uninitialised memory holds, and what the next client sends.

* `Accept` and `AcceptFails` are the loop of `main`; `ReadAndParse` is
  `read_until` and `parse`; `Refuse`, `PutOpen` and `MethodGet` are the cases of
  `handle_request`; `PutBody` is the transfer of a PUT, after `PutOpen`;
  `Respond` is `handle_response`, or `ClientGone` if the client has left and
  SIGPIPE ends the server (asgn4 ignores this signal); `Close` is `closefrom` and `shutdown`.
* A request's head is a sequence of lines with their lengths. `FieldsRead` is
  the loop that reads fields up to `Content-Length`; `BytesRead` adds what the
  second loop skips, with an expression that is not anchored: it matches in
  front of the next blank line, wherever that is, and the length of the match
  is added instead of where it ends. `off` is where the body is then taken to
  start, 0 if that is right. After `Content-Length: n` and one more line it is
  right only if the length of that line, with its line end, is a multiple of
  four plus the length of the word the line ends with.
* `Text` is what `parse_message_body` copies: with a negative offset it begins
  with bytes of the head (`InHead`); beyond what was read it is `Junk`. A byte
  of a body is the number of its request and its position in it.
* `bufsize` is a `uint16_t` and decides where the rest comes from: 0 means that
  all of the body is still in the socket (`PassBytes`), anything else that all
  of it is in the buffer (`WriteAll`), also if only a part is.
* Undefined behaviour is a choice: `Malformed` may be both where the test looks
  at a byte that was never written; `Unset` are the lengths that `value` may
  stand for when no field was read, and `Crash` the other outcome of reading it;
  it is also one of two outcomes where a client leaves after the request line
  (`NothingFollows`), since `regfree` then gets an expression that was never
  compiled.
* Descriptors are given out lowest first (`Lowest`). `main` opens two unused
  sockets before the listener, so the listener is 5, the client 6 and the file
  7; `From` is the argument of `closefrom`, 6 with a file, and -2 without one,
  which the C library takes for 0.
* Bounds of the model: GETs have no body, and bodies hold no NUL. What is read
  with the head, and a terminator, fit into the buffer (`ReadSize`). A longer
  head would be returned unfinished, which `complete = FALSE` covers for heads
  that end at a line; a read of 2047 or 2048 bytes makes line 84 of
  `asgn2/httpserver.c` write its terminator behind the buffer (section 6).

## 3. Runs

| run | instance | question |
|---|---|---|
| `queue` | 2 producers, 2 consumers, ring of 2, 2 values | types, `NoLostWakeup`, `ImplementsFifo` |
| `queue_live` | 1 producer, 2 consumers, ring of 2 | `ElementsLeave`, `PushReturns` under `FairSpec` |
| `http_store` | 2 PUTs and 2 GETs of one file, a PUT that cannot create its file; 3 workers, 2 chunks, queue of 2 | `AuditReplay` |
| `http_kinds` | 2 PUTs that create the same file, GETs of a directory and of a file without permission, a request that does not parse; 2 workers, 3 descriptors, queue of 1 | types, `CreationMutex`, `ServedOnce`, `FdAccounting` |
| `http_turn` | a PUT without id, GETs with id 1 of the file it creates and of one that stays missing, a request that is refused; 3 workers | `NotFoundInTurn`, `NotFoundRespectsIds`, and `EveryRequestAnswered` under `FairSpec`: there is a worker for the PUT beside both GETs, and a GET whose file exists ends the wait of the other |
| `cacher` | all inputs of up to 8 accesses to 4 items, each policy, 3 slots | `Ownership`, `MissesCounted`, `FIFOExplained`, `LRUExplained`, `ImplementsSecondChance`, and `ClockReturns` under `FairSpec` |
| `memory` | 263 inputs, right and wrong, 5 kinds of files, reads of 1 to 4 bytes | types, `ResultOfInput`, `FirstPart` |
| `seq_server` | 2 clients, each with any of 53 requests; 6 files | types, `ListenerKept`, `BodyOffset`, `StoredExactly`, `RoundTrip`, `CodesTell` |

The four other runs are those of section 5.

Why the bounds are enough to be of interest:

* The queue: with two threads on each side, all four may be blocked, signalled
  or competing for the mutex at once, the ring fills and wraps around, and a
  woken thread is overtaken by a newcomer of its own side. Everything beyond is
  covered by the proofs.
* The server: three workers let a writer, a reader and a second writer meet in
  one file, two chunks let one of them stop half way. Three descriptors are
  used up by two connections and a file, so that `accept` and both `open`s fail
  in some behaviours. In `http_kinds` the queue of 1 fills when both workers are
  busy, and `main` blocks with what it has in its hand. The code's
  queue holds 10; nothing but when `main` blocks depends on it. Two PUTs that
  create the same file are what `FdAccounting` needs to notice a turn that does
  not exclude others: both would find the file missing and leave a descriptor.
* The cache: with three slots, eight accesses are just enough to fill it,
  evict an item, read it again and evict it again, which is the second string
  that `set_add` has to free; and to let CLOCK's hand go round and clear all
  bits. `MaxRequests` bounds the accesses, and `Ptrs` has an address
  for each of them, so that `strdup` never fails; both are bounds of the model
  only.

* `memory`: commands have two bytes and names up to three (`PATH_MAX` is 2), so
  that a read may end inside each of them, and a name may be too long. The
  inputs are all combinations of right and wrong commands, names (also with a
  slash, with `\0`, or empty), line ends and contents. A read of four bytes may
  take in a command with a part of the name, or the end of the name with a part
  of the contents.
* `seq_server`: two clients, since what one request leaves for others is in the
  files and in the descriptor table only: a PUT and what comes after it, or a
  request that closes the listener. The 53 requests are heads with every shape
  that the parser treats differently (no field, no `Content-Length`, lines of
  each length up to 8 after it with each way to end, what curl sends, a line
  that is no field, a head that stops), bodies shorter, as long and longer than
  announced, bodies with a blank line at the start and in the middle, the kinds
  of files, a name of one character, and each refusal. Bodies have at most six
  bytes, each of which may be the last one read with the head.

Deadlock is checked in all runs. Symmetry is used in safety runs only, never
with liveness: in `queue`, and for the workers, which differ in nothing but
their names, in `http_store` and `http_kinds`.

### Fairness

* `BoundedQueue`: `WF(Proceed(t))`: a thread that is not blocked runs.
  `SF(Lock(t))`: a mutex that is free again and again is got some time, which
  a pthread mutex does not promise in letter but every fair scheduler gives.
  `WF(PopCall(c))`: the workers pop again and again (`worker`'s loop). Nobody
  is forced to push. `PushReturns` is asked with one producer, as in `main`;
  with two, newcomers may overtake a woken producer for ever.
* `HttpServer`: `WF(Main)`, `WF(Serve(w))`, `SF(TakeTurn(w))`, for the same
  reasons. Weak fairness is enough for `flock`: the thread that waits for it
  holds the turn, so nobody can take the flock before it. Clients are covered
  by the transfer actions, which always may end: the library has a timeout.
  This is also why every holder of a flock lets go of it.
* `Cacher`: `WF(Sweep)`; nothing is assumed of the input.
* `SequentialServer` and `Memory` state no liveness: a client that sends less
  than it announced, or an input that does not end, may stop them for ever.

## 4. Proofs

Every invariant and action property of the passing runs but one
(`NotFoundRespectsIds`, which is false in general), and both refinements, is
also a theorem: TLAPS proves it for all values of the constants that satisfy
the assumptions at the end of this section. For each component one inductive
invariant is proved to hold initially and to be kept by every action, and the
properties follow from it.

`BoundedQueue` (`BoundedQueueProofs`):

* `TypeCorrect` (`Spec => []TypeOK`), from `IInv`. `TypeOK` alone is not
  inductive: that a stored element is not `Junk` needs to know which slots are
  in use (`SlotInv`), that needs `in` to be `out + count` modulo `Size`
  (`RingInv`), and that a step that stores is the only one under way needs the
  owner of the mutex to be the only thread at a "locked" label (`MutexInv`).
  `SideInv` says that producers are only in `queue_push` and consumers only in
  `queue_pop`, unless a thread is both.
* `WakeupsSuffice` (`Spec => []NoLostWakeup`). The two halves are inductive on
  top of `IInv`. Each step is put into one of three cases (`Moving`): the
  number of elements and of threads on their way do not fall apart, or a thread
  is replaced by another one. `PushStore` raises the number of elements by one
  and its own thread becomes one that owes a signal; `PopTake` takes one
  element and one thread away; `PushSignal` hands over to the thread it wakes.
* `Refinement` (`Spec => ImplementsFifo`), by the refinement mapping
  `Contents`: the slots in use, from the front. `PushStore` is `Enqueue`,
  `PopTake` is `Dequeue`, every other step stutters.

`HttpServer` (`HttpServerProofs`, `HttpFilesProofs`, `HttpConnsProofs`):

* `TurnsExclude` (`CreationMutex`): with the types of the control state it is
  inductive. A consequence is that `creating` and `creation_waiting` never make
  a thread wait: the mutex alone would do.
* `LogExplains` (`AuditReplay`). `PathInv` says that a worker is at a label of
  the handler of its request's method, `LockInv` at which labels it has which
  flock, and that whoever has an exclusive one is alone with the file.
  `Transfer` relates what was sent and received to the file: under an exclusive
  flock `body[w]` is what `data` holds, under a shared one it is a first part of
  it, all of it when a 200 gets to the log. `ReplayInv` then relates the file to
  the log: where no writer is between its flock and its line (`Settled`), the
  last line that wrote the file has its content. A step either leaves the log
  and the file, or changes one of the two under a flock.
* `EachServedOnce` (`ServedOnce`), from `ConnInv`. `PlaceInv` says that a
  connection is waiting, in `main`'s hand, in the queue at one position, with
  one worker, or gone; `AnswerInv` that it has its answer from "audit" on, not
  before; `LogInv` that it has its line in the log from "close" on, and one.
  `ErrorFd`, which may be in many places at once, is kept apart everywhere.
* `DescriptorsAccounted` (`FdAccounting`) and `TypesCorrect` (`TypeOK`), from
  `ServerInv`, which adds `FdInv` and `MissingInv` to the above: the sets that
  `FdAccounting` counts are finite, and each step changes `fds` by as much as it
  changes their sizes; and, because of the turn, the file that `access` did not
  find is still missing when the creating `open` is reached.
  That `fds` is never negative is a consequence of the accounting.
* `MissingInTurn` (`NotFoundInTurn`): `IdInv` says that a positive
  `req_id` is the id of a GET or PUT that had its turn (`HadTurn`: it has set
  `req_id`, or was answered after that), and that for every GET that was told
  404 there is another such request with an id high enough.

`Cacher` (`CacherProofs`, `CacherPolicyProofs`):

* `TypesCorrect` (`TypeOK`), `OneOwner` (`Ownership`) and `CountersRight`
  (`MissesCounted`) from one `IInv`: the slots in use are those below `count`
  and no string is in two places (`PlaceInv`); what is allocated is what is in
  a place (`LiveInv`); no text is cached twice, and the texts that are allocated
  are those that were accessed (`TextInv`), which is why a look into the set of
  evicted items is enough to tell a compulsory miss (`CountInv`).
* `FIFOAnswers` (`FIFOExplained`). `FIFOInv` orders the slots by the miss that
  filled them; the slots that came after an item are as many as the misses
  since. `LRUAnswers` (`LRUExplained`): `LRUInv` says that the slots are in the
  order of their last uses (`UsedSince`, `LastUse`), and that an item that
  was accessed and is not cached has at least `Size` other items accessed after it (`LongAgo`).
* `SecondChances` (`Spec => ImplementsSecondChance`), by the refinement mapping
  `Clock`, the slots from the hand on (`Nth` says which slot is at which
  position). A hit is `Hit`, `MissCLOCK` is `Miss`, `ClockPasses` is
  `SecondLife`, `ClockReplaces` and `ClockFills` are `Place`; every other step
  stutters. `HandInv`: until the cache is full the hand is at the first free
  slot.

`Memory` (`MemoryProofs`): `TypesCorrect` (`TypeOK`), `OutcomeOfInput`
(`ResultOfInput`) and `NothingElse` (`FirstPart`) from one `IInv`. `LineOf(p,
more)` says of the command, the name and the unfinished word `tmp` in `p`, and
of what the piece still holds and what is still to come (`more`), that together
they are the input: whatever is known is what the input read as one piece says.
`ParseCommand` and `ParseName` keep it, at whatever byte the piece ends
(`Found`). `SetInv` and `GetInv` say the same of the contents: what is in the
file, in the buffer and to come is all there is to store; what was shown, what
is in the buffer and what was not fetched is the file.

`SequentialServer` (`SequentialServerProofs`):

* `Descriptors` (`ListenerKept`). `FdInv` follows the descriptors through a
  request: those in use are always the lowest numbers (`LowestIsNext` says what
  a call then gets), so the client is always 6 and a file 7; what `closefrom`
  leaves follows from that. It needs to know, between `Respond` and `Close`,
  that only the last request may have opened no file.
* `OffsetsExplained` (`BodyOffset`): `OffsetIs` says what the recursion over
  the blank lines returns for any text, `OneBlankSteps` and `OneBlankEnds` what
  that is when the text has the one at the end of the head. The functions are
  recursive and the prover has no induction over data, so `Sums` and `Jumps`
  (a sum of lengths, a jump from one position to a later one) are shown to be
  what they are with a least counterexample: a nonempty set of numbers has a
  smallest, and the equation holds one before it.
* `StoresExplained` (`StoredExactly`). Its heart is `MovedIs`: what is written
  when the number announced is `n`. The buffer is used if `(got - off) % 65536`
  is not 0; as `off` is at most two more than `got` and the buffer is no larger
  than 16 bits count, this is `off # got` (`SixteenBits`). The other direction,
  that a body with a wrong start is never stored right by accident, needs that
  what stands in front of a body (`InHead`) and behind what was read (`Junk`)
  is told apart from what was sent.
* `ReadsBack` (`RoundTrip`), `CodesExplained` (`CodesTell`) and `TypesCorrect`
  (`TypeOK`), from `IInv`: `RequestInv` for the request being served,
  `HistoryInv` for the answers given and the one being prepared (`Told`, which
  is what the properties say of one answer), and `FileInv`, that the files are
  what that history makes of them (`Holds`): a missing file is there as soon as
  a PUT has opened it, and holds what the last one stored. A code is
  chosen when the file is opened and told later; nothing comes between that
  changes either.

What is assumed:

* `QueueAssumption`: a ring of at least one slot, finitely many threads, and
  values that are not confused with "no thread" and "nothing stored".
* `HttpAssumption`: types; descriptors that clients get are at least 3 and less
  than `ErrorFd`. Nothing is assumed of how many workers, files or requests
  there are, nor that they are finitely many.
* `CacherAssumption`: a cache of at least one slot; and an address for every
  access, since the result of `strdup` is not tested.
* `MemoryAssumption`: the two commands and the two separators differ, and a
  null pointer is not a byte or a word. `PathMax` and `BufferSize` are arbitrary
  (a `BufferSize` of 0 would read nothing).
* `RequestsAssumption`: types of requests, with the bounds of section 2: only
  PUTs with a finished head have a body, and the blank lines named in it lie in
  it. `SizesAssumption`: the size of the buffer fits the 16 bits it is counted
  in. `FilesAssumption`: every file has a kind and contents, and what stands
  for "a byte of the head" and "never written" is not a byte of a body.

Only model-checked is what the prover cannot do, liveness (`ElementsLeave`,
`PushReturns`, `EveryRequestAnswered`, `ClockReturns`), and
`NotFoundRespectsIds`: it holds in `http_turn` because no other request has a
higher id, and `http_third_request` shows that it fails with one.

## 5. Where code and documents disagree

Each is a run that TLC finishes with a counterexample.

* `http_lone_get`: a GET with an id above `req_id` of a file that nobody
  creates is never answered, and keeps its worker; the comment at the loop says
  that it does not block where the file does not exist.
* `http_third_request`: any request with a higher id ends the wait of a GET,
  also a request for another file; the GET is then answered 404 while the PUT
  with the lower id is still in the queue. The comment describes just this as
  what the loop is for. `http_turn` shows that it works without a third id.
* `http_accept_error`: the `-1` of a failed `accept` is the largest value of an
  unsigned type and passes `connfd > 2`. It is queued, and a worker tries to
  serve it. It does no harm but work.
* `seq_overread`: when the first byte of a body comes with the head, `write_all`
  is called with all of `Content-Length` on a buffer of `PATH_MAX + 1` bytes.
  The comment of `write_all` demands that the number is at most the buffer's
  size. Long before that limit the file gets bytes that were never read:
  `StoredExactly` says exactly when it gets what was sent.

A second way into the endless loop of `http_lone_get` has no run of its own: a
GET sets `req_id` to its own id also when that is lower (line 222), while a PUT
only raises it (line 307). After a PUT of `b` with id 1 a GET of a missing `a`
with id 1 is answered 404; if a GET of `b` with id 0 comes in between, it waits
for ever. With a test as in line 307 the same instance satisfies
`EveryRequestAnswered`.

Others were met and have no run. A PUT that creates a file sets `res` to 201
(`asgn4/httpserver.c:315`), and the result of the transfer overwrites it: the
client gets 200 (`PutReceived`). `asgn3/README.md` says that a push of a null
element returns false, but `queue_push` only tests the queue. `asgn1/README.md`
says that names must be shorter than `PATH_MAX`, but `memory.c:91` lets a name
of `PATH_MAX` bytes pass, which `open` then refuses. `asgn2/requestparser.c:19`
says that a name has "any number of characters", but the expression in line 26
asks for at least two, and a request for a file with a shorter name is answered
400 (`LineMatches`).

`FdAccounting` states as a fact, not as a fault, that each created file leaves
a descriptor open (line 314 drops the result of `open`). So does `ListenerKept`
that the sequential server loses its listener with the first request that opens
no file: `closefrom(*infile - 1)` is `closefrom(-2)` then.

## 6. Not modelled

* `asgn0`: no state. The `.a` libraries: no source.
* `asgn2`: what happens when `read_until` returns 0 or -1. The buffer is parsed
  all the same: with `regfree` of an expression that was never compiled and
  pointers that were never set (`requestparser.c:89`), or with a write far
  outside of the buffer, as -1 is 65535 in a `uint16_t`; there is no state to go
  on from. The same holds of a first read of 2047 or 2048 bytes:
  `buffer[size + 1]` (`httpserver.c:84`) is then outside of `buffer[2048]`.
  (`regfree` in line 150, when nothing follows the request line, is modelled by
  `Crash`.) `itoa`, `get_cmd_args` and `accept_connection` are never called.
  Wording of responses is left out but for which of them sends the file
  (`SendsFile`).
* Command line parsing of asgn4 and asgn5; what is after the endless loop of
  `main` in asgn4 is never reached.
* `print_cache`, `print_set`: unused debugging output.
* Out of memory: results of `malloc` are mostly not tested in the code.

## 7. Plan

1. The line reader of asgn5 (`fgets` with `BUFFER_SIZE`), composed with
   `Cacher`: long lines are split into pieces, and one of 1023 characters leaves
   a newline behind that ends the run; `queue_delete`; the command line of
   asgn4, where `-t5 8080` gives four threads.
2. Proofs: the safety properties are proved (section 4). What item 1 adds
   will need: for the line reader, that pieces put together are the line, as
   `Found` does for `Memory`; for `queue_delete`, that no thread is in a call.
   What a fair run does stays with TLC.
