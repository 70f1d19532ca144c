# libbwct: a verification project

libbwct is a C++ base library: strings and containers, JSON, file and network
I/O with TLS and compression, threads with mutexes and condition variables, and
a thread pool. This directory holds TLA+ models of its parts, the TLC runs that
check them, and TLAPS proofs about them. All sources named below are in
`src/` of the repository.

## The system

### Components

| part | files | state | operations |
|---|---|---|---|
| Threadpool | `threadpool.h`, `threadpool.cc` | the job queue, `active_workers`, `stop_threads`, the workers | constructor, `AddJob`, the loop `worker()`, destructor |
| Mutex, Guard, CV | `thread.h`, `thread.cc` | a pthread mutex, the flag `locked` beside it, a flag per Guard, a pthread condition variable | `lock`, `trylock`, `unlock`, `wait` with and without timeout, `signal`, `broadcast` |
| RW_Lock | `thread.h`, `thread.cc` | a pthread rwlock, a flag per Guard | `rdlock`, `wrlock`, `unlock` |
| Thread, cyclic, FTask | `thread.h`, `thread.cc`, `fdhelper.h` | thread id, the object's ownership, detached or joined | `start`, `join`, `detach`; a detached thread deletes its own object |
| a_global, post_init_peer | `thread.h`, `network.cc` | a pointer, or a flag, set once | `init`, `operator->`, `post_init_peer` with double-checked locking |
| File | `fdhelper.h`, `fdhelper.cc` | descriptor, `readbuf` with `rbufpos` and `rbufsize` | `read`, `readline`, `write`, `lseek`, `open`, `close` |
| Stat, Dir | `fdhelper.h`, `fdhelper.cc` | copies of what the kernel returned | constructors |
| Network::Net | `network.h`, `network.cc` | a File with timeouts, peer and local name, the lazily resolved peer name | `connect`, `mywaitread`, `mywaitwrite`, `post_init_peer` |
| Network::Listen | `network.h`, `network.cc` | the listening descriptors of the object, and of the program | `add_tcp`, `add_UDS`, `loop`, destructor |
| CSSL::Context | `ssl.h`, `ssl.cc` | certificates by host name, ALPN options, the lock `mcerts` | `SetCerts`, the servername and the ALPN callback |
| CSSL::Network | `ssl.h`, `ssl.cc` | an SSL session on a Net | handshake, `microread`, `microwrite`, the read and write loops |
| CSSL::PKCS7 | `ssl.h`, `ssl.cc` | none of its own | sign, verify |
| Zfile, BZ2file, Netfile | `compress.h`, `compress.cc` | the stream of zlib or bzip2 and two buffers | `microread`, `microwrite`, `close` |
| Tool functions | `tool.h`, `tool.cc` | the last id given out, the saved SIGCHLD action, the random device | `genid`, `call_external`, `random`; pure conversions |
| Array | `array.h` | slots that own an object or are empty, grown by a fixed step | `append`, `insert`, `erase`, `operator[]`, `sort`, ... |
| SArray | `sarray.h` | one block of values, and the index of the last in use | the same |
| AArray | `aarray.h` | a fixed number of buckets, each a chain of elements | lookups, `operator[]`, `erase`, assignment, iteration |
| String | `mstring.h`, `mstring.cc` | a text, its length, and a buffer in the object or on the heap with its size | assignment, appending, `resize`, push and pop; search, order, split, replace; UTF-8 |
| JSON | `json.h`, `json.cc` | a tagged tree | `parse`, `generate`, `create_table`, assignment, `operator[]` |
| Base and the error macros | `base.h`, `tool.cc` | none | `cassert`, `abort_assert`, `TError`, `Error` |
| BSD replacements | `bsd.h`, `bsd.cc` | none | `closefrom`, ... |

### How they interact

A Threadpool holds a Mutex (`queue_mtx`), a CV (`queue_cv`), an Array of
wrapped jobs and an Array of `std::thread`. Its workers call the jobs, and the
jobs call `AddJob` again from inside the pool: the call stack of a worker is
part of the state. A Net is a File whose waiting is replaced by `poll`
with a timeout; CSSL::Network, Zfile and BZ2file replace `microread` and
`microwrite` below the same loops. `Listen::loop` accepts and forks a process
that runs a task; a task is a Thread as well, and the child has a copy of whatever the
threads of the parent were doing to its memory, mutexes included. The certificate table of
CSSL::Context is an AArray under a lock, read from callbacks of OpenSSL. JSON
keeps its objects in AArrays and its arrays in Arrays.

### What is hard

* Concurrency: the wakeups, the count of active workers and the nested jobs of
  Threadpool; the flag `locked`, which is no atomic; `start()` against the
  thread that deletes its own object; double-checked initialisation.
* Failure in the middle: a read that has part of its bytes when a call fails; a
  handshake, a certificate load or an element copy that throws half way.
* Order and stale state: a buffer that survives `lseek`, `close` and `open`; an
  iterator over a table that its loop body changes.
* Numbers: counts that start uninitialised, ids from a clock, buffers at their
  limit.
* Liveness: every future becomes ready, the destructor returns, a read returns
  as soon as it can.

`PROJECT.json` lists the hazards with their lines and the properties that cover
them, or why none does.

### What makes each part correct

* Threadpool: each accepted job runs exactly once and its future becomes ready;
  no wakeup is lost; workers that wait for each other's jobs never all block;
  the destructor drains the queue before it ends.
* Mutex and CV: one thread inside; the assertions on `locked` never throw; going
  to sleep and releasing the mutex is one step for everybody else.
* File: the caller gets the bytes of the stream in order, each once; short only
  at the end; a read does not wait for more than it was asked for.
* AArray: a map; its iterators meet each key that stays once.
* Array: one owner per object, no access beyond the block, the order of what
  stays. SArray: the content a vector would have.
* String: text, length and buffer agree; what is split can be joined; the order
  is one; bytes and code points are two forms of the same text.
* JSON: the parser takes the language and nothing else; parsing what was
  generated gives the same tree, also of a tree that a failed parse left.
* Net: one socket at a time, whichever attempt was given up when.
* Listen: a task has its connection and nothing else; every client is served or
  let go; one client that goes away does not stop the others.
* a_global, post_init_peer: one value per process, and nobody goes without it.
  That a thread which sees the pointer outside of the mutex sees the value as
  well is not so: the test there is a data race.

## The modules

| module | what it is | code |
|---|---|---|
| `Threadpool` | the pool, step by step | `threadpool.h`, `threadpool.cc` |
| `JobService` | what the pool promises | the same, without threads |
| `MCThreadpool` | job trees for TLC | |
| `ThreadpoolProofs` | theorems about Threadpool | |
| `MutexCV` | mutex, guard and condition variable at the level of single accesses | `thread.h`, `thread.cc` |
| `Monitor` | what they promise together | |
| `MutexCVProofs` | theorems about MutexCV | |
| `FileIO` | the loops of File and of CSSL::Network, and the waiting of Net | `fdhelper.cc`, `network.cc`, `ssl.cc` |
| `MCFileIO` | the stream for TLC | |
| `AArray` | the hash table and its iterator | `aarray.h` |
| `KeyMap` | what the table promises | |
| `MCAArray` | a hash with collisions for TLC | |
| `ArraySlots` | slots, their objects and who owns them | `array.h` |
| `MCArraySlots` | the symmetry for TLC | |
| `SArray` | the block of values, beside what a vector would have | `sarray.h` |
| `Text` | what searching, ordering, trimming, splitting and replacing compute | `mstring.cc` |
| `StringBuf` | the text, its length and its buffer under every member that changes them | `mstring.h`, `mstring.cc` |
| `MCStringBuf` | characters and texts for TLC | |
| `Unicode` | UTF-8 | `mstring.cc`, `json.cc` |
| `Json` | parser, generator, table, changes to a tree | `json.h`, `json.cc` |
| `MCJson` | pieces of texts for TLC | |
| `Sockets` | what the kernel keeps of sockets | external |
| `Connect` | a client that tries one address after the other | `network.cc` |
| `Listen` | listening sockets, the accept loop, a process per connection | `network.cc` |
| `OnceInit` | double-checked initialisation | `thread.h`, `network.cc` |
| `Server` | Connect, Listen and OnceInit together | the same |
| `MCServer` | addresses and connections for TLC | |
| `SequenceLemmas` | facts about numbers and sequences the proofs share | |
| `FileIOProofs`, `AArrayProofs`, `ArraySlotsProofs`, `StringBufProofs`, `ServerProofs` | theorems about the module they are named after; `ArraySlotsProofs` about `SArray` and `StringBufProofs` about `Unicode` besides | |

### Threadpool

`holder` is the owner of `queue_mtx`. A step is what a thread does between two
points where another thread can tell the difference: taking `queue_mtx` is a
step of its own (`WorkerLock`, `AddLock`, `Relock`, `OwnerLock`), and all a
thread does from there to its release is one more (`TakeJob`, `CVWait`, `Exit`,
`Enqueue`, `RunInline`, `Stop`). This is sound because everything in between
touches only state that `queue_mtx` protects; `MutexCV` shows that Mutex and CV
give exactly such a monitor. A job's body may add its children (`CallAddJob`)
and wait for their futures (`Await`) in any order, any number of times, or
not at all; `stack[w]` holds the bodies a worker is in, as an inline job runs on
top of the one that added it. `Parent` is the tree of which job adds which. A
job is added once; it is the object that is added, not its code.

`ActiveInit` is what the memory of `active_workers` may hold before anybody
writes it: the constructor never does. With `{0}` it is a pool in static
storage. `Drained` says whether the owner waits for all futures before it
destroys the pool.

### MutexCV and Monitor

One action per access to shared state: the call into pthread, the assertion on
`locked`, the assignment to it. Signals come from inside the mutex, as all
callers in the library send them; a thread that is woken, times out or wakes
for no reason goes the same way (`Rouse`). In `Monitor` a thread is inside from
`locked = true` to `locked = false` and sleeps from there: `Threadpool` is
written in these steps.

### FileIO

A byte is its position in the stream, `off` is the kernel's position, `rbuf`
what the buffer still holds. The loop of `readn` is cut at its calls into the
kernel: `Copy` takes from the buffer, `Fill` reads into the buffer if less than
a buffer is wanted, `Direct` reads past it. `Again` is EAGAIN or EINTR,
`ReadFails` another error or an exception of `mywaitread`, `ReadCutShort` one
after which CSSL::Network returns what it had. `readline` is `readn`
of one byte per turn. `sort` chooses between a regular file, all there from the
start, and a socket, whose peer sends and hangs up when it likes. `CSSL::Network`
has the loops once more (`ssl.cc` 92-236): without a context as they are but for
what an error in the middle returns, with one as OpenSSL answers, which may want
to write before it can read (`WantWrite`).

`pos` is where the caller believes to be. `spoiled` remembers that the program
went where the code loses its place: `lseek` or `open` with bytes in the buffer
(the code does not look at the buffer in either), a call that failed after
part of the data (which is dropped), or, without TLS, one that failed after
reading past the buffer (`ssl.cc` 154 returns one byte less than it read). `NothingLost`, `LineExact` and
`WrittenInOrder` are about all other states. They are not hidden defects of the
model: they are listed as hazards and the model takes these steps.

### AArray and KeyMap

A chain is a sequence of pairs, `Hash` any function, `buckets` the template
argument; a number of buckets that `getbucket` does not list puts everything
into bucket 0, as the code does. `e` and `b` are the iterator of one loop whose
body may do anything to any table except delete the element the iterator stands
at: that is the caller's obligation. A table assigned to itself ends empty, by
copy and by move, so it is the same action as `clear`. `emplace`, `insert` and
`erase(iterator)` are left out: their bodies (`aarray.h` 492-568, 710-803) use
operators `Iterator` and `T` do not have and cannot be instantiated.

### ArraySlots

An array is a record of the three members of `Array`; its slots hold `NULL`, an
object or `Wild`, the content of memory nobody wrote. An object is an identity:
`live` are those that exist, `cut` those a caller took with `cutptr`. `setsize`,
`memmove` and the stores behind the block are modelled as they are, so that a
member which forgot to make room would leave a slot beyond `num_elem`. `cutptr`
does: it only asserts that its index is not negative (`array.h` 586-589), and
reads and writes the slot. `BoundsKept` says that no member stores behind the
block but this one, called with an index the block does not have (`BreaksBounds`).
A constructor may throw wherever the code calls one; a copy or an append stops at
any element.

The code does break ownership in four more members, and `OwnershipKept` names
them rather than leaving them out: the range erase moves too few slots and leaves a
pointer behind the end, an insert at the end stores behind `max`, an insert of
several copies runs its loops from `i` to `count` (`array.h` 357, 361), and
`push_front` has moved the pointers when the constructor throws. Nothing else
does, whatever the order of calls. A program is followed up to the first of
these states (`Unsound`), since what comes next depends on memory that is not
the array's any more.

### SArray

`arr` is the block and `max`, the index of the last element; `list` is the
sequence a vector would hold after the same calls, and is changed beside it by
each action. A call that leaves the block, reads a block that realloc has freed,
or never returns makes the array `Broken`. `ListKept` says that block and list
agree after every member but those it names, each with its line: they are the
places where the code does otherwise, and a program is followed as far as the
first of them (`Unsound`). `list` is never bent to the code: an insert at the end,
of a zero or of a value, is in it and is not counted by the code (427, 442), so
that it is one of `Breaks`. `InsertOwn` inserts an element of the array itself,
`a.insert(pos, a[k])`: the code reads it through the reference after the block
has moved (446). What comes of it is the element that has come to its place, or
anything if the block was freed meanwhile, and right only if there was room and
the element stands at `pos` or before it, where it is read before it is
overwritten. One of `Breaks` came to light in the proof: an erase of
the empty range at the end (`erase(end(), end())`) moves less than nothing, which
to `memmove` is a huge number.

### Text and StringBuf

`Text` has the members that compute and change nothing, on sequences of
characters; the loops of the code are recursive functions, positions count
from 0 as in the code. `StringBuf` is the object: `text` up to the first
zero, `ln` the stored length, `buflen` the claimed and `room` the real size of
the buffer, `directsize` what fits into the object. Rounding of sizes is that of
`bufsize` and `rebufsize` with smaller constants, and lengths are computed
modulo `SizeMax + 1`, since `pop_front` and `pop_back` of an empty string count
below zero. A string that read through a null pointer is `Dead`, and one whose
text does not fit its `room` is not sound either. A number is printed into a
buffer of a size fixed by its type, and `Numbers` are the texts that fit it.
`SoundKept` has the shape of `ListKept`: text, length and buffer stay in agreement
under every member but those it names. Among them are three ways to put a zero
inside a text that is counted as part of it (a file, a std::string, memory), the
string appended to itself, by copy or by move (`Overrun`: its end is never met,
since it is overwritten first), and a string that a constructor moved from, which
goes through NULL even for an empty text (`Added`) and for room without a text
(`set_size`). `SplitsJoin`, `FieldsExact` and `Ordered`
are about all texts the program reaches; `FieldsExact` is `Trims`, `CSVExact` and
`LinesSplit`, one for each way to take something away from a text.

### Unicode and Json

`Unicode` is `u_str`, `u_length`, `u_cut` and `test_utf` on bytes, and `input`,
the text a program is given, in pieces of any alphabet (`Receive`). `UnicodeKept`
says of every such text that its characters survive being decoded and encoded
again. Each step of `Json` is a `Receive` or leaves `input` alone, so that its
behaviours are behaviours of `Reading`. In `Json` a program either types a text piece by piece (`Type`), and everything `parse`
makes of each text is checked, or works on a tree (`Change`): it parses a
document into it, assigns, and looks members and items up, which makes them. A
node that is assigned a part of itself (`Rise`, `RiseFrom`) gets what std::variant
makes of it: the part, which is copied first, but a bool is read from what was
freed before, and may be either (`Risen`). The
parser is written as functions from a position to a result, one per production
as in `iparse`, and leaves the tree as far as it was filled when it throws. The
language it is compared with is written independently of it, from the outside
in: `IsValue` takes the brackets off, splits at commas and looks at the parts.
Where the code differs from JSON on purpose or not (nothing at all is a number,
`+1`, `.5` after a sign), `IsNumber` and `IsValue` say so. These definitions use
RECURSIVE operators and are for TLC only.

### Sockets, Connect, Listen, OnceInit and Server

`Sockets` is the kernel: `open`, the descriptors of each process; `queue`, the
connections that wait at an address; `ends`, the clients' ends. A connection is
the attempt of a client that made it, and names the process that is forked for
it. `Connect` is the loop over names: `Try` makes a socket, `Arrive` is the
network, `GiveUp` a refusal or a timeout, which may come when the connection is
already there. `Listen` has `lfds` per object and `fdescs_to_close` of the
program; `loop` is where the accept loop is, with what `poll` found and has not
been looked at yet. `Vanish` takes a connection from the queue between `poll` and
`accept`. `Destroy` leaves the last socket, as `~Listen` does (466).

`OnceInit` has one step per access: the test outside of the mutex, the mutex with
the second test, the pointer, what it points to, the unlock. The pointer is
`"raw"` between the two: another thread may see it before the value.
`Server` puts them together: `ForkChild` copies the memory of the parent, with
the mutex as it is, to a child in which only the calling thread goes on.
`Answered` has the one exception this makes: a child whose task asks for the
value while the mutex was locked by a thread that is not there (`Orphaned`)
waits for ever.

## The runs

| run | module | shows | states | bounds |
|---|---|---|---|---|
| ThreadpoolNested | MCThreadpool | counting, wakeups, no deadlock of nested jobs, refinement of JobService, every future becomes ready | 7139 | 2 workers, 1 client, jobs a - a1 - a2 and b - b1 |
| ThreadpoolHard | MCThreadpool | the destructor with jobs queued and running drains them and returns, `active_workers` started as -1, 0 or 1 | 28911 | 2 workers, 1 client, two jobs with a child each |
| ThreadpoolShutdown | MCThreadpool | violation of `DestructorReturns` | | 2 workers, one job with a child |
| ThreadpoolGarbage | MCThreadpool | violation of `SaturatedRunsInline` | | as ThreadpoolHard |
| MutexCV | MutexCV | assertions, exclusion, no lost signal, refinement of Monitor, every lock() returns | 2560 | 4 threads |
| FileIO | MCFileIO | read, readline, write, on a file, a socket, and a CSSL::Network with and without TLS | 433609 | 5 bytes, buffer 2, reads up to 4, lines up to 3 |
| AArray | MCAArray | lookups, iteration, refinement of KeyMap | 6759 | 2 tables, 4 keys, 3 of them in one bucket, 2 values |
| ArraySlots | MCArraySlots | ownership, bounds and order of slots | 21880 | 2 arrays, 3 objects, length up to 3, blocks of 1, 2 and 4 |
| SArray | SArray | every member against a vector | 240543 | 2 arrays, values 0 and 1, indices up to 3, blocks from 1 |
| StringBuf | MCStringBuf | text, length and buffer; order, split, join, replace | 162665 | 2 strings, 3 characters, texts up to 3, objects of 2 |
| Json | MCJson | the parser against a grammar, generated trees read again, paths, UTF-8 | 42662 | texts of up to 5 of the pieces of one alphabet, arrays up to 2 |
| Server | MCServer | isolation of children, one socket per client, one value per process, everyone answered | 298700 | 1 client with 2 addresses, 1 object, 2 threads beside the loop, 2 children |

Why the bounds are enough:

* Threadpool: two workers make one that sleeps and one that works, both busy,
  both asleep, and one inside the other's signal. The chain of three jobs has an
  inline job inside an inline job; the second tree keeps the other worker busy
  with a job that waits in turn. More workers and more jobs are covered by the
  theorems.
* MutexCV: one thread inside, one on its way to sleep, one asleep and one that
  comes in. The theorems cover any number.
* FileIO: with a buffer of two, requests of one are smaller than the buffer,
  two fill it, and four are read around it, in one call or in several; five bytes leave an odd one in the
  buffer at the end. The stream has a carriage return, a newline, a zero byte
  and a last line without its end, and a line of four passes the limit of three.
* AArray: a chain of three has a first, a middle and a last element; the fourth
  key is in a bucket of its own. `MaxElems` bounds the elements in both tables to
  four, so that copies of a chain of two are made and moves of all four.
  Keys of one bucket and tables are interchangeable, which the symmetry uses;
  no liveness is checked in this run.
* ArraySlots: three objects are a first, a middle and a last one, in one array
  or in two. A first block of 1 instead of 8 and a limit of 2 instead of 1024
  make `setsize` take each of its branches (a new block, a doubled one, and one
  of the larger step) at these lengths. Objects and arrays are interchangeable,
  and no liveness is checked.

* SArray: a first block of 1 and a larger step from 3 take each branch of
  `setsize`; `Wide` is 2 instead of 8, what `memmove` multiplies by too much.
* StringBuf: an object of 2, blocks that double from 2 and grow by 4 beyond, so
  that a text of 3 has left the object and a string passes every size on its
  way; a character below zero, one to split at and one more; texts from files
  and memory with a zero in front, in the middle and none.
* Json: four alphabets keep texts of five pieces apart by what they exercise:
  structure, escapes, numbers, bytes of UTF-8. Each bracket can be opened twice
  and closed, a \u escape has its four digits as one piece, and a first byte of
  each length is followed by too few, enough and wrong bytes. Trees come from
  three documents, one of which fails half way, and six values.
* Server: the client's first attempt may be given up while it waits, when it is
  in the queue and when it is accepted; meanwhile the second arrives at the other
  address. The object has one or two sockets, and may be destroyed before, which
  leaves one open in the next one's children. Two threads are what it takes to
  race for the value, and a fork may come at each of their steps.

Deadlock is checked in all passing runs but ThreadpoolHard, Json and Server,
where the program really may stop: the finding of ThreadpoolShutdown, a text or a
tree at its bound, a server without clients.

Every property of a passing run has a mutant in `PROJECT.json`: a definition
above the one it replaces in the module, marked as a mutant, with which the run
finds the property violated. They are the bugs the properties are there for: a
missing signal, a counter that is not taken back, a pointer that is not
advanced, a chain that is deleted with its first element.

### Fairness

* Threadpool: every worker, caller and the owner takes its next step (weak
  fairness), and gets `queue_mtx` if it is free again and again (strong
  fairness, as a spurious wakeup can take it in between). Nobody has to add a
  job, wait for a future, or destroy the pool. Bodies end.
* MutexCV: the same; the code between `lock()` and `unlock()` ends, and nobody
  has to signal.
* FileIO: the reading thread runs, and a call into the kernel that is
  interrupted again and again gets through (strong fairness of `Fill`,
  `Direct` and `EndOfFile`). Nothing is assumed of the peer: `Served` only speaks of reads
  whose bytes have arrived, and there is no liveness of `write`.
* Server: the kernel runs the accept loop, every child and every thread (weak
  fairness of each). A client may stop anywhere, and nothing is assumed of the
  network.

### Findings

1. `ThreadpoolShutdown`: `~Threadpool` sets `stop_threads` and joins the workers.
   A worker that has left still counts as inactive. A job that now adds a job
   and waits for it has it queued, nobody takes it, and the join of the worker
   that waits never returns. `DestructorReturnsOrAbandons` (checked in
   ThreadpoolHard) says that nothing else keeps the destructor from returning.
2. `ThreadpoolGarbage`: the constructor does not set `active_workers`. In a pool
   that is not in static storage it starts as whatever is there, and the test
   that keeps nested jobs from deadlocking asks for `get_inactive() == 0`.

## The proofs

Eight modules hold theorems, for any number of workers, jobs, threads, keys,
objects, clients and descriptors, and any length of stream and text. They rest
on the named assumptions the modules make on their constants and on nothing
else; ActiveCorrect and three others of ThreadpoolProofs need
`ActiveInit = {0}` besides: the pool is in static storage. TLC evaluates each of
these assumptions in a run.

### ThreadpoolProofs

| theorem | statement | needs |
|---|---|---|
| TypeCorrect | `Spec => []TypeOK` | |
| ActiveCorrect | `Spec => []ActiveCount` | `ActiveInit = {0}` |
| WakeupsKept | `Spec => []NoLostWakeup` | |
| SaturationSafe | `Spec => []SaturationWitness` | `ActiveInit = {0}` |
| NoForkJoinDeadlock | `Spec => []NotAllBlocked` | `ActiveInit = {0}` |
| SaturatedAddIsInline | `Spec => SaturatedRunsInline` | `ActiveInit = {0}` |
| DestroyedDrained | `Spec => []DrainBeforeDestroy` | |
| PoolImplementsService | `Spec => ImplementsJobService` | |

The inductive invariant is built in layers, each proved with those before it:

* `TypeInv`: the types, what `arg` and `stack` hold in each state of a thread,
  and that a worker not yet started is unborn.
* `LifeInv`, `HolderInv`: where the owner is against where the workers are; who
  holds `queue_mtx` is where the code holds it.
* `ActiveCount` is inductive with `TypeInv`: the only two steps that change the
  set of active workers change the counter by the same one.
* `NoLostWakeup` is inductive with `TypeInv`: each queued job is matched by an
  awake worker that will test the queue; `Enqueue` adds a job and wakes a
  sleeper, and a worker goes to sleep only with the queue empty.
* `JobInv`: `FramesInv` (a job on a stack is running or inline, on one stack
  only), `ArgInv` (a job being added has one caller), `QueueInv` (the queue holds
  exactly the queued jobs, each once), `TreeInv` (a job that has been called has
  a parent whose body is running or has run).
* `SaturationWitness` follows the last step that made all workers busy: the
  worker that took the last free place depends on nobody, and from there on
  whatever any worker adds runs inline, so it never becomes dependent. This needs
  `ActiveCount`, to know that the test in `AddJob` is right.
* `NotAllBlocked` follows: the witness is not blocked.
* `QuietInv`: jobs in the queue have a worker that has not left; with `JobInv` it gives
  `DrainBeforeDestroy`, and with that the step `Destroy` of the refinement.

### MutexCVProofs

| theorem | statement |
|---|---|
| FlagAssertions | `Spec => []AssertionsHold` |
| Exclusion | `Spec => []MutualExclusion` |
| DestructorSafe | `Spec => []IdleUnlocked` |
| SleepersListen | `Spec => []Listening` |
| MutexImplementsMonitor | `Spec => ImplementsMonitor` |

`IInv` is `TypeOK`, `OwnInv` (the owner of the pthread mutex is the one thread
in a state that owns it), `FlagInv` (`locked` is TRUE if and only if some thread
is between its two assignments) and `AssertionsHold`. `FlagInv` is what makes the
assertions hold although the flag is read and written without an atomic: it is
only touched by the owner.

### FileIOProofs

| theorem | statement |
|---|---|
| ShortThm | `Spec => []ShortMeansEnd` |
| StreamThm | `Spec => []NothingLost` |
| LineThm | `Spec => []LineExact` |
| WrittenThm | `Spec => []WrittenInOrder` |

Assumed: a size of the buffer, a stream, and what its bytes are. `PlaceInv` is
what the loops know at each of their places: what a read has and what it still
wants make up what it was asked for, it asks the kernel only with an empty
buffer, and `ShortMeansEnd`. It is inductive with the types. `NothingLost`
says that `pos`, what a call has read, the buffer and the kernel's position fit
together; each action takes from one and gives to the next. A
line is a stretch of the stream as well, so that `LineExact` follows from
`NothingLost` and what `readline` has kept of it.

### AArrayProofs

| theorem | statement |
|---|---|
| LookupsThm | `Spec => []LookupsAgree` |
| AArrayImplementsKeyMap | `Spec => ImplementsKeyMap` |
| WalkThm | `Spec => []WalkExact` |

Assumed: a hash of each key, at least one bucket, `NoKey` and `Absent` no key
and no value. The inductive invariant is that each chain is `Good`: its keys
belong to its bucket, none is in it twice. Then there is one place where a key
can be, and each member's effect on the map is its effect on one chain: this is
the refinement. `WalkInv` adds the loop: of the keys that stay, those it has
passed have been visited once and the others never, since no member changes the
order of two keys that stay (`Kept`).

### ArraySlotsProofs

| theorem | statement |
|---|---|
| BoundedThm | `Spec => [](InBounds => Bounded)` |
| BoundsThm | `Spec => BoundsKept` |
| OwnershipThm | `Spec => OwnershipKept` |
| OrderThm | `Spec => OrderKept` |
| ListThm | `Plain => (Flat!Spec => Flat!ListKept)` |

Assumed: a first block and a step of at least one; the null pointer and the
content of unwritten memory are no objects. `Bounded` is that `num_elem` is the
size of the block and `max` lies in it; it rests on `NewNum` being larger than what
was asked for (a power of two above every number exists). After a `cutptr` behind
the block it is lost for good, as a program is not followed any further, and until
then it holds: what is inductive is `InBounds => Bounded`.
Ownership is about places, slots of arrays: no object at two of them, none that
is alive at none, nothing behind the end. A lemma per member says where each
place of the next state was before. `OrderThm` uses `Forward`: two objects that
stay and stand one behind the other stood so before, or in two arrays.

`ListThm` is about SArray, which is `Flat` there, with its first block in place of
that of ArraySlots: the growth of a block is the same, and so are the facts about
it. `Plain` repeats what SArray assumes: values, the bound and the size of a
pointer are numbers, the last not zero. `Holds` relates a block to the list it
begins with. There is a lemma for `setsize`, `store` and `memmove`, from which
come those for what `memmove` does to a list (a gap opened, a range closed), and
a lemma per member then either keeps `Holds` or is one of `Breaks`. The members
that push or insert one value after the other are recursive functions, which exist
by `Recursion` of SequenceLemmas, and are followed turn by turn. The statement
names `ListKept` of that instance: SArray and ArraySlots share too many names for
one module to extend both.

### StringBufProofs

| theorem | statement |
|---|---|
| TypedThm | `Spec => []Typed` |
| SoundThm | `Spec => SoundKept` |
| OrderedThm | `Spec => []Ordered` |
| SplitsJoinThm | `Spec => []SplitsJoin` |
| FieldsThm | `Spec => []FieldsExact` |
| UnicodeThm | `Reading => []UnicodeKept` |

Assumed: positive sizes, characters that are not zero, texts made of them, and
a longest text below the largest `size_t`, so that only counting below zero
wraps around. `Typed` bounds the texts of strings that can be used; for `SoundThm` there is a lemma
per member that computes the record it leaves. `OrderedThm` is about the first
position where two texts differ, the zero at the end included. For
`SplitsJoinThm` the recursive functions of `Text` are first shown to exist (by
recursion from the end of the text down, which `SequenceLemmas` derives from the
well-foundedness of finite sets, on a set of positions in place of a predicate).
`strsplit` and `replace` are then one function with two sorts of pieces,
`CutsAs`, and `join` undoes the first: each piece and what joins it to the rest
are adjacent parts of the text. `FieldsThm` compares with `Picked`, the characters
at a set of positions in order: what `linesplit` finds from a position on is what is
picked from there, by induction from the end down; `CSVsplit` goes forward, and what
it has read together with what is still to be picked is all that is picked, while the
number of quotes so far is odd exactly if one is open (`CSVRead`).

`UnicodeThm` assumes of the alphabets that their pieces are made of bytes
(`PiecesAssumption`) and holds for texts of any length. By the number of bytes, one
to four, a character is read to its code point and the code point spelt out again:
`Continuation` of a first byte says which numbers it may be, and the point then lies
in the range from which `Encoded` takes the same number of bytes, unless the
character was `Longer`. That `u_str` and `test_utf` exist as recursive functions
and what they compute follows from the end of the text down; that a text
`test_utf` takes comes back whole is by induction over it, and what `u_cut` wrote
is such a text again (`ReadsBack`), also when it is cut in two (`CutInTwo`).

### ServerProofs

| theorem | statement |
|---|---|
| IsolatedThm | `Spec => []Isolated` |
| OneSocketThm | `Spec => []OneSocket` |
| ServedThm | `Spec => []ServedInv` |
| OnceBuiltThm | `Spec => []OnceBuilt` |

Assumed: processes, connections and addresses are different things, and each
attempt of a client is a connection. A child that has closed nothing yet has what
its parent listens on, which is what `fdescs_to_close` was when the first
connection was accepted; so what the child closes is all it should not have.
`ServedInv` is that a connection waits at most once and never again after it was
accepted. With it a child's memory is copied once, before its thread has done
anything, and in it whoever is between lock and unlock holds the mutex.

### What is only model-checked

* Liveness under fairness, which the prover does not do: `JobsComplete` and
  `DestructorReturnsOrAbandons` of the pool, `Served` of MutexCV and of FileIO,
  `Answered` of Server.
* `RoundTrip`, `TableExact` and `AcceptsGrammar`: Json is written with RECURSIVE
  operators over trees, which the prover does not take.

## Not modelled

* Thread, cyclic, FTask and RW_Lock: `start()` reads `id` of an object that the
  new thread may have deleted (`thread.cc` 82, 54). Nothing in the code keeps the
  two apart, so that there is no property to state but the one that fails.
* CSSL::Context, the handshakes of CSSL::Network, PKCS7, Zfile, BZ2file, Netfile:
  what they do depends on OpenSSL, zlib and bzip2. A reader of `FileIO` should
  know that `compress.cc` 151 never compares what it copies with what is left in
  its buffer, and one of CSSL::Context that `SetCerts` gives `initCTX` its own
  `ALPN_options` to assign while handshakes read it (`ssl.cc` 461, 590).
* Stat, Dir, Base, BSD replacements and the pure conversions of `tool.cc` have no
  state of their own; `genid`, `call_external` and the random device keep a
  variable each.
* Threadpool: arguments, results and exceptions of jobs, and a pool of no
  workers. Mutex: `setdead` and `islocked`. `get_active` and `get_inactive`
  called without the lock are a data race that changes nothing.
* File: writes to a regular file, the copy constructor, `mmap`, the flag calls.
* Net and Listen: Unix domain sockets, which are opened and added in the same
  way; a `poll` that fails for good, which both loops repeat (`network.cc` 408,
  502); `bind` and `listen`, whose results nobody looks at; an `accept` that fails for
  want of descriptors, which is repeated as long as there are none.
* AArray and Array: exceptions in the middle of an element copy, sorted key lists
  and comparisons. SArray: iterators; `rbegin` starts one element too low.
* String: conversions between numbers and texts, hashing, `re_subst`, which is
  compiled out; `strsplit` and `replace` with an empty text to look for, which
  never return.
* JSON: getters, comparisons (`operator!=` asserts that the value is no string and
  then gets the string, `json.cc` 920 and 932), positions in messages, trees that
  were moved from, and the build without std::variant.

## What is left

Every invariant and action property of the runs is proved but the three of Json.
Its parser, generator and table as recursive functions on positions, and trees as
functions on paths instead of nested records, would open `RoundTrip` to the prover.
