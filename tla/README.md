# A TLA+ development of search_server

`search_server` is a C++ search engine in two programs: an offline tool that
turns web feeds into a page library and an inverted index, and a server that
answers queries over TCP. The server stands on its own reactor library (event
loops, channels, timers, connections), a thread pool, an asynchronous logger
and a replicated query cache; both programs use libraries that the repository
carries with it for XML, word segmentation and hashing. This directory models
the concurrent and stateful parts of the system and the path of a page from its
feed to an answer, checks them with TLC on small instances, and proves the most
important invariants for every instance with TLAPS.

## 1. The system

```
            clients
               |                       Timer, runAt/runEvery
          Acceptor (base loop)               |
               |  newConnection         TimerQueue ---- timerfd
           TcpServer  --round robin-->  EventLoop x n  <--- eventfd --- queueInLoop, quit
               |                             | epoll (EPoller, Channel)
           _connections                 TcpConnection  (input, output Buffer)
                                             | onMessage: one line
                                        ThreadPool::run ---> workers
                                                               | WordQuery::doQuery
                                             send()  <---------+---> MyCache (two Caches, one thread)
                                                               +---> Logging -> AsyncLogging (one thread) -> LogFile

   feed --> tinyxml2 --> buildWeblib --> words, simhash --> cutRedundantPages
                                                                   |
   WordQuery::loadLibrary <-- three files <-- storeOnDisk <-- buildInvertIndexTable
```

| component (src/) | state | operations | interacts through |
|---|---|---|---|
| Event loop (`net/EventLoop`) | `_quit`, `_callingPendingFunctors`, `_pendingFunctors`, eventfd, active channels | `loop`, `queueInLoop`, `runInLoop`, `quit`, `wakeup`, `doPendingFunctors` | any thread calls it; mutex and eventfd |
| Poller, channels (`net/EPoller`, `Channel`) | `_events`, `_index`, the epoll set | `updateChannel`, `removeChannel`, `handleEvent` | callbacks, in the loop's thread |
| Timers (`net/TimerQueue`, `Timer`) | `_timers`, the timerfd | `addTimer`, `handleRead`, `getExpired`, `reset` | functors of the loop, wall clock, timerfd |
| Loop threads (`net/EventLoopThread`, `EventLoopThreadPool`, `base/Thread`, `CountDownLatch`) | `_loop`, `_loops`, `_next`, a latch | `startLoop`, `getNextLoop`, the destructor | two handshakes; mutex and condition |
| Server and connections (`net/TcpServer`, `TcpConnection`, `Acceptor`) | `_connections`, `_state`, output buffer, socket | accept, establish, read, write, `send`, `shutdown`, `forceClose`, close, destroy | functors between the base loop, the I/O loops and the pool; `shared_ptr` and raw `this` |
| Buffer (`net/Buffer`) | `buffer_`, `readerIndex_`, `writerIndex_` | `append`, `prepend`, `retrieve`, `unwrite`, `findEOL`/`func`, `shrink`, `readFd` | owned by a connection |
| Thread pool (`base/ThreadPool`) | `_queue`, `_running`, the threads | `start`, `stop`, `run`, `take` | one mutex, one condition |
| Asynchronous logging (`base/AsyncLogging`) | current, next and full buffers, the buffers being written | `append`, `threadFunc`, `start`, `stop` | one mutex, a timed wait |
| Log files, FATAL lines (`base/LogFile`, `FileUtil`, `Logging`) | the open file, counters | `append`, `flush`, `rollFile`, `~Logger` | called by the logging thread and by the threads that log |
| Query cache (`process/MyCache`, `Cache`) | two caches (list + hash map), `_list` of new nodes | `read`, `write`, `threadFuc`, `addElement` | workers and one thread; two mutexes, a timed wait |
| Search server (`process/Server`) | the lines in the input buffers | `start`, `onMessage`, `doTaskThread` | connection callbacks, the pool |
| Query evaluation (`process/WordQuery`, `OnWebPage`) | page table, inverted index (shared by the workers) | `loadLibrary`, `doQuery`, `summary` | the files, the cache |
| Offline tool (`offline/`) | page library, index | `buildWeblib`, `buildU64`, `cutRedundantPages`, `buildInvertIndexTable`, `storeOnDisk` | files |
| XML library (`offline/tinyxml2`) | the tree of pointers, the pools, `_unlinked`, the text being parsed | parse, load, save, clear; insert, delete, clone, set text and attributes; print | called by the offline tool |
| Segmentation (`lib/cppjieba`) | dictionaries, Markov model, idf | load, five segmenters, `Extract` | called by both programs |
| Simhash (`lib/simhash`) | — | `make`, the hash of a word | called by the offline tool |

`PROJECT.json` lists these components, and those that are not modelled, with
their source files and status, and the hazards: the places where a unit test
would hardly reach what can go wrong, each with the properties that would notice.

What is hard here, and what the modules are therefore about:

* *a push and its wakeup are two steps* (`EventLoop.cc:96-104`): a poll, a read
  of the eventfd or a swap of the vector may come in between;
* *two handshakes start a thread*, and a third thread may stop it before it has
  entered its loop (`EventLoopThread.cc:38`);
* *one signal per task* (`ThreadPool.cc:60`) although any worker may take it,
  and a broadcast at `stop()` that every worker must notice;
* *a line is not a read event*: TCP cuts lines and joins them, and `onMessage`
  takes one line per event (`Server.cc:24`);
* *a connection is used by three kinds of threads* while it is taken down in
  three steps on two loops, and some functors hold it by a raw pointer;
* *test-then-set of `_state`* in the caller's thread;
* *missed notifications* that only a timed wait repairs (`AsyncLogging`, `MyCache`);
* *a FATAL line ends the process* while another thread logs one too;
* *two replicas kept equal* by applying the same nodes twice around a swap;
* *one timerfd for many timers*, re-armed by callbacks that add timers, next to
  a wall clock that can be set;
* *a tree of pointers* that is built by a parser that may fail anywhere, then
  edited, and whose debug assertions count on a counter kept far from the tree;
* *two programs that must agree* on numbers, offsets and words through files;
* *limits*: the task queue, the log buffers, the cache, the growth of a `Buffer`,
  the depth of an XML file.

## 2. The modules

| module | models | abstract specification it implements |
|---|---|---|
| `EventLoop` | one loop thread and its callers | `TaskExecutor` |
| `EventLoopThread` | the base loop, or a loop in a thread of its own, from the two handshakes to the destructor | `TaskExecutor`, through `EventLoop` |
| `ThreadPool` | the queue, the workers, the owner | `TaskExecutor` |
| `Server` | clients, lines and answers on top of the pool | `TaskExecutor`, through `ThreadPool` |
| `TcpServer` | accept, connection, channel, poller, round robin, workers: the composition | `ConnectionContract` |
| `AsyncLogging` | front end and back end of the logger | — |
| `Logger` | the logger of the process: start, FATAL lines, the files | through `AsyncLogging` |
| `MyCache` | both caches, the workers, the cache thread | — |
| `TimerQueue` | timers, timerfd, wall clock | `TimerService` |
| `Buffer` | the index arithmetic of a buffer | `ByteQueue` |
| `Utf8` | bytes, runes and their conversions in both libraries | |
| `XmlText` | the lexical half of tinyxml2: marks, names, entities, attributes, escaping | |
| `XmlTree` | the pointers of nodes: `Unlink` and the three insertions | |
| `XmlDocument` | parsing, pools, editing, cloning, clearing, loading again | |
| `XmlPrinter` | printing in both layouts, saving and reading again | |
| `Dictionaries` | the files of cppjieba and what is loaded from them | |
| `Segmentation` | the trie, the five segmenters, Viterbi | a definition of the best cut |
| `Keywords` | keywords by tf-idf, and the simhash of a text | |
| `Jenkins` | the 64-bit hash of a word in its three ways of reading | |
| `Weblib` | `buildWeblib` and the words of a page | |
| `SearchIndex` | redundant pages, index, files, `loadLibrary`, `doQuery`, summaries | |
| `SearchEngine` | `Weblib`, `Keywords` and `SearchIndex` from feed to answer | |
| `*Proofs` | theorems and proofs of the module they are named after; `OfflineProofs` is about `XmlTree`, `XmlDocument`, `SearchIndex` and `Segmentation` | |
| `MC*` | instances for TLC | |

Definitions labelled "Mutant" are plausible bugs in the definition that follows
them. No specification uses them; `PROJECT.json` says which property each one
must violate when it replaces the real definition.

### How the modules fit together

`TcpServer` uses a loop as a FIFO of functors run one at a time, and a pool as a
bounded FIFO of tasks: this is `TaskExecutor`, which `EventLoop` and
`ThreadPool` are shown (by TLC) and proved (by TLAPS) to implement.
`EventLoopThread` and `Server` put the real surroundings around these two, and
`Logger` around `AsyncLogging`: their steps are the actions of the module they
extend or leave its variables alone, which is itself a theorem (`LifeIsALoop`,
`ServerUsesPool`, `LoggerLogsAsynchronously`), so that what is proved of the part
holds in the composition. `TcpServer` uses an
output buffer as a byte sequence, which `Buffer` is checked and proved to be
(`ByteQueue`). The strong fairness with which `TimerQueue` runs the functors
of `addTimer` is the liveness property `EveryFunctorRuns` of `EventLoop`.

```
XmlText  XmlTree
     \   /
   XmlDocument -- XmlPrinter      Utf8 -- Dictionaries -- Segmentation    Jenkins
                        \                                  /      \        /
                         +------------ Weblib ------------+       Keywords
                                          \                          /
                              SearchEngine ( + SearchIndex ) -------+
```

### Steps and state

*EventLoop.* The loop thread goes `test -> poll -> dispatch -> drain` and runs
user code in a channel callback, in a functor, and outside `loop()` (`out`).
`CallerPush`/`CallerQuit` and `Wakeup` are separate steps of the calling thread.
The eventfd is abstracted to "counter positive". `early` remembers the functors
that the loop thread pushed outside `loop()`: no wakeup announces these
(`EventLoop.cc:102`), so they may have to wait for the ten seconds of
`kPollTimeMs`, and the properties say so.

*EventLoopThread.* `thread` is the new thread (`main`: there is none, the loop is
the base loop), `owner` the thread that calls `startLoop()` and the destructor.
Waits on the latch and on `_cond` are a sleep and a new test; each side is a step
of its own. `_loop` is published before `loop()` is entered, as the code does.
The destructor's `quit()` is two steps, `Destroy` and what follows: `DestroyWakes`
if the loop is still there, `DestroyDangles` if its thread has seen `_quit` and
destroyed it. The behaviour ends there, as running a functor for a freed
connection ends that of `TcpServer`.

*ThreadPool.* A critical section is one step; `pthread_cond_wait` gives the
mutex back and splits `take()` in two (`wait`, `woken`). Spurious wakeups are
steps. `run()` may be called in every state of the pool, as the code allows.
`_running` is read without the mutex in `Check`.

*Server.* A line is two units of the byte stream, its text and its newline. A
read event delivers any non-empty part of what is on its way; `OnMessage` takes
one line and hands it to `run()`, whose result is ignored. A worker answers by one
`send()` of size and body. What happens to the bytes then is `TcpServer`.

*TcpServer.* A handler runs in its loop's thread without blocking and is one
step with everything it calls (`HandleClose` includes the close callback up to
`removeConnection`). The calls a worker makes are cut where another thread can
come in between: `CheckState`, `SetDisconnecting`, `PostFunctor`, `Release`.
References are counted by where a `shared_ptr` can be: the map, a queued
functor bound to a `shared_ptr`, a task, a worker. `Freed` is the moment the
last one goes. Functors bound to a raw `this` do not count, and running one for
a freed connection is the halt "dangling". A failed assertion ends the
behaviour with its name in `halt`. The socket is external: a write takes any
number of bytes, a reset makes the next call fail and the following write
raise SIGPIPE, which the program does not handle ("sigpipe"); `accept()` gives a
connection, or fails and changes nothing, or fails with an error that `LOG_FATAL`
reports, which ends the process ("accept").

*AsyncLogging and Logger.* A line takes one place of a buffer of `BufferSize`
places; a `unique_ptr` to a buffer is a set with at most one sequence. A round of
`threadFunc` is `Swap`, under the mutex, and then, without it, `Drop`, one
`AppendBuffer` for each buffer that is written and `Refill`: callers append in
between, and a FATAL line may end the process between two buffers. The notice of
dropped lines that goes into the file (`AsyncLogging.cc:102`) is left out. In `Logger` the threads log their lines in order, and one that logs a
FATAL line goes through `stop()` to `abort()`, which ends the process (`dead`).
A file is its second; `RollFile` opens it for appending.

*MyCache.* A node is its query, as the answer is a function of the query; so
what the model cannot see is the text of an answer: `Cache::writeToFile()`
strips a trailing newline from the answers of the cache it writes
(`Cache.cc:52`). `get()` does not move a node to the front and the model does
not either. Each round of the two loops over `_docker` is a step.

*TimerQueue.* A tick is a unit of the wall clock and of the monotonic clock of
the timerfd; `SetClock` moves the wall clock either way. `handleRead` is cut
into `TakeTime`, `ReadTimerfd`, one `RunTimer` per expired timer and `Reset`,
with ticks and added timers in between. Due times include 0, which
`Timestamp::valid()` refuses.

*Buffer.* Memory is a sequence and the two indices are those of the code;
`readFd` fills the vector before the extra buffer. The assertions of
`makeSpace` and `ensureWritableBytes` are collected in `sound`. The arguments
keep to the assertions on arguments, which the callers in the repository do.

*XmlText.* Operators on sequences of bytes: each takes the text and a place and
returns what was read and the place behind it, or an error, as the functions that
return a pointer or null do. `GetStr` is what a `StrPair` makes of its text, with
or without entities.

*XmlTree, XmlDocument.* `dom` is the five pointers of every node, `node` what it
is, `unlinked` and `untracked` the list and the counter that the document keeps
on the side. `ParseDeep` is recursive; `open` is its stack and an action is one
turn of the loop of the innermost call. `DeleteNode` and `DeepClone` are
recursive as well, `dying` and `cloning` are their stacks, and while they run no
client comes in between (the library is not thread safe). A parse that fails
deletes the elements on the stack and keeps what was attached before.

*XmlPrinter.* `Printed` walks the tree as `Accept` does and folds the calls of
`XMLPrinter` over its state (`_depth`, `_textDepth`, `_elementJustOpened`,
`_firstElement`).

*Dictionaries, Segmentation, Keywords, Jenkins.* Pure operators. Weights are
whole numbers: `Log` is the logarithm to the base of 2, rounded, and `MinDouble`
is -1000 for -3.14e100; the additions and comparisons are those of the code. A
32-bit number is a pair of halves, so that additions carry and wrap around, and a
64-bit hash is the set of its bits. `Reads` are the ways in which a word can lie in
memory, with what follows it there.

*Weblib.* One action per item of the loop of `buildWeblib`; the assertion on the
load and the null pointers that an incomplete item leads to end the tool ("died").

*SearchIndex.* One action per function of the tool and of the server. `sort()` may
leave equal simhashes in any order; `unique()` compares with the last page kept. Pages are written to a file as bytes with their marks, and
`loadLibrary` finds the fields again by searching for the marks. Of the
weights the model keeps what the control depends on: a word in all pages but one
has the weight 0 (`log(sum/(df+1))`), a page of such words only divides 0 by 0,
the file then holds a weight that `>>` does not read, and `ReadLine` ends there.
`AnswersAreExact` says precisely which pages a query can miss for that reason.
The order of the answers, by cosine similarity, is left open. A query of which
segmentation leaves no word ends the server (`DoQueryWithoutWords`).

### What the code does, and the models with it

Reading it closely showed behaviour that the modules keep and a reader may not
expect. None of it contradicts a line of the repository, so none is a finding:

* `InsertAfterChild(prev, last)` of the last child behind the one before it
  follows a null pointer (`tinyxml2.cc:918-930`; `FollowsNull`). A stray closing
  tag outside of every element ends the parse without an error (1066-1072). An
  unknown entity after a shorter replacement keeps a stale byte (343). A failed
  load leaves the pools' untracked count too high, and a debug build asserts it in
  the next `Clear`. The pretty layout adds spaces behind a text (2561-2579).
* `buildWeblib` dereferences what `FirstChildElement` returns
  (`PageLibPreprocessor.cc:51,55,72`). A page with a title and an empty description
  has no content. A `<` in a title and a `>` in the description make one tag.
* A byte that cannot be decoded loses all words of the text. A page without
  keywords has the simhash 0, so all such pages but one are removed.
* `summary` reads blocks of 150 bytes and never the last, partial one
  (`OnWebPage.cc:20`), and misses words that lie across two blocks.
* `loadLibrary` looks for marks, so a title that contains `<url>` is torn apart
  (`WordQuery.cc:57-65`).
* `EventLoop::quit()` sets `_quit` and then still uses the loop, which the thread
  that saw the flag may have destroyed (`EventLoop.cc:77-80`, `EventLoopThread.cc:38-41`).
  `accept()` without a free descriptor or memory ends the server (`SocketsOps.cc:80-92`).
* The dictionaries end their lines with a carriage return, which stays with
  the stop words of `KeywordExtractor` and makes one-column user words unreachable.
* A query with a space has the word `" "`, which is never indexed, and so no
  answer (`WordQuery.cc:124-131`). A word whose first weight is no number is not in
  the table at all.
* `SimilarityCompare` (`WordQuery.cc:15-33`) is no strict weak order.

## 3. The runs

| run | instance | what it shows |
|---|---|---|
| `event_loop` | 2 callers, 3 functors; the base loop, or an `EventLoopThread` that one caller owns | no functor is slept through; FIFO, once each; every functor runs and `quit()` stops the loop, under fairness; `startLoop()` returns; the destructor returns, or hangs if its `quit()` came before `loop()`, or comes upon a destroyed loop if its wakeup came last |
| `thread_pool` | a server with 2 workers, a queue of 2 and 2 clients with 2 lines each, one of them in lock step; or the pool alone, with `run()` and `stop()` at any moment | nobody sleeps while a task has no worker woken for it; order; every accepted task finishes; `stop()` returns; answers are whole, once and to the right client; every line is settled |
| `tcp_inloop` | 2 connections, on 2 I/O loops or on the base loop alone (`setThreadNum(0)`), callbacks that stay in their loop | no assertion fails, removal goes through its stages exactly once, nothing is left behind by a destroyed connection, the callbacks come in the promised order |
| `tcp_workers` | 1 connection, 1 I/O loop, 2 workers that send and shut down, a callback that also sends itself | every byte in one place from the callback to the wire, none lost once sent, in order; shutdown only after the output, everything destroyed and written in the end |
| `late_send` | 1 connection, 1 worker that sends | finding: see below |
| `force_close` | 1 connection, 1 worker that force-closes | finding: see below |
| `async_logging` | 2 threads that log 5 lines, each a FATAL one last; buffers of 2 lines, drop limit 2, files of 2 lines, 2 seconds | the assertions of `threadFunc`, order of what is kept, the files hold what was written, lines are written or die with the process, which a FATAL line ends |
| `my_cache` | 2 workers, 3 queries, capacity 2, bar 1, 4 writes | map and list agree, replicas equal, no write lost, every write reaches the readers |
| `timer_queue` | a timer without and one with interval 1, clock up to 3, set twice | the timerfd is armed in time; the service; every timer whose time comes is called |
| `buffer` | pieces of 1 and 3 bytes with and without a line end, at most 4 readable bytes | a byte queue with lines, sound indices, bounded memory |
| `offline` | XML files of up to 4 constructs, 2 edits; feeds of up to 2 items; sentences of up to 4 runes; libraries of up to 3 pages | the tree, its lists and counters agree; what is saved is read again; pages are those of the feed; the segmentation is the best one; a removed page is close to one that is left; answers are exact |
| `redundant_pages` | libraries of up to 3 pages | finding: see below |

The run `offline` is one instance with several beginnings (`MCOffline!Init`): XML that
is edited, saved and read again; a feed that becomes pages, a library, files and
answers; files that are no feed; and libraries of pages whose simhashes are
given, near each other or not. The properties are about states, and each
beginning reaches the states of some of them.

Bounds, and why they suffice:

* Functors, tasks, lines and timers are used once each; three of them are enough
  for a push to fall before, into and after a batch (`EventLoop`). The four tasks
  of `thread_pool` fill a queue at its capacity (2), keep two workers busy and leave
  one to be refused, and a worker can take a task before the one woken for it.
  Two lines per client are enough to be cut, to come together and to be answered
  by two workers at once.
* `DropLimit = 2` stands for 25, `BufferSize = 2` for 4 MB: five lines fill two
  buffers and start a third, which is the first drop. `RollSize = 2` rolls files
  after one or two buffers, `MaxSecond = 1` lets that happen within a second or not.
* `Capacity = 2` with three queries makes evictions; `MaxWrites = 4` lets a hit
  move a node to the front, an eviction, and writes during both loops over
  `_docker`. `Bar = 1` stands for 10.
* `MaxMessages` bounds message callbacks per connection (2), `PoolCapacity` the
  pool. A message is two bytes so that a write can be partial.
* `MaxTime` is where the wall clock stays; `MaxSteps` is how often it is set.
* `kCheapPrepend = 1`, `kInitialSize = 2`, `ExtraSize = 2` stand for 8, 1024 and
  65536; with `MaxReadable = 4` the buffer grows, is moved to the front, and
  overflows into the extra buffer.
* `Node` has 16 places, which is more than a feed of two items needs; `MaxDepth = 6`
  stands for 500 and one file reaches it. `MaxPieces = 4` opens, closes, nests and
  mismatches elements around texts; odd constructs (declarations, CDATA, unclosed
  comments, a byte order mark, bad attributes, white space) come in every place of
  an element. `MaxEdits = 2` is a change and one that depends on it.
* `MaxSentence = 4` runes of a dictionary with words of up to three runes and with
  user words, so that the words compete and single runes go to the Markov model.
  `MaxWordLength = 512` is the code's.
* `TopN = 5` and `Near = 3` are the code's. Simhashes of the given libraries differ
  in two, four or six of their 64 bits: with three pages two can be close and a
  third between them far from both. `MaxAnswers = 2` stands for the 51 pages that
  `createJson` appends, `BlockSize = 5` for 150 bytes. With two words and three pages
  a word can be in all pages but one, which makes its weight 0.

The runs of `ThreadPool`, `AsyncLogging`, `TcpServer` and `SearchIndex` do not check
deadlock because the modelled part really ends: a stopped pool with nothing left to
hand in, a process that a FATAL line ended, a server whose connections are gone, a
tool that is done or died, a server that a query without words ended
(`CHECK_DEADLOCK FALSE`). `MCTcpServer_inloop` uses symmetry and checks no liveness.

Fairness:

* Threads that can run do run (weak fairness of their steps); a mutex is obtained
  in the end; functors, tasks and callbacks return.
* `LoopFairness`, in `FairLife`, leaves out the poll timeout on purpose: what it
  proves live owes nothing to the ten seconds. `EveryFunctorRuns` states
  separately, under fairness of the timeout, what needs it. `FairLife` adds the
  two threads of an `EventLoopThread`; nothing forces the owner to destroy it.
* A timed wait ends (`Timeout` of `AsyncLogging` and `MyCache`): both call
  `waitForSeconds`. A wait of `ThreadPool` is not timed and has no fairness.
* `FairServer`: the pool as before, and a loop reads what has arrived. Nothing
  forces a client to send or to stay.
* `FairLogger`: the logging thread goes on, and a thread that logs a FATAL line goes
  from `stop()` to `abort()`. Nothing forces a line.
* `TcpServer`: a loop polls its channels, and a client that stays takes bytes.
  Nothing forces a client to connect, write or leave.
* `TimerQueue`: time passes; `RunRequest` is strongly fair because the loop drains
  its functors after every poll, which is `EveryFunctorRuns`.

### Findings

1. **A send that arrives late** (`late_send`, `EPoller.cc:124`). `send()` tests
   `_state` in the worker's thread; `sendInLoop` tests nothing. If the loop
   handles the close in between, `sendInLoop` buffers what the dead socket does
   not take and calls `enableWriting()` on a channel that was disabled, and
   `removeChannel()` asserts `channel->isNoneEvent()`.
2. **A close that is handled twice** (`force_close`, `TcpServer.cc:78`).
   `forceClose()` tests `_state` and sets `kDisconnecting` in two steps. If the
   client's close is handled in between, the closed connection passes the test
   of `forceCloseInLoop()`, `handleClose()` runs again, and the assertion
   `n == 1` fails. The program's own worker
   only calls `send()`; the wheel of idle connections, which would call
   `forceClose()` from another loop, is not used yet.
3. **Redundant pages that stay** (`redundant_pages`, `PageLibPreprocessor.cc:97`).
   The pages are sorted by simhash and compared with the last one kept. Two pages
   whose simhashes differ in one high bit are equal for `WebPage::operator ==` but
   far apart in the order; a page in between that is equal to neither keeps both in
   the library, and the tool reports that all duplicates were deleted (line 100).

Other behaviour is part of a property because the code does not promise the
contrary. `ThreadStartsAndStops` says what becomes of the destructor of an
`EventLoopThread`: a `quit()` that comes before `loop()` is forgotten, and the
destructor waits for ever; one that comes later ends the thread, and the destructor
returns or, if the thread was faster than its wakeup, is called on a loop that is
gone. A refused line is never answered, nor is one that came together with an
earlier one before the client sends more (`EveryLineSettled`). Lines that are not in
a file when a FATAL line ends the process are lost, that line among them
(`WrittenOrDead`).

## 4. The proofs

`tlapm` checks every theorem for all values of the constants, from the `ASSUME`s
in the modules (finite set of workers, capacities in `Nat`, buffer size
positive, drop limit at least 2, cache capacity positive, finitely many places
for nodes, intervals and the sizes of a `Buffer` in `Nat`, dictionaries and models
as below). A theorem that needs more says so: two groups of
theorems about `TcpServer` have a hypothesis on what the workers do, see there.
Lemmas are stated in the module that uses them.

* `EventLoopProofs`. *TypeCorrect*, *NothingIsLost* (`submitted` is `executed`
  followed by the batch and the pending functors), *NoWakeupIsLost* and
  *NoQuitIsSleptThrough*. The last two speak only of the
  moments at which the loop is blocked and are not inductive. What carries over
  from step to step is `Covered`: at *every* moment the pending functors were all
  pushed early, or the eventfd is readable, or a caller is about to write it, or
  the loop is dispatching, so that the swap is still to come.
  *LoopImplementsExecutor* is the refinement: each action is a `Submit`, an
  `Execute` or a stutter, from the equation of NothingIsLost.
  *LifeIsALoop* shows that every step of `EventLoopThread` is a step of `EventLoop` or
  leaves it alone, and *NoWakeupIsLostInLife* and *LifeImplementsExecutor* follow.
  *LifeTypeCorrect* ties `thread`, `owner`, the latch and `_loop` together: nobody
  is handed a loop before there is one, and the thread leaves it only when its owner
  has called `quit()`.
* `ThreadPoolProofs`. *TypeCorrect*, *NothingIsLost*, *StopWakesEveryone*,
  *PoolIsWorkConserving* (a counting argument: a signal moves a worker from
  `wait` to `woken`, a take removes at most one of each) and
  *PoolImplementsExecutor*. *ServerUsesPool* shows that the server takes only steps
  of the pool, and *ServerIsWorkConserving* and *ServerTakesInOrder* follow.
  *AnswersMatchTheLines* is `AnswersMatch` for any clients, lines and workers. Its
  invariant has three parts. `OwnPlace`: an accepted task is in the queue once, or
  was taken once and is with one worker at most. `Flow`: no more is received than
  was sent, no more lines are taken than were received, none is accepted that was
  not taken. `WireInv`: there is a sequence of tasks of this client that makes up what it was
  sent, two parts for each, all different, all taken and with no worker any more;
  and a client that waits for its answer has begun at most one line more than it
  was answered. From this, by counting, a client in lock step has at most one
  line anywhere between its socket and a worker, so that the next answer is the next
  line's, although the pool keeps no order among workers.
* `TcpServerProofs`, for any number of loops, connections, workers and bytes.
  Whatever the workers do: *TypeCorrect* (a worker has a task exactly while it is busy);
  *NoByteIsLost*, `WireIntegrity`; and *ShutdownCutsNothingOff*. The first of these
  says three things of a byte on its way: what is on the wire and in the buffer
  is, in order, what `sendInLoop` was given (`BytesInOrder`); it is in one place at
  most among waiting tasks, workers, functors that are queued, and buffer or wire; and once
  it is sent, if only to a queue, it stays in the last two until the program stops. `OnceInv`
  is the invariant: of the four sets of its places one at most has an element, and
  none has before its message is read, so that every step can be seen to move it
  from one set to the next (`OnceSteps`). The
  last one needs `UpInv`: until a connection is reported up nobody but its
  loop knows it, and while it is up a channel with bytes buffered waits to write
  (`Flushing`).
  If the workers only send (`WorkerOps \subseteq {"send"}`, what the program's worker does):
  *CallbacksInOrder*, the refinement of `ConnectionContract`. `CallsInv` ties the callbacks
  seen so far to `_state`.
  If only the loops use connections (`WorkerOps = {}`, the server without a pool):
  *AssertionsHold*, *RemovedInStages* and *DestroyedClean*. Their invariant is
  `StageInv`: every connection is fresh, entering, open, closed, unlisted or gone,
  and exactly at the three stages where another loop has still to take its turn
  one removal functor of it waits, in the queue of that loop. The hypothesis is
  needed: with workers the runs `late_send` and `force_close` show what
  fails, already with one that sends.
* `AsyncLoggingProofs`. *TypeCorrect* and *AssertionsNeverFail*. The invariant
  adds that when the next buffer is used up a full buffer is queued, which is why
  the swap that needs the second spare buffer always brings two buffers to recycle,
  and that nothing is written before the thread starts. *LinesKeptInOrder*: `KeptInv`
  adds that every line is in one place once. *FilesHoldWhatWasLogged*:
  `NoneOverfull` bounds every buffer, and `FilesInv` says that the open file is the
  last one, and how much each file may hold for the times it was opened.
  *LoggerLogsAsynchronously* carries the first three over to the logger of the process
  (*LoggerAssertionsNeverFail*, *LoggerKeepsOrder*).
* `MyCacheProofs`. *TypeCorrect*, *CachesStayConsistent* (moving, pushing and
  evicting keep list and map in agreement; the lemmas are about `RemoveAt`,
  `SubSeq` and injectivity) and *NothingIsLost*. Their conjunction is inductive.
  *ReplicasAgree* compares both replicas with `CacheOf`, a recursive function of
  the nodes written. That this recursion has a solution, and one only
  (`Determined(written)`), would be an induction over the sequence; it is proved as
  part of the invariant instead, one node per write. `CatchingUp` says how far
  the spare copy is behind at every step of the two loops over `_docker`.
* `TimerQueueProofs`, for any timers, intervals and settings of the clock.
  *TypeCorrect*, together with `Clocks` (no clock shows more than was `seen`, and `batch` holds what
  was due `now`). *TimerfdIsArmedInTime*: `ArmedInTime` speaks of the moments
  when the loop waits; it is inductive with `TimeZero`, that a timer of time 0 which is left in
  the queue during `handleRead` was added by a timer of the same round,
  which armed the timerfd. *QueueImplementsService*: each action is an `AddTimer`, a
  `Call`, a `Later` or a stutter of `TimerService`, from `OnePlace`: a timer is in
  one of the queue, `expired`, what was called in this round and the functors that wait, and
  there once.
* `BufferProofs`, for any sizes of the vector and of `extrabuf`, any bytes.
  *TypeCorrect*, *MemoryStaysBounded* and *BufferImplementsQueue*. Each operation has
  a lemma about the buffer it returns (`MovedToFront` and `Grown` for the two branches of
  `makeSpace`, `PutIs`, `ReceivedIs`, ...): the bytes that can be read then (`Contents`), and that the vector is as long
  as before or in proportion to them. The bound rests on the second: `makeSpace`
  grows a vector only when fewer bytes were read from its front than are asked for now,
  so one that grew is, but for `kCheapPrepend`, at most twice what it is to hold; it
  then stays as it is until it grows again. `SpaceIsSound` follows on the way: the assertions of `makeSpace` do not fail.
* `OfflineProofs`, about the tree of an XML file. `IsTree` says of every pointer that the one it answers to agrees:
  a first child has no previous sibling, a next sibling has this one as its
  previous, and both have the same parent. *UnlinkKeepsTree*, *InsertEndChildKeepsTree*,
  *InsertFirstChildKeepsTree*, *InsertAfterChildKeepsTree* and *FreedKeepsTree*: the
  three insertions reduce to one lemma about putting a node between two neighbours.
  *DocumentStaysSound*: a document of any size, loaded from any
  files, cloned, edited and cleared in any order, keeps `TreeIsSound`. The invariant
  adds what the recursions leave open while they run: that the elements on the stack of
  `ParseDeep` are unlinked and different (`OpenSound`), that each copy of a `DeepClone`
  is in no list yet and the child to clone next still is in one (`CloningSound`),
  that a document is cleared only when it was read without an error (`StageSound`),
  and that the nodes of `dying` are in use and in no list (`DyingSound`). The nodes a client asks for must be nodes (`AreItems`). The
  run's steps on the document are the same `Turn`, `Edit` and `LoadAnother`.
* `OfflineProofs`, about `SearchIndex`, for any pages, any words and any queries
  (`IndexSpec(given, asked)`). One hypothesis is needed, `Extracted(given)`: copies
  of a page hash alike. `buildU64()` reads nothing but the content, and the run, in which
  the words of a page are hashed in each of the three ways, finds that copies in a feed
  are removed; its other libraries are `Extracted` (`LibrariesAssumption`).

  `FilesOf`, `Unique`, `Decimal` and `Summary` are recursive functions of what they
  are given, and in TLA+ such a function is one of those that satisfy its equation, if there is one.
  That there is one (`Recursion`, `Iteration`) is shown without the induction theorems:
  among the numbers for which there were none would be a least (`LeastNat`). Its
  values are then found one after the other, in the same way (`StepByStep`).

  *CopiesAreRemoved* is `RedundancyRemoved`. In an order by simhash the pages of one
  simhash are neighbours (`OneFingerprint`), however `sort()` orders them: so between a page
  that is kept and a copy of it `unique()` sees only pages that it removes (`UniqueKeeps`).

  *AnswersFitTheLibrary* is `AnswersAreExact`. Its invariant, `Searchable`, says what each
  function has left for the next: the index is that of the pages, the files are those of the
  pages and the index, and what is loaded is what was stored (`Loaded`). Three arguments
  lead from one to the next. The fields of a page are found again by their marks
  (`FieldsFound`): a mark begins with `<`, ends with `>` and has letters between, so
  none lies across the border between a field and what `getDoct` writes around it
  (`UnmarkedJoined`), and the first that is found is the one that was written. The text of a page
  stands where the file of offsets says (`PageIsReadBack`), because the files are
  written together, page by page. A line of the index is read up to the first weight that
  is no number (`LineIsReadBack`). What `doQuery` then intersects, cuts off and quotes
  keeps to the pages that are `Listed`, and a block that is quoted is a part of a part of the
  content (`SummaryQuotes`).

* `OfflineProofs`, about `Segmentation`. *PagesAreCutBest* is `SegmentationIsBest`, for any
  dictionary, any model and any page. It is a theorem about every state, not about a
  specification: what it says of a page depends on nothing that was done before.
  `SoundAssumption` asks of a dictionary that a unit stands at its own word and that no word is longer than
  `MAX_WORD_LENGTH`, and of a model that its numbers are logarithms of probabilities. `PageIsLight`
  asks that the content is bytes and that so many runes, each by itself, weigh more than the
  impossible: with the code's `MIN_DOUBLE`, -3.14e100, a page would have to be of some
  10^98 bytes for them not to; with the model's -1000 it is a condition, which holds of texts
  of up to 100 runes in the run (`LightAssumption`). Weights are exact here; what the code
  rounds is not part of the claim.

  *HeaviestIsCut*, `MPSegment`: going from the last rune to the first, `CalcDP` notes at every place
  a word after which the rest weighs most (`DagsAreHeaviest`); a division into words that
  begins at a place then weighs no more than what is noted there (`DivisionIsLighter`, along the
  words of the division), and the cut that takes the noted words weighs just that (`DagsCut`).
  *LikeliestIsFound*, `HMMSegment`: no sequence of tags weighs more at a place than the cell
  of its tag (`TagsAreBelow`), and the way back weighs what its cells do (`WayIsExact`), as long as the
  impossible is not reached: beside it other terms vanish, so that `+` is only then associative
  (`PlusAssociates`). That is why the theorem, like the property, speaks of the sequences that the model allows.
  *MixCutIsWhole*: what `MPSegment`, `HMMSegment` and `MixSegment` cut says together what was cut; a cut
  is a recursion from place to place (`Cuts`), of which there is one (`CutExists`, `CutIsUnique`).
  *FullCutListsAll*: every word of the dictionary is listed when it is visited, and stays
  listed. `QuerySegment` lists what `MixSegment` cuts (`QueryCutListsAll`). *SentencesAreCutBest* puts
  these together for a sentence: what is decoded of it are runes, no more than it has bytes
  (`RunesAreDecoded`), and the filter divides them into ranges, none of them empty (`RangesAreTyped`).

`NothingLost` and `QuitNotSleptThrough` of `EventLoop` and `NothingLost` and
`StopWakesAll` of `ThreadPool` are proved and not part of a run: the runs check
the end-to-end `ImplementsExecutor`, `QuitStops` and `StopReturns`.

Only model-checked:

* all liveness properties: fairness and `ENABLED` are out of the prover's reach;
* `WhatIsSavedIsRead` and `PagesOfTheFile`: they say what the parser and the printer of
  XML compute together for every text, in recursions over a tree that grows meanwhile;
* that the files of the dictionaries make a segmenter as `SoundAssumption` has it, and
  that the content of a page is bytes (`PageIsLight`): TLC evaluates the one, and in the run
  the other follows from `PagesOfTheFile`;
* that `SearchEngine` makes pages whose copies hash alike: it uses `Keywords`, which
  reaches `Bitwise`, about which nothing can be proved here;
* `NoAssertFails`, `RemovalStages` and `CleanDestruction` with workers that use
  connections, where they do not hold in general.

## 5. Not modelled

* Sockets and addresses: wrappers of system calls; their effects are external to
  `TcpServer`. The `poll(2)` variant of the poller and `BlockingQueue` are unused.
* The text of log lines and timestamps; the buffer of stdio between the log and
  its file (`FileUtil.cc:46`), whose content `abort()` loses: `disk` holds the lines that
  were given to stdio. The clock that names log files does not go back.
* The size of the array into which `loadLibrary` reads a page without a check
  (`WordQuery.cc:49,55`): a page of the model has a few bytes, and one of more than
  102400 is not followed.
* `Configuration` as a file of keys and values (read once at start-up; only its list
  of stop words is modelled).
* The third-party JSON library, which formats an answer and decides nothing.
* Of tinyxml2: conversions of values to numbers, visitors and handles, an `XMLPrinter`
  without a document, and `DeepCopy` between documents.
* Of cppjieba: tags of words, TextRank, and utilities that no program calls (`Md5`,
  most of `StringUtil`).
* `Cache::writeToFile` and `readFromFile`: the text of the cached answers.
* Floating-point weights beyond 0, positive and not a number, and the ranking by
  them, which `SimilarityCompare` would not make an order of anyway.
* `jieba.dict.utf8` and `idf.utf8` are not in the repository: the dictionaries of the run
  are small ones in their format, with the line ends of those that are.

## 6. Plan

The order is that of importance for the running server; all of it is done.

1. `EventLoop` with `TaskExecutor`: everything else relies on it. Proofs.
2. `ThreadPool`. Proofs.
3. `TcpServer` with `ConnectionContract`, on top of 1 and 2. Proofs.
4. `AsyncLogging`. Proofs.
5. `MyCache`. Proofs.
6. `TimerQueue` with `TimerService`. Proofs.
7. `Buffer` with `ByteQueue`. Proofs.
8. `SearchIndex`: the offline tool, the files and the selection of pages. Proofs.
9. `EventLoopThread`, `Server`, `Logger`: what surrounds 1, 2 and 4. Proofs.
10. The XML library, from bytes to the tree and back. Proofs about the tree.
11. Segmentation, keywords, simhash, `Weblib`; `SearchEngine` composes them with 8.
    Proofs about the segmenters.
12. Theorems about the composition: `TcpServer`, `AnswersMatch` of `Server`, the order of lines
    and the files of the logger, the replicas of the cache, `TimerQueue`, `Buffer`, `SearchIndex`,
    `Segmentation`.

As modules are added, the weaker of two properties that say similar things gives
way to a deeper one.
