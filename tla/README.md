# Verification of InfinityLabs

InfinityLabs is a collection of systems built in C, C++ and JavaScript: a plug-in framework
(thread pool, scheduler, reactor, dispatcher, logger), a process watchdog, a task scheduler,
data structures, allocators, exercises in concurrency, and a bank server with a chat assistant.
This directory holds TLA+ models of those parts, the TLC runs that check them on small
instances, and TLAPS proofs of what matters most. `PROJECT.json` is the index: components,
runs, mutants, the map from definitions to source lines, findings, hazards and theorems.

## 1. Inventory

| Component | State | Operations | Talks to | What is hard | What makes it correct |
|---|---|---|---|---|---|
| Thread pool (`framework/src/thread_pool.cpp`) | task queue, number of threads, pause flag, pause semaphore, threads to join | Add, Run, Pause, SetNumOfThreads, Stop; worker loop | waitable queue of priorities | pausing and stopping are entries of the task queue; permits must balance over any sequence of calls | no permit and no thread is lost, Pause is a barrier, a shrink drains, calls return |
| Waitable queue (`inc/waitablequeue.hpp`) | queue, mutex, condition variable | push, pop, timed pop | thread pool, logger | one notify per push, spurious wake-ups, a time-out racing a notification | no lost wake-up; it is an atomic blocking queue |
| Scheduler and async injection (`src/scheduler.cpp`, `src/async_injection.cpp`) | queue of times, one one-shot timer; objects that delete themselves | Add, TimerCallback; construct, Execute, reschedule | POSIX timer threads | callbacks overlap with each other and with Add while the mutex is released | the timer is never lost, no use after free, no object twice |
| Dispatcher (`inc/dispatcher.hpp`) | set of callbacks, each callback's dispatcher | Subscribe, UnSubscribe, Broadcast, both destructors | directory monitor, plug-ins | callbacks that leave or die while a copy of the set is walked | the two ends know of each other, nobody destroyed is called |
| Reactor, input mediator, framework, plug-ins (`src/reactor.cpp`, `src/input_mediator.cpp`, `src/framework.cpp`, `src/dir_monitor.cpp`, `src/dll_loader.cpp`, `inc/factory.hpp`) | handlers, running flag; task queue of the pool; watch, listener thread; creators | Run, Stop, InvokeCallback; ListeningLoop, LoadCallback; destruction | select, inotify, dlopen, the pool | Stop, Run and the destructor against the reactor's loop, the listener and the workers | inputs and plug-ins are handled once, Run and the destructor return |
| Handleton, singleton, logger | instance pointer, destroyed flag; message queue and thread | GetInstance, Destroy; Log | all of the framework | double-checked creation, destruction at exit | one instance, none used after it is freed, no message lost |
| Watchdog (`utils/src`) | two processes with counter, stop flag and schedule; named semaphores; pending signals | WDStart, WDStop, heartbeat, check, revive | signals, semaphores, fork and exec | crashes of either side at any moment, merged signals, races of the stop flag | nobody healthy is killed, the dead come back, stop ends both |
| Task scheduler (`projects/sched`) | heap of tasks, stop flag | SchedAdd, SchedRemove, SchedClear, SchedStop, SchedRun | heap, uid | tasks that call the scheduler that is executing them | one owner per task, earliest first, stop returns |
| Heap, priority queue, vector (`ds/src`) | array, capacity | push, pop, remove, clear | task scheduler | growing and shrinking at the borders, removal from the middle | heap order, buffer large enough, a priority queue |
| Fixed-size queue (`producer_consumer/fsq.c`) | list, two semaphores, two locks | FSQEnqueue, FSQDequeue | singly linked list, ex5 | two locks on one list, addresses that are used again | list intact, first in first out, capacity kept |
| Lists, queue, stack, circular buffer (`ds/src`) | nodes with links, arrays with wrap-around | insert, remove, splice, split, append, iterate; read, write, push, pop | most programs | border cases of pointer surgery, two lists in one memory, wrap in the middle of a write | each is the sequence it stands for |
| Trees, hash table (`ds/src`) | nodes with parents, heights, buckets | insert, remove, find, iterate, traverse | | removal with two children, rotations, move to the front | each is the set of its keys, in order |
| Bit arrays, strings, memory, shared pointer, counted string (`ds/src`, `cpp`, `c`) | words, bytes, counts | set, shift, rotate; copy, compare, search; copy, assign, write | | widths, overlap, aliasing, assignment to oneself | bits are sets, functions meet their definitions, counts are exact |
| Allocators (`projects/vsa`, `projects/fsa`), dhcp | headers and links inside of the pool; address trie | allocate, free, count | | sequences of calls in any order, users who write into their blocks, a full network | no overlap, everything given back is had again, no address twice |
| Calculator, sorting, knight's tour, recursion (`projects`) | two stacks; arrays; board and bit array | evaluate, sort, search, tour | stack, bit array | precedence and brackets, ties and short arrays, backtracking | what the reference definition gives |
| Producer/consumer programs, ping-pong, threaded sorts, uid | lists, buffers, semaphores, flags; segments; counter | threads' loops, handlers, MTCountingSort, MTQuickSort, UIDCreate | pthread, signals | every interleaving; starts and wake-ups in any order | everything sent is read once, threads end, one ball, arrays sorted, identifiers differ |
| Bank: transfer (`bank-project/server/src/services/transaction.service.js`) | balances, id counter, ledger | executeTransfer | MongoDB | overlapping transactions, failing calls, crash, lost answers | the ledger explains the balances; each transfer is atomic |
| Bank: accounts and login (`user.service.js`, `auth.controller.js`) | user document, one-time code, attempts | signup, verify, resend, login, check code | MongoDB, bcrypt, e-mail | documents read before an await and written after it | misses are counted, codes die, accounts stay active |
| Bank: chat (`socket.handler.js`, `openaiFunctionCall.service.js`) | sockets, registry, histories, rate limits | connect, message, tool calls, logout | OpenAI, transfers | messages and logouts between awaits; side-by-side tool calls | registry exact, answers complete and sent |
| Bank: client, routes; shell, sockets, ext2; other C, C++ and quiz exercises | rendering, request plumbing, system calls, language practice | | | | not modelled |

## 2. Modules

| Module | Models | Notes |
|---|---|---|
| `ThreadPool` | thread pool | a step is one critical section of the task queue, of `m_threads_to_remove` or of `m_sem_pause` |
| `WaitableQueue`, `BlockingQueue` | waitable queue and what it promises | `BlockingQueue` is the abstract specification |
| `Scheduler`, `AsyncInjection` | timer scheduler and the objects on it | `AsyncInjection` extends and composes `Scheduler` |
| `Watchdog` | client process, its monitor thread, watchdog process | signals are sets (equal pending signals merge), semaphores survive a crash |
| `Ledger`, `Transfer` | atomic ledger and executeTransfer on MongoDB transactions | `Ledger` is the abstract specification |
| `Auth` | one account: signup, verification, one-time codes | a step lies between two awaits |
| `Chat` | sockets of one user, message handler, tool-call loop | a step lies between two awaits; the language model is any environment |
| `RateLimiter` | RateLimiter.allow | |
| `HeapOps`, `Heap`, `PriorityQueue` | the heap's algorithms, the heap on its vector, what it promises | `HeapOps` is also used by `Sched` |
| `Sched` | task scheduler | times are kept relative to now |
| `Framework` | framework, mediator with its reactor, directory monitor with its listener, loader, factory | the pool is a queue of tasks here; what a select or a read returns is any environment |
| `Observers` | dispatcher and callbacks; handleton; logger | three small state machines in one module |
| `FSQ` | fixed-size queue on the linked list, with the threads of ex5 | nodes are addresses that malloc may hand out again; `chain` remembers them in the order in which they were linked, so that properties need not walk the memory |
| `Exchanges` | ex1 to ex4, ex6, ping-pong, uid | a step is what a thread does while it holds the mutex or between two signals |
| `MTSort` | threaded counting sort and quicksort, the dictionary's words | a thread's own segment is sorted or counted in one step, since nobody else looks at it |
| `LinkedLists` | doubly linked and sorted list; singly linked list and queue | nodes are addresses in one memory, links are fields |
| `SearchTrees` | binary search tree with parents; AVL tree | an AVL subtree is a value, since the functions return what replaces it |
| `HashTable`, `Buffers` | hash table; circular buffer, stack, bit_arr.c and bitarray.hpp | |
| `Allocators`, `DHCP` | vsa and fsa in their pools; address server on its trie | |
| `Strings`, `RefCounts` | string, memory and recursive functions; SharedPtr and RCString | |
| `Sorting`, `Calculator`, `KnightTour` | sequential sorts and searches; the calculator's state machine; the search for a tour | checked against reference definitions stated in the same module |
| `MC...` | instances for TLC | model values, symmetry, and the bundles described below |
| `ThreadPoolProofs`, `TransferProofs`, `WatchdogProofs` | TLAPS proofs about one module | |
| `FrameworkProofs`, `BankProofs`, `ExercisesProofs` | TLAPS proofs about `WaitableQueue`, `Framework`, `Observers`, the bundle `MCFramework`, and `AsyncInjection` on `Scheduler`; `Auth`, `Chat`, `RateLimiter`; `FSQ` and `Exchanges` | |
| `HeapOpsProofs`, `HeapProofs` | TLAPS proofs about the heap's algorithms; about `Sched` and `Heap`, which use them | `HeapProofs` instantiates `HeapOpsProofs` with the order of tasks and with that of items |

How state and actions correspond: a variable has the name of the field it models where TLA+
allows it (`m_sem_pause`, `stop_flag`, `otpAttempts`, `enqueue_sem`); variables that exist only
to state properties (what was inserted, which answers were given) are marked so in the comment
of their declaration. An action has the name of the function; a function with several points at
which others can observe it is several actions, in order, with a `pc`. The line ranges are in
the map of `PROJECT.json`.

Definitions whose names begin with `Mut` are deliberately wrong variants of the definition that
follows them. Replacing the definition by its variant must violate the property the variant is
listed with; that shows that the property can fail.

## 3. Runs

### Passing runs

| Run | Bounds | What it shows |
|---|---|---|
| `ThreadPool` | 3 workers, 2 tasks of different priority, `MaxApples` 6 | permits, pause entries and waiting workers balance; thread objects and stop entries account for each other; Pause is a barrier; a shrink drains the queue; each controller call returns, Stop and a shrink once tasks stop coming; each task is executed unless the pool is paused or empty or rivals keep coming. A task may be added again when it has been executed, so endless arrivals occur |
| `Framework` | queue: 3 consumers, 2 values, `MaxLen` 3; framework: 2 descriptors, 2 keys, `MaxInputs` 2 without plug-ins, 2 plug-ins with the destructor and `MaxEarly` 1 inputs; 2 dispatchers, 2 callbacks, `MaxNest` 2; 2 threads at the handleton; 2 threads and `MaxLogs` 1 at the logger | while a consumer sleeps, each item has one on its way, and the queue implements `BlockingQueue`, fairness included; every input is at one place from its descriptor to its command and every plug-in is loaded once and in order, dispatchers and callbacks agree, one instance, complete log (`FrameworkHolds`); the destructor and a stopped Run return (`ThreadsReturn`) |
| `AsyncInjection` | 3 objects of different intervals, 3 callbacks | the timer is never lost, no use after free, nothing scheduled twice, a living object is called again once no more objects are created. A deleted object may be created anew, so endless arrivals occur |
| `Watchdog` | `Tolerance` 3, `Skew` 1, `MaxFaults` 3 | no healthy process is killed by its peer's check; a client that dies under a monitoring watchdog comes back; WDStop returns if its flag is set while the heartbeat task is scheduled; the watchdog ends |
| `Transfer` | 3 users, 3 requests, balance 2, amounts 0, 2, 3, `MaxFaults` 1 | the ledger explains the balances, answers match it, `Ledger` is implemented, also by transfers of a user to himself |
| `Bank` | 3 requests, 2 attempts, `MaxCodes` 2, `MaxTokens` 2; 2 sockets, 2 messages, 1 tool round; window 3, maximum 3, `MaxNow` 9 | misses counted, an accepted code is dead for later requests, accounts stay active; registry exact, answers complete and remembered, every message is answered; the limiter lets at most twice its maximum through in any span of a window's length, and refuses only those who have had the maximum within such a span |
| `Sched` | 3 tasks, intervals 0 to 2 | one owner per task, earliest first, a stop ends SchedRun, no task starves |
| `Exercises` | queue: 2 producers and 2 consumers of 2 items, capacity 2, 5 nodes, `MaxFaults` 1; other programs: 2 producers, 2 consumers, 2 messages, 1 slot; sorts: arrays up to 7, up to 3 threads, `MTFaults` 1; identifiers: 2 processes, `UIDMax` 3 | until a malloc fails: list intact, first in first out; always: permits are neither lost nor made; in the other programs what is sent is read once and in order, there is one ball and no identifier is given twice (`ExchangesHold`), the threads of ex1, ex4 and ex6 end without spurious wake-ups and arrays are sorted (`ProgramsEnd`) |
| `Libraries` | heap: 4 keys, 2 items of each, initial capacity 2; lists of 4 or 5 nodes; trees of 6 and 8 keys; 3 buckets and 5 keys; buffers of 0 and 3 bytes; pools of up to 20 bytes with words of 2; a network of 8 addresses; arrays up to 4 elements; expressions up to `MaxText` 5 characters of 12 and up to `MaxLong` 9 of the six `LongChars`, which has `(n+n)*n` and `n^(n*n)`; boards up to 5 by 5; words of 4 bits, bit arrays of 3, 4 and 6; strings up to 3 characters; 3 handles and 3 objects | each library holds what its calls say (`StructuresHold`, `MemoryHolds`), the algorithms give what their references give (`AlgorithmsAgree`), the heap implements `PriorityQueue` |

Distinct states and, for the longest, the time with four workers: `Transfer` 1,312,778 (77 s), `Exercises` 579,969,
`Framework` 273,575, `Libraries` 225,373 (45 s), `Watchdog` 25,667.

`MCFramework`, `MCBank`, `MCExercises` and `MCLibraries` hold several parts side by side that share no
state: the rate limiter's answer, for instance, is taken nondeterministically in `Chat`, and the pool that
`Framework` feeds is `ThreadPool`'s subject. The variable `focus`, chosen initially, lets a behaviour
exercise one of them instead of the product of all, and fairness is assumed for the part in focus. The
framework has two focuses, one with more inputs and one with plug-ins and the destructor. A
property of such a run is the conjunction of the named properties of its parts; each conjunct has a
mutant of its own where its part can be broken in its own way.

Why the bounds are enough: every instance has one more actor than the shortest interaction the
property is about (two that collide and one that observes or collides again), one more item than
the limit it is about (capacity, window, heap level), and room for each counter to reach its
limit and start again. A library gets the smallest structure in which each branch of its pointer
surgery is taken with a neighbour on both sides: a removal with two children and a successor that is
not the child, both double rotations, a removal in an AVL tree deep enough for PopMin to unbalance it,
a wrap in the middle of a write, a run of three free blocks, a word boundary inside a bit array and
inside a memory move. `MaxApples`, `MaxLate`, `MaxLen`, `MaxFaults`, `MaxNow`, `MaxCodes`, `MaxTokens`,
`MaxInputs`, `MaxEarly`, `MaxNest`, `MaxLogs`, `UIDMax`, `MTFaults`, `MaxText`, `MaxLong`, `SortMaxLen` and `MTMaxLen` bound what is unbounded
in the code; they appear in guards and initial states only. The proofs of section 5 have no such bounds
on the number of actors. `WORD_SIZE`, `CHAR_BIT`, `ByteCount`, `IntBits`, `INT_BYTES` and `SIZE_MAX` are
widths of the platform, chosen small so that overflow and word boundaries are met.

### Runs that show a disagreement

| Run | Who disagrees |
|---|---|
| `WatchdogJoin` | `WDStop` can wait for ever: its flag overwrites the one the echoed signal has set |
| `SchedRemove` | `SchedRemove` does not remove the task asked for: heap and scheduler disagree on what a match is. In the trace that task is alone in the heap, and the answer is that there is none; when there are others it destroys one of those |
| `DHCPFull` | a client is told that no address is left while addresses are free: the search for another one takes a subtree that does not exist yet for a full one |

The findings in `PROJECT.json` quote the sentences and name the lines.

Further places where the code and its comments part, met while modelling. The models contain these
behaviours, and the properties are stated so as to hold in spite of them:
- `ThreadPool`: `Stop()` does not pause the pool before it returns, as its header says;
- `Watchdog`: `WDStart` returns success without a handshake when the semaphores are not there yet. With a
  permit left over from a dead process a new watchdog can beat before the client has its handlers, and the
  client dies of the signal (`EarlySignal`); this is a death by the default action, not one by the check
  that `HealthyNotKilled` is about, and `ClientRevived` covers it as a death;
- `Transfer`: a transfer whose commit answer is lost is reported as an error and keeps the money
  moved, so `AnswersMatchLedger` promises nothing of such answers; the test that sender and receiver differ
  lowers the letters and does not trim (transaction.service.js:98), while the query trims (user.model.js:32),
  so an address typed with blanks gets a user a transfer to himself;
- `Auth`: two overlapping checks can both accept a one-time code, so `CodeDies` is about requests that
  begin after the acceptance;
- `Chat`: a socket that is being authenticated during logout is opened afterwards; a transfer is not
  announced when a later model call fails, so `AnswersComplete` is about normal answers;
- `RateLimiter`: more than the maximum passes within a window that straddles a reset;
- `FSQ`: a node that is freed and allocated again makes a successful insertion look failed, and the
  permit is given back; a failed malloc is taken for a success and a consumer enters an empty list.
  The first depends on the allocator giving a block that one thread freed to another thread at
  once, which C permits; allocators with caches per thread make it rare.
- `Framework`: `Stop` before `Run` is lost; a Run that ended for want of handlers, or by the exception of a
  failed select, leaves `m_is_running` set, and the next one throws; an input whose key nobody registered
  ends the process with the exception of a worker (`crashed`); the listener may broadcast once more to the
  callback that the destructor has destroyed, which `NothingTwice` bounds by one;
- `Observers`: a callback destroyed by an earlier callback of the same loop is still notified, since the
  loop walks a copy. A callback has one `m_dispatcher`: subscribed to a second dispatcher, unsubscribed from
  one that is not its own, or used with a dispatcher that is being destroyed, it is left with a dangling pointer or
  a dispatcher that does not forget it. The code does not prevent this and neither does the model: such
  callbacks are in `mixed`, and `BothEndsAgree` is about the others. A thread that has passed the test of
  `s_isDestroyed` can create a second instance during exit. A message pushed while the logger is being
  destroyed may never be written;
- `Exchanges`: consumers of ex2 and ex3 may wait for ever after the last message; in ping-pong a signal
  between the test of the flag and `pause()` leaves both players waiting; ex4's buffer has as many
  bytes as there are ints to send;
- `MTSort`: with fewer elements than threads, which its asserts allow, MTQuickSort merges for ever, and nothing
  is claimed of it; when a thread cannot be created the
  data of running threads is freed; a failed malloc in Merge leaves the array unsorted and is not reported;
- `Heap`: pq.h:79-82 and the predicate of pq_test.c:58-65 have PQErase remove an item for which is_match is not
  0, while HeapRemove, to which it goes unchanged, removes one for which it is 0, as heap.h says; a peek or pop
  of an empty queue, for which pq.h:43-56 and pq_test.c:131,174 expect NULL and heap.h:71 nothing, fails an
  assert, and without asserts reads memory that holds no item. `PriorityQueue` states what the code does in both
  cases;
- `LinkedLists`: QueueEnqueue returns 1, which queue.c:63 calls FAIL, whether or not malloc failed, so no
  property is about its status; SLLAppend on an empty destination returns the source and leaves the
  destination empty, although sll.h:195 says that it returns the destination;
- `SearchTrees`: PopMin of the AVL tree does not rebalance, so heights may differ by two, and a later removal
  of a key that is not there rotates the tree, although avl.h:74 says it is unchanged; `KeysInOrder` has that
  sentence for trees that are balanced;
- `Allocators`: VSAAlloc fails for exactly the chunk that VSALargestChunkAvailable reports, where vsa.h:43-45,71
  lets one expect it, so `BlocksApart` is about smaller and larger requests; FSAInit on a pool that is not a
  whole number of blocks lets the last block reach past the pool;
- `DHCP`: a request for an occupied address takes two addresses; DHCPCountFree subtracts the reserved ones
  twice and so reports 3 fewer than the addresses that dhcp.h:116-118 has it count, and `LeasesHold` says that
  it never reports too many; `has_free_in_subtree` never becomes false; a path that malloc left half-way is not cleaned up;
- `Sorting`: QuickSort leaves two elements as they are; binary search of an element smaller than all wraps its
  index; RecMergeSort reports an error for fewer than two elements;
- `Calculator`: a sign before a bracket is applied to the first number inside it;
- `KnightTour`: a tour completed at the moment time runs out is reported as a time-out;
- `Strings`: StrNCpy writes one byte more than its size; the recursive Fibonacci overflows before `MAX_FIB`;
- `RefCounts`: operator= of SharedPtr releases the old object before it reads the other handle, which is an error
  when that handle lies inside of the old object; a reference from RCString's operator[] kept across a
  copy changes both strings. The models assume neither.

## 4. Fairness

No safety property depends on fairness. The runs with liveness properties assume weak fairness of:
- `ThreadPool`: each worker and the controller inside a call: threads that can run are run. Callers of Add
  are free: `OperationsReturn` and `TasksExecuted` name the arrivals that must end (`NoRivals`, since the queue
  hands out higher priorities first);
- `WaitableQueue`: a woken consumer gets the mutex, a timed wait times out;
- `AsyncInjection`: time passes, the timer expires, callback threads run. `CalledAgain` is about behaviours in
  which objects are no longer created, since Add points the one timer at the newest entry whatever it was armed for;
- `Watchdog`: each process, pending signals and the periodic tasks; faults are never fair, and the
  properties speak of runs in which they have ended;
- `Framework`: the destructor, the reactor, the listener and the workers run when they can, unless the
  process has crashed; inputs, files and callers of Stop and Run are not fair;
- `Chat`: calls of the model and of the tools return, in any way: both clients have time-outs;
- `Sched`: SchedRun goes on, time passes while it sleeps, op_funcs return.

Nothing is assumed of callers, users or clients.

## 5. Proofs

All proofs are for every value of the constants, under the named assumptions of the modules
(finite sets of workers or consumers, natural bounds, a `None` that is no value; for `Exchanges` as many
producers as consumers and one slot in the buffer, as its programs are written; for `Heap` at least one
item of each key). Each inductive invariant was checked by TLC on the run's instance before it was proved.

- `ThreadPoolProofs`: types, `PermitsBalance`, `ThreadsAccounted`, the barrier `PauseHolds` and `ShrinkDrains`.
  The inductive invariant adds `CtlOK` (what the counter of a controller operation can be at each
  of its steps) and `RunningOK` (who may hold a task). Without `CtlOK` the two balances cannot be
  re-established at the end of a resize, where `m_num_threads` jumps. Two lemmas count workers:
  a step that moves one worker changes each count by at most one. `PauseHolds` follows from
  `PermitsBalance`: a paused pool with all pause entries taken has every worker in the barrier.
  `ShrinkDrains` rests on `StopIsLast` (a stop entry is only taken from a queue without tasks) and on
  `DrainInv`: while a task that was there before the resize is still queued, all stop entries of the resize are.
- `WatchdogProofs`: `HealthyNotKilled`, whatever crashes and in whatever order, provided the tolerance is
  at least twice the skew of the two schedules. The condition is sharp: with a tolerance of 1 and a skew
  of 1, TLC finds a healthy process killed. The invariant says what the semaphores hold at each point of a
  handshake, also after crashes that leave permits behind (`HandshakeKnown`), what a client between fork and
  its thread can find (`ForkedKnown`, `Unposted`), that a side that has seen the
  stop flag 2 has been echoed by the other or has overwritten it (`FlagsKnown`), and that a counter
  that no pending signal will reset is at most the skew plus what the side is ahead
  (`CountersKnown`). A watchdog that boots resets `ahead`, so the last needs a tighter bound at that point.
- `TransferProofs`: types (no balance goes negative), `ImplementsLedger`, `LedgerExplainsBalances` and
  `AnswersMatchLedger`. The invariant says that open transactions write disjoint documents, that what a
  transaction read for a document it has written is still current, and that rows are numbered 1 to the
  counter. The sum of a user's rows is the size of a set of units of money, so that a commit adds a
  disjoint set, and no induction is needed.
- `BankProofs`: `MissesCounted`, `CodeDies` and `StaysActive` of `Auth`; `RegistryExact` and
  `AnswersComplete` of `Chat`; `LimitHolds` of `RateLimiter`. For `Auth` the properties are not inductive: what
  bounds the misses is misses counted and misses under way against the stored code together
  (`MissesBounded`), and what bounds the logins with a code is logins done and logins under way together
  (`LoginsBounded`). For `Chat` the invariant says that what a message in flight has seen of a history
  holds only messages that are over (`HistoriesSettled`), that without an overlap it has seen all of it
  (`NothingForgotten`), and at which points tool calls can still be running (`CallsKnown`). For
  `RateLimiter` the last `count` accepted messages are those of the current window, and a message and the
  one twice the maximum later are more than a window apart (`Windowed`, `Spread`). The lemma `LeastNat` (a
  nonempty set of numbers has a least element, from the library's well-foundedness) finds the first
  message of a span.
- `FrameworkProofs`: `NoLostWakeup` of the queue for any number of consumers and any length, and the safety
  part of `BlockingQueue`; the invariant is inductive as it stands given the types, and the work is in
  the cardinality of the set of woken consumers. `FrameworkHolds`, the bundle the `Framework` run checks,
  from one theorem per part: `BothEndsAgree`, `OneInstance` and `LogComplete` of `Observers` and
  `NothingTwice` of `Framework`. Loops over callbacks nest and each walks a
  copy, so `LoopsKnown` says for each of them where the members of its copy are subscribed while callbacks
  leave and die. `HandletonInv` says where a thread
  is in the double-checked creation and in the destruction. `TasksInv` counts the places an input is
  at between its arrival and its command; `MonitorInv` says what the listener can hold at each point
  of the destructor, without which the bound on late calls is not inductive. The lemma `TimesRemove`
  counts an element of a sequence before and after `RemoveAt`. For `AsyncInjection`: `TimerCoversQueue`,
  `OwnerAlive` and `ScheduledOnce`, proved together with types and `ExecutingOK`, since a re-arming callback
  needs to know that its task is nobody else's.
- `HeapOpsProofs`: `HeapifyUp` and `HeapifyDown` restore the heap order and lose nothing, so pushing, popping
  and removing at any index keep a heap, and the root is a greatest element. The loops are recursive
  functions. Induction over their turns goes through the least counterexample: a nonempty set of
  numbers has a least element (`LeastNumber`, from the library's well-foundedness), so what holds at 0
  and is passed on holds for all numbers (`AllNumbers`), and `Iteration` applies this to a loop whose turn keeps
  an invariant and lowers a measure. `UpLoop` and `DownLoop` are the two loop invariants: the heap order
  holds except between one element and its parent, or its children.
- `HeapProofs`: `OneOwner` and `EarliestFirst` of `Sched`, `BufferFits` and `ImplementsQueue` of `Heap`. For
  `Sched`, `SchedInv` says that the array is a heap without repetition, that a task is in it, running or destroyed and
  in one of them only, and where SchedRun is. `EarliestFirst` follows from the root being
  greatest in the reversed order of times. For `Heap`, `HeapInv` says that the vector is a heap that fits into its
  buffer; the buffer shrinks in turns while a clear pops, and no turn takes it below its size.
- `ExercisesProofs`: `PermitsConserved` and `ListIntact` of `FSQ`, for any number of producers, consumers and
  addresses. `PermitsConserved` counts the threads that are not idle. `ListIntact` is far from inductive:
  `ListInv` adds who holds which lock at which point (`LocksHeld`), what a producer knows of the node it
  is about to link and a consumer of the one it is about to free (`AddingKnown`, `FreeingKnown`), and
  `EnoughItems`: permits, consumers on their way to an item and producers that have linked one and not
  posted it are together fewer than the nodes. The last is what makes two locks on one list safe: a
  consumer that sees more than one item and leaves `write_lock` alone has at least two of them, because a
  list with one item and a `tail` that is not its dummy has a producer between link and post, whose item is
  not counted for the consumer. The lemmas `CountMoves` and `CountLoad` count the threads at a set of labels.
  `ExchangesHold` has one invariant per program. In ex1 the flag follows the buffer with a delay (`SpinInv`).
  In ex2 some consumer is awake while there is a message (`CondInv`). In ex3 the semaphore, the producers
  about to post and the consumers past it account for the list (`SemInv`), and no producer has sent more than its
  message (`SemSent`). In ex4 the one permit is in a
  semaphore or with one thread (`OnePermit`, `BufferInv`). In ex6 nobody waits after the broadcast
  (`BarrierInv`). The ball is with who is about to send it, in the flag of who has seen it, or on its way
  (`BallInv`). An identifier of the current second has a counter its process has passed (`UIDInv`). That all
  messages have arrived when nothing moves needs `SomeMessages`: different messages of a finite set are no
  more than the set has.

Only model-checked, and why:
- liveness, and `ProgramsEnd`, whose part `ThreadsEnd` is about what is enabled: the prover has neither
  fairness nor ENABLED. `ThreadsSort`, its other part, is about the result of recursive operators;
- `StructuresHold`, `MemoryHolds` and `AlgorithmsAgree`: `LinkedLists`, `SearchTrees`, `DHCP`,
  `Sorting`, `Calculator` and other libraries follow the recursion of their code in RECURSIVE operators,
  which the prover does not support. The heap shows the way out, loops as recursive functions; the
  trees would need functions over trees of any shape;
- the fairness part of `BlockingQueue`.

## 6. Not modelled

- The bank's web client, routes, middleware and e-mails: rendering, forms and request plumbing; what the
  server promises is in `Transfer`, `Auth` and `Chat`. Read-only queries and analytics change no state.
- Shell, ext2 reader, socket programs, memory mapping and thread demonstrations
  (`system_programming`): each is a thin wrapper around system calls, and a model would describe the kernel.
- The remaining C and C++ exercises and quizzes: single functions and language practice.
- Allocation failures except where a model says so. A failing `realloc` in `VectorReserve` frees
  the vector that the heap goes on using; nothing can be promised after it.
- A second WDStart in one process and WDStop after a failed WDStart.
- Data that no property tells apart: texts, e-mails, hashes, tool results, log lines, numeric values
  of expressions.
- MongoDB, the language model, POSIX timers and signals, inotify and dlopen are external and modelled by
  what the code relies on.
- `std::atomic` and mutexes are sequentially consistent here; the plain `bool m_is_running` of the reactor,
  which Stop writes from another thread, is read as if it were atomic.

## 7. What could come next

1. Proofs about the libraries without recursion: `CountsExact` of `RefCounts`, the circular buffer and the
   stack of `Buffers`.
2. The composition of `Framework` with `ThreadPool` in place of its queue of tasks.
3. A reactor whose handlers remove each other, as its interface allows and the framework does not use.
