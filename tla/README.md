# A TLA+ specification of lockfree_mpmc_queue

The repository is a header-only lock-free multi-producer multi-consumer queue
in C++, three classes built on it, and the programs that test and time them.
This directory specifies it in TLA+, checks the specification with TLC on small
instances and proves the main results with TLAPS for all instances.

## 1. The system

| Part | Source | State | Operations |
|---|---|---|---|
| entry, array | `src/mpmc_queue.h` 63-101, 157-240 | N entries, each a sequence word and a datum changed together | atomic load, compare-and-exchange |
| `mpmc_queue` | `src/mpmc_queue.h` 103-591 | `_write_index`, `_read_index`, `_array` | `push`, `pop` (with and without index), `push_keep_n`, `exchange`, `peek`, `pop_if`, `consume`, `empty`, `size`, constructor, destructor, `dump_state` |
| `shared_mpmc_queue` | `src/shared_mpmc_queue.h` | a file: header (signature, sizes, producer and consumer counts) and a queue at offset 4096 | create or attach, `get_producer`, `get_consumer`, counts |
| `mpmc_queue_pack` | `src/mpmc_queue_pack.h` | G queues, two counters; per consumer a queue index and a pop count | producer `push`, consumer `pop` |
| `pointer_mpmc_queue` | `src/pointer_mpmc_queue.h` | a queue of raw pointers | `push` and `pop` of owning pointers, destructor |
| harnesses | `src/src/*.h`, `src/src/*.cpp` | a state flag, active-producer and active-consumer counters, per-thread counts, spin-locked hashes | start barrier, run, drain, join |

**How they interact.** Threads, or processes through a shared mapping, share
one `mpmc_queue` and nothing else. There are no locks and no messages: every
interaction is an atomic access to an index or to an entry. An operation takes
effect in one compare-and-exchange on an entry; the index that leads to the
entry is advanced afterwards, by the same thread or by any other one that finds
it behind (and, in the lazy variants, only by others). A pack forwards each call
to one of its queues, a pointer queue to its queue, a shared queue to the queue
in the mapping. `pop_if` and `consume` call the user back in the middle of an
operation.

**What is hard.** The interleaving of the accesses of several threads; an index
or a sequence word that is out of date when it is used; the wrap-around of
both, at different moments; a thread that stops for ever between two accesses;
helping that must neither be missed nor done twice; results ("full", "empty")
that must have been true at some instant of the call. In the shared queue: two
processes creating it at once, attaching too early, dying in between. In the
pack: the rotation among queues and the meaning of "empty". In the harnesses:
the order in which consumers check the queue and the producers' counter.

**What makes each part correct.**

* `mpmc_queue`: it is a linearizable bounded FIFO queue; slots serve
  consecutive numbers; the indexes lag by at most one; a call returns wherever
  other threads have stopped; one producer and one consumer never retry;
  `push_keep_n` keeps the last N elements.
* `shared_mpmc_queue`: the queue is constructed once and before anyone uses
  it; what one process leaves in it the next finds, in order, and no element twice;
  the counters equal the number of live producers and consumers.
* `mpmc_queue_pack`: elements of one producer come out in order; "empty" is
  reported only if every queue was empty at some moment of the call; no queue
  starves.
* `pointer_mpmc_queue`: every object has one owner and is destroyed once.
* harnesses: nobody works before all have come; a consumer leaves only when
  nothing is left and nobody will push; the counts and hashes of both sides
  agree; all threads join.

## 2. Modules

| Module | What it is |
|---|---|
| `FifoQueue` | what the queue promises: a sequence, calls that take effect at one instant |
| `MpmcQueue` | the queue, one action per atomic access, and its properties |
| `QueueSize` | `size()`, an observer beside `MpmcQueue` |
| `PointerQueue` | `pointer_mpmc_queue`, over every access of `QueueSize` and `MpmcQueue` |
| `SharedQueue` | `shared_mpmc_queue` and the processes of `shared_q_test` |
| `QueuePack` | `mpmc_queue_pack` over G abstract queues |
| `HarnessQueue` | threads, shared atomics and the queue of the test and benchmark programs |
| `Bandwidth`, `PackBenchmark`, `CountedPrograms`, `HashTests` | the programs, each over `HarnessQueue` |
| `Harness` | their composition: a behaviour runs one of the programs |
| `MCMpmcQueue`, `MCPointerQueue`, `MCSharedQueue`, `MCQueuePack`, `MCHarness` | the small instances for TLC |
| `ModularArithmetic` | lemmas about division and remainders |
| `MpmcQueueProofs`, `MpmcQueueRefinement` | proofs: the queue is safe; it implements `FifoQueue` |
| `PointerQueueProofs` | proofs about `PointerQueue`, `QueueSize` and one producer with one consumer |
| `QueuePackProofs`, `SharedQueueProofs` | proofs about `QueuePack` and `SharedQueue` |
| `BandwidthProofs`, `HarnessProofs` | proofs about the programs |

`MpmcQueue` implements `FifoQueue`; `PointerQueue` is built on `MpmcQueue`
access by access. `SharedQueue` keeps the words of the queue's memory, which may be
met before they have been laid out. The other modules take the queue for what `FifoQueue`
promises, a bounded sequence, because their hazards lie outside the queue;
`HarnessQueue` keeps in addition that `empty()` may say no of an empty queue.

### 2.1 `MpmcQueue`

The state is that of the class: `write_index`, `read_index` and `array`, a
function from slots to entries `[seq, data]`. `index_type` arithmetic is modulo
the constant `R`, so the sequence word `2*i` loses the top bit of the index as it
does in the code. `pc[t]` names the next access of thread `t` and `reg[t]` holds
its local variables: the index it loaded and the data it loaded. `req[t]` and
`res[t]` are the arguments and the result of its call. `head` and `tail` are
history variables: the number of elements popped and pushed, not reduced.
`reg[t].base` is the unreduced number behind the loaded index. No guard reads a
history variable except the timing assumption below.

| `pc` | Code | Actions |
|---|---|---|
| `wr_load` | load of `_write_index` | `WrLoad` |
| `wr_seq` | `get_seq()` and the three comparisons | `WrReady`, `WrBehind`, `WrFull`, `KeepFull`, `WrMoved` |
| `wr_cas` | compare-and-exchange of the entry | `WrCas`, `WrCasFails` |
| `wr_adv`, `wr_help` | compare-and-exchange of `_write_index` | `WrAdv`, `WrHelp` |
| `rd_load` | load of `_read_index` | `RdLoad` |
| `rd_entry` | load of the entry and the comparisons | `RdReady`, `Refuse`, `Peek`, `RdBehind`, `RdEmpty`, `KeepEmpty`, `RdMoved`, `EmptyTest` |
| `rd_cas` | compare-and-exchange of the entry | `RdCas`, `RdCasFails` |
| `rd_adv`, `rd_help` | compare-and-exchange of `_read_index` | `RdAdv`, `RdHelp` |
| `callback` | the functor of `consume` | `Stop`, `Continue` |
| `exchange` | compare-and-exchange of a named entry | `Exchange`, `ExchangeFails` |

The comparisons are the pure operators `WriteView`, `ReadView` and `PeekView`.
Comparisons of local values are made in the same step as the load before them.
The overloads with and without an index differ only in what they store; `pop(d)`
loads the index before its loop and again at the end of each round, which is the
same sequence of accesses. `push_keep_n` runs `push`, and on "full" the inner
`pop(lost)`, then `push` again. The destructor pops until the queue is empty,
which is a `consume` whose callback never stops it. The callback of `pop_if` is
user code: it may accept or refuse anything.

*Memory model.* All accesses are sequentially consistent atomics, except
`get_seq()` in `push` (line 288), a plain read of one word of the entry. Nothing
but compare-and-exchange ever writes an entry after construction, and an aligned
word is read whole on the platforms the code is built for (x86-64, 16-byte
`cmpxchg16b`), so it is modelled as an atomic load. `size()` is in `QueueSize`.

*Timing.* The queue identifies a round by a sequence word of finite width, so
no version of it can tolerate a thread that sleeps while half the index range
goes by. `Timely` states the assumption: an operation takes effect only while no
thread holds an index more than `MaxLag` behind. It is a guard of `WrCas` and
`RdCas`. For a 32-bit index and a small queue, `MaxLag` may be as large as two
thousand million. All passing runs use the largest sound value,
`R \div 2 - N`. In `keep` it binds; in the others no thread can make enough calls
for it to bind, so every interleaving of their calls is explored. `four_times`
shows what happens without the assumption.

*Start.* `Init` is the state after `First` pushes and `First` pops of an eager
queue at rest (or of a new queue, `First = 0`). The runs choose `First` so that
index and sequence word wrap around while they last.

*Bounds.* `MaxCalls[t]` bounds the calls of thread `t`; nothing else is bounded.
`Done` is the state in which all calls have returned; deadlock is checked in
every run, so no thread ever gets into a state it cannot leave.

### 2.2 `FifoQueue`

A sequence, the number of elements popped before, and for each caller its
request and its result. `Begin` makes a call; one of the other actions lets it take
effect and fixes the result. `MpmcQueue` implements it under the mapping
`queue <- Contents`, `popped <- head`, where `Contents` reads the slots from
head to tail; calls take effect at `WrCas`, `RdCas`, `Exchange`, or at the load
that decided the result. What is deliberately weak in it: `empty()` may answer no at
any time; `push_keep_n` may discard the head at any time before its push; the
index `peek` reports is the sequence word; `exchange` knows an element's number
modulo half the index range. The first three are what the code does and its
documentation does not say (section 4). The number of elements `consume` counts
for its caller is left out.

### 2.3 `QueueSize`

`obs` is an observer in the middle of a call of `size()`: which access comes next,
what it has loaded. `SizeIndex` and `SizeEntry` are the two loads of `empty()`,
`SizeWrite` and `SizeRead` the operands of the comparison (line 574) and then of
one of the subtractions (574, 575), in either order, because C++ leaves that open.
The type matters: `_write_index - _read_index` is reduced to the index type,
`_write_index + _array.size() - _read_index` is a `size_t`, so a negative number
stands for an enormous result. `least`, `most` and `still` are history.

### 2.4 `PointerQueue`

`hand[t]` is the owning pointer thread t passes by reference, `stage[t]` the call
it is in, `destroyed[o]` counts deletions. `PushCall` and `PopCall` begin a call of
the queue inside, `Inside` is any access of it, `PushReturns` is `release()`
(lines 60 and 81) or a failed push that leaves the pointer with the caller, `PopReturns`
is `reset(nv)`. `Closer` runs the destructor when all are out of the queue: `ClosePop`,
`CloseDestroy`, `CloseEnd`. `Drop` is the end of a caller's pointer's life, as of the
temporary in `test_uniqptr_q.cpp:22`, `Make` is `std::make_unique`.

### 2.5 `SharedQueue`

`header` is what a `read` of the file finds: too little ("short"), zeros, or a
valid header. `AfterHeader` is the decision at lines 103, 124 and 132, `Truncate` and
`WriteHeader` are the creator's system calls, `Attach` the other branch. The placement new
goes word by word: `ConstructIndexes`, then the two loops over the entries, the one that
clears them (`ClearEntry`, the constructor of the array) and the one that lays out
their sequence words (`LayEntry`, line 267 of `mpmc_queue.h`), one entry a step. These are
plain writes, taken in program order, which is the order in which an x86-64 shows them if
the compiler keeps it.

`Enter` and `Leave` are the constructors and destructors of the producer and consumer
objects with their counters. `Push` and `Pop` are calls that find what they look for, in one
step, because their accesses are in `MpmcQueue`. `PushMisses` and `PopMisses` are one
round of the loop for any other word: give up (full, empty), move on an index that is
behind, or look again. Memory nobody has constructed is zero (`Blank`): there the first push
and pop succeed, and the next call finds a word that says nothing to it and looks again for
ever. `PushedAll` and `Check` are the tests of the loops in `shared_q_test.cpp`.

`Kill` ends a process anywhere, without destructors; a failed system call has the same
effect. `Start` starts one, at most `MaxStarts` times in all. With `Overlap = FALSE` no
process opens the file while another is in its constructor. Sequence words and indexes are
not reduced: the wrap-around is in `MpmcQueue`.

### 2.6 `QueuePack`

`write_queue[p]` is fixed by the constructor of a producer object, `read_queue[c]`
and `pop_count[c]` are the fields of a consumer object. `PopOwn` and `OwnEmpty` are
the pop from its own queue (lines 82-92), `ScanTake` and `ScanEmpty` the rounds of
the loop at 93. Producers push `Items` elements each; consumers poll for ever.
`passed` and `full` are history: how long each queue has been passed over, and
which queues have held an element all through the current call.

### 2.7 The programs

`Bandwidth` is `QBandwidth::run`: `BSpawn` to `BJoin` are main's statements in
order, with `BGiveUp` and `BAbort` for its two timeouts; the three tests of a
consumer (line 235) are three steps. `PackBenchmark` is `bw_benchmark` with a plain
queue. `CountedPrograms` is example1, example2, the test HashInputOutput (one shape:
as many pops as pushes) and `QTiming::run` (a last element 0). `HashTests` is hash2 and hash3: `HLock` is
`test_and_set`, `HHash` the test for the turn, `HYield` the end of the round's `lock_guard`
for an element that has to wait. A hash depends on the order of what goes into it and
stands for the sequence `out[p]`; `hash_count[p]` is the count beside it.
`hash_signature::add` writes the two one after the other, as plain variables, so
`HAddState` and `HAddCount` come in either order: what keeps a second consumer from
seeing one without the other is the lock alone. The values that are not needed to tell
elements apart, the clocks and the printing are left out.

## 3. Runs

`First` is chosen so that the index or the sequence word, or both, wrap around.

| Run | Instance | Shows |
|---|---|---|
| `eager` | N=2, R=16, eager; push; push or pop; pop, peek, pop_if, consume, empty or exchange | `TypeOK`, `Window`, `IndexLag`, `Registers`, `Implements` for all operations together |
| `one_slot` | N=1, R=16, lazy push and pop; push or push_keep_n; push, pop or pop_if; peek, empty or pop_if | the same invariants where a slot is reused at once and the own index is left to others; `Completes` although t2 may die |
| `keep` | N=2, R=8, lazy pop; push_keep_n; push_keep_n; push | `KeepsLastN`, `Window`, `Implements` with the narrowest index the `static_assert` accepts |
| `pair` | N=2, R=16, lazy pop; one producer, one consumer, an observer, three objects | `OneOwner`, `AllDestroyed`, `WaitFree`, `SizeNear` |
| `shared` | 3 processes, producers and consumers, 4 starts, two values each, N=2 | `NothingLost`, `CountsAgree`, `ConsumersEnd` |
| `pack` | G=2, K=2, N=2, 2 producers of 4 elements, 2 consumers | `InOrder`, `Rotates`, `EmptySeen`, `Delivered` |
| `harness` | 2 producers of 3 elements, 2 consumers, N=2, all six programs | `Together`, `Drained`, `NothingLeft`, `HashesAgree`, `Terminates` |
| `lazy_empty`, `peek_stuck`, `four_times`, `double_create`, `drain` | | violations, section 4 |

`TypeOK` is type correctness. `Window` says the slots serve the N consecutive
numbers from the head: nothing is lost, overwritten, doubled or out of order.
`IndexLag` says each index is exact or one behind. `Registers` says what a thread
may conclude from an index it loaded long ago. `Implements` is the refinement of
`FifoQueue`. `KeepsLastN` is about `push_keep_n`: if nobody else removes
elements, a queue that has been full is full whenever no call is running.
`WaitFree` is the README's claim about one producer and one consumer; `Completes`
says a call of a live thread returns, wherever the others have stopped.

`SizeNear` bounds how wrong `size()` can be as long as the read index stands
still: one off a length the queue had during the call, or that less R - N at the
wrap-around. `OneOwner` says that at every access an object has one owner or has been
destroyed once: ownership passes at the compare-and-exchange, not at `release()`.
`AllDestroyed` is about the destructor.

`NothingLost` says popped and queued elements together are those pushed, in order, across
starts and kills. Where processes open the file while others create it that is false
(`double_create`); what remains is `NoneTwice` (section 5.4). `CountsAgree` says what the
counters in the file count. The counts that killed processes leave behind are on its
right-hand side: it records that leak, and says there is no other. `ConsumersEnd` says a
consumer's loop ends unless a producer was killed (its count is never taken off) or an
entry was never laid out (`Unlaid`).

`InOrder` says that those elements of a producer that are still inside are the ones
after the last that left, all in one queue and in order. `Rotates` says a
consumer passes a queue that holds an element over for at most K + 1 pops from each other
queue. `EmptySeen` says "nothing there" is answered only if each queue was empty at some
moment of the call. `Delivered` says one live consumer is enough.

`Together` says nobody works before all have come; `Drained` says a consumer that
has left its loop leaves nothing and nobody behind; `NothingLeft` says
the reported counts are the real ones and agree; `HashesAgree` says elements reach
the hash of their producer in its order, each once, which in hash3 takes both the test for
the turn and the lock (without the lock two consumers interleave in `add`); `Terminates` says main joins
all threads, or aborts.

*Bounds.* Two slots (or one) and two or three calls a thread are enough for the
cases that matter to happen at once: a loser of every race, a helper for every
index, a register one or two rounds old, a full and an empty queue, a wrapped
index. More threads add helpers of the same kind, and the proofs of section 5
cover any number of threads, calls and slots. In `shared`, four starts are a creator,
two that attach, and one that comes after a kill; two values on two slots are the case
in which unconstructed memory spins. In `pack`, two queues with four elements from each
producer let a consumer go round more than once, with a full queue on either side; with
two queues the scan is one round long. In `harness` three elements from each of two
producers exceed the two slots, so producers wait for consumers and hash3 has elements out of turn.

*Fairness.* `FairSpec` assumes that the scheduler keeps running the threads in
`LiveThreads`, which is what an operating system does for a thread that is not
stopped or killed. The other threads have no fairness at all: they may stop
before any access. Nothing is assumed about which of several
compare-and-exchanges wins. Calls are bounded, so `Completes` does not claim
that a call survives an endless stream of competing ones (the queue is lock-free,
not wait-free). `one_slot` starts just below the wrap-around of the index and stays
where `peek` and `pop_if` can recognise an entry of the next round; `peek_stuck` is
the other half of the range. `SFairSpec` runs every process until it ends, `Kill` and
`Start` are free. `KFairSpec` runs producers and the consumers in `LiveConsumers`;
the other consumer may stop in the middle of a call. `HarnessFairSpec` runs every
thread; the timeouts of `QBandwidth` have no fairness, nor has the index of the
queue. Getting a spin lock is strongly fair: a thread that tries again and again
meets it free infinitely often, and `test_and_set` is not assumed to favour
anybody for ever. The lock has no queue, so this is an assumption about the machine.

*Stopping.* Deadlock is checked in all runs but `harness` and `drain`, whose
programs end; `bw_benchmark` may also hang (section 4).

*Faults.* Beside each definition that matters the module has a variant with a
plausible mistake (`AdvanceWrite_Store`, `Cleared_SameRound`, ...), which nothing
uses; `PROJECT.json` pairs every property of every passing run with one that
breaks it.

## 4. Disagreements between code and documentation

The first five are runs in which TLC finds the property violated.

* `lazy_empty`: the README says `empty()` progresses the read index if needed. It
  never does, and answers no on an empty `lazy_pop` queue, or while a popper is
  between its two accesses.
* `peek_stuck`: `peek` and `pop_if` compare `seq >> 1` with a full-width index.
  When `read index + N` is in the upper half of its range the comparison cannot
  succeed, and the call spins until some `pop` advances the index. With 32-bit
  indexes that starts after about two thousand million pops.
* `four_times`: an index range of four times the capacity is accepted and
  documented as enough, but a thread delayed for N + 1 pushes breaks the order
  of the queue.
* `double_create`: the README says multiple processes can access a shared queue.
  A process that comes between the creator's `write` and the end of its placement new
  attaches to memory not yet constructed, one that comes before the `ftruncate` creates the
  queue again; what has been pushed by then is wiped out when its entry is cleared.
* `drain`: `pack_benchmark` prints OK or ERROR by comparing sums, but its
  consumers look at the queue first and at the producers' counter last, so an
  element may stay behind in a correct queue. hash2 and hash3 test in the same
  order; with `Programs` set to one of them the same property fails.
* `bw_benchmark`'s producers "wait to start" (line 60) while `benchmark_state` is *not*
  0, so they start at once; one that looks after main has set it waits for ever,
  as does main if a consumer has left before it counted them (line 103).
* A creator that dies after `ftruncate` leaves a header of zeros, which every later
  process takes for an incompatible file. One that dies after its `write` and before it
  has laid out the entries leaves a file everybody accepts and nobody completes: the second
  push of the next process finds slot 1 blank, which is neither room nor an element nor
  "full", and never returns, although no operation is to depend on one process.
* The pack's README and header speak of K pops in a row from one queue. It is K + 1 if
  the first was found by the scan.
* `size()` is enormous when the write index has wrapped around and the read index
  has not, and may be, of an almost empty queue, when consumers overtake it
  between its loads (the README calls its value not guaranteed).
* `peek(d, i)` returns the sequence word `2*index + 1`, not an index as `push` and
  `pop` do: an `exchange` with it does not find the entry.
* `push_keep_n` may discard an element from a queue that is no longer full, when
  a pop gets in between its failed push and its own pop.

## 5. Proofs

Every invariant and every refinement the runs of section 3 check is also proved, for
all values of the constants; only liveness is left to TLC. The table says what
each theorem needs beyond the named assumptions of the modules.

| Property | Theorem | Premise |
|---|---|---|
| `TypeOK`, `Window`, `IndexLag`, `Registers` | `TypeSafety`, `WindowSafety`, `IndexSafety`, `RegisterSafety` | `NoAba` |
| `Implements` | `Linearizable` | `NoAba` |
| `KeepsLastN` | `KeepsLast` | `NoAba`, `OnlyKeepers`, finitely many threads |
| `OneOwner`, `AllDestroyed`, `SizeNear` | `SingleOwner`, `NoneLeftBehind`, `SizeIsNear` | `NoAba` |
| `WaitFree` | `PairIsWaitFree` | `NoAba`, `OnePair(p, c)` |
| `InOrder`, `Rotates`, `EmptySeen` | `PackInOrder`, `PackRotates`, `PackEmptySeen` | none |
| `NothingLost`, `CountsAgree` | `SharedNothingLost`, `SharedCounts` | `~Overlap` |
| `NoneTwice` | `SharedNoneTwice` | none |
| `Drained`, `Together` | `BandwidthDrained`, `BandwidthTogether` | none |
| `HashesAgree` | `HashesEqual` | none |
| `NothingLeft` | `NothingIsLeft` | `Matched` |

### 5.1 The queue

`MpmcQueueProofs` proves, for every value of the constants that satisfies
`QueueAssumption` and `RequestAssumption` (any set of threads, any capacity, any
index range that is a multiple of 2N and at least 4N, eager or lazy),

    ASSUME NoAba PROVE Spec => []TypeOK     (TypeSafety)
                       Spec => []Window     (WindowSafety)
                       Spec => []IndexLag   (IndexSafety)
                       Spec => []Registers  (RegisterSafety)

`NoAba == MaxLag + N <= R \div 2` is the only premise on timing: no thread keeps
a loaded index while half the index range, less one round, goes by. Run
`four_times` shows that some such premise is needed.

None of the four is inductive by itself. `IInv` is their conjunction with
`First <= head`, and the argument goes round:

* *Lookup* (`WriteLookup`, `ReadLookup`). A thread with number b, at most
  `MaxLag` behind, looks into the slot of b. By `Window` that slot serves a number j
  with head <= j < head + N and the same slot. Words repeat only after
  `R \div 2` numbers, and |j - b| and |j - b - N| are smaller by `NoAba`; so the
  word tells b from j exactly: "ready" means b is the tail (or the head),
  "behind" means b is out of date, "full" and "empty" mean what they say.
* *Window* (`WindowStep`). So a compare-and-exchange that succeeds is the one of
  the tail with room left (`PushAtTail`) or of the head with an element there
  (`PopAtHead`), and the window moves by one; `exchange` cannot hit a cleared
  slot, because its word is odd.
* *Indexes* (`IndexStep`). `Registers` says a number equal to the tail was loaded
  when the index was current, so after the push it is exactly one behind. An
  advance is made only with a number known to be out of date; by `NoAba` such a
  number equals the shared index only if that is one behind (`Advances`).
* *Registers* (`WriteStep`, `ReadStep`). A number loaded is the count or one
  less (`Loads`); other threads' steps only make it older, by at most `MaxLag`.

The arithmetic is in `ModularArithmetic` (uniqueness of quotient and remainder,
congruence, small multiples) and in the first section of `MpmcQueueProofs`: the
sequence word of j is `2 * (j % (R \div 2))` plus the full bit (`SeqWord`), words
and slots survive the wrap-around of the index (`Wrapped`), two numbers near each
other with the same word or slot are equal (`SameWord`, `SameSlot`).

### 5.2 The refinement

`MpmcQueueRefinement` proves `Spec => Implements`. `CallSafety` says where a thread is
in its call: its next access is one of its operation, and its result is pending until
exactly the access that decides it. The mapping is in `MpmcQueue`: the abstract queue is
`Contents`, the data of the window from `head` to `tail` as a sequence. `PushContents`,
`PopContents` and `SwapContents` say how a compare-and-exchange changes it; then each action is a step of
`FifoQueue` (`CallRefines`, `PushRefines`, `PopRefines`, `LookRefines`, `StopRefines`,
`ExchangeRefines`) or leaves it as it is (`QuietSteps`). The lookups of 5.1 are what
makes "full" and "empty" true at the moment they are seen.

`KeepsLast` counts. `Kept` says that either the queue has never been full and nobody
discards, or the elements and the calls of `push_keep_n` that are on their way to a push
(`Owing`) are at least N together: a discard takes one off the first and adds one to the
second, which is why the set must be finite. `OnlyKeepers`: no request is a removal.

### 5.3 The pointer queue, one producer and one consumer, `size()`

`QueueInside` says a step of `PointerQueue` is a step of `MpmcQueue` or leaves it
alone, so 5.1 and 5.2 hold inside. `OneOwner` counts owners and is not inductive; `PInv`
names the one place an object is at (`Sole`: one hand, one pop that has taken it, or
one position of `Contents`) and which call a thread is in (`InStage`). A successful push
moves an object from a hand to the end of `Contents`, a successful pop from its
front to the pop (`AppendPlaces`, `TailPlaces`). `Alone` and `Drained`, which is what the
destructor's last pop has seen, give `AllDestroyed`.

`WaitFree` follows from `Pair(p, c)`: the tail is the producer's and the head the
consumer's own, so a loaded index is the shared one, at most one behind, and the
other side can only make room or elements. `OnePair(p, c)` says p only pushes, c only
pops, and the others at most ask whether the queue is empty.

`SizeNear` follows from `Sight`: as long as the read index stands still, the lengths the
queue had since the start of the call bound the loaded write index, one off, and a
wrap-around seen between the two loads does not go away.

### 5.4 The shared queue

`SharedQueueProofs` proves, for every finite set of processes, any capacity, any values
and every number of starts,

                    SSpec => []NoneTwice            (SharedNoneTwice)
    ASSUME ~Overlap PROVE SSpec => []NothingLost    (SharedNothingLost)
                          SSpec => []CountsAgree    (SharedCounts)

`NoneTwice` says what is true even if the file is created twice under the feet of processes
that use it, or used in the middle of its construction: values may be lost, but none comes
out more often than it went in, although indexes are set back. It is proved and in no run
of section 3, all of which but `double_create` keep to `~Overlap`. It is inductive once it
is said of all values: a push adds one to the pushes and at most one copy to the slots, a
pop moves one from the slots to what has been popped, and a constructor can only take
copies away.
`TimesAppend`, `CopiesLess` and `CopiesMore` follow the cardinalities. `SharedTypes`, which
needs no premise either, keeps the loops of the constructor inside the array.

The other two are not inductive: the constructor clears the queue and `WriteHeader` the
counters. `SInv` adds that one process at a time is in the constructor (`Alone`), that
the header is still as the creator found it (`CreatorSees`), and that until it has
finished, or died, nobody has got as far as the queue (`Untouched`), so whatever is cleared
was clear. `Kept` is the memory: the indexes count the pushes and pops, and the slots serve
the N numbers from the read index (`Serves`), full if pushed, otherwise vacant, or left
blank by a creator that was killed. So a push can meet only the number of the
write index, a pop only that of the read index, and no index is ever behind
(`Words`, `KeptPush`, `KeptPop`, `KeptLoop`); the elements of `Inside`, read off the words in
the slots, are those pushed and not popped (`KeptMeans`). `~Overlap` is the premise
`double_create` does without. `Joins` and `Quits` follow the counters.

### 5.5 The pack

`QueuePackProofs` needs no premise. `Line(p)`: the elements of p that are still inside are
in its queue, numbered on from the last taken; `InOrder` follows. `EmptySeen` follows
from `Scanning`: a consumer that scans has seen the last k queues empty, so none of them
is in `full`. `Rotates` needs to know how many pops a consumer can have made since it
was last at a queue: `Bounded` says, for a queue d ahead of it, at most `Limit`, which is
K + 1 for each queue in between and what it has popped where it is. The step to the
next queue makes d one less and starts the count anew; that the sum is right also
where the index wraps around from G - 1 to 0 is `RoundRobin` and `Rounds`.

### 5.6 The programs

`BandwidthProofs` proves, for any number of producers and consumers, any capacity and
any number of elements, whichever program runs,

    HarnessSpec => []Drained     (BandwidthDrained)
    HarnessSpec => []Together    (BandwidthTogether)

`BInv` says that the flag is where main is, that the counters count the threads that
have come and not left, that all have come once the flag is up (`AllHere`), and that
what a consumer has learnt from its tests stays true: a producers' counter of 0 after
the start means all have left (`NobodyLeft`), and then an empty queue stays empty.
It takes all three tests, in this order.

`HarnessProofs` proves `HashesAgree` and `NothingLeft`. `HashInv`: with one consumer (hash2,
QTiming) the elements of a producer are in one line, first those in the hash,
then the one the consumer holds, then those in the queue, numbered without a gap
(`Line`); `LineAppend` and `LineTail` say what a push and a pop do to it. In hash3 the
test for the turn gives the order, if nobody changes the hash between the test and the end
of `add`, and if the count tested is the length of the hash. That is `LockInv`: who is
inside a lock holds it (`Mutex`), so one consumer at a time is there; value and count
differ only between its two writes, and from its test on it has the next element (`Knows`);
a hash nobody has locked counts right (`Idle`). `HarnessAssumption` asks that no consumer be
called "none", the value of a free lock. `CountInv`: popped and queued elements
together are those pushed (`Balanced`), and a thread that has ended has reported its count
(`Reported`), pushed or popped its portion (`Portions`), or, for the reader of QTiming, used
the writer's last element (`LastSeen`); for `bandwidth` the rest is `Learnt`. `Matched`: there is a
producer and a consumer, and the programs whose consumers count their pops have as many
of one as of the other, as the examples and tests have; without it main would not come
back, or elements would be left. `Total` counts pairs, one for each thing counted, because
a sum over a function is a recursion, which the prover cannot unfold.

### 5.7 What is only model-checked

`Completes`, `ConsumersEnd`, `Delivered` and `Terminates`: liveness under fairness is
beyond the prover. The five violations of section 4 are single runs. The operators that
compute (`WriteView`, `ReadView` and the rest) are not recursive; what they return is
part of the lemmas of 5.1.

## 6. Plan

1. *Done:* the queue, its observers and the classes on top of it, the programs,
   their runs; the proofs of all their safety properties and of the refinement.
2. *Next:* what `bw_benchmark`, hash2 and hash3 do keep although `drain` refutes the claim of
   the first: popped and queued elements together are those pushed.

## 7. What is not modelled

Memory ordering weaker than sequential consistency (the code asks for none); the
16-byte and 8-byte code paths separately (each is one atomic access); cache-line
layout; the exceptions of the constructor (sizes it rejects do not satisfy
`QueueAssumption`; size 0, which it accepts, has no slots and no defined
behaviour); `dump_state`, which prints. Of the programs: the command line of
`q_bandwidth.cpp`, its table of template instances and its boost queue, which
choose what `QBandwidth::run` runs on and add no behaviour; the single-threaded
tests of `gtest_mpmc_queue.cpp`, whose calls are in the runs of `MpmcQueue`; clocks,
statistics and printing; the hash function; `bw_benchmark` over a pack (the pack is in
`QueuePack`); the report scripts.
