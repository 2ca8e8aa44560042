# Comere in TLA+

`comere` is a Rust crate with three versions of the same concurrent structures, a
queue and a list, that differ in how the memory of removed nodes is reclaimed:
by epochs (`ebr`), by hazard pointers (`hp`), or not at all (`nothing`). This
directory holds TLA+ modules that model the crate, TLC configurations that check
them on small instances, and proofs that TLAPS checks.

## 1. The system

Paths are relative to the repository; `src/src` is the library crate.

### Epoch based reclamation: `src/src/ebr/mod.rs`

*State.* `GlobalState`: the `epoch`, the list `pins` of the markers of all
threads, and `garbage`, a queue of pairs of an epoch and a full `Bag` (32 pieces
of garbage). Per thread `LocalState`: the marker (epoch and pinned bit in one
word), a local `garbage_bag`, and `pin_count`.

*Operations.* `pin` reads the epoch, sets the marker, and in every 64th call
tries to move the epoch: `can_increment_epoch` reads the epoch, walks over all
markers and checks that every pinned thread has that epoch; `increment_epoch`
swaps in the next one; the thread that succeeds runs `free_garbage`, which pops
bags that are two epochs old with `pop_if` and drops what is in them. Then the
closure runs, may hand nodes to `Pin::add_garbage`, and `unpin` clears the bit.
A full local bag gets the current epoch and goes to the global queue. When a
thread ends, its marker is removed and its `LocalState` dropped.

*Interaction.* The list of markers is an `ebr::list::List`, the global queue an
`ebr::queue::Queue`; popping from the global queue retires its sentinel through
the same `add_garbage`, so `free_garbage` produces garbage.

*Hard.* No step is atomic with another: the epoch is read before the marker is
set; the walk takes many steps; the epoch of a bag is read before the bag is
pushed; `free_garbage` keeps using the epoch it started with.

*Correct when* no node is freed while a thread in `pin` may follow a pointer to
it; a pinned thread keeps the epoch from moving more than once; one thread at a
time frees; bags are at most one epoch out of order; every retired node is in
exactly one bag until it is freed; the epoch moves on and `free_garbage` ends.

### Queues: `ebr/queue.rs`, `nothing/queue.rs`, `hp/queue.rs`

*State.* `head`, `tail`, and `next` of each node; the first node is a sentinel.
*Operations.* `push`, `pop`, `pop_if` (ebr only), `enqueue` (nothing only),
`is_empty`, `len`, `Drop`: the algorithm of Michael and Scott, with differences.
In `ebr` pop swaps the head only, never looks at the tail, and retires the old
sentinel; `pop_if` and the `pop` of `nothing` give up when the swap fails. *Hard.*
Every load may be stale; the tail lags; a removed node is still looked at.
*Correct when* the queue is linearizable as a FIFO queue, no step goes to a freed
node, only unreachable nodes are retired, dropping it leaks nothing, and a stopped
thread does not block the others.

### Lists: `ebr/list.rs`, `nothing/list.rs`, `hp/list.rs`

*State.* `head` and tagged `next` pointers. *Operations.* `insert`,
`remove_front`, `remove`, `remove_with`, `contains`, `all`, `iter`, `is_empty`:
removal tags `next` of the node, then swings the pointer before it, and takes the
tag back when that fails. *Hard.* Two removers of neighbours; a tag that is taken
back; walkers that ignore tags. *Correct when* a value that was inserted and not
removed is found, nothing is removed twice, and unlinked nodes are unreachable.

### Hazard pointers: `hp/mod.rs`, `hp/atomic.rs`

*State.* The list `ENTRIES` of `ThreadEntry` (five hazard pointers each), and the
global queue `HAZARD_QUEUE` of garbage. *Operations.* `register`, `deregister`, the
scan over all entries, `spin`, `wait`, `defer_hp`, `free_from_queue`; `spawn` and
`join`, which remove a thread's entry. *Hard.* A pointer is registered after it
was loaded and has to be validated; the scan is not atomic; `spin` waits for other
threads. *Correct when* a validated pointer is not freed while it is registered.

### Tagged pointers: `*/atomic.rs`

Copies of crossbeam's `Atomic`, `Owned` and `Ptr`. A pointer and its tag share a
word: `low_bits`, `data_with_tag`. *Correct when* tagging and the fetch operations
leave the pointer alone, and a compare-and-set on words compares pointer and tag.

### Benchmarks: `src/bench`, `src/benchmark-runner`

*State.* `ThreadBencher` has a channel to and from each of its threads and a
barrier; the runner's benchmarks a queue or list that is shared. *Operations.*
`new` starts the threads; `thread_bench` prepares the state, sends every thread
`Run`, meets them at the barrier, waits for their answers, and after the last
sample sends `End`; `into_stats` joins them. `BenchStats` computes over the samples.
*Hard.* A thread may panic in the function, the main thread with it; threads of `hp`
wait for a word from `join` before they end; calls in an unusual order. *Correct
when* each sample runs the function once in each thread and nobody has the state
otherwise, the samples measure the same work, joining does not panic, and the calls
return.

## 2. Modules

    SafeReclaim      the promise: free once, and only what nobody holds
    Epochs           the rule: pin, advance when all have seen, free after two
    Ebr              ebr/mod.rs, step by step
      EbrProofs      its inductive invariant; what is freed, when and how often;
                     Ebr => Epochs; Ebr => SafeReclaim
      MCEbr          instances for TLC
    FifoQueue        the promise of a queue, with operations that may give up
    MSQueue          the pointer steps of push, pop, pop_if and is_empty
      MSQueueProofs  their invariant, for whichever queue takes them;
                     LeakingQueue => FifoQueue
      LeakingQueue   nodes never freed; with enqueue and the pop that tries once
      EbrQueue       MSQueue under Epochs: retire, free, drop (ebr/queue.rs)
        EbrQueueProofs       what is retired, accessed and left
      MCLeakingQueue, MCEbrQueue
    KeyedList        the promise of a list of values
    MarkedList       the pointer steps of the lists: tag, swing, take the tag back
      MarkedListProofs       their invariant; LeakingList => KeyedList
      LeakingList    nodes never freed
      EbrList        MarkedList under Epochs: retire, free, drop (ebr/list.rs)
        EbrListProofs        what is retired, accessed, met and left; words
      MCLeakingList, MCEbrList
    HazardPointers   slots, scan, free with and without hp-wait (hp/mod.rs, atomic.rs)
      HpQueue        MSQueue with an instance of HazardPointers (hp/queue.rs)
        HpQueueProofs        slots, scans, and what they keep
      HpList         MarkedList with an instance of HazardPointers (hp/list.rs)
        HpListProofs         what slots keep, tags, who waits for whom
      MCHpQueue, MCHpList
    TaggedPtr        the words of atomic.rs as sets of bits
      MCTaggedPtr    the same compared with arithmetic on numbers
    ThreadBencher    channels, barrier, join (bench/src/lib.rs, hp/mod.rs)
      Benchmarks     the benchmarks on it, and main (benchmark-runner)
        BenchmarksProofs     the protocol of thread_bench, send, recv and join;
                             what a sample starts with and leaves
    BenchStats       the statistics of bench/src/lib.rs
      MCBenchmarks   instances of both

The composition goes through the abstract modules. `Ebr` is shown to implement
`Epochs`; `EbrQueue` and `EbrList` run on an instance of `Epochs`, not on `Ebr`.
That is what keeps their state spaces within reach. Order and progress of an
operation do not depend on when memory is freed, as long as nothing that is still
accessed is freed; so they are checked in the `Leaking` modules, for the operations
of `nothing` and of `ebr`, and the `Ebr` modules check the accesses.

### Ebr

One action for each access to shared memory. A variable of the module is a field
or a local of the code, as its declaration says; `pinAt`, `retiredAt` and `strayed`
are history. The correspondence, in the order of `pin`:

| code | actions |
|---|---|
| `LocalState::marker` | `Register` |
| `pin`: load the epoch | `ReadEpoch` |
| `pin`: `ThreadPinMarker::pin`, `pin_count` | `MarkPinned` |
| `can_increment_epoch`, `List::all` | `LoadCheckEpoch`, `LoadHead`, `ScanMarker` |
| `increment_epoch` | `AdvanceEpoch` |
| `free_garbage` | `PopExpired`, `DropBag`, `FreeDone` |
| `add_garbage`, `add_garbage_bag` | `AddGarbage`, `TagBag`, `PushBag` |
| the closure | `Publish`, `Acquire`, `Unlink` |
| `unpin` | `Unpin` |
| `LocalState::drop`, `remove_with` | `StartRemoval`, `RemoveMarker` |
| the drop of its fields | `DropLocalBag` |
| a walk that reads a freed marker | `ScanFreed`, `RemoveFreed` |

What is abstract, and why that is sound:

- *The structure that is protected* is reduced to nodes that become reachable, are
  loaded and are unlinked. A thread may load any node that is reachable at that
  moment. A client that loads pointers to nodes that are not reachable from the
  structure's roots breaks the contract; the queue does (section 5).
- *Unlinking and `add_garbage`* are one step. `retiredAt` is therefore the epoch
  of the hand-over, which is no earlier than that of the unlinking.
- *The marker list* is a set and `List::all` reads its members in any order. A
  marker is put in front of the list, so a walk meets no others than the markers that
  were there when it loaded the head. One that was removed since is not met
  (`ScanMarker`), or the walk stands on it already. It is freed memory then
  (`ebr/mod.rs:372-375`), its `next` with the rest: the walk may go on anywhere, and
  end with either answer, whoever is pinned (`ScanFreed`). The same may happen to the
  walk of `remove_with`, which may then miss the marker it looks for (`RemoveFreed`).
  `strayed` says that it has happened once. Nothing the scheme promises is left
  then, but that bags do not lose nodes; what else such a read may do, a crash or a
  write to memory that was freed, is undefined and not an action.
- *The global queue* is a sequence; `push` and `pop_if` are one step each. pop_if
  may give up when another pop moves the head, but only the thread in
  `free_garbage` pops, and `FreeIsExclusive` says that there is one at most.
- *A sentinel of the global queue* that is retired takes a slot of a bag (the
  `index` of a bag counts it) but is no node.
- *Nodes* are named in the order in which they are made, since they are all alike.
- *Pinning again inside `pin`* is an assertion failure in the code
  (`ThreadPinMarker::pin`) and is not an action.

`Spec` has threads that live forever; `SpecExit` adds their end, after a `pin` or
by a panic inside one. Each promise of the scheme comes twice: as it holds of `Spec`
(`EpochIsHeld`, `NothingHeldIsPopped`, `OneFrees`, `TagsSortedByOne`) and on the
condition `~strayed`, as it holds of `SpecExit` (`PinHoldsEpoch`, `FreeGarbageIsSafe`,
`FreeIsExclusive`, `TagsNearlySorted`).

### MSQueue, LeakingQueue, EbrQueue

One action for each load, store and compare-and-swap. A node stands for the
data that was pushed with it, and is used once: that its memory may be used again
after it was freed is the business of `NoUseAfterFree`. `linked` is a history of
the nodes in the order in which they were linked, and the contents of the queue
are the part of it behind `head`; `ChainInOrder` relates that to the pointers.
`saw` is the history of the first element during a call that looks, and lets
`FifoQueue` say that an answer was right at some moment of the call. `May` gives
each thread the operations it calls.

`CallPush` allocates the node inside `pin`; `RetireOld` is the end of pop: read
the data, then `add_garbage`. `FreeGarbage` frees any set of nodes the rule of
`Epochs` allows, so it covers every size of bags. `DropQueue` needs `&mut self`:
nobody is inside an operation. `pop_once` is the `pop` of `nothing/queue.rs`.

The acquire and release orderings of `nothing/queue.rs` are taken as sequentially
consistent, which the other modules of the crate ask for everywhere.
`len` is not modelled: it changes nothing and is there for tests.

### MarkedList, LeakingList, EbrList

One action for each load and compare-and-swap. `link` is the pointer and the tag of
each node's `next` and of `List.head`, which `Root` stands for where the code has
`previous_node_ptr`. The operations share their steps where the code repeats them:

| code | actions |
|---|---|
| `insert` | `CallInsert`, `InsertLoad`, `InsertCas` |
| load of the head | `LoadHead` |
| one turn of a walk | `VisitFront`, `VisitRemove`, `VisitRemoveWith`, `VisitContains`, `VisitAll` |
| tag `next` of the node | `Mark` |
| swing the pointer before it | `Swing` |
| take the tag back | `Unmark` |
| read the data; `add_garbage`, or the closure given to `remove_with` | `Take`: `RetireTaken`, `DropTaken` |

The places where the operations differ are kept: `remove` compares with pointers
whose tags it clears, `remove_with` with what it loaded; `remove` and `contains`
start again at a tag, `remove_with`, `all`, `iter` and `is_empty` go on through it;
`remove_front` goes on from the head its failed swap returned.

`order` and `out` are histories of the nodes inserted and removed; the contents of
the list are what is in `order` and not in `out`. An insertion counts when the head
is swapped, a removal when the pointer is swung. `KeyedList` says what an answer may
be: a node removed has the value asked for and was in the list; "none" was right at
some moment of the call. The exception it makes is real: for a value that is
inserted again while it is in the list, a walk that is already past the head misses
the new node, and may meet the old one removed. `owed` is the history of the nodes a
walk has still to meet.

What `remove_with` takes out goes to its closure, and the only one there is, in
`LocalState::drop`, frees it at once (`DropTaken`); `dropped` has those nodes. A thread
that would read one does not go on in `EbrList`, as what follows is undefined, so its
properties are about the others; that it can come to this is section 5.
`insert` asserts that the head has no tag, and `remove_with` panics when it cannot take a
tag back: these are guards of `InsertLoad` and `Unmark`. The first fails in
`list_removed_twice` only, the second never (`TagTakenBack`).

Both modules have all operations in reach of a bigger instance; the instances of
section 3 give each thread a few. `EbrList!DropFront` is `List::drop`, a turn of
its loop at a time. The drop of the data is not modelled; reading `drop` one sees
that the data of the first node is never dropped, as if it were a queue's sentinel.

### HazardPointers, HpQueue, HpList

`HazardPointers` has the slots of every thread and the course of `HazardPtr::free`:
deregister, then either scan until nobody has the node (feature `hp-wait`) or hand it
to `HAZARD_QUEUE`, and in every `N`th call take up to `N` nodes from there, scan once
for each, and drop it or put it back. The scan reads one slot per step, in the order
of `ENTRIES`; this is where the danger lies, since slots it has read may change.
`waits` is the feature, chosen in the initial state, so that one run covers both.
`ENTRIES` is a fixed sequence: threads neither come nor go. `HAZARD_QUEUE` is a
sequence; it is an `hp::queue::Queue` itself, each call on it is one step, and its
sentinels are left out: that `pop_hp_fn` spins until the old one is registered nowhere
(`hp/mod.rs:220-221`), and defers it when it had to start again (`hp/queue.rs:108, 121`).
The nodes of `ENTRIES` and `HAZARD_QUEUE` that `free` registers on the way are freed by
nobody here and are not written to the slots. But they need empty ones, which `HasRoom`
asks for: one to push (`hp/queue.rs:61`), two to pop (101, 116), and two for the
iterator of a scan (`hp/list.rs:158, 425`).

`HpQueue` takes the steps of `MSQueue` and puts protection between them: `guard` says
what has to be done before the next step. After a load, `RegisterLoaded` and
`Validate`; at the end of a turn of the loop or of the operation, `Leave` for every
`HazardPtr` that goes out of scope. `TakeData` becomes `FreeOld`: `next_hp` is dropped
and `free` starts with the old sentinel. When the head fails its validation
`pop_hp_fn` calls `pop`, which for the callers modelled here is the same function
with the same argument, that is, another turn. The second validation, of `next`,
cannot fail, because `next` is written once.

`HpList` does the same with the steps of `MarkedList`:

| code | actions |
|---|---|
| `insert_owned` | `InsertStep` |
| `hazard()`, and the load that follows | `RegisterLoaded`, `Validate` |
| a `HazardPtr` that is replaced or goes out of scope | `Release` |
| load of the head; the start of `iter` | `Begin` |
| a turn of the walk | `Visit` (`VisitFirst`, `VisitToRemove`, `VisitToFind`, `Advance`) |
| the caller looks at what `Iter::next` returned | `Use` |
| tag `next`; swing, or take the tag back | `Tag`; `Unlink` |
| read the data; `free`, or hand the node over | `Remove` |
| `remove_thread_local` | `Call` |
| `List::drop` | `DropList` |

A null pointer is registered as the code does it: it needs an empty slot and takes
none. `global` is chosen in the initial state and says whether the list is `ENTRIES`,
which has `remove_with_node` and no other removal; `Reclaim` is what
`remove_thread_local` does with the node it gets, and always waits. The iterator stops
at memory that was freed; what it would find there is undefined.

`is_empty` and `len` register nothing before they follow a pointer and are left out;
no part of the crate calls them while others remove, nor does a benchmark.

### TaggedPtr

A word is the set of the positions of its ones, so the masks of the code become
intersections, and the theorems need no arithmetic. `MCTaggedPtr!AgreesWithNumbers`
compares the operators with `&`, `|` and `^` on numbers, for all words of five bits
and tags of three. That `MarkedList` compares records of a node and a tag where the
code compares words is justified by `ComparesLinks`.

### ThreadBencher, Benchmarks, BenchStats

`mpc` is where the main thread is in `thread_bench` or `into_stats`, `tpc` where each
thread is in its loop, `inbox`, `outbox` and `joined` are the channels. The barrier is
one step of everybody. A thread that is gone has dropped its ends of the channels, so
sends to it and receives from it fail; so does the main thread once it has panicked or
dropped the `ThreadBencher`.

`Benchmarks` has the functions of `benches.rs` on bags of numbers, an operation on a
queue or list being a step; the three `NUM_ELEMENTS` are one constant. `PopFrom` keeps
that the `pop` of `nothing` answers `None` when another thread was first, which ends the
loop of the benchmark in that thread. A *user* is any other caller of the library: its
function does nothing that is known, ends or panics, and it calls `thread_bench` and
`into_stats` as it likes. `main` runs the benchmarks selected and writes the samples.
Left out of `bench`: `Bencher`, a loop in one thread, names and formatting. With zero
threads a share is a division by zero, and `num_threads` is above zero here.

`BenchStats` has `u64` arithmetic modulo `Word`, which is $2^{64}$ in a release build.

## 3. Runs

| run | question | bounds | states |
|---|---|---|---|
| `ebr_promise` | is anything freed while held? does `Ebr` implement `SafeReclaim` and `Epochs`? does the epoch move on, does `free_garbage` end? | 2 threads, 3 nodes, bags of 1, attempts up to epoch 3 | 880 k |
| `ebr_exit` | is `free_garbage` safe and exclusive, is nothing lost or freed twice, when threads may end? does the inductive invariant hold? | 3 threads, 2 nodes, bags of 1, attempts up to epoch 3, `FewEnd` | 1.1 M |
| `ebr_exit_uaf` | violated, section 5 | 2 threads, 1 node | |
| `queue_fifo` | are the queues FIFO queues? does a stopped thread block others? | 3 threads, 2 pushes | 200 k |
| `queue_one_pusher` | with one pusher: no access to freed nodes, no live garbage, no leak on drop | 3 threads, 3 pushes, epochs to 3 | 1.6 M |
| `queue_lagging_tail` | violated, section 5 | 3 threads, 2 pushes | |
| `list_order` | are the lists lists? are tags where removals are? does every operation end? | 3 threads, 3 nodes, 2 values | 200 k |
| `list_removed_twice` | violated, section 5 | 3 threads, 3 nodes | |
| `ebr_list` | no access to freed nodes, no live garbage, walks overlook nothing, no leak on drop | 3 threads, 3 nodes, epochs to 3 | 1.4 M |
| `hp_queue` | with one pusher: no access to freed nodes, nothing freed twice or lost, are two slots enough, does waiting end? | 3 threads, 2 pushes, 2 slots, N = 2 | 150 k |
| `hp_list` | no access to freed nodes, nothing freed twice or lost, is the tag a lock, are three slots enough, do threads wait for each other? | 3 threads, 2 nodes, 3 slots, N = 1 | 700 k |
| `bench` | does each sample run the function once in each thread, on the same contents? does joining work, does everything return? | 1 to 3 threads, 2 samples, 4 elements | 110 k |

*Bounds.* In `Ebr`, `MaxEpoch` stops attempts to move the epoch, so that it reaches
`MaxEpoch + 1`. Freeing takes two advances and a stale thread delays one more, so
epochs to 3 are enough for a node to be freed while another thread has pinned with
an epoch that was left behind. That more bags do no harm is what the theorems of section 6 say.
`BagSize` is 1, so that two bags of nodes can be in the queue at a time and that
every sentinel `free_garbage` retires fills a bag, which it pushes in the middle of its loop;
with bags of 2, three nodes would not be enough for that. `ebr_exit` has three threads: one that frees, one that ends and
one that holds a pointer. `FewEnd` keeps it small: TLC goes no further from states in which
all three are ending or have ended, nor from those beyond epoch 1 in which a walk has strayed, or
not just one thread has ended. What lies beyond is left to the theorems. In the
queues, two pushes are the fewest for which the tail lags, is helped on, and the
order of the values matters; `queue_one_pusher` has three so that a node is used,
retired and freed while two more follow it. In `list_order` a value is in the list
twice, once before and once behind another, and the removers are after the same
node, after neighbours, and after the first; in `ebr_list` the removers are after
neighbours and the one who walks may stand on either of them, or behind. In
`hp_queue` two slots are what `push` and `pop` need, `pop` for the head and the next node, and then,
when it has given these up, `free` for its scan and its `HAZARD_QUEUE`; with one slot
`SlotsSuffice` is violated. `hp_list` has three, since a removal frees a node while the one
before is still registered (`hp/list.rs:251`); with two it is violated. The others of the five
stay empty. `FreeEvery` is 2, not 32, so that nodes are deferred, found in use, put back and dropped. In `hp_list` two neighbours are removed, each by its own thread, while
the third inserts before them, takes the first, looks for the second or walks over both;
one is there at the start, the other is inserted. In `bench` two samples are the fewest in
which one finds what another has left, two calls of `thread_bench` the fewest in which the
first has ended the threads; three threads on four elements are one that does not divide
the other. `list_real` has the most states and is run by one thread, and for `hp` by two.

The configurations `MCEbr_exit_walk`, `MCEbrList_drop`, `MCHpQueue_tail` and `MCHpList_iter` are
not among the runs; each shows something section 5 says.

*Symmetry* is used in runs that check no temporal formula, or only the refinement
of a specification without fairness, and only for identifiers no definition of the
run tells apart.

*Deadlock* is checked except where threads end and where the queue may be dropped for
good.

## 4. Fairness

`Ebr!FairSpec` has weak fairness of `Reclaimer(t)`, the steps of `pin` itself: a
thread that is in `pin`, or may call it, goes on. This is what the operating system
gives every runnable thread, since no step waits for another thread; it includes
that closures return and that threads pin again, without which no epoch moves. The
steps of the closure have no fairness. `EpochAdvances` says more than that some
attempt is made: it rules out that threads with stale epochs thwart each other
forever.

The queues' `FairSpec` has weak fairness only for the threads in `Steady`, and only
for the steps of an operation that was called; the others may stop anywhere, for
good. `LockFree` then says that steady threads finish all the same. New nodes are
bounded, so the operations that could overtake a thread forever run out, which is
the usual meaning of lock freedom.

`LeakingList!FairSpec` assumes weak fairness of every thread inside an operation. A
tag is a lock, as the comment at `ebr/list.rs:163-165` says: a thread that stops
while it holds one keeps others waiting, so nothing less gives `Terminates`. What it
says is that taking tags back and starting again does not go on forever.

`HpQueue!FairSpec` has the same: `wait` is a loop that others end by giving up their
pointers, so it needs them to go on. `FreeTerminates` says that it ends although others
may protect the node again for as long as they get hold of it.

`Benchmarks!FairSpec` has weak fairness of the main thread and of each thread: nobody
else makes them stop. A user need not call anything, so the calls themselves have no
fairness in that case. `Returns` is about the first call of `thread_bench`, and about
`into_stats` after it.

`HpList` states no fairness: its operations start again whenever a validation fails, and
the endless loops this makes are those of `LeakingList`. What could make threads of
`hp-wait` wait for each other for good is a cycle of them, and that is an invariant,
`NoWaitCycle`.

## 5. Disagreements between code and comments

- `ebr_exit_uaf`: the comment at `ebr/mod.rs:11-12` allows destroying garbage two
  epochs after it was unlinked. When a thread ends, the drop of `LocalState` drops
  its `garbage_bag` at once. A node that another thread in `pin` has loaded is
  freed.
- `queue_lagging_tail`: `ebr/queue.rs:151-152` says that the old head "is no longer
  reachable by the queue" after the swap. While the pusher of the next node has not
  moved the tail, the tail still points to it, and a thread that pins later can load
  it from there. `queue_one_pusher` shows that this needs two pushers. The global
  garbage queue is such a queue and has several pushers; `Ebr` takes it as a
  sequence, so its theorems are about the scheme on a queue that is safe.
- `pop_if` and the `pop` of `nothing` return `None` when another thread moves the head,
  although `ebr/queue.rs:168-169` says that `pop_if` pops the first element if the
  condition holds. `FifoQueue` lets them (`TryOps`), and only if another value has become the
  first during the call.
- `list_removed_twice`: the note at `ebr/list.rs:177` assumes that the head is never
  tagged and line 39 asserts it. `remove_with` marks a node with the link it loaded,
  tag included, so two of them may mark the same node; the first to swing then writes
  the tagged pointer. The marker list has one remover for each value and is safe.

Seen while modelling, and not among the runs:

- `LocalState::drop` frees the marker of its thread at once; the comment at
  `ebr/mod.rs:373-374` says that this is not safe, "as some thread may iterate over the global
  list". On the list, a walk or a `remove_with` of another value reads the freed node
  (`MCEbrList_drop`, `NoUseAfterDrop`). In the scheme, a walk that does may overlook a
  pinned thread, and the epoch goes past it by more than one (`MCEbr_exit_walk`, `EpochIsHeld`).
- `hp/queue.rs:137` says that the old head is kept while someone uses it, and
  `hp/atomic.rs:1069-1070` that `free` is for nodes nobody can get a reference to any
  more. The tail may still point to the old head. The pusher that left the tail behind has
  the node registered and so protects it; but the scan reads slots one by one. Another
  pusher registers and validates the node after its own slots were read, the first moves
  the tail and deregisters before its slots are, and the scan finds nobody
  (`MCHpQueue_tail`). With one pusher this cannot happen (`hp_queue`).
- `Iter::next` of the list of `hp` returns a reference into a node and gives up its hazard
  pointer in the same step (`hp/list.rs:432-433`). The caller may read memory that was freed
  (`MCHpList_iter`, `WalkIsSafe`). It may also go on
  from a node that was removed to one that was freed, since it does not look at tags. The
  scan walks over `ENTRIES` with this iterator, so it may read the slots of a thread whose
  entry is gone: the violation is found with `global` true as well.
- `Drop` of the lists of `ebr` and `hp` does not drop the data of the first node; the comment
  in it is about the sentinel of a queue, and a list has none.
- `remove_thread_local` panics when `ENTRIES` has no entry of the thread; it asks for the
  entry first, which makes one, so the panic is not reached.
- `HazardPtr::register` asserts that bit 3 of the address is zero, `from_raw` that the lower
  three are. The first refuses half of all addresses that are aligned to eight.
- A second call of `thread_bench` (`bench/src/lib.rs:420`: "All threads will run the function
  given") finds threads that have taken `End`, or are about to: it panics, or waits for ever at
  the barrier. `into_stats` without `thread_bench` waits for ever for threads that wait for it.
- When a thread panics in the function, `thread_bench` panics (`bench/src/lib.rs:437`) while the
  other threads may be at it still, with a pointer into the state that is dropped. A `catch_unwind`
  around it would go on with that; the runner does not have one and ends.
- A thread of `hp` whose handle is dropped without `join` leaves its entry in `ENTRIES`.
- `list_remove` leaves elements behind when the number of threads does not divide them; the next
  sample of `hp` then panics at `benches.rs:137`, those of `ebr` and `nothing` start with more.
  `SamplesAlike` has the condition.
- The `pop` of `nothing` that gives up ends the benchmark's loop in one thread; the queue is empty
  all the same when the last one ends (`SamplesAlike`).
- `THREAD_COUNTER` is set back to zero in a function that runs once in a process.
- `variance` returns the standard deviation, and the squares it sums wrap around for deviations of
  2^32 ns, four seconds, and more (`VarianceWraps`). `average` divides by zero without samples.

## 6. Proofs

A theorem holds for every value of the constants that the module's named assumption
allows; `Threads` and `Nodes` are any sets, finite or not. The runs of section 3 check
the same properties on one instance. The theorems are about `Spec` of their module, without
fairness, those of `EbrProofs` about `SpecExit`, in which threads may end, where the table says
so. Each proof has the same shape: an invariant `IInv`, one lemma for each of its
parts or kinds of steps, `IndInit`, `IndStep`, and the property from the invariant.

| module | theorem | statement |
|---|---|---|
| `EbrProofs` | `Inductive`, `TypeCorrect` | `[]IInv`, `[]TypeOK`, of `SpecExit` |
| | `PinBound` | `[]PinHoldsEpoch`, of `SpecExit`; `[]EpochIsHeld` |
| | `Exclusive` | `[]FreeIsExclusive`, of `SpecExit`; `[]OneFrees` |
| | `NearlySorted` | `[]TagsNearlySorted`, of `SpecExit`; `[]TagsSortedByOne` |
| | `FreeIsSafe` | `[]FreeGarbageIsSafe`, of `SpecExit`; `[]NothingHeldIsPopped` |
| | `Conserved` | `[]ConserveInv`, of `SpecExit` |
| | `NoLeakNoDoubleFree` | `[]GarbageConserved`, of `SpecExit` |
| | `Safe` | `[]NoUseAfterFree` |
| | `ImplementsEpochs` | `FollowsScheme` |
| | `ImplementsSafeReclaim` | `KeepsPromise` |
| `MSQueueProofs` | `FifoInductive`, `FifoTypeCorrect` | `[]FifoInv`, `[]QueueTypeOK`, of `LeakingQueue` |
| | `FifoLinksAreHistory` | `[]ChainInOrder` |
| | `ImplementsFifo` | `IsFifo` |
| `EbrQueueProofs` | `Inductive`, `TypeCorrect` | `[]IInv`, `[]TypeOK` |
| | `LinksAreHistory` | `[]ChainInOrder` |
| | `RetiresUnreachable` | `[]GarbageIsUnreachable` |
| | `LeaksNothing` | `[]NothingLeaked` |
| | `PopsSafe` | `[]PopsAreSafe` |
| | `OnePusherSafe` | `[]NoUseAfterFree`, if `OnePusher` |
| `HpQueueProofs` | `Inductive`, `TypeCorrect` | `[]IInv`, `[]TypeOK` |
| | `LinksAreHistory` | `[]ChainInOrder` |
| | `GarbageOnly` | `[]FreesOnlyGarbage` |
| | `LeaksNothing` | `[]NothingLeaked` |
| | `SlotsAreEnough` | `[]SlotsSuffice` |
| | `PopsSafe` | `[]PopsAreSafe` |
| | `OnePusherSafe` | `[]NoUseAfterFree`, if `OnePusher` |
| `MarkedListProofs` | `KeyedInductive`, `LeakingTypeCorrect` | `[]KeyedInv`, `[]TypeOK`, of `LeakingList`, if `SoleRemover` |
| | `LeakingLinksAreHistory` | `[]ChainInOrder`, the same |
| | `TagsAreOwned` | `[]TagsAccountedFor`, the same |
| | `ImplementsKeyedList` | `IsList`, the same |
| `EbrListProofs` | `Inductive`, `TypeCorrect` | `[]IInv`, `[]TypeOK`, if `SoleRemover` |
| | `LinksAreHistory` | `[]ChainInOrder`, the same |
| | `AccessIsSafe` | `[]NoUseAfterFree`, the same; `[]NoUseAfterDrop` if nobody calls `remove_with` |
| | `RetiresUnreachable` | `[]GarbageIsUnreachable`, the same |
| | `WalksMeetAll` | `[]WalkMeetsAll`, the same |
| | `TagTakenBack` | `[]UntagSucceeds`, the same |
| | `LeaksNothing` | `[]NothingLeaked`, the same |
| `HpListProofs` | `Inductive`, `TypeCorrect` | `[]IInv`, `[]TypeOK` |
| | `TagIsLock` | `[]UntagSucceeds` |
| | `SlotsAreEnough` | `[]SlotsSuffice` |
| | `AccessIsSafe` | `[]NoUseAfterFree` |
| | `EachRemovedOnce` | `[]RemovedOnce` |
| | `NoCircle` | `[]NoWaitCycle` |
| `BenchmarksProofs` | `Inductive`, `DataInductive` | `[]IInv`, `[]DataInv` |
| | `CallsInSample` | `[]CallsWithinSample` |
| | `SamplesWhole` | `[]WholeSamples` |
| | `CleanJoins` | `[]JoinsCleanly` |
| | `EachSampleAlike` | `[]SamplesAlike` |

### The scheme of epochs

`EbrAssumption` asks that `BagSize` and `PinInterval` are above zero. `SchemeInv` is what keeps the
scheme at work. Threads may end, by themselves or by a panic inside `pin`, and their markers leave the
list while others walk over it: it holds all the same. It does not when a walk reads a marker that was
freed, so the inductive invariant of `SpecExit` is `IInv == TypeOK /\ (~strayed => SchemeInv)`. The
behaviours of `Spec`, in which nobody ends, are behaviours of `SpecExit` in which no walk strays
(`NobodyStrays`), and there the scheme keeps its promises without a condition. The parts of `SchemeInv`
and why each is needed:

- `PinInv`: a pinned thread's marker has the epoch the thread read, which is at most
  `pinAt`, and the epoch is at most `pinAt + 1`. Thread ids that do not hold are of no
  use: a thread outside `pin` holds nothing.
- `ScanInv`: `PinInv` is not inductive by itself, the walk has a memory. Every pinned
  thread the walk has passed pinned in the epoch being checked or later. With
  `AdvanceSeen`, when the swap succeeds all pinned threads have `pinAt = epoch`. This is what
  a freed marker on the way destroys: the walk may end before it has come to them.
- `FreeInv`: a thread in `free_garbage` has `epoch = localEpoch + 1`. Its own marker,
  with the epoch before, fails every check, so nobody moves the epoch until it
  unpins; that is `FreeIsExclusive`.
- `TagInv`: the epoch of a bag is at most one behind, since the thread is pinned while
  it carries the bag; that is `TagsNearlySorted`.
- `UnlinkedInv`, `HoldInv`, `AgeInv`: bags hold unlinked nodes, a thread that holds a
  node of a bag pinned no later than the epoch of the bag, and the nodes were
  retired no later than that. When a bag expires the thread that frees is at `epoch`,
  `tag + 2 <= epoch`, and by `PinInv` nobody pinned at `tag` or before is left: that
  is `FreeGarbageIsSafe`. All this is of bags in the global queue or on their way; of a
  local bag, which the end of its thread drops too early (section 5), it says nothing.

`NoUseAfterFree` needs that nobody ends and is about `Spec`: `HeldInv`, what is held is live or
retired, is inductive on top of `SchemeInv`. `ConserveInv` (bags are disjoint, and hold exactly the
retired nodes) gives `GarbageConserved`, for `SpecExit` and whatever walks read, and with both invariants every step
of `Spec` is one of `Epochs` and of `SafeReclaim` or a stutter.

### The queues

`MSQueueProofs` proves of the steps of `MSQueue` what does not depend on who reclaims the
nodes; the three queues take it from there. `QueueInv` relates the pointers to the history
`linked`:

- `ChainInv`: `next` of each node in the history is the node after it, and null for the last
  and for a node that was never linked. With it a compare-and-swap from null can only append.
- `EndInv`: the tail is the last node or the one before it. It is not inductive alone: a
  thread may swing the tail from what it loaded long ago, so
- `ThreadInv` says that what a thread has loaded lies no later than the present tail, or head
  (`NotAfter`), and that its `succ` is the node after; then a swap of the tail from `ptr`
  that succeeds moves it by one node.
- `NewInv`: each push has its node to itself until it links it.

Two more formulas are parameterised by the set of nodes that were disposed of. `Garbage(G)`:
they lie before the head, and a node that was taken out has one thread to dispose of it.
`NoLeak(G)`: what was linked is in the queue, or in `G`, or in the hands of that thread.
They are kept by the steps of the operations with `G` as it is (`GarbageMoving`, `LeakMoving`)
and by the retirement with the sentinel added (`GarbageTaken`, `LeakTaken`).

For `LeakingQueue`, `FifoInv` says in addition where each operation is and what its call has seen
(`OpInv`, `SawInv`), and maps each step to one of `FifoQueue`: a push takes effect when its
node is linked, a pop when the head moves, an answer "none" when it was right.
`QueueAssumption` asks that the string `"pending"`, which stands for a result that is not
there, is no node.

`EbrQueueProofs` adds `PinInv` (the rule of `Epochs`: the epoch is at most one past that of a
thread in `pin`) and `PopSafe`. `NoUseAfterFree` for pops is not inductive, since a free
depends on epochs that were read before: `PopSafe` says of a thread that has loaded the head
that every node from there on that is garbage was retired in the epoch the thread
pinned or later, so the rule does not allow to free it yet.

`HpQueueProofs` has in the place of that `PlaceInv`, `StackInv`, `SlotInv` (the slots of a
thread are a stack of at most two, and what is in them at each point of push and pop), and
`KeepInv`. A hazard pointer that is registered does not by itself keep a node, because the
scan reads slots one after the other. `Keeps(t, k, n)` says that who is to free `n` has not
read slot `k` of `t` so far, or is not going to drop it. It begins with the validation, when the node
is the head and so nobody's garbage, and is kept by every step of a scan: a scan that reads the slot
finds the node (`KeepsOn`), and all slots are read (`ScanMeets`, the arithmetic of positions in
`ENTRIES`). `FreedOnce` is part of the invariant, with lemmas about what a queue of distinct nodes is
after an addition and a removal. `HpQueueAssumption` asks for `NumHp >= 2`, which the code's five
satisfy: with one slot `pop` would panic. Two are enough because `free` has given up the caller's
pointer, and `pop` that of the next node, before anything inside `free` registers one (`SlotsAreEnough`).

`NoUseAfterFree` of these two queues does not hold for two pushers (section 5). What is proved
is that pops are safe however many push (`PopsSafe`), and with
`OnePusher == at most one thread has a push among its operations` that all accesses are
(`OnePusherSafe`): then `TailInv` says that the tail lags only while that thread is about to
move it, so what a push follows is the last node, which the head has not passed.

### The lists

The theorems about the lists assume
`SoleRemover == what one thread removes with remove_with nobody else removes by the same value or
from the front`. `remove_with` marks a node with the link it has loaded, tag included, so it may
take a node for its own that another thread has tagged (`list_removed_twice`, section 5); nothing
below holds then. The crate has one caller, `LocalState::drop` (`ebr/mod.rs:372`), which removes the
thread's own marker, and nobody removes other markers. For threads that do not call
`remove_with`, as those of `nothing`, it assumes nothing. The two instances that TLC checks for
these properties satisfy it, which TLC evaluates (`MayAllSuits`, `MayWalkSuits`). `KeyedInv` and the
`IInv` of `EbrListProofs` hold in every state of those instances as well.

`ListInv` is what `MarkedListProofs` shows of the steps of `MarkedList`, whoever reclaims the nodes:

- `LinkInv`: from every node ever inserted the link leads past no node that is still in the list, and
  from those in the list to none that was removed. The second part alone is `ChainInOrder`; the
  first, about removed nodes too, is what a walk that stands on one lives on.
- `TagInv`, `OutTagged`: a tag belongs to a removed node, for good, or to the one thread that is
  between its tag and its swing. `List::drop` removes nodes without a tag, so `OutTagged` is not
  part of `ListInv`.
- `HoldInv`: while a thread has the tag, the node is in the list and its link is what the thread has
  loaded, so that the swing writes the right one. A tag is a lock: this is why.
- `ApartInv`: nobody has the node of another to insert, to remove, or to take.
- `CallInv`: which operation is where, and that its argument is what the thread may call.
- `Within(t, F)`: the nodes of `F`, among them the whole list, link to each other only, and the thread
  stands in `F`. It stays there, whatever is removed, since links of removed nodes do not change. For
  `remove_with` no removed node of `F` has the value it looks for: what it finds is in the list.

`OwedInv` says that a walk is before the nodes it has still to meet, which is `WalkMeetsAll`. `Moving(t)`
are the steps of all lists; one lemma for each kind of step shows that `ListInv` and `Within` are kept.

`EbrListProofs` adds the epochs. `SearchInv` takes for each pinned thread an `F` as above that has no freed
node, and where what is garbage was retired in the epoch the thread pinned or later; at `Enter`
the list itself is such a set. `FreeGarbage` may then take no node of it, which is
`NoUseAfterFree` for all operations and any number of threads: unlike the queues, the lists
have no pointer that lags. This is about what the scheme frees. What the caller of `remove_with` frees is
nobody's responsibility but its own: if nobody calls it `dropped` is empty (`DroppedInv`), and no
freed node is accessed at all; if somebody does, `NoUseAfterDrop` fails (section 5), and
`WalksMeetAll` is about walks that meet no such node. `GoneInv` says that a removed node has been handed over, or one
thread is about to; with `DropInv` it holds while the list is dropped.

`KeyedInv` is `ListInv` with what calls have seen. `SawInv`: the history `saw` has what there is now.
`SeenWithin(t, F)`: if a node of `F` has what the thread looks for, it has been in the list during the call,
so "found" is right even on a removed node. `Ahead(t)`: as long as the value was never missing and
no two nodes have it, the node is not behind the thread; so "none" at the end of the walk is right.
A step of a list is then one of `KeyedList`, or a stutter (`PromiseStep`): an insertion at the
swap of the head, a removal at the swing, an answer when the walk ends. The mapped
list `Items` puts each node at its `Place`, the number of nodes from the head to it, and
`ItemsInsert` and `ItemsRemove` are lemmas on sequences from that. `ListAssumption` says that `Null` and
`Root` are no nodes, that `"pending"`, no result yet, is neither a node nor `Null`, and that threads call
operations of the list.

`HpListProofs` adds the slots. `HpListAssumption` asks for `NumHp >= 3`, which the code's five
satisfy, that nodes are not filled in twice, and that what one thread removes with `remove_with` no
other does. In the code of `hp` only `ENTRIES` has that removal, and has no other, so this takes the
place of `SoleRemover`. The parts of its invariant:

- `PlaceInv`, `GuardInv`: where a thread is, and what it has to register, validate or give up before
  the next step. A removal stands before and on neighbours, and has the node before in a slot too.
- `SlotInv`: a thread's slots hold what it `Wants` at that point, two nodes at most and each once,
  so an operation registers no third. Within `free` it has one at most, that of the node before
  (`FewHeld`), and `free` needs two empty ones at a time: three slots, which is `SlotsSuffice`.
- `KeepInv`: each node an operation has validated and not given up (`Protected`) has a slot that
  shields it: the node is not freed, and who is to free it has not read that slot so far
  (`Shields`). As in the queue it begins with the validation, when the node is found in the list
  and nobody can have begun to free it, and lasts while scans go on (`ShieldsOn`), since a scan meets every slot
  (`ScanMeets`). What is accessed is protected: `NoUseAfterFree`, of every operation but the
  iterator, which gives up a node before its caller uses it (section 5).
- `WithInv`: what `remove_with` has found is in the list, although it marks a node whatever its tag.
- `DisposeInv`: a removed node is in one thread's hands (`Hand`), or is garbage, waiting or freed
  (`Gone`), and only once; that is `RemovedOnce`. `List::drop` frees nodes without tagging them, so
  `OutTagged` holds only until then (`Dropped`).
- `WaitInv`: a thread that waits until its node is in no slot has itself only nodes that come before
  that one, as a removal stands before the node it removes. Of threads that wait for each other in a
  circle take the one whose node comes last: whoever has that node in a slot waits with a node of its own
  that comes later still. That is `NoWaitCycle`.

### The benchmarks

The invariant `IInv` of `BenchmarksProofs` says for each place of the main thread in `thread_bench`
and `into_stats` what there is between it and a thread: nothing (`Idle`), `Run` on its way or
taken (`Called`), the call or its answer (`Measured`), the answer taken (`Answered`), or `End` ahead of
everything else (`Dismissed`); the threads before `who` have been served in the round that is under
way. It holds for users too, who call `thread_bench` again or drop the bencher, and for threads that
panic.

`DataInv` is about the benchmarks of `main`: a thread that is not in the function has no turn, the
numbers given out are the first ones and each has one thread, and `Working` says what the bags have while
threads are at it. A key was pushed by as many threads as are past it (`PushInv`). As long as there is
something to pop, a thread will come back for it (`DrainInv`), although the pop of `nothing` may make
others stop: the one that wins the race does not. In a transfer each key is in the source, in the
sink, or with one thread (`TransferInv`). In `list_remove` what is gone is what the threads have
passed in their residue classes (`RemoveInv`), so each finds what it wants and none panics
(`NoPanic`). With `IInv`, which says that nobody is in the function when the main thread has all
answers, `SampleLeaves` gives the contents after a sample, and `Before` those the next one starts
with; that is `SamplesAlike`, for any numbers of threads and elements. For users, whose functions do anything, and
for a number of threads that does not divide the elements, it says nothing.

### Tagged pointers

`EbrListProofs` ends with theorems about the words of `TaggedPtr`, for every width and alignment: `TagReplaced` (tagging
changes the tag, and nothing else), `FetchesKeepPointer`, `WordsTellApart` (pointer and tag can be
read off a word), `HazardIgnoresTag` (a scan finds what was registered with its tag on, and
nothing else) and `ComparesLinks` (a compare-and-set on words does what `MarkedList` does on
records). They are set theory and follow from the definitions and from tags being lower than
the word is wide.

### Only model-checked

Liveness (`EpochAdvances`, `FreeLoopTerminates`, `LockFree`, `Terminates`, `FreeTerminates`,
`Returns`) needs fairness and is out of the prover's reach. What `BenchStats` computes is checked for
small samples; it would need induction over data. Every invariant of a passing run is stated by
a theorem.

## 7. Plan

Done, in this order: the scheme of epochs and its proofs; queues and lists under epochs and
without; hazard pointers with their queue and list; tagged pointers; benchmarks; the proofs about
the queues, the lists, each with either way of reclamation and without, threads that end, and the
benchmarks. Left: that hazard pointers implement `SafeReclaim` for validated pointers. Its `Release`
gives up all pointers of a thread at once, as the end of `pin` does; hazard pointers are given up one at
a time, so the promise has to be restated per pointer first.

### Not modelled

- `len` of the queues, `is_empty` of the structures of `hp`: they change nothing, and for `hp`
  follow pointers that are not registered.
- `HAZARD_QUEUE` link by link. Its sentinels are freed by `spin`, the loop of `hp-wait`; the
  queue is a sequence here. `ENTRIES` is a fixed sequence for the scan, since what a walk over
  entries that were freed finds is undefined; its list is modelled by `HpList` with `global`.
- Addresses are not used again after they were freed, so nothing is said of ABA: a node that is
  reachable is never freed, which is what rules it out for readers that hold a pointer.
- Memory orderings weaker than sequentially consistent, in `nothing/queue.rs`.
- `Bencher`, `BenchIdentifier`, `report` and the formatting of samples: sequential code on strings.
- The queue of crossbeam in the runner is external; the benchmarks on it are those of the others.
