----------------------------- MODULE Benchmarks ----------------------------
(***************************************************************************)
(* The benchmarks of benchmark-runner (src/benches.rs, src/main.rs), on    *)
(* the threads of ThreadBencher.  A command line selects benchmarks by     *)
(* their names and the number of threads; they are run one after the       *)
(* other, and the samples are written when all have returned.              *)
(*                                                                         *)
(* Queues and lists are bags here, and an operation on one is a step: what *)
(* they are made of is in MSQueue and MarkedList.  The three NUM_ELEMENTS  *)
(* are one constant.                                                       *)
(***************************************************************************)
EXTENDS ThreadBencher

CONSTANTS
  Elements,  \* NUM_ELEMENTS, NUM_ELEMENTS_NOTHING, NUM_ELEMENTS_SMALLER
  Args       \* command lines: the benchmarks selected and num_threads

VARIABLES
  todo,      \* the benchmarks left, the first one is under way
  stats,     \* how many have returned their samples
  written,   \* how many were written,
  aborted,   \* or that the process has panicked
  store,     \* State.queue, State.source or State.list,
  sink,      \* and State.sink
  turn,      \* how often each thread has been round the loop
  next_id,   \* THREAD_COUNTER
  id         \* THREAD_ID, num_threads before its first use

dataVars == <<store, sink, turn, next_id, id>>
runVars == <<todo, stats, written, aborted>>
vars == <<benchVars, runVars, dataVars>>

Keys == 0..Elements - 1
Overtaken == Elements + 1   \* for turn, see PopFrom
Empty == [k \in Keys |-> 0]
Full == [k \in Keys |-> 1]
Filled(s) == [k \in Keys |-> s[k] + 1]

Names(variant) ==
  (IF variant = "cb" THEN <<>> ELSE <<"list_remove", "list_real">>)
    \o <<"nop", "queue_pop", "queue_push", "queue_transfer">>
Named(variant) ==
  [i \in DOMAIN Names(variant) |-> [variant |-> variant, name |-> Names(variant)[i]]]

(* The vector of main. *)
Benches == Named("cb") \o Named("ebr") \o Named("hp") \o Named("nothing")

(* Any other user of the library, with a function of which nothing is      *)
(* known but that it ends.                                                 *)
Users == {[variant |-> v, name |-> "user"] : v \in {"std", "hp"}}

ASSUME BenchmarksAssumption ==
  /\ Elements \in Nat \ {0}
  /\ \A a \in Args : /\ a.num_threads \in Nat \ {0}
                     /\ a.selected \subseteq
                          {Benches[i] : i \in DOMAIN Benches} \cup Users

Bench == Head(todo)
IsUser == todo # <<>> /\ Bench.name = "user"
IsHp(b) == b.variant = "hp"
Running == todo # <<>> /\ ~aborted

SpawnerOf(b) == IF IsHp(b) THEN "hp" ELSE "std"

Init ==
  /\ \E a \in Args :
       LET users == a.selected \cap Users
       IN  /\ num_threads = a.num_threads
           /\ \/ todo = SelectSeq(Benches, LAMBDA b : b \in a.selected)
              \/ \E u \in users : todo = <<u>>
  /\ spawner = IF todo = <<>> THEN "std" ELSE SpawnerOf(Bench)
  /\ BencherInit
  /\ store = Empty /\ sink = Empty
  /\ turn = [t \in Threads |-> 0]
  /\ next_id = 0 /\ id = [t \in Threads |-> num_threads]
  /\ stats = 0 /\ written = 0 /\ aborted = FALSE

TypeOK ==
  /\ BencherTypeOK
  /\ store \in [Keys -> Nat] /\ sink \in [Keys -> Nat]
  /\ turn \in [Threads -> 0..Overtaken]
  /\ next_id \in 0..num_threads /\ id \in [Threads -> 0..num_threads]
-----------------------------------------------------------------------------
(* What is done before each sample, by the main thread. *)

(* Mutant: what the sample before has left is not taken out. *)
PreparePushNot ==
  /\ Bench.name = "queue_push"
  /\ UNCHANGED <<store, sink>>

PreparePush == Bench.name = "queue_push" /\ store' = Empty /\ UNCHANGED sink

PreparePop == Bench.name = "queue_pop" /\ store' = Full /\ UNCHANGED sink
PrepareTransfer ==
  Bench.name = "queue_transfer" /\ sink' = Empty /\ store' = Filled(store)
PrepareReal == Bench.name = "list_real" /\ store' = Full /\ UNCHANGED sink
PrepareNothing ==
  Bench.name \in {"nop", "user"} /\ UNCHANGED <<store, sink>>

(* The list is not emptied; that of hp has to be empty. *)
PrepareRemove ==
  /\ Bench.name = "list_remove"
  /\ IsHp(Bench) => store = Empty
  /\ store' = Filled(store) /\ UNCHANGED sink

Before ==
  /\ RunBefore
  /\ \/ PreparePush \/ PreparePop \/ PrepareTransfer \/ PrepareRemove
     \/ PrepareReal \/ PrepareNothing
  /\ UNCHANGED <<turn, next_id, id>>

BeforePanics ==
  /\ mpc = "before" /\ IsHp(Bench) /\ Bench.name = "list_remove"
  /\ store # Empty
  /\ Panic
  /\ UNCHANGED dataVars
-----------------------------------------------------------------------------
(* The functions that are measured. *)

Share == Elements \div num_threads
Add(s, k) == [s EXCEPT ![k] = @ + 1]
Take(s, k) == [s EXCEPT ![k] = @ - 1]
Within(s) == {k \in Keys : s[k] > 0}
Around(t) == turn' = [turn EXCEPT ![t] = @ + 1]

Push(t) ==
  /\ Bench.name = "queue_push" /\ turn[t] < Share
  /\ store' = Add(store, turn[t])
  /\ Around(t)
  /\ UNCHANGED <<sink, next_id, id>>

(* The pop of nothing answers None when another thread has moved the head  *)
(* first, so each pop may make the threads that are popping stop.          *)
MayLose(t) ==
  IF Bench.variant = "nothing"
    THEN {u \in Threads \ {t} : tpc[u] = "call" /\ turn[u] = 0} ELSE {}

PopFrom(t, then) ==
  \E k \in Within(store), losers \in SUBSET MayLose(t) :
    /\ store' = Take(store, k)
    /\ turn' = [u \in Threads |-> CASE u \in losers -> Overtaken
                                   [] u = t -> then[k]
                                   [] OTHER -> turn[u]]

Pop(t) ==
  /\ Bench.name = "queue_pop" /\ turn[t] = 0
  /\ PopFrom(t, Empty)
  /\ UNCHANGED <<sink, next_id, id>>

(* One element: popped, and pushed. *)
Transfer(t) ==
  /\ Bench.name = "queue_transfer"
  /\ \/ turn[t] = 0 /\ PopFrom(t, [k \in Keys |-> k + 1]) /\ UNCHANGED sink
     \/ /\ turn[t] \notin {0, Overtaken}
        /\ sink' = Add(sink, turn[t] - 1) /\ turn' = [turn EXCEPT ![t] = 0]
        /\ UNCHANGED store
  /\ UNCHANGED <<next_id, id>>

(* A thread takes the next number when it asks for its own first. *)
TakeId(t) ==
  /\ Bench.name = "list_remove" /\ id[t] = num_threads
  /\ id' = [id EXCEPT ![t] = next_id] /\ next_id' = next_id + 1
  /\ UNCHANGED <<store, sink, turn>>

Key(t) == turn[t] * num_threads + id[t]

(* Each thread removes the elements of its own residue class. *)
RemoveOwn(t) ==
  /\ Bench.name = "list_remove" /\ id[t] < num_threads
  /\ turn[t] < Share /\ store[Key(t)] > 0
  /\ store' = Take(store, Key(t))
  /\ Around(t)
  /\ UNCHANGED <<sink, next_id, id>>

(* random_op, and what it does to the list. *)
RealStep(t) ==
  /\ Bench.name = "list_real" /\ turn[t] < Elements
  /\ \/ \E k \in Keys : store' = Add(store, k)
     \/ UNCHANGED store
     \/ \E k \in Within(store) : store' = Take(store, k)
  /\ Around(t)
  /\ UNCHANGED <<sink, next_id, id>>

(* What else a function may do: use a hazard pointer. *)
UserStep(t) ==
  /\ Bench.name = "user" /\ t \notin entries
  /\ UNCHANGED dataVars

Function(t) ==
  Push(t) \/ Pop(t) \/ Transfer(t) \/ TakeId(t) \/ RemoveOwn(t) \/ RealStep(t)
    \/ UserStep(t)

Ends(t) ==
  CASE Bench.name = "queue_push" -> turn[t] = Share
    [] Bench.name \in {"queue_pop", "queue_transfer"} ->
         turn[t] = Overtaken \/ (turn[t] = 0 /\ store = Empty)
    [] Bench.name = "list_remove" -> id[t] < num_threads /\ turn[t] = Share
    [] Bench.name = "list_real" -> turn[t] = Elements
    [] OTHER -> TRUE

(* Only a user's function panics, or remove, when it does not find what it *)
(* wants.                                                                  *)
Panics(t) ==
  \/ Bench.name = "user"
  \/ /\ Bench.name = "list_remove" /\ id[t] < num_threads
     /\ turn[t] < Share /\ store[Key(t)] = 0

Call(t) ==
  \/ Work(t, IsHp(Bench)) /\ Function(t)
  \/ /\ Ends(t) /\ EndCall(t, "reply")
     /\ turn' = [turn EXCEPT ![t] = 0]
     /\ UNCHANGED <<store, sink, next_id, id>>
  \/ Panics(t) /\ EndCall(t, "panicked") /\ UNCHANGED dataVars

ThreadStep(t) ==
  /\ Running
  /\ \/ Call(t)
     \/ RecvSignal(t) /\ UNCHANGED dataVars
     \/ Reply(t) /\ UNCHANGED dataVars
     \/ EndThread(t) /\ UNCHANGED dataVars
  /\ UNCHANGED runVars
-----------------------------------------------------------------------------
(* main *)

(* A benchmark calls thread_bench once and then into_stats; a user may do  *)
(* otherwise.                                                              *)
Choose ==
  /\ \/ CallThreadBench /\ (IsUser \/ calls = 0)
     \/ IntoStats /\ (IsUser \/ calls = 1)
     \/ DropBencher /\ IsUser
  /\ UNCHANGED <<runVars, dataVars>>

Sample ==
  /\ \/ Before \/ BeforePanics
     \/ (SendRun \/ PassBarrier \/ Receive \/ SendEnd \/ RunAfter \/ Joining)
          /\ UNCHANGED dataVars
  /\ UNCHANGED runVars

(* The samples are kept and the next benchmark starts, with structures and *)
(* threads of its own.                                                     *)
NextBench ==
  /\ ~IsUser /\ mpc = "done"
  /\ todo' = Tail(todo) /\ stats' = stats + 1
  /\ spawner' = IF todo' = <<>> THEN spawner ELSE SpawnerOf(Head(todo'))
  /\ NewBencher
  /\ store' = Empty /\ sink' = Empty
  /\ turn' = [t \in Threads |-> 0]
  /\ next_id' = 0 /\ id' = [t \in Threads |-> num_threads]
  /\ UNCHANGED <<written, aborted>>

(* The process ends with its main thread: a panic in a benchmark, or that  *)
(* none was selected.                                                      *)
Abort ==
  /\ \/ todo # <<>> /\ ~IsUser /\ mpc = "panicked"
     \/ todo = <<>> /\ stats = 0
  /\ ~aborted /\ aborted' = TRUE
  /\ UNCHANGED <<benchVars, dataVars, todo, stats, written>>

(* A file is written, or cannot be made; or the samples are printed. *)
WriteSamples ==
  /\ todo = <<>> /\ ~aborted /\ written < stats
  /\ \/ written' = written + 1 /\ UNCHANGED aborted
     \/ aborted' = TRUE /\ UNCHANGED written
  /\ UNCHANGED <<benchVars, dataVars, todo, stats>>

MainStep ==
  \/ Running /\ (Sample \/ NextBench)
  \/ Abort
  \/ WriteSamples

Next ==
  \/ Running /\ Choose
  \/ MainStep
  \/ \E t \in Threads : ThreadStep(t)

Spec == Init /\ [][Next]_vars

(* The main thread and the others go on; a user need not call anything.    *)
FairSpec ==
  /\ Spec
  /\ WF_vars(MainStep) /\ WF_vars(Running /\ ~IsUser /\ Choose)
  /\ \A t \in UNION {1..a.num_threads : a \in Args} :
       WF_vars(t \in Threads /\ ThreadStep(t))
-----------------------------------------------------------------------------
(* The threads have the state to themselves while they run the function:   *)
(* before and after, which change it (bench/lib.rs:426, 446), are called   *)
(* when none of them does.  Only the panic of a thread ends the sample     *)
(* while others are still at it.                                           *)
CallsWithinSample ==
  \A t \in Threads :
    tpc[t] = "call" => mpc = "recv" \/ \E u \in Threads : tpc[u] = "panicked"

(* "All threads will run the function given" (bench/lib.rs:420): as often  *)
(* as there are samples, and none is still at it when the sample is over.  *)
WholeSamples ==
  mpc \in {"idle", "before", "send", "end", "after", "join", "done"} =>
    \A t \in Threads : ran[t] = samples

(* What the sample works on, and what it leaves.                           *)
Pushed == [k \in Keys |-> IF k < Share THEN num_threads ELSE 0]
Divides == Elements % num_threads = 0

(* The samples measure the same work: each starts with the same contents,  *)
(* and each but that of list_real ends with the same, whatever the threads *)
(* did in which order.  list_remove needs a number of threads that divides *)
(* the number of elements.                                                 *)
SamplesAlike ==
  (Running /\ ~IsUser /\ (Bench.name = "list_remove" => Divides)) =>
    /\ mpc \in {"send", "barrier"} =>
         /\ sink = Empty
         /\ Bench.name = "queue_push" => store = Empty
         /\ Bench.name \notin {"queue_push", "nop"} => store = Full
    /\ mpc = "end" =>
         /\ Bench.name = "queue_push" => store = Pushed
         /\ Bench.name = "queue_transfer" => sink = Full
         /\ Bench.name \notin {"queue_push", "list_real"} => store = Empty

(* A thread of hp that is joined is there to hear of it: the assertion of  *)
(* hp/mod.rs:99 holds.  When into_stats has returned no thread has an      *)
(* entry in ENTRIES any more, though each removes its own, and only when   *)
(* it is joined.                                                           *)
JoinsCleanly ==
  /\ spawner = "hp" /\ mpc = "join" => ~(tpc[who] \in {"ended", "panicked"})
  /\ mpc = "done" => entries = {}

(* The first call of thread_bench returns, or panics with the function;    *)
(* into_stats after it returns; and when the ThreadBencher is gone all     *)
(* threads end.                                                            *)
Returns ==
  /\ (mpc = "before" /\ calls <= 1) ~> (mpc \in {"idle", "panicked"})
  /\ (mpc = "join" /\ calls > 0) ~> (mpc \in {"done", "panicked"})
  /\ (IsUser /\ MainGone) ~> \A t \in Threads : tpc[t] \in {"ended", "panicked"}
=============================================================================
