--------------------------- MODULE ThreadBencher ---------------------------
(***************************************************************************)
(* The threads of a benchmark: ThreadBencher of bench/src/lib.rs, and      *)
(* spawn and join of src/hp/mod.rs, which it can be used with.  The main   *)
(* thread sends each thread Run, meets all of them at a barrier, waits for *)
(* their answers, and after the last sample sends End.                     *)
(*                                                                         *)
(* What the function that is measured does, and how the state is prepared, *)
(* is left to Benchmarks.                                                  *)
(***************************************************************************)
EXTENDS Naturals, Sequences

CONSTANTS
  NumSamples,   \* DEFAULT_NUM_SAMPLES
  MaxCalls      \* bound: thread_bench is called at most this often

ASSUME BencherAssumption == NumSamples \in Nat \ {0} /\ MaxCalls \in Nat

VARIABLES
  num_threads,
  spawner,   \* which implementation of Spawner is used, "std" or "hp"
  mpc,       \* where the main thread is
  who,       \* the thread it sends to, hears from or joins next
  left,      \* samples left in this call of thread_bench
  calls,     \* calls of thread_bench
  samples,   \* ThreadBencher.samples, how many
  tpc,       \* where each thread is
  inbox,     \* signals sent to it,
  outbox,    \* signals it has sent,
  joined,    \* and the unit that the join of hp sends
  entries,   \* threads with an entry in ENTRIES
  ran        \* history: how often each thread has run the function

mainVars == <<mpc, who, left, calls, samples>>
threadVars == <<tpc, inbox, outbox, joined, entries, ran>>
kindVars == <<num_threads, spawner>>
benchVars == <<kindVars, mainVars, threadVars>>

Threads == 1..num_threads

BencherTypeOK ==
  /\ num_threads \in Nat \ {0}
  /\ spawner \in {"std", "hp"}
  /\ mpc \in {"idle", "before", "send", "barrier", "recv", "end", "after",
              "join", "joining", "done", "dropped", "panicked"}
  /\ who \in Threads /\ left \in 0..NumSamples /\ calls \in 0..MaxCalls
  /\ samples \in 0..(MaxCalls * NumSamples)
  /\ tpc \in [Threads -> {"recv", "barrier", "call", "reply", "returned",
                          "ended", "panicked"}]
  /\ inbox \in [Threads -> Seq({"Run", "End"})]
  /\ outbox \in [Threads -> Seq({"Done"})]
  /\ joined \subseteq Threads /\ entries \subseteq Threads
  /\ ran \in [Threads -> Nat]

BencherInit ==
  /\ mpc = "idle" /\ who = 1 /\ left = 0 /\ calls = 0 /\ samples = 0
  /\ tpc = [t \in Threads |-> "recv"]
  /\ inbox = [t \in Threads |-> <<>>] /\ outbox = [t \in Threads |-> <<>>]
  /\ joined = {} /\ entries = {}
  /\ ran = [t \in Threads |-> 0]

(* ThreadBencher::new, once more; what is in ENTRIES stays there.          *)
NewBencher ==
  /\ mpc' = "idle" /\ who' = 1 /\ left' = 0 /\ calls' = 0 /\ samples' = 0
  /\ tpc' = [t \in Threads |-> "recv"]
  /\ inbox' = [t \in Threads |-> <<>>] /\ outbox' = [t \in Threads |-> <<>>]
  /\ joined' = {}
  /\ ran' = [t \in Threads |-> 0]
  /\ UNCHANGED <<num_threads, entries>>
-----------------------------------------------------------------------------
(* A thread that has left the loop has dropped its ends of the channels,   *)
(* and so has the main thread when the ThreadBencher is gone.              *)
Gone(t) == tpc[t] \in {"returned", "ended", "panicked"}
MainGone == mpc \in {"done", "dropped", "panicked"}

MainAt(p) == mpc' = p /\ UNCHANGED <<left, calls, samples>>
NextOr(p) ==
  \/ who < num_threads /\ who' = who + 1 /\ UNCHANGED mpc
  \/ who = num_threads /\ who' = 1 /\ mpc' = p

(* The ThreadBencher is dropped while the main thread unwinds. *)
Panic == MainAt("panicked") /\ UNCHANGED <<kindVars, who, threadVars>>

CallThreadBench ==
  /\ mpc = "idle" /\ calls < MaxCalls
  /\ calls' = calls + 1 /\ left' = NumSamples
  /\ mpc' = "before"
  /\ UNCHANGED <<kindVars, who, samples, threadVars>>

RunBefore ==
  /\ mpc = "before"
  /\ MainAt("send")
  /\ UNCHANGED <<kindVars, who, threadVars>>

Send(signal) ==
  /\ ~Gone(who)
  /\ inbox' = [inbox EXCEPT ![who] = Append(@, signal)]
  /\ UNCHANGED <<kindVars, left, calls, samples, tpc, outbox, joined, entries,
                 ran>>

SendRun ==
  /\ mpc = "send"
  /\ \/ Send("Run") /\ NextOr("barrier")
     \/ Gone(who) /\ Panic

(* All threads and the main thread are at the barrier. *)
PassBarrier ==
  /\ mpc = "barrier"
  /\ \A t \in Threads : tpc[t] = "barrier"
  /\ tpc' = [t \in Threads |-> "call"]
  /\ MainAt("recv")
  /\ UNCHANGED <<kindVars, who, inbox, outbox, joined, entries, ran>>

EndSample ==
  /\ samples' = samples + 1 /\ left' = left - 1
  /\ who' = 1
  /\ mpc' = IF left = 1 THEN "end" ELSE "before"

(* Mutant: the first answer ends the sample. *)
ReceiveOne ==
  /\ mpc = "recv"
  /\ outbox[who] # <<>>
  /\ outbox' = [outbox EXCEPT ![who] = Tail(@)]
  /\ EndSample
  /\ UNCHANGED <<kindVars, calls, tpc, inbox, joined, entries, ran>>

(* Mutant: waits for the answer of a thread that has panicked. *)
ReceiveForEver ==
  /\ mpc = "recv"
  /\ outbox[who] # <<>>
  /\ outbox' = [outbox EXCEPT ![who] = Tail(@)]
  /\ \/ /\ who < num_threads /\ who' = who + 1
        /\ UNCHANGED <<mpc, left, samples>>
     \/ who = num_threads /\ EndSample
  /\ UNCHANGED <<kindVars, calls, tpc, inbox, joined, entries, ran>>

Receive ==
  /\ mpc = "recv"
  /\ \/ /\ outbox[who] # <<>>
        /\ outbox' = [outbox EXCEPT ![who] = Tail(@)]
        /\ \/ /\ who < num_threads /\ who' = who + 1
              /\ UNCHANGED <<mpc, left, samples>>
           \/ who = num_threads /\ EndSample
        /\ UNCHANGED <<kindVars, calls, tpc, inbox, joined, entries, ran>>
     \/ outbox[who] = <<>> /\ Gone(who) /\ Panic

SendEnd ==
  /\ mpc = "end"
  /\ \/ Send("End") /\ NextOr("after")
     \/ Gone(who) /\ Panic

RunAfter ==
  /\ mpc = "after"
  /\ MainAt("idle")
  /\ UNCHANGED <<kindVars, who, threadVars>>

IntoStats ==
  /\ mpc = "idle"
  /\ MainAt("join")
  /\ UNCHANGED <<kindVars, who, threadVars>>

(* JoinHandle::join of hp sends the thread a unit first, which has to      *)
(* succeed; see JoinsCleanly.                                              *)
SendJoin ==
  /\ mpc = "join" /\ spawner = "hp"
  /\ joined' = joined \cup {who}
  /\ MainAt("joining")
  /\ UNCHANGED <<kindVars, who, tpc, inbox, outbox, entries, ran>>

Join ==
  /\ mpc = IF spawner = "hp" THEN "joining" ELSE "join"
  /\ tpc[who] \in {"ended", "panicked"}
  /\ who' = IF who < num_threads THEN who + 1 ELSE 1
  /\ mpc' = IF who < num_threads THEN "join" ELSE "done"
  /\ UNCHANGED <<kindVars, left, calls, samples, threadVars>>

(* The ThreadBencher goes out of scope without into_stats. *)
DropBencher ==
  /\ mpc = "idle"
  /\ MainAt("dropped")
  /\ UNCHANGED <<kindVars, who, threadVars>>
-----------------------------------------------------------------------------
ThreadAt(t, p) == tpc' = [tpc EXCEPT ![t] = p]

RecvSignal(t) ==
  /\ tpc[t] = "recv"
  /\ \/ /\ inbox[t] # <<>>
        /\ ThreadAt(t, IF Head(inbox[t]) = "Run" THEN "barrier" ELSE "returned")
        /\ inbox' = [inbox EXCEPT ![t] = Tail(@)]
     \/ /\ inbox[t] = <<>> /\ MainGone
        /\ ThreadAt(t, "panicked")
        /\ UNCHANGED inbox
  /\ UNCHANGED <<kindVars, mainVars, outbox, joined, entries, ran>>

(* The function does something, with hazard pointers or without: the first *)
(* use of one makes the entry of the thread.                               *)
Work(t, uses) ==
  /\ tpc[t] = "call"
  /\ entries' = IF uses THEN entries \cup {t} ELSE entries
  /\ UNCHANGED <<kindVars, mainVars, tpc, inbox, outbox, joined, ran>>

(* The function returns, or panics. *)
EndCall(t, p) ==
  /\ tpc[t] = "call"
  /\ ThreadAt(t, p)
  /\ ran' = [ran EXCEPT ![t] = @ + 1]
  /\ UNCHANGED <<kindVars, mainVars, inbox, outbox, joined, entries>>

Reply(t) ==
  /\ tpc[t] = "reply"
  /\ \/ /\ ~MainGone
        /\ outbox' = [outbox EXCEPT ![t] = Append(@, "Done")]
        /\ ThreadAt(t, "recv")
     \/ MainGone /\ ThreadAt(t, "panicked") /\ UNCHANGED outbox
  /\ UNCHANGED <<kindVars, mainVars, inbox, joined, entries, ran>>

(* Mutant: a thread of hp does not wait for join and keeps its entry. *)
EndThreadNow(t) ==
  /\ tpc[t] = "returned"
  /\ ThreadAt(t, "ended")
  /\ UNCHANGED <<kindVars, mainVars, inbox, outbox, joined, entries, ran>>

(* A thread of hp waits for join, and only then removes its entry; when    *)
(* the handle is dropped instead the entry stays.                          *)
EndThread(t) ==
  /\ tpc[t] = "returned"
  /\ \/ spawner = "std" /\ UNCHANGED entries
     \/ spawner = "hp" /\ t \in joined /\ entries' = entries \ {t}
     \/ /\ spawner = "hp" /\ t \notin joined /\ MainGone
        /\ UNCHANGED entries
  /\ ThreadAt(t, "ended")
  /\ UNCHANGED <<kindVars, mainVars, inbox, outbox, joined, ran>>

ThreadBench ==
  RunBefore \/ SendRun \/ PassBarrier \/ Receive \/ SendEnd \/ RunAfter
Joining == SendJoin \/ Join
=============================================================================
