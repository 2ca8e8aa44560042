-------------------------- MODULE BenchmarksProofs -------------------------
(* Theorems about Benchmarks for any number of threads, samples, calls and *)
(* elements: first about the protocol of the threads, whatever the         *)
(* functions that are measured do; then about what these do to the data.   *)
EXTENDS Benchmarks, FiniteSetTheorems, SequenceTheorems, TLAPS

(* What there is between the main thread and one of the others:            *)
(* nothing,                                                                *)
Idle(t) ==
  tpc[t] = "recv" /\ inbox[t] = <<>> /\ outbox[t] = <<>> /\ ran[t] = samples

(* Run, on its way or taken,                                               *)
Called(t) ==
  /\ \/ tpc[t] = "recv" /\ inbox[t] = <<"Run">>
     \/ tpc[t] = "barrier" /\ inbox[t] = <<>>
  /\ outbox[t] = <<>> /\ ran[t] = samples

(* a call that is under way or was answered,                               *)
Measured(t) ==
  /\ inbox[t] = <<>>
  /\ \/ tpc[t] = "call" /\ outbox[t] = <<>> /\ ran[t] = samples
     \/ tpc[t] \in {"reply", "panicked"} /\ outbox[t] = <<>> /\ ran[t] = samples + 1
     \/ tpc[t] = "recv" /\ outbox[t] = <<"Done">> /\ ran[t] = samples + 1

(* an answer that was taken,                                               *)
Answered(t) ==
  tpc[t] = "recv" /\ inbox[t] = <<>> /\ outbox[t] = <<>> /\ ran[t] = samples + 1

(* or End, which is the first it hears of, whatever is sent later.         *)
Dismissed(t) ==
  /\ tpc[t] \in {"recv", "returned", "ended"}
  /\ tpc[t] = "recv" => inbox[t] # <<>> /\ Head(inbox[t]) = "End"
  /\ tpc[t] = "ended" /\ spawner = "hp" => t \in joined
  /\ outbox[t] = <<>> /\ ran[t] = samples

(* Where the thread is when the main thread is somewhere.  In a round the  *)
(* threads before `who` have been served.  Only the first call finds the   *)
(* threads as it expects them.                                             *)
ThreadInv(t) ==
  /\ mpc = "idle" => IF calls = 0 THEN Idle(t) ELSE Dismissed(t)
  /\ mpc = "before" => IF calls = 1 THEN Idle(t) ELSE Dismissed(t)
  /\ mpc = "send" =>
       IF calls > 1 THEN Dismissed(t) ELSE IF t < who THEN Called(t) ELSE Idle(t)
  /\ mpc = "barrier" => IF calls = 1 THEN Called(t) ELSE Dismissed(t)
  /\ mpc = "recv" => IF t < who THEN Answered(t) ELSE Measured(t)
  /\ mpc = "end" => IF t < who THEN Dismissed(t) ELSE Idle(t)
  /\ mpc = "after" => Dismissed(t)
  /\ mpc \in {"join", "joining"} =>
       /\ IF calls = 0 THEN Idle(t) ELSE Dismissed(t)
       /\ t < who => tpc[t] = "ended"
  /\ mpc = "done" => tpc[t] = "ended" /\ ran[t] = samples

MainInv ==
  /\ mpc \in {"before", "send", "barrier", "after"} => calls > 0
  /\ mpc \in {"recv", "end"} => calls = 1
  /\ mpc \in {"idle", "before", "barrier", "after"} => who = 1
  /\ mpc \in {"dropped", "panicked"} =>
       \/ \E t \in Threads : tpc[t] = "panicked"
       \/ \A t \in Threads : tpc[t] # "call"

(* Which threads have been joined, *)
JoinedInv(t) ==
  /\ mpc \notin {"join", "joining", "done"} => t \notin joined
  /\ mpc = "join" => (t \in joined <=> spawner = "hp" /\ t < who)
  /\ mpc = "joining" => spawner = "hp" /\ (t \in joined <=> t <= who)

(* and whose entries are left in ENTRIES. *)
EntriesInv ==
  /\ spawner = "std" => entries = {}
  /\ mpc \notin {"dropped", "panicked"} => \A t \in entries : tpc[t] # "ended"

SpawnerInv == todo # <<>> => spawner = SpawnerOf(Bench)

JoinInv == (\A t \in Threads : JoinedInv(t)) /\ EntriesInv /\ SpawnerInv

(* As much of the types as this needs. *)
TypeInv ==
  /\ num_threads \in Nat \ {0} /\ who \in Threads
  /\ spawner \in {"std", "hp"}
  /\ mpc \in {"idle", "before", "send", "barrier", "recv", "end", "after", "join",
              "joining", "done", "dropped", "panicked"}
  /\ calls \in Nat /\ samples \in Nat
  /\ tpc \in [Threads -> {"recv", "barrier", "call", "reply", "returned",
                          "ended", "panicked"}]
  /\ inbox \in [Threads -> Seq({"Run", "End"})]
  /\ outbox \in [Threads -> Seq({"Done"})]
  /\ entries \subseteq Threads
  /\ ran \in [Threads -> Nat]

IInv == TypeInv /\ MainInv /\ JoinInv /\ \A t \in Threads : ThreadInv(t)
-----------------------------------------------------------------------------
(* The steps of a benchmark that the invariant is about. *)
MainAction ==
  \/ CallThreadBench \/ IntoStats \/ DropBencher
  \/ ThreadBench \/ Joining \/ (mpc = "before" /\ Panic)

ThreadAction(t) ==
  \/ RecvSignal(t) \/ Reply(t) \/ EndThread(t)
  \/ EndCall(t, "reply") \/ EndCall(t, "panicked")
  \/ todo # <<>> /\ Work(t, IsHp(Bench))

LEMMA NextCases ==
  ASSUME [Next]_vars
  PROVE  \/ MainAction /\ UNCHANGED todo
         \/ \E t \in Threads : ThreadAction(t) /\ UNCHANGED todo
         \/ NextBench
         \/ UNCHANGED <<benchVars, todo>>
  <1>1. CASE Running /\ Choose
    BY <1>1 DEF Choose, MainAction, runVars
  <1>2. CASE Running /\ Sample
    BY <1>2 DEF Sample, Before, BeforePanics, MainAction, ThreadBench, runVars
  <1>3. CASE Abort \/ WriteSamples
    BY <1>3 DEF Abort, WriteSamples
  <1>4. ASSUME NEW t \in Threads, ThreadStep(t)
        PROVE  ThreadAction(t) /\ UNCHANGED todo
    BY <1>4 DEF ThreadStep, Call, ThreadAction, Running, runVars
  <1>5. CASE UNCHANGED vars
    BY <1>5 DEF vars, runVars
  <1> QED BY <1>1, <1>2, <1>3, <1>4, <1>5 DEF Next, MainStep

(* The number of threads does not change, and the main thread never asks   *)
(* for one that there is not.                                              *)
LEMMA ThreadsStay ==
  ASSUME TypeInv, [Next]_vars
  PROVE  num_threads' = num_threads /\ Threads' = Threads /\ who' \in Threads
  <1>0. num_threads \in Nat \ {0} /\ who \in Nat /\ 1 <= who /\ who <= num_threads
    BY DEF TypeInv, Threads
  <1> SUFFICES num_threads' = num_threads /\ who' \in 1..num_threads
    BY DEF Threads
  <1> USE DEF kindVars, mainVars, threadVars, MainAt, Panic, benchVars
  <1>1. CASE MainAction
    <2>1. /\ num_threads' = num_threads
          /\ \/ who' = who \/ who' = 1
             \/ who < num_threads /\ who' = who + 1
      BY <1>1 DEF MainAction, ThreadBench, Joining, CallThreadBench, IntoStats,
         DropBencher, RunBefore, SendRun, Send, NextOr, PassBarrier, Receive, EndSample,
         SendEnd, RunAfter, SendJoin, Join
    <2> QED BY <1>0, <2>1
  <1>2. ASSUME NEW t \in Threads, ThreadAction(t)
        PROVE  num_threads' = num_threads /\ who' = who
    BY <1>2 DEF ThreadAction, RecvSignal, Reply, EndThread, EndCall, Work
  <1>3. CASE NextBench
    BY <1>0, <1>3 DEF NextBench, NewBencher
  <1>4. CASE UNCHANGED <<benchVars, todo>>
    BY <1>0, <1>4
  <1> QED BY <1>0, <1>1, <1>2, <1>3, <1>4, NextCases

LEMMA TypeStep ==
  ASSUME TypeInv, [Next]_vars
  PROVE  TypeInv'
  <1>0. TypeInv /\ who' \in Threads /\ num_threads' = num_threads /\ Threads' = Threads
    BY ThreadsStay
  <1> USE DEF TypeInv, MainAt, kindVars, threadVars, mainVars
  <1>1. ASSUME MainAction PROVE TypeInv'
    <2>1. CASE CallThreadBench
      BY <1>0, <2>1, BencherAssumption DEF CallThreadBench
    <2>2. CASE IntoStats \/ DropBencher \/ RunBefore \/ RunAfter \/ Panic
      BY <1>0, <2>2 DEF IntoStats, DropBencher, RunBefore, RunAfter, Panic
    <2>3. ASSUME NEW signal \in {"Run", "End"}, Send(signal),
                 mpc' \in {mpc, "barrier", "after"}
          PROVE  TypeInv'
      <3>1. Append(inbox[who], signal) \in Seq({"Run", "End"})
        BY <1>0, AppendProperties
      <3>2. inbox' \in [Threads -> Seq({"Run", "End"})]
        BY <1>0, <2>3, <3>1 DEF Send
      <3> QED BY <1>0, <2>3, <3>2 DEF Send
    <2>4. CASE SendRun \/ SendEnd
      BY <2>2, <2>3, <2>4 DEF SendRun, SendEnd, NextOr
    <2>5. CASE PassBarrier
      BY <1>0, <2>5 DEF PassBarrier
    <2>6. CASE Receive
      <3>1. CASE outbox[who] # <<>> /\ outbox' = [outbox EXCEPT ![who] = Tail(@)]
        <4>1. Tail(outbox[who]) \in Seq({"Done"})
          BY <1>0, <3>1, HeadTailProperties
        <4>2. outbox' \in [Threads -> Seq({"Done"})]
          BY <1>0, <3>1, <4>1
        <4>3. /\ samples' \in {samples, samples + 1} /\ calls' = calls
              /\ mpc' \in {mpc, "end", "before"}
              /\ UNCHANGED <<spawner, tpc, inbox, entries, ran>>
          BY <2>6, <3>1 DEF Receive, EndSample
        <4> QED BY <1>0, <4>2, <4>3
      <3>2. CASE outbox[who] = <<>>
        BY <2>2, <2>6, <3>2 DEF Receive
      <3> QED BY <2>6, <3>1, <3>2 DEF Receive
    <2>7. CASE SendJoin
      BY <1>0, <2>7 DEF SendJoin
    <2>8. CASE Join
      BY <1>0, <2>8 DEF Join
    <2> QED BY <1>1, <2>1, <2>2, <2>4, <2>5, <2>6, <2>7, <2>8
            DEF MainAction, ThreadBench, Joining
  <1>2. ASSUME NEW t \in Threads, ThreadAction(t) PROVE TypeInv'
    <2>1. CASE RecvSignal(t)
      <3>1. inbox[t] # <<>> => Tail(inbox[t]) \in Seq({"Run", "End"})
        BY <1>0, HeadTailProperties
      <3>2. inbox' \in [Threads -> Seq({"Run", "End"})]
        BY <1>0, <2>1, <3>1 DEF RecvSignal
      <3> QED BY <1>0, <2>1, <3>2 DEF RecvSignal, ThreadAt
    <2>2. CASE Reply(t)
      <3>1. Append(outbox[t], "Done") \in Seq({"Done"})
        BY <1>0, AppendProperties
      <3>2. outbox' \in [Threads -> Seq({"Done"})]
        BY <1>0, <2>2, <3>1 DEF Reply
      <3> QED BY <1>0, <2>2, <3>2 DEF Reply, ThreadAt
    <2>3. CASE EndThread(t)
      BY <1>0, <2>3 DEF EndThread, ThreadAt
    <2>4. CASE EndCall(t, "reply") \/ EndCall(t, "panicked")
      <3>1. ran[t] + 1 \in Nat
        BY <1>0
      <3>2. ran' \in [Threads -> Nat]
        BY <1>0, <2>4, <3>1 DEF EndCall
      <3> QED BY <1>0, <2>4, <3>2 DEF EndCall, ThreadAt
    <2>5. CASE Work(t, IsHp(Bench))
      BY <1>0, <2>5 DEF Work
    <2> QED BY <1>2, <2>1, <2>2, <2>3, <2>4, <2>5 DEF ThreadAction
  <1>3. CASE NextBench
    BY <1>0, <1>3 DEF NextBench, NewBencher, SpawnerOf
  <1>4. CASE UNCHANGED <<benchVars, todo>>
    BY <1>0, <1>4 DEF benchVars
  <1> QED BY <1>1, <1>2, <1>3, <1>4, NextCases

(* What a signal does to an inbox. *)
LEMMA Inboxes ==
  /\ \A x : Append(<<>>, x) = <<x>> /\ Head(<<x>>) = x /\ Tail(<<x>>) = <<>>
  /\ \A x : <<x>> # <<>>
  /\ \A q \in Seq({"Run", "End"}), x \in {"Run", "End"} :
       q # <<>> => Append(q, x) # <<>> /\ Head(Append(q, x)) = Head(q)
  <1>1. \A x : Append(<<>>, x) = <<x>> /\ Head(<<x>>) = x /\ Tail(<<x>>) = <<>>
    OBVIOUS
  <1>2. \A x : <<x>> # <<>>
    OBVIOUS
  <1>3. ASSUME NEW q \in Seq({"Run", "End"}), NEW x \in {"Run", "End"}, q # <<>>
        PROVE  Append(q, x) # <<>> /\ Head(Append(q, x)) = Head(q)
    BY <1>3, HeadTailAppend, AppendProperties
  <1> QED BY <1>1, <1>2, <1>3

(* A step of the main thread, as each of the others finds it.              *)
LEMMA MainKeeps ==
  ASSUME IInv, [Next]_vars, MainAction, NEW t \in Threads
  PROVE  ThreadInv(t)'
  <1>0. /\ ThreadInv(t) /\ ThreadInv(who) /\ MainInv /\ JoinInv
        /\ who \in Threads /\ calls \in Nat /\ num_threads' = num_threads
    BY ThreadsStay DEF IInv, TypeInv
  <1>a. /\ t \in Nat /\ who \in Nat /\ num_threads \in Nat /\ ~(t < 1)
        /\ t <= num_threads /\ who <= num_threads
    BY <1>0 DEF IInv, TypeInv, Threads
  <1>b. /\ tpc \in [Threads -> {"recv", "barrier", "call", "reply", "returned",
                          "ended", "panicked"}]
        /\ inbox \in [Threads -> Seq({"Run", "End"})]
        /\ outbox \in [Threads -> Seq({"Done"})]
    BY DEF IInv, TypeInv
  <1> USE DEF MainAt, kindVars, threadVars, ThreadInv
  <1>1. CASE CallThreadBench \/ RunBefore \/ RunAfter \/ IntoStats \/ DropBencher
    BY <1>0, <1>a, <1>1 DEF CallThreadBench, RunBefore, RunAfter, IntoStats, DropBencher,
       MainInv, Idle, Called, Dismissed
  <1>2. CASE Panic
    BY <1>2 DEF Panic
  <1>3. CASE mpc = "send" /\ Send("Run") /\ NextOr("barrier")
    <2>1. calls' = calls /\ calls > 0
      BY <1>0, <1>3 DEF Send, MainInv
    <2>2. CASE calls = 1
      <3>1. t < who' \/ mpc' = "barrier" => t <= who
        BY <1>0, <1>a, <1>3 DEF NextOr
      <3>0. /\ inbox'[t] = IF t = who THEN Append(inbox[t], "Run") ELSE inbox[t]
            /\ UNCHANGED <<samples, tpc, outbox, ran>>
        BY <1>b, <1>3 DEF Send
      <3>2. t < who => Called(t)'
        <4>1. t < who => Called(t) /\ t # who
          BY <1>0, <1>a, <1>3, <2>2
        <4> QED BY <3>0, <4>1 DEF Called
      <3>3. t = who => Called(t)'
        <4>1. t = who => Idle(t)
          BY <1>0, <1>a, <1>3, <2>2
        <4> QED BY <3>0, <4>1, Inboxes DEF Called, Idle
      <3>4. t > who => Idle(t)'
        BY <1>0, <1>a, <1>b, <1>3, <2>2 DEF Idle, Send
      <3>5. mpc' \in {"send", "barrier"} /\ (mpc' = "send" => who' = who + 1)
        BY <1>3 DEF NextOr
      <3> QED BY <1>a, <2>1, <2>2, <3>1, <3>2, <3>3, <3>4, <3>5
    <2>3. CASE calls > 1
      <3>1. Dismissed(t)'
        BY <1>0, <1>b, <1>3, <2>3, Inboxes DEF Dismissed, Send
      <3>2. mpc' \in {"send", "barrier"}
        BY <1>3 DEF NextOr
      <3> QED BY <2>1, <2>3, <3>1, <3>2
    <2> QED BY <1>0, <2>1, <2>2, <2>3
  <1>4. CASE PassBarrier
    <2>1. calls = 1 /\ who = 1 /\ Called(t) /\ ran[t] = samples
      <3>1. tpc[who] = "barrier" /\ mpc = "barrier"
        BY <1>0, <1>4 DEF PassBarrier
      <3>2. ~Dismissed(who)
        BY <3>1 DEF Dismissed
      <3> QED BY <1>0, <3>1, <3>2 DEF MainInv, Called
    <2>2. Measured(t)'
      BY <1>4, <2>1 DEF PassBarrier, Called, Measured
    <2>3. mpc' = "recv" /\ ~(t < who')
      BY <1>a, <1>4, <2>1 DEF PassBarrier
    <2> QED BY <2>2, <2>3
  <1>5. CASE mpc = "recv" /\ outbox[who] # <<>>
               /\ outbox' = [outbox EXCEPT ![who] = Tail(@)]
               /\ \/ /\ who < num_threads /\ who' = who + 1
                     /\ UNCHANGED <<mpc, left, samples>>
                  \/ who = num_threads /\ EndSample
               /\ UNCHANGED <<kindVars, calls, tpc, inbox, joined, entries, ran>>
    <2>1. calls = 1 /\ Measured(who)
      BY <1>0, <1>a, <1>5 DEF MainInv
    <2>2. /\ tpc[who] = "recv" /\ inbox[who] = <<>> /\ outbox[who] = <<"Done">>
          /\ ran[who] = samples + 1
      BY <1>5, <2>1 DEF Measured
    <2>3. /\ t < who => Answered(t)
          /\ t > who => Measured(t)
      BY <1>0, <1>a, <1>5
    <2>4. CASE who < num_threads /\ who' = who + 1 /\ UNCHANGED <<mpc, left, samples>>
      <3>1. t < who => Answered(t)'
        BY <1>0, <1>b, <1>5, <2>3, <2>4 DEF Answered
      <3>2. t = who => Answered(t)'
        BY <1>0, <1>b, <1>5, <2>2, <2>4, Inboxes DEF Answered
      <3>3. t > who => Measured(t)'
        BY <1>0, <1>a, <1>b, <1>5, <2>3, <2>4 DEF Measured
      <3> QED BY <1>a, <1>5, <2>4, <3>1, <3>2, <3>3
    <2>5. CASE who = num_threads /\ EndSample
      <3>1. t < who => Idle(t)'
        BY <1>0, <1>b, <1>5, <2>3, <2>5 DEF Answered, Idle, EndSample
      <3>2. t = who => Idle(t)'
        BY <1>0, <1>b, <1>5, <2>2, <2>5, Inboxes DEF Idle, EndSample
      <3>3. Idle(t)' /\ who' = 1 /\ mpc' \in {"end", "before"} /\ calls' = 1
        BY <1>a, <1>5, <2>1, <2>5, <3>1, <3>2 DEF EndSample
      <3> QED BY <1>a, <3>3
    <2> QED BY <1>5, <2>4, <2>5
  <1>6. CASE mpc = "end" /\ Send("End") /\ NextOr("after")
    <2>1. calls' = calls /\ calls = 1
      BY <1>0, <1>6 DEF Send, MainInv
    <2>2. t < who => Dismissed(t)'
      BY <1>0, <1>b, <1>6, Inboxes DEF Dismissed, Send
    <2>3. t = who => Dismissed(t)'
      BY <1>0, <1>a, <1>b, <1>6, Inboxes DEF Dismissed, Idle, Send
    <2>4. t > who => Idle(t)'
      BY <1>0, <1>a, <1>b, <1>6 DEF Idle, Send
    <2>5. t < who' \/ mpc' = "after" => t <= who
      BY <1>0, <1>a, <1>6 DEF NextOr
    <2>6. \/ mpc' = "after"
          \/ mpc' = "end" /\ who' = who + 1
      BY <1>6 DEF NextOr
    <2> QED BY <1>a, <2>1, <2>2, <2>3, <2>4, <2>5, <2>6
  <1>7. CASE SendJoin
    BY <1>0, <1>7 DEF SendJoin, Idle, Dismissed
  <1>8. CASE Join
    <2>1. /\ mpc \in {"join", "joining"} /\ tpc[who] \in {"ended", "panicked"}
          /\ UNCHANGED <<kindVars, calls, samples, threadVars>>
          /\ \/ who < num_threads /\ who' = who + 1 /\ mpc' = "join"
             \/ who = num_threads /\ mpc' = "done"
      BY <1>0, <1>a, <1>8 DEF Join
    <2>2. tpc[who] = "ended" /\ calls # 0
      BY <1>0, <2>1 DEF Idle, Dismissed
    <2>3. Dismissed(t)' /\ Dismissed(t)
      BY <1>0, <2>1, <2>2 DEF Dismissed
    <2>4. t <= who => tpc'[t] = "ended"
      BY <1>0, <1>a, <2>1, <2>2
    <2>5. ran'[t] = samples'
      BY <2>3 DEF Dismissed
    <2> QED BY <1>a, <2>1, <2>2, <2>3, <2>4, <2>5
  <1>9. CASE SendRun
    BY <1>2, <1>3, <1>9 DEF SendRun
  <1>10. CASE SendEnd
    BY <1>2, <1>6, <1>10 DEF SendEnd
  <1>11. CASE Receive
    BY <1>2, <1>5, <1>11 DEF Receive
  <1> QED
    BY <1>1, <1>2, <1>4, <1>7, <1>8, <1>9, <1>10, <1>11
    DEF MainAction, ThreadBench, Joining

(* A step of another thread, as each of them finds it.                     *)
LEMMA ThreadKeeps ==
  ASSUME IInv, NEW u \in Threads, ThreadAction(u), NEW t \in Threads
  PROVE  ThreadInv(t)'
  <1>0. /\ ThreadInv(t) /\ ThreadInv(u) /\ u \in Nat
        /\ tpc \in [Threads -> {"recv", "barrier", "call", "reply", "returned",
                          "ended", "panicked"}]
        /\ inbox \in [Threads -> Seq({"Run", "End"})]
        /\ outbox \in [Threads -> Seq({"Done"})]
        /\ ran \in [Threads -> Nat]
    BY DEF IInv, TypeInv, Threads
  <1>a. /\ mpc \in {"join", "joining"} /\ u < who => tpc[u] = "ended"
        /\ mpc = "recv" => calls = 1
    BY <1>0 DEF ThreadInv, IInv, MainInv
  <1>1. /\ UNCHANGED <<mpc, who, calls, samples, joined, spawner>>
        /\ \A v \in Threads \ {u} : /\ tpc'[v] = tpc[v] /\ inbox'[v] = inbox[v]
                                    /\ outbox'[v] = outbox[v] /\ ran'[v] = ran[v]
    BY <1>0 DEF ThreadAction, RecvSignal, Reply, EndThread, EndCall, Work, ThreadAt,
       mainVars, kindVars
  <1>2. CASE t # u
    <2>1. /\ tpc'[t] = tpc[t] /\ inbox'[t] = inbox[t] /\ outbox'[t] = outbox[t]
          /\ ran'[t] = ran[t]
      BY <1>1, <1>2
    <2>2. /\ Idle(t) => Idle(t)'
          /\ Called(t) => Called(t)'
          /\ Measured(t) => Measured(t)'
          /\ Answered(t) => Answered(t)'
          /\ Dismissed(t) => Dismissed(t)'
      BY <1>1, <2>1 DEF Idle, Called, Answered, Measured, Dismissed
    <2>3. UNCHANGED <<mpc, who, calls, samples>>
      BY <1>1
    <2> HIDE DEF Idle, Called, Answered, Measured, Dismissed
    <2> QED BY <1>0, <2>1, <2>2, <2>3 DEF ThreadInv
  <1>3. CASE t = u
    <2>1. ASSUME Idle(u) PROVE Idle(u)' \/ MainGone
      BY <1>0, <1>1, <2>1 DEF Idle, ThreadAction, RecvSignal, Reply, EndThread, EndCall,
         Work, ThreadAt
    <2>2. ASSUME Called(u) PROVE Called(u)'
      <3>1. RecvSignal(u)
        BY <2>2, Inboxes DEF Called, ThreadAction, RecvSignal, Reply, EndThread, EndCall,
           Work
      <3>2. inbox[u] = <<"Run">> /\ outbox[u] = <<>> /\ ran[u] = samples
        BY <2>2, <3>1 DEF Called, RecvSignal
      <3>3. inbox[u] # <<>> /\ Head(inbox[u]) = "Run" /\ Tail(inbox[u]) = <<>>
        BY <3>2, Inboxes
      <3>4. tpc' = [tpc EXCEPT ![u] = "barrier"] /\ inbox' = [inbox EXCEPT ![u] = <<>>]
              /\ UNCHANGED <<outbox, ran>>
        BY <3>1, <3>3 DEF RecvSignal, ThreadAt
      <3> QED BY <1>0, <1>1, <3>2, <3>4 DEF Called
    <2>3. ASSUME Answered(u) PROVE Answered(u)' \/ MainGone
      BY <1>0, <1>1, <2>3 DEF Answered, ThreadAction, RecvSignal, Reply, EndThread,
         EndCall, Work, ThreadAt
    <2>4. ASSUME Measured(u) PROVE Measured(u)' \/ MainGone
      <3> USE DEF Measured, ThreadAt
      <3>1. CASE RecvSignal(u) \/ EndThread(u) \/ Work(u, IsHp(Bench))
        BY <1>0, <1>1, <2>4, <3>1 DEF RecvSignal, EndThread, Work
      <3>2. CASE Reply(u)
        BY <1>0, <1>1, <2>4, <3>2, Inboxes DEF Reply
      <3>3. CASE EndCall(u, "reply") \/ EndCall(u, "panicked")
        BY <1>0, <1>1, <2>4, <3>3 DEF EndCall
      <3> QED BY <3>1, <3>2, <3>3 DEF ThreadAction
    <2>5. ASSUME Dismissed(u) PROVE Dismissed(u)' \/ MainGone
      BY <1>0, <1>1, <2>5 DEF Dismissed, ThreadAction, RecvSignal, Reply, EndThread,
         EndCall, Work, ThreadAt
    <2>6. tpc[u] # "ended"
      BY DEF ThreadAction, RecvSignal, Reply, EndThread, EndCall, Work
    <2>7. CASE MainGone
      BY <1>0, <1>1, <1>3, <2>6, <2>7 DEF ThreadInv, MainGone
    <2>8. CASE ~MainGone
      <3>1. UNCHANGED <<mpc, who, calls>> /\ ~(mpc = "done")
        BY <1>1, <2>8 DEF MainGone
      <3>2. ThreadInv(u)
        BY <1>0
      <3>3. mpc \in {"join", "joining"} => ~(u < who)
        BY <1>a, <2>6
      <3> HIDE DEF Idle, Called, Answered, Measured, Dismissed
      <3> QED
        BY <1>3, <2>1, <2>2, <2>3, <2>4, <2>5, <2>8, <3>1, <3>2, <3>3 DEF ThreadInv
    <2> QED BY <2>7, <2>8
  <1> QED BY <1>2, <1>3

LEMMA StepKeeps ==
  ASSUME IInv, [Next]_vars
  PROVE  \A t \in Threads' : ThreadInv(t)'
  <1>0. Threads' = Threads /\ \A t \in Threads : ThreadInv(t)
    BY ThreadsStay DEF IInv
  <1>1. CASE MainAction
    BY <1>0, <1>1, MainKeeps
  <1>2. CASE \E u \in Threads : ThreadAction(u)
    BY <1>0, <1>2, ThreadKeeps
  <1>3. CASE NextBench
    BY <1>0, <1>3 DEF NextBench, NewBencher, ThreadInv, Idle
  <1>4. CASE UNCHANGED <<benchVars, todo>>
    BY <1>0, <1>4 DEF benchVars, mainVars, threadVars, kindVars, ThreadInv, Idle, Called,
       Answered, Measured, Dismissed
  <1> QED BY <1>1, <1>2, <1>3, <1>4, NextCases

LEMMA MainInvStep ==
  ASSUME IInv, [Next]_vars
  PROVE  MainInv'
  <1>0. /\ MainInv /\ Threads' = Threads /\ calls \in Nat
        /\ tpc \in [Threads -> {"recv", "barrier", "call", "reply", "returned",
                          "ended", "panicked"}]
        /\ \A t \in Threads : ThreadInv(t)
        /\ who \in Threads /\ \A t \in Threads : 1 <= t
    BY ThreadsStay DEF IInv, TypeInv, Threads
  <1> USE DEF MainAt, kindVars, threadVars
  <1>1. CASE CallThreadBench \/ RunBefore \/ RunAfter \/ IntoStats
    BY <1>0, <1>1 DEF CallThreadBench, RunBefore, RunAfter, IntoStats, MainInv
  <1>2. CASE DropBencher
    <2>1. \A t \in Threads : tpc[t] # "call"
      BY <1>0, <1>2 DEF DropBencher, ThreadInv, Idle, Dismissed
    <2> QED BY <1>0, <1>2, <2>1 DEF DropBencher, MainInv
  <1>3. ASSUME Panic,
               \/ mpc \in {"before", "send", "end"}
               \/ mpc = "recv" /\ outbox[who] = <<>> /\ Gone(who)
        PROVE  MainInv'
    <2>1. CASE mpc \in {"before", "send", "end"}
      <3>1. \A t \in Threads : tpc[t] # "call"
        BY <1>0, <2>1 DEF ThreadInv, Idle, Called, Dismissed
      <3> QED BY <1>0, <1>3, <2>1, <3>1 DEF Panic, MainInv
    <2>2. CASE mpc = "recv" /\ outbox[who] = <<>> /\ Gone(who)
      <3>1. ~(who < who)
        BY DEF Threads, IInv, TypeInv
      <3>2. tpc[who] = "panicked"
        BY <1>0, <2>2, <3>1 DEF ThreadInv, Measured, Gone
      <3> QED BY <1>0, <1>3, <2>2, <3>2 DEF Panic, MainInv
    <2> QED BY <1>3, <2>1, <2>2
  <1>4. CASE SendRun \/ SendEnd
    <2>1. CASE Send("Run") /\ mpc = "send" /\ NextOr("barrier")
      BY <1>0, <2>1 DEF Send, NextOr, MainInv
    <2>2. CASE Send("End") /\ mpc = "end" /\ NextOr("after")
      BY <1>0, <2>2 DEF Send, NextOr, MainInv
    <2> QED BY <1>3, <1>4, <2>1, <2>2 DEF SendRun, SendEnd
  <1>5. CASE PassBarrier
    <2>1. calls = 1
      <3>1. tpc[who] = "barrier" /\ mpc = "barrier"
        BY <1>0, <1>5 DEF PassBarrier
      <3> QED BY <1>0, <3>1 DEF ThreadInv, Dismissed
    <2> QED BY <1>0, <1>5, <2>1 DEF PassBarrier, MainInv
  <1>6. CASE Receive
    <2>1. CASE outbox[who] = <<>> /\ Gone(who) /\ Panic
      BY <1>3, <1>6, <2>1 DEF Receive
    <2>2. CASE outbox[who] # <<>>
      BY <1>0, <1>6, <2>2 DEF Receive, EndSample, MainInv
    <2> QED BY <1>6, <2>1, <2>2 DEF Receive
  <1>7. CASE SendJoin \/ Join
    BY <1>0, <1>7 DEF SendJoin, Join, MainInv
  <1>8. ASSUME NEW u \in Threads, ThreadAction(u) PROVE MainInv'
    <2>1. /\ UNCHANGED <<mpc, who, calls>>
          /\ tpc[u] # "panicked" /\ (tpc'[u] = "call" => tpc[u] = "call")
          /\ \A v \in Threads \ {u} : tpc'[v] = tpc[v]
      BY <1>0, <1>8 DEF ThreadAction, RecvSignal, Reply, EndThread, EndCall, Work,
         ThreadAt, mainVars
    <2>2. \A v \in Threads : tpc'[v] = "call" => tpc[v] = "call"
      BY <2>1
    <2>3. \A v \in Threads : tpc[v] = "panicked" => tpc'[v] = "panicked"
      BY <2>1
    <2> QED BY <1>0, <2>1, <2>2, <2>3 DEF MainInv
  <1>9. CASE NextBench
    BY <1>9 DEF NextBench, NewBencher, MainInv
  <1>10. CASE UNCHANGED <<benchVars, todo>>
    BY <1>0, <1>10 DEF benchVars, mainVars, MainInv
  <1> QED
    BY <1>1, <1>2, <1>3, <1>4, <1>5, <1>6, <1>7, <1>8, <1>9, <1>10, NextCases
    DEF MainAction, ThreadBench, Joining

(* Nobody has an entry when the threads are joined. *)
LEMMA NoEntryLeft ==
  ASSUME IInv, mpc = "done"
  PROVE  entries = {} /\ \A t \in Threads : tpc[t] = "ended"
  <1>1. \A t \in Threads : tpc[t] = "ended"
    BY DEF IInv, ThreadInv
  <1> QED BY <1>1 DEF IInv, JoinInv, EntriesInv, TypeInv

LEMMA SpawnerStep ==
  ASSUME SpawnerInv, [Next]_vars
  PROVE  SpawnerInv'
  <1> USE DEF kindVars
  <1>1. CASE MainAction /\ UNCHANGED todo
    <2>1. spawner' = spawner
      BY <1>1 DEF MainAction, ThreadBench, Joining, CallThreadBench, IntoStats,
         DropBencher, RunBefore, SendRun, Send, PassBarrier, Receive, EndSample,
         SendEnd, RunAfter, SendJoin, Join, Panic
    <2> QED BY <1>1, <2>1 DEF SpawnerInv, Bench, SpawnerOf, IsHp
  <1>2. ASSUME NEW t \in Threads, ThreadAction(t), UNCHANGED todo PROVE SpawnerInv'
    <2>1. spawner' = spawner
      BY <1>2 DEF ThreadAction, RecvSignal, Reply, EndThread, EndCall, Work
    <2> QED BY <1>2, <2>1 DEF SpawnerInv, Bench, SpawnerOf, IsHp
  <1>3. CASE NextBench
    BY <1>3 DEF NextBench, SpawnerInv, Bench, SpawnerOf, IsHp
  <1>4. CASE UNCHANGED <<benchVars, todo>>
    BY <1>4 DEF benchVars, SpawnerInv, Bench, SpawnerOf, IsHp
  <1> QED BY <1>1, <1>2, <1>3, <1>4, NextCases

LEMMA JoinedStep ==
  ASSUME IInv, [Next]_vars, NEW t \in Threads
  PROVE  JoinedInv(t)'
  <1>0. /\ JoinedInv(t) /\ t \in Nat /\ who \in Nat /\ num_threads \in Nat
        /\ 1 <= t /\ t <= num_threads /\ who <= num_threads
        /\ spawner \in {"std", "hp"}
    BY DEF IInv, TypeInv, JoinInv, Threads
  <1> USE DEF MainAt, kindVars, threadVars, JoinedInv
  <1>1. CASE IntoStats
    <2>1. who = 1
      BY <1>1 DEF IntoStats, IInv, MainInv
    <2> QED BY <1>0, <1>1, <2>1 DEF IntoStats
  <1>2. CASE CallThreadBench \/ DropBencher \/ (mpc = "before" /\ Panic)
    BY <1>0, <1>2 DEF CallThreadBench, DropBencher, Panic
  <1>3. CASE ThreadBench
    <2>1. joined' = joined /\ mpc' \notin {"join", "joining", "done"} /\ t \notin joined
      BY <1>0, <1>3 DEF ThreadBench, RunBefore, SendRun, Send, NextOr, PassBarrier,
         Receive, EndSample, SendEnd, RunAfter, Panic
    <2> QED BY <2>1
  <1>4. CASE SendJoin
    BY <1>0, <1>4 DEF SendJoin
  <1>5. CASE Join
    BY <1>0, <1>5 DEF Join
  <1>6. ASSUME NEW u \in Threads, ThreadAction(u) PROVE JoinedInv(t)'
    BY <1>0, <1>6 DEF ThreadAction, RecvSignal, Reply, EndThread, EndCall, Work,
         ThreadAt, mainVars
  <1>7. CASE NextBench
    BY <1>7 DEF NextBench, NewBencher
  <1>8. CASE UNCHANGED <<benchVars, todo>>
    BY <1>0, <1>8 DEF benchVars, mainVars
  <1> QED
    BY <1>1, <1>2, <1>3, <1>4, <1>5, <1>6, <1>7, <1>8, NextCases DEF MainAction, Joining

LEMMA EntriesStep ==
  ASSUME IInv, [Next]_vars
  PROVE  EntriesInv'
  <1>0. /\ EntriesInv /\ SpawnerInv /\ entries \subseteq Threads
        /\ spawner \in {"std", "hp"}
        /\ tpc \in [Threads -> {"recv", "barrier", "call", "reply", "returned",
                          "ended", "panicked"}]
    BY DEF IInv, TypeInv, JoinInv
  <1> USE DEF MainAt, kindVars, threadVars
  <1>1. CASE MainAction
    <2>1. /\ UNCHANGED <<spawner, entries>>
          /\ \A t \in Threads : tpc'[t] = "ended" => tpc[t] = "ended"
          /\ mpc \notin {"dropped", "panicked"}
      BY <1>0, <1>1 DEF MainAction, ThreadBench, Joining, CallThreadBench, IntoStats,
         DropBencher, RunBefore, SendRun, Send, PassBarrier, Receive, EndSample,
         SendEnd, RunAfter, SendJoin, Join, Panic
    <2> QED BY <1>0, <2>1 DEF EntriesInv
  <1>2. ASSUME NEW u \in Threads, ThreadAction(u) PROVE EntriesInv'
    <2>1. /\ UNCHANGED <<mpc, who, spawner, joined>>
          /\ \A v \in Threads \ {u} : tpc'[v] = tpc[v]
          /\ tpc[u] # "ended"
      BY <1>0, <1>2 DEF ThreadAction, RecvSignal, Reply, EndThread, EndCall, Work,
         ThreadAt, mainVars
    <2>2. mpc # "done"
      BY <2>1, NoEntryLeft
    <2>3. CASE EndThread(u)
      BY <1>0, <2>1, <2>2, <2>3 DEF EndThread, EntriesInv, MainGone
    <2>4. CASE todo # <<>> /\ Work(u, IsHp(Bench))
      <3>1. spawner = "std" => ~IsHp(Bench)
        BY <1>0, <2>4 DEF SpawnerInv, SpawnerOf
      <3>2. tpc' = tpc /\ tpc[u] = "call"
        BY <2>4 DEF Work
      <3> QED BY <1>0, <2>1, <2>4, <3>1, <3>2 DEF Work, EntriesInv
    <2>5. CASE \/ RecvSignal(u) \/ Reply(u)
               \/ EndCall(u, "reply") \/ EndCall(u, "panicked")
      <3>1. entries' = entries /\ tpc'[u] # "ended"
        BY <1>0, <2>5 DEF RecvSignal, Reply, EndCall, ThreadAt
      <3> QED BY <1>0, <2>1, <3>1 DEF EntriesInv
    <2> QED BY <1>2, <2>3, <2>4, <2>5 DEF ThreadAction
  <1>3. CASE NextBench
    <2>1. entries = {}
      BY <1>3, NoEntryLeft DEF NextBench
    <2> QED BY <1>3, <2>1 DEF NextBench, NewBencher, EntriesInv
  <1>4. CASE UNCHANGED <<benchVars, todo>>
    BY <1>0, <1>4 DEF benchVars, mainVars, EntriesInv
  <1> QED BY <1>1, <1>2, <1>3, <1>4, NextCases

LEMMA JoinInvStep ==
  ASSUME IInv, [Next]_vars
  PROVE  JoinInv'
  <1>1. Threads' = Threads
    BY ThreadsStay DEF IInv
  <1>2. SpawnerInv'
    BY SpawnerStep DEF IInv, JoinInv
  <1> QED BY <1>1, <1>2, JoinedStep, EntriesStep DEF JoinInv

LEMMA IndInit == Init => IInv
  <1> SUFFICES ASSUME Init PROVE IInv
    OBVIOUS
  <1>1. num_threads \in Nat \ {0}
    BY BenchmarksAssumption DEF Init
  <1>2. spawner = IF todo = <<>> THEN "std" ELSE SpawnerOf(Bench)
    BY DEF Init
  <1>3. BencherInit
    BY DEF Init
  <1>4. TypeInv
    BY <1>1, <1>2, <1>3 DEF BencherInit, TypeInv, SpawnerOf, Threads
  <1>5. MainInv /\ \A t \in Threads : ThreadInv(t)
    BY <1>3 DEF BencherInit, MainInv, ThreadInv, Idle
  <1>6. JoinInv
    BY <1>2, <1>3 DEF BencherInit, JoinInv, JoinedInv, EntriesInv, SpawnerInv
  <1> QED BY <1>4, <1>5, <1>6 DEF IInv

LEMMA IndStep == IInv /\ [Next]_vars => IInv'
  <1> SUFFICES ASSUME IInv, [Next]_vars PROVE IInv'
    OBVIOUS
  <1>1. TypeInv'
    BY TypeStep DEF IInv
  <1> QED BY <1>1, MainInvStep, JoinInvStep, StepKeeps DEF IInv

(* What there is between the main thread of thread_bench                   *)
(* (bench/lib.rs:413-447) and each of the others holds throughout.         *)
THEOREM Inductive == Spec => []IInv
  BY IndInit, IndStep, PTL DEF Spec

(* No thread is in the function that is measured while the main thread     *)
(* prepares a sample or cleans up after it (bench/lib.rs:426, 446), unless *)
(* a thread has panicked.                                                  *)
THEOREM CallsInSample == Spec => []CallsWithinSample
  <1>1. IInv => CallsWithinSample
    <2> SUFFICES ASSUME IInv, NEW t \in Threads, tpc[t] = "call"
                 PROVE  mpc = "recv" \/ \E u \in Threads : tpc[u] = "panicked"
      BY DEF CallsWithinSample
    <2>1. ThreadInv(t) /\ MainInv
      BY DEF IInv
    <2>2. mpc \in {"idle", "before", "send", "barrier", "recv", "end", "after", "join",
                  "joining", "done", "dropped", "panicked"}
      BY DEF IInv, TypeInv
    <2> QED BY <2>1, <2>2 DEF ThreadInv, MainInv, Idle, Called, Dismissed
  <1> QED BY <1>1, Inductive, PTL

(* Whenever the main thread is not within a sample, each thread has run    *)
(* the function exactly once in every sample (bench/lib.rs:420, 432-441).  *)
THEOREM SamplesWhole == Spec => []WholeSamples
  <1>1. IInv => WholeSamples
    <2> SUFFICES ASSUME IInv, NEW t \in Threads,
                        mpc \in {"idle", "before", "send", "end", "after", "join", "done"}
                 PROVE  ran[t] = samples
      BY DEF WholeSamples
    <2> QED BY DEF IInv, ThreadInv, Idle, Called, Dismissed
  <1> QED BY <1>1, Inductive, PTL

(* The assertion of JoinHandle::join (hp/mod.rs:99) holds: the thread that *)
(* is joined has not ended; and into_stats leaves no entry in ENTRIES.     *)
THEOREM CleanJoins == Spec => []JoinsCleanly
  <1>1. IInv => JoinsCleanly
    <2> SUFFICES ASSUME IInv PROVE JoinsCleanly
      OBVIOUS
    <2>1. ASSUME spawner = "hp", mpc = "join"
          PROVE  tpc[who] \notin {"ended", "panicked"}
      <3>1. who \in Threads /\ ThreadInv(who) /\ JoinedInv(who)
        BY <2>1 DEF IInv, TypeInv, JoinInv
      <3>2. who \notin joined
        BY <2>1, <3>1 DEF JoinedInv, Threads
      <3> QED BY <2>1, <3>1, <3>2 DEF ThreadInv, Idle, Dismissed
    <2> QED BY <2>1, NoEntryLeft DEF JoinsCleanly
  <1> QED BY <1>1, Inductive, PTL
-----------------------------------------------------------------------------
(* What the functions do to the structures, for a benchmark of main.  The  *)
(* invariant above says where the threads are when the main thread changes *)
(* the data.                                                               *)
BenchNames ==
  {"queue_push", "queue_pop", "queue_transfer", "list_remove", "list_real", "nop"}

Measuring ==
  /\ todo # <<>> /\ Bench.name # "user"
  /\ Bench.name = "list_remove" => Divides

(* How far a thread is with its share of a sample. *)
Rounds(t) == IF tpc[t] = "call" THEN turn[t] ELSE Share

DataTypeInv ==
  /\ calls <= 1
  /\ store \in [Keys -> Nat] /\ sink \in [Keys -> Nat]
  /\ turn \in [Threads -> Nat]
  /\ next_id \in Nat /\ id \in [Threads -> Nat]

(* A benchmark does not panic. *)
CalmInv ==
  /\ mpc \notin {"panicked", "dropped"}
  /\ \A t \in Threads : tpc[t] # "panicked"

TurnInv == \A t \in Threads : tpc[t] # "call" => turn[t] = 0

(* The numbers given out are the first ones, and each has one thread.      *)
Numbered == {t \in Threads : id[t] # num_threads}
IdInv ==
  /\ next_id = Cardinality(Numbered)
  /\ \A t \in Numbered : id[t] < next_id
  /\ \A t, u \in Numbered : id[t] = id[u] => t = u
  /\ \A i \in 0..next_id - 1 : \E t \in Threads : id[t] = i

(* What the bags have while threads are at it.  A push is known by its     *)
(* turn;                                                                   *)
Past(k) == {t \in Threads : Rounds(t) > k}
PushInv ==
  /\ \A t \in Threads : Rounds(t) <= Share
  /\ \A k \in Keys : store[k] = Cardinality(Past(k))

(* as long as there is something to pop, a thread will come back for it;   *)
DrainInv ==
  store # Empty => \E t \in Threads : tpc[t] = "call" /\ turn[t] # Overtaken

PopInv == \A t \in Threads : turn[t] \in {0, Overtaken}

(* an element is in the source, in the sink or on its way;                 *)
Carriers(k) == {t \in Threads : turn[t] = k + 1}
TransferInv ==
  /\ \A t \in Threads : turn[t] \in 0..Overtaken
  /\ \A k \in Keys :
       \/ store[k] = 1 /\ sink[k] = 0 /\ Carriers(k) = {}
       \/ store[k] = 0 /\ sink[k] = 1 /\ Carriers(k) = {}
       \/ store[k] = 0 /\ sink[k] = 0 /\ \E t \in Threads : Carriers(k) = {t}

(* and a thread has removed the first of its residue class.                *)
Removed ==
  {k \in Keys : \E t \in Threads, j \in Nat :
                  j < Rounds(t) /\ k = j * num_threads + id[t]}
RemoveInv ==
  /\ \A t \in Threads :
       /\ Rounds(t) <= Share
       /\ IF tpc[t] = "call" THEN id[t] = num_threads => turn[t] = 0
                             ELSE id[t] # num_threads
  /\ \A k \in Keys : store[k] = IF k \in Removed THEN 0 ELSE 1

AtRest ==
  /\ Bench.name # "queue_transfer" => sink = Empty
  /\ Bench.name \in {"queue_transfer", "list_remove", "nop"} => store = Empty

Prepared ==
  /\ sink = Empty
  /\ store = IF Bench.name \in {"queue_push", "nop"} THEN Empty ELSE Full

Working ==
  /\ Bench.name # "queue_transfer" => sink = Empty
  /\ Bench.name = "queue_push" => PushInv
  /\ Bench.name \in {"queue_pop", "queue_transfer"} => DrainInv
  /\ Bench.name = "queue_pop" => PopInv
  /\ Bench.name = "queue_transfer" => TransferInv
  /\ Bench.name = "list_remove" => RemoveInv
  /\ Bench.name = "nop" => store = Empty

Left ==
  /\ Bench.name = "queue_push" => store = Pushed
  /\ Bench.name = "queue_transfer" => sink = Full
  /\ Bench.name \notin {"queue_push", "list_real"} => store = Empty

PhaseInv ==
  /\ mpc = "idle" /\ calls = 0 => store = Empty /\ sink = Empty
  /\ mpc = "before" => AtRest
  /\ mpc \in {"send", "barrier"} => Prepared
  /\ mpc = "recv" => Working
  /\ mpc = "end" => Left
  /\ mpc \in {"send", "barrier", "recv", "end"} => Bench.name \in BenchNames

DataInv ==
  Measuring => DataTypeInv /\ CalmInv /\ TurnInv /\ IdInv /\ PhaseInv
-----------------------------------------------------------------------------
(* The arithmetic of shares and residue classes. *)
LEMMA Shares ==
  ASSUME num_threads \in Nat \ {0}
  PROVE  /\ Share \in Nat /\ Share <= Elements
         /\ Divides => Elements = Share * num_threads
  <1>0. Elements \in Nat \ {0}
    BY BenchmarksAssumption
  <1> DEFINE q == Elements \div num_threads
             r == Elements % num_threads
  <1>1. q \in Nat /\ r \in Nat /\ Elements = q * num_threads + r
    <2>1. /\ Elements \div num_threads \in Nat
          /\ Elements % num_threads \in 0..num_threads - 1
      BY <1>0
    <2>2. Elements = num_threads * (Elements \div num_threads) + (Elements % num_threads)
      BY <1>0
    <2> QED BY <2>1, <2>2
  <1>2. q = Share /\ (Divides <=> r = 0)
    BY DEF Share, Divides
  <1> HIDE DEF q, r
  <1>3. q * num_threads >= q
    <2>1. q * (num_threads - 1) >= 0
      BY <1>1
    <2>2. q * (num_threads - 1) = q * num_threads - q
      BY <1>1
    <2>3. q * num_threads \in Int
      BY <1>1
    <2> QED BY <1>1, <2>1, <2>2, <2>3
  <1>4. q * num_threads \in Int
    BY <1>1
  <1> QED BY <1>0, <1>1, <1>2, <1>3, <1>4

LEMMA KeyWithin ==
  ASSUME num_threads \in Nat \ {0}, Divides, NEW i \in 0..num_threads - 1,
         NEW j \in Nat, j < Share
  PROVE  j * num_threads + i \in Keys
  <1>1. Share \in Nat /\ Elements = Share * num_threads /\ Elements \in Nat
    BY Shares, BenchmarksAssumption
  <1>2. (Share - j - 1) * num_threads >= 0
    BY <1>1
  <1>3. (Share - j - 1) * num_threads
          = Share * num_threads - j * num_threads - num_threads
    BY <1>1
  <1>4. j * num_threads \in Nat
    OBVIOUS
  <1> QED BY <1>1, <1>2, <1>3, <1>4 DEF Keys

LEMMA KeyTells ==
  ASSUME NEW n \in Nat \ {0}, NEW i \in 0..n - 1, NEW m \in 0..n - 1,
         NEW j \in Nat, NEW l \in Nat, j * n + i = l * n + m
  PROVE  i = m /\ j = l
  <1>1. ASSUME NEW a \in Nat, NEW b \in Nat, a < b PROVE b * n >= a * n + n
    <2>1. (b - a - 1) * n >= 0
      BY <1>1
    <2>2. (b - a - 1) * n = b * n - a * n - n
      BY <1>1
    <2> QED BY <2>1, <2>2
  <1>2. j * n \in Nat /\ l * n \in Nat
    OBVIOUS
  <1>3. ~(j < l)
    BY <1>1, <1>2
  <1>4. ~(l < j)
    BY <1>1, <1>2
  <1> QED BY <1>2, <1>3, <1>4

LEMMA KeyMet ==
  ASSUME num_threads \in Nat \ {0}, Divides, NEW k \in Keys
  PROVE  \E i \in 0..num_threads - 1, j \in Nat :
           j < Share /\ k = j * num_threads + i
  <1>1. Share \in Nat /\ Elements = Share * num_threads /\ Elements \in Nat
    BY Shares, BenchmarksAssumption
  <1>2. k \in Nat /\ k < Share * num_threads
    BY <1>1 DEF Keys
  <1> DEFINE j == k \div num_threads
             i == k % num_threads
  <1>3. j \in Nat /\ i \in 0..num_threads - 1 /\ k = j * num_threads + i
    BY <1>2
  <1> HIDE DEF i, j
  <1>4. ASSUME Share <= j PROVE FALSE
    <2>1. (j - Share) * num_threads >= 0
      BY <1>1, <1>3, <1>4
    <2>2. (j - Share) * num_threads = j * num_threads - Share * num_threads
      BY <1>1, <1>3
    <2> QED BY <1>1, <1>2, <1>3, <2>1, <2>2
  <1> QED BY <1>1, <1>3, <1>4

LEMMA Counting ==
  ASSUME num_threads \in Nat \ {0}
  PROVE  /\ IsFiniteSet(Threads) /\ Cardinality(Threads) = num_threads
         /\ \A S \in SUBSET Threads :
              /\ IsFiniteSet(S) /\ Cardinality(S) \in Nat
              /\ Cardinality(S) <= num_threads
              /\ Cardinality(S) = num_threads => S = Threads
  <1>1. IsFiniteSet(Threads) /\ Cardinality(Threads) = num_threads
    BY FS_Interval DEF Threads
  <1>2. ASSUME NEW S \in SUBSET Threads
        PROVE  /\ IsFiniteSet(S) /\ Cardinality(S) \in Nat
               /\ Cardinality(S) <= num_threads
               /\ Cardinality(S) = num_threads => S = Threads
    <2>1. IsFiniteSet(S) /\ Cardinality(S) <= num_threads
          /\ (Cardinality(S) = num_threads => S = Threads)
      BY <1>1, FS_Subset
    <2> QED BY <2>1, FS_CardinalityType
  <1> QED BY <1>1, <1>2

LEMMA SameBag ==
  ASSUME NEW f \in [Keys -> Nat], NEW g \in [Keys -> Nat],
         \A k \in Keys : f[k] = g[k]
  PROVE  f = g
  OBVIOUS

LEMMA BagTypes ==
  /\ Empty \in [Keys -> Nat] /\ Full \in [Keys -> Nat]
  /\ Filled(Empty) = Full
  /\ \A s \in [Keys -> Nat] : Filled(s) \in [Keys -> Nat]
  /\ \A s \in [Keys -> Nat], k \in Keys : Add(s, k) \in [Keys -> Nat]
  /\ \A s \in [Keys -> Nat] : \A k \in Within(s) : Take(s, k) \in [Keys -> Nat]
  BY DEF Empty, Full, Filled, Add, Take, Within

(* The steps again, with what they do to the data.                         *)
LEMMA DataCases ==
  ASSUME [Next]_vars, Measuring
  PROVE  \/ /\ UNCHANGED <<dataVars, todo>>
            /\ \/ CallThreadBench /\ calls = 0
               \/ IntoStats \/ SendRun \/ PassBarrier \/ Receive \/ SendEnd
               \/ RunAfter \/ Joining
               \/ UNCHANGED benchVars
         \/ (Before \/ BeforePanics) /\ UNCHANGED todo
         \/ \E t \in Threads : Call(t) /\ UNCHANGED todo
         \/ \E t \in Threads : /\ RecvSignal(t) \/ Reply(t) \/ EndThread(t)
                               /\ UNCHANGED <<dataVars, todo>>
         \/ NextBench
  <1>1. CASE Running /\ Choose
    BY <1>1 DEF Choose, runVars, Measuring, IsUser
  <1>2. CASE Running /\ Sample
    BY <1>2 DEF Sample, runVars
  <1>3. CASE Abort \/ WriteSamples
    BY <1>3 DEF Abort, WriteSamples
  <1>4. ASSUME NEW t \in Threads, ThreadStep(t)
        PROVE  /\ Call(t) \/ ((RecvSignal(t) \/ Reply(t) \/ EndThread(t))
                                 /\ UNCHANGED dataVars)
               /\ UNCHANGED todo
    BY <1>4 DEF ThreadStep, runVars
  <1>5. CASE UNCHANGED vars
    BY <1>5 DEF vars, runVars
  <1> QED BY <1>1, <1>2, <1>3, <1>4, <1>5 DEF Next, MainStep

(* Nothing is known of Bench but its name, and that it stays. *)
LEMMA SameBench ==
  ASSUME IInv, [Next]_vars, todo' = todo
  PROVE  /\ num_threads' = num_threads /\ Threads' = Threads /\ Share' = Share
         /\ Bench' = Bench /\ (Measuring <=> Measuring') /\ (Divides' <=> Divides)
         /\ Pushed' = Pushed
  <1>1. num_threads' = num_threads /\ Threads' = Threads
    BY ThreadsStay DEF IInv
  <1> QED BY <1>1 DEF Share, Bench, Measuring, Divides, Pushed

LEMMA IdSame ==
  ASSUME IdInv, UNCHANGED <<num_threads, next_id, id>>
  PROVE  IdInv'
  <1>1. Threads' = Threads /\ Numbered' = Numbered
    BY DEF Threads, Numbered
  <1> QED BY <1>1 DEF IdInv

LEMMA WorkingSame ==
  ASSUME UNCHANGED <<num_threads, dataVars, todo>>, Working,
         \A t \in Threads : tpc'[t] = "call" <=> tpc[t] = "call"
  PROVE  Working'
  <1>1. /\ Threads' = Threads /\ Share' = Share /\ Bench' = Bench
        /\ UNCHANGED <<store, sink, turn, id, num_threads>>
    BY DEF Threads, Share, Bench, dataVars
  <1>2. \A t \in Threads : Rounds(t)' = Rounds(t)
    BY <1>1 DEF Rounds
  <1>3. PushInv => PushInv'
    <2>1. \A k : Past(k)' = Past(k)
      BY <1>1, <1>2 DEF Past
    <2> QED BY <1>1, <1>2, <2>1 DEF PushInv
  <1>4. (DrainInv => DrainInv') /\ (PopInv => PopInv')
    BY <1>1 DEF DrainInv, PopInv
  <1>5. TransferInv => TransferInv'
    <2>1. \A k : Carriers(k)' = Carriers(k)
      BY <1>1 DEF Carriers
    <2> QED BY <1>1, <2>1 DEF TransferInv
  <1>6. RemoveInv => RemoveInv'
    <2>1. Removed' = Removed
      BY <1>1, <1>2 DEF Removed
    <2> QED BY <1>1, <1>2, <2>1 DEF RemoveInv
  <1> QED BY <1>1, <1>3, <1>4, <1>5, <1>6 DEF Working

(* When all have done their share, the sample leaves what it should.       *)
LEMMA SampleLeaves ==
  ASSUME IInv, Measuring, DataTypeInv, IdInv, TurnInv, Working,
         Bench.name \in BenchNames, \A t \in Threads : tpc[t] # "call"
  PROVE  Left /\ AtRest
  <1>0. /\ num_threads \in Nat \ {0} /\ Share \in Nat
        /\ \A t \in Threads : Rounds(t) = Share /\ turn[t] = 0
        /\ store \in [Keys -> Nat] /\ sink \in [Keys -> Nat]
    BY Shares DEF IInv, TypeInv, Rounds, TurnInv, DataTypeInv
  <1>1. Bench.name = "queue_push" => store = Pushed
    <2> SUFFICES ASSUME PushInv PROVE store = Pushed
      BY DEF Working
    <2>1. ASSUME NEW k \in Keys PROVE store[k] = Pushed[k]
      <3>1. k \in Nat
        BY BenchmarksAssumption DEF Keys
      <3>2. Past(k) = IF k < Share THEN Threads ELSE {}
        BY <1>0, <3>1 DEF Past
      <3>3. Cardinality(Threads) = num_threads /\ Cardinality({}) = 0
        BY <1>0, Counting, FS_EmptySet
      <3> QED BY <3>2, <3>3 DEF PushInv, Pushed
    <2>2. Pushed \in [Keys -> Nat]
      BY <1>0 DEF Pushed
    <2> QED BY <1>0, <2>1, <2>2, SameBag
  <1>2. Bench.name \in {"queue_pop", "queue_transfer"} => store = Empty
    BY DEF Working, DrainInv
  <1>3. Bench.name = "queue_transfer" => sink = Full
    <2> SUFFICES ASSUME TransferInv, store = Empty PROVE sink = Full
      BY <1>2 DEF Working
    <2>1. ASSUME NEW k \in Keys PROVE sink[k] = Full[k]
      <3>1. store[k] = 0
        BY DEF Empty
      <3>2. Carriers(k) = {}
        BY <1>0, BenchmarksAssumption DEF Carriers, Keys
      <3> QED BY <3>1, <3>2 DEF TransferInv, Full
    <2> QED BY <1>0, <2>1, SameBag, BagTypes
  <1>4. Bench.name = "list_remove" => store = Empty
    <2> SUFFICES ASSUME RemoveInv, Divides PROVE store = Empty
      BY DEF Working, Measuring
    <2>1. Numbered = Threads
      BY DEF RemoveInv, Numbered
    <2>2. next_id = num_threads
      BY <1>0, <2>1, Counting DEF IdInv
    <2>3. ASSUME NEW k \in Keys PROVE store[k] = Empty[k]
      <3>1. PICK i \in 0..num_threads - 1, j \in Nat :
              j < Share /\ k = j * num_threads + i
        BY <1>0, KeyMet
      <3>2. PICK t \in Threads : id[t] = i
        BY <2>2 DEF IdInv
      <3>3. k \in Removed
        BY <1>0, <3>1, <3>2 DEF Removed
      <3> QED BY <3>3 DEF RemoveInv, Empty
    <2> QED BY <1>0, <2>3, SameBag, BagTypes
  <1> HIDE DEF Bench
  <1>5. Bench.name # "queue_transfer" => sink = Empty
    BY DEF Working
  <1>6. Bench.name = "nop" => store = Empty
    BY DEF Working
  <1> QED BY <1>1, <1>2, <1>3, <1>4, <1>5, <1>6 DEF Left, AtRest, BenchNames

(* The main thread leaves the data alone but before a sample. *)
LEMMA MainLeaves ==
  ASSUME IInv, [Next]_vars, Measuring, DataInv, UNCHANGED <<dataVars, todo>>,
         \/ CallThreadBench /\ calls = 0
         \/ IntoStats \/ SendRun \/ PassBarrier \/ Receive \/ SendEnd
         \/ RunAfter \/ Joining
  PROVE  DataInv'
  <1>0. /\ DataTypeInv /\ CalmInv /\ TurnInv /\ IdInv /\ PhaseInv /\ MainInv
        /\ who \in Threads /\ who \in Nat /\ num_threads \in Nat \ {0} /\ calls \in Nat
        /\ \A t \in Threads : ThreadInv(t) /\ t \in Nat /\ t <= num_threads
    BY DEF DataInv, IInv, TypeInv, Threads
  <1>1. /\ num_threads' = num_threads /\ Threads' = Threads /\ Bench' = Bench
        /\ Pushed' = Pushed
        /\ UNCHANGED <<store, sink, turn, next_id, id>>
    BY SameBench DEF dataVars
  <1>2. ASSUME mpc' \notin {"panicked", "dropped"}, calls' <= 1, PhaseInv',
               \A t \in Threads : tpc'[t] = tpc[t]
        PROVE  DataInv'
    <2>1. IdInv'
      BY <1>0, <1>1, IdSame
    <2>2. DataTypeInv' /\ CalmInv' /\ TurnInv'
      BY <1>0, <1>1, <1>2 DEF DataTypeInv, CalmInv, TurnInv
    <2> QED BY <1>2, <2>1, <2>2 DEF DataInv
  <1>3. (AtRest <=> AtRest') /\ (Prepared <=> Prepared') /\ (Left <=> Left')
    BY <1>1 DEF AtRest, Prepared, Left
  <1>4. mpc = "send" => Idle(who) /\ calls = 1
    BY <1>0 DEF MainInv, ThreadInv, DataTypeInv
  <1>5. mpc = "end" => Idle(who)
    BY <1>0 DEF ThreadInv
  <1>6. mpc = "recv" => Measured(who)
    BY <1>0 DEF ThreadInv
  <1> USE DEF MainAt, kindVars, threadVars
  <1>7. CASE CallThreadBench /\ calls = 0
    <2>1. /\ mpc = "idle" /\ calls = 0 /\ mpc' = "before" /\ calls' = 1 /\ tpc' = tpc
      BY <1>7 DEF CallThreadBench
    <2>2. PhaseInv'
      <3>1. AtRest
        BY <1>0, <2>1 DEF PhaseInv, AtRest
      <3> QED BY <1>3, <2>1, <3>1 DEF PhaseInv
    <2> QED BY <1>2, <2>1, <2>2
  <1>8. CASE IntoStats \/ RunAfter \/ Joining
    <2>1. /\ mpc' \in {"join", "joining", "done", "idle"} /\ tpc' = tpc
          /\ calls' = calls
          /\ mpc' = "idle" => calls > 0
      BY <1>0, <1>8 DEF IntoStats, RunAfter, Joining, SendJoin, Join, MainInv
    <2>2. PhaseInv'
      BY <1>0, <2>1 DEF PhaseInv
    <2> QED BY <1>0, <1>2, <2>1, <2>2 DEF DataTypeInv
  <1>9. CASE SendRun
    <2>1. mpc = "send" /\ mpc' \in {"send", "barrier"} /\ tpc' = tpc /\ calls' = calls
      BY <1>4, <1>9 DEF SendRun, Send, NextOr, Gone, Idle
    <2>2. PhaseInv'
      BY <1>0, <1>1, <1>3, <2>1 DEF PhaseInv
    <2> QED BY <1>0, <1>2, <2>1, <2>2 DEF DataTypeInv
  <1>10. CASE SendEnd
    <2>1. mpc = "end" /\ mpc' \in {"end", "after"} /\ tpc' = tpc /\ calls' = calls
      BY <1>5, <1>10 DEF SendEnd, Send, NextOr, Gone, Idle
    <2>2. PhaseInv'
      BY <1>0, <1>1, <1>3, <2>1 DEF PhaseInv
    <2> QED BY <1>0, <1>2, <2>1, <2>2 DEF DataTypeInv
  <1>11. CASE Receive
    <2>1. /\ mpc = "recv" /\ tpc' = tpc /\ calls' = calls
          /\ outbox[who] # <<>>
          /\ \/ mpc' = "recv"
             \/ who = num_threads /\ mpc' \in {"end", "before"}
      BY <1>0, <1>6, <1>11 DEF Receive, EndSample, Gone, Measured, CalmInv
    <2>2. CASE mpc' = "recv"
      <3>1. Working'
        BY <1>0, <1>1, <2>1, WorkingSame DEF PhaseInv
      <3>2. PhaseInv'
        BY <1>0, <1>1, <2>1, <2>2, <3>1 DEF PhaseInv
      <3> QED BY <1>0, <1>2, <2>1, <2>2, <3>2 DEF DataTypeInv
    <2>3. CASE who = num_threads /\ mpc' \in {"end", "before"}
      <3>1. ASSUME NEW t \in Threads PROVE tpc[t] # "call"
        <4>1. t # who => t < who
          BY <1>0, <2>3
        <4> QED BY <1>0, <1>6, <2>1, <4>1 DEF ThreadInv, Answered, Measured
      <3>2. Left /\ AtRest /\ Bench.name \in BenchNames
        BY <1>0, <2>1, <3>1, SampleLeaves DEF PhaseInv
      <3>3. PhaseInv'
        BY <1>1, <1>3, <2>3, <3>2 DEF PhaseInv
      <3> QED BY <1>0, <1>2, <2>1, <2>3, <3>3 DEF DataTypeInv
    <2> QED BY <2>1, <2>2, <2>3
  <1>12. CASE PassBarrier
    <2>1. /\ mpc = "barrier" /\ mpc' = "recv" /\ calls' = calls
          /\ \A t \in Threads : tpc[t] = "barrier" /\ tpc'[t] = "call"
      BY <1>12 DEF PassBarrier
    <2>2. \A t \in Threads : turn[t] = 0 /\ Rounds(t)' = 0
      BY <1>0, <1>1, <2>1 DEF TurnInv, Rounds
    <2>3. Prepared /\ Bench.name \in BenchNames
      BY <1>0, <2>1 DEF PhaseInv
    <2>4. Bench.name = "queue_push" => PushInv'
      <3>1. ASSUME NEW k \in Keys, store = Empty
            PROVE  store'[k] = Cardinality(Past(k)')
        <4>1. Past(k)' = {}
          BY <1>1, <2>2, BenchmarksAssumption DEF Past, Keys
        <4> QED BY <1>1, <3>1, <4>1, FS_EmptySet DEF Empty
      <3>2. Share' \in Nat
        BY <1>0, <1>1, Shares, SameBench
      <3> QED BY <1>1, <2>2, <2>3, <3>1, <3>2 DEF PushInv, Prepared
    <2>5. DrainInv'
      <3>1. 1 \in Threads /\ 0 # Overtaken
        BY <1>0, BenchmarksAssumption DEF Threads, Overtaken
      <3> QED BY <1>1, <2>1, <2>2, <3>1 DEF DrainInv
    <2>6. PopInv'
      BY <1>1, <2>2 DEF PopInv
    <2>7. Bench.name = "queue_transfer" => TransferInv'
      <3>1. \A k \in Keys :
              /\ Carriers(k)' = {}
              /\ store = Full => store'[k] = 1
              /\ sink = Empty => sink'[k] = 0
        BY <1>1, <2>2, BenchmarksAssumption DEF Carriers, Keys, Full, Empty
      <3>2. 0 \in 0..Overtaken
        BY BenchmarksAssumption DEF Overtaken
      <3> QED BY <1>1, <2>2, <2>3, <3>1, <3>2 DEF TransferInv, Prepared
    <2>8. Bench.name = "list_remove" => RemoveInv'
      <3>1. Removed' = {}
        BY <1>1, <2>2 DEF Removed
      <3>2. Share' \in Nat
        BY <1>0, <1>1, Shares, SameBench
      <3> QED BY <1>1, <2>1, <2>2, <2>3, <3>1, <3>2 DEF RemoveInv, Prepared, Full
    <2>9. Working'
      BY <1>1, <2>3, <2>4, <2>5, <2>6, <2>7, <2>8 DEF Working, Prepared
    <2>10. PhaseInv'
      BY <1>1, <2>1, <2>3, <2>9 DEF PhaseInv
    <2>11. DataTypeInv' /\ CalmInv' /\ TurnInv'
      BY <1>0, <1>1, <2>1 DEF DataTypeInv, CalmInv, TurnInv
    <2>12. IdInv'
      BY <1>0, <1>1, IdSame
    <2> QED BY <2>10, <2>11, <2>12 DEF DataInv
  <1> QED BY <1>7, <1>8, <1>9, <1>10, <1>11, <1>12

LEMMA PrepareStep ==
  ASSUME IInv, [Next]_vars, Measuring, DataInv, todo' = todo, Before \/ BeforePanics
  PROVE  DataInv'
  <1>0. /\ DataTypeInv /\ CalmInv /\ TurnInv /\ IdInv /\ AtRest /\ mpc = "before"
    BY DEF DataInv, PhaseInv, Before, RunBefore, BeforePanics
  <1>1. num_threads' = num_threads /\ Threads' = Threads /\ Bench' = Bench
    BY SameBench
  <1>2. Before
    BY <1>0 DEF BeforePanics, AtRest
  <1>3. /\ mpc' = "send" /\ calls' = calls /\ tpc' = tpc
        /\ UNCHANGED <<turn, next_id, id>>
    BY <1>2 DEF Before, RunBefore, MainAt, threadVars
  <1>4. /\ store' \in [Keys -> Nat] /\ sink' \in [Keys -> Nat]
        /\ sink' = Empty
        /\ store' = IF Bench.name \in {"queue_push", "nop"} THEN Empty ELSE Full
        /\ Bench.name \in BenchNames
    BY <1>0, <1>2, BagTypes
    DEF Before, PreparePush, PreparePop, PrepareTransfer, PrepareRemove, PrepareReal,
        PrepareNothing, AtRest, BenchNames, DataTypeInv, Measuring
  <1>5. DataTypeInv' /\ CalmInv' /\ TurnInv'
    BY <1>0, <1>1, <1>3, <1>4 DEF DataTypeInv, CalmInv, TurnInv
  <1>6. IdInv'
    BY <1>0, <1>1, <1>3, IdSame
  <1>7. PhaseInv'
    BY <1>1, <1>3, <1>4 DEF PhaseInv, Prepared
  <1> QED BY <1>5, <1>6, <1>7 DEF DataInv

(* What a step of the function that is measured does, for each benchmark.  *)
LEMMA PushStep ==
  ASSUME IInv, [Next]_vars, DataTypeInv, todo' = todo, PushInv,
         NEW t \in Threads, tpc[t] = "call", tpc' = tpc, Push(t)
  PROVE  PushInv'
  <1>0. /\ num_threads \in Nat \ {0} /\ Threads' = Threads /\ Share' = Share
        /\ Share \in Nat /\ Share <= Elements /\ Elements \in Nat
    BY SameBench, Shares, BenchmarksAssumption DEF IInv, TypeInv
  <1>1. /\ turn[t] \in Nat /\ turn[t] < Share /\ turn[t] \in Keys
        /\ store' = Add(store, turn[t])
        /\ turn' = [turn EXCEPT ![t] = @ + 1]
    BY <1>0 DEF Push, Around, DataTypeInv, Keys
  <1>2. /\ Rounds(t) = turn[t] /\ Rounds(t)' = turn[t] + 1
        /\ \A u \in Threads \ {t} : Rounds(u)' = Rounds(u)
        /\ \A u \in Threads : Rounds(u) \in Nat
    BY <1>0, <1>1 DEF Rounds, DataTypeInv
  <1>3. ASSUME NEW k \in Keys PROVE store'[k] = Cardinality(Past(k)')
    <2>0. k \in Nat
      BY <1>0 DEF Keys
    <2>1. CASE k = turn[t]
      <3>1. Past(k)' = Past(k) \cup {t} /\ t \notin Past(k)
        BY <1>0, <1>1, <1>2, <2>1 DEF Past
      <3>2. IsFiniteSet(Past(k))
        BY <1>0, Counting DEF Past
      <3>3. Cardinality(Past(k)') = Cardinality(Past(k)) + 1
        BY <3>1, <3>2, FS_AddElement
      <3>4. store'[k] = store[k] + 1
        BY <1>1, <2>1 DEF Add, DataTypeInv
      <3> QED BY <3>3, <3>4 DEF PushInv
    <2>2. CASE k # turn[t]
      <3>1. Past(k)' = Past(k)
        BY <1>0, <1>1, <1>2, <2>0, <2>2 DEF Past
      <3>2. store'[k] = store[k]
        BY <1>1, <2>2 DEF Add, DataTypeInv
      <3> QED BY <3>1, <3>2 DEF PushInv
    <2> QED BY <2>1, <2>2
  <1>4. \A u \in Threads : Rounds(u)' <= Share
    BY <1>0, <1>1, <1>2 DEF PushInv
  <1> QED BY <1>0, <1>3, <1>4 DEF PushInv

LEMMA PopStep ==
  ASSUME IInv, [Next]_vars, DataTypeInv, todo' = todo, PopInv,
         NEW t \in Threads, tpc[t] = "call", tpc' = tpc, Pop(t)
  PROVE  /\ PopInv' /\ DrainInv'
         /\ store' \in [Keys -> Nat] /\ turn' \in [Threads -> Nat]
         /\ \A u \in Threads : tpc[u] # "call" => turn'[u] = turn[u]
  <1>1. PICK k \in Within(store), losers \in SUBSET MayLose(t) :
          /\ store' = Take(store, k)
          /\ turn' = [u \in Threads |-> CASE u \in losers -> Overtaken
                                         [] u = t -> Empty[k]
                                         [] OTHER -> turn[u]]
    BY DEF Pop, PopFrom
  <1>2. /\ t \notin losers /\ Empty[k] = 0
        /\ \A u \in losers : tpc[u] = "call"
        /\ Overtaken \in Nat \ {0} /\ Threads' = Threads
    BY SameBench, BenchmarksAssumption DEF MayLose, Within, Empty, Overtaken
  <1>3. /\ turn'[t] = 0
        /\ \A u \in Threads : turn'[u] \in {0, Overtaken}
        /\ \A u \in Threads : tpc[u] # "call" => turn'[u] = turn[u]
    BY <1>1, <1>2 DEF PopInv
  <1>4. turn' \in [Threads -> Nat] /\ store' \in [Keys -> Nat]
    BY <1>1, <1>2, BagTypes DEF DataTypeInv
  <1> QED BY <1>2, <1>3, <1>4 DEF PopInv, DrainInv

LEMMA TransferStep ==
  ASSUME IInv, [Next]_vars, DataTypeInv, todo' = todo, TransferInv, TurnInv,
         NEW t \in Threads, tpc[t] = "call", tpc' = tpc, Transfer(t)
  PROVE  /\ TransferInv' /\ DrainInv'
         /\ store' \in [Keys -> Nat] /\ sink' \in [Keys -> Nat]
         /\ turn' \in [Threads -> Nat]
         /\ \A u \in Threads : tpc[u] # "call" => turn'[u] = turn[u]
  <1>0. /\ Threads' = Threads /\ Elements \in Nat \ {0}
        /\ store \in [Keys -> Nat] /\ sink \in [Keys -> Nat] /\ turn \in [Threads -> Nat]
        /\ \A k \in Keys : k \in Nat /\ k < Elements
    BY SameBench, BenchmarksAssumption DEF DataTypeInv, Keys
  <1>1. CASE turn[t] = 0 /\ PopFrom(t, [k \in Keys |-> k + 1]) /\ UNCHANGED sink
    <2>1. PICK k \in Within(store), losers \in SUBSET MayLose(t) :
            /\ store' = Take(store, k)
            /\ turn' = [u \in Threads |-> CASE u \in losers -> Overtaken
                                           [] u = t -> [i \in Keys |-> i + 1][k]
                                           [] OTHER -> turn[u]]
      BY <1>1 DEF PopFrom
    <2>2. /\ k \in Keys /\ store[k] > 0 /\ t \notin losers
          /\ \A u \in losers : u \in Threads /\ tpc[u] = "call" /\ turn[u] = 0
          /\ Overtaken \in Nat /\ Overtaken = Elements + 1
      BY <1>0 DEF MayLose, Within, Overtaken
    <2>3. /\ turn'[t] = k + 1
          /\ \A u \in losers : turn'[u] = Overtaken
          /\ \A u \in Threads \ {t} : u \notin losers => turn'[u] = turn[u]
      BY <2>1, <2>2
    <2>4. /\ \A u \in Threads : turn'[u] \in 0..Overtaken
          /\ \A u \in Threads : tpc[u] # "call" => turn'[u] = turn[u]
      BY <1>0, <2>2, <2>3 DEF TransferInv
    <2>5. turn' \in [Threads -> Nat] /\ store' \in [Keys -> Nat]
      BY <1>0, <2>1, <2>2, BagTypes
    <2>6. ASSUME NEW i \in Keys
          PROVE  \/ store'[i] = 1 /\ sink'[i] = 0 /\ Carriers(i)' = {}
                 \/ store'[i] = 0 /\ sink'[i] = 1 /\ Carriers(i)' = {}
                 \/ store'[i] = 0 /\ sink'[i] = 0 /\ \E u \in Threads : Carriers(i)' = {u}
      <3>1. CASE i = k
        <4>1. store[k] = 1 /\ sink[k] = 0 /\ Carriers(k) = {}
          BY <2>2 DEF TransferInv
        <4>2. Carriers(k)' = {t}
          BY <1>0, <2>2, <2>3, <4>1 DEF Carriers
        <4>3. store'[k] = 0 /\ sink'[k] = 0
          BY <1>0, <1>1, <2>1, <2>2, <4>1 DEF Take
        <4> QED BY <3>1, <4>2, <4>3
      <3>2. CASE i # k
        <4>1. Carriers(i)' = Carriers(i)
          BY <1>0, <1>1, <2>2, <2>3, <3>2 DEF Carriers
        <4>2. store'[i] = store[i] /\ sink'[i] = sink[i]
          BY <1>0, <1>1, <2>1, <3>2 DEF Take
        <4> QED BY <4>1, <4>2 DEF TransferInv
      <3> QED BY <3>1, <3>2
    <2>7. DrainInv'
      BY <1>0, <2>2, <2>3 DEF DrainInv
    <2> QED BY <1>0, <1>1, <2>4, <2>5, <2>6, <2>7 DEF TransferInv
  <1>2. CASE /\ turn[t] \notin {0, Overtaken}
             /\ sink' = Add(sink, turn[t] - 1) /\ turn' = [turn EXCEPT ![t] = 0]
             /\ UNCHANGED store
    <2>0. turn[t] \in 0..Overtaken /\ Overtaken = Elements + 1
      BY DEF TransferInv, Overtaken
    <2>a. turn[t] - 1 \in Keys
      BY <1>0, <1>2, <2>0 DEF Keys
    <2>b. PICK k \in Keys : k = turn[t] - 1
      BY <2>a
    <2>1. turn[t] = k + 1 /\ 0 \in 0..Overtaken /\ 0 # Overtaken
      BY <1>0, <2>0, <2>b
    <2>2. /\ turn'[t] = 0
          /\ \A u \in Threads \ {t} : turn'[u] = turn[u]
          /\ sink' = Add(sink, k)
      BY <1>0, <1>2, <2>b
    <2>3. ASSUME NEW i \in Keys
          PROVE  \/ store'[i] = 1 /\ sink'[i] = 0 /\ Carriers(i)' = {}
                 \/ store'[i] = 0 /\ sink'[i] = 1 /\ Carriers(i)' = {}
                 \/ store'[i] = 0 /\ sink'[i] = 0 /\ \E u \in Threads : Carriers(i)' = {u}
      <3>1. CASE i = k
        <4>1. t \in Carriers(k)
          BY <2>1 DEF Carriers
        <4>2. store[k] = 0 /\ sink[k] = 0 /\ Carriers(k) = {t}
          BY <2>1, <4>1 DEF TransferInv
        <4>3. Carriers(k)' = {}
          BY <1>0, <2>1, <2>2, <4>2 DEF Carriers
        <4>4. store'[k] = 0 /\ sink'[k] = 1
          BY <1>0, <1>2, <2>1, <2>2, <4>2 DEF Add
        <4> QED BY <3>1, <4>3, <4>4
      <3>2. CASE i # k
        <4>1. Carriers(i)' = Carriers(i)
          BY <1>0, <2>1, <2>2, <3>2 DEF Carriers
        <4>2. store'[i] = store[i] /\ sink'[i] = sink[i]
          BY <1>0, <1>2, <2>2, <3>2 DEF Add
        <4> QED BY <4>1, <4>2 DEF TransferInv
      <3> QED BY <3>1, <3>2
    <2>4. /\ sink' \in [Keys -> Nat] /\ store' \in [Keys -> Nat]
          /\ turn' \in [Threads -> Nat]
      BY <1>0, <1>2, <2>1, <2>2, BagTypes
    <2>5. DrainInv' /\ \A u \in Threads : turn'[u] \in 0..Overtaken
      BY <1>0, <2>1, <2>2 DEF DrainInv, TransferInv
    <2> QED BY <1>0, <2>2, <2>3, <2>4, <2>5 DEF TransferInv
  <1> QED BY <1>1, <1>2 DEF Transfer

LEMMA NumberStep ==
  ASSUME IInv, [Next]_vars, DataTypeInv, todo' = todo, IdInv, RemoveInv,
         NEW t \in Threads, tpc[t] = "call", tpc' = tpc, TakeId(t)
  PROVE  IdInv' /\ RemoveInv' /\ next_id' \in Nat /\ id' \in [Threads -> Nat]
  <1>0. /\ num_threads \in Nat \ {0} /\ num_threads' = num_threads /\ Threads' = Threads
        /\ Share' = Share /\ id \in [Threads -> Nat] /\ next_id \in Nat
    BY SameBench DEF IInv, TypeInv, DataTypeInv
  <1>1. /\ id[t] = num_threads /\ next_id' = next_id + 1
        /\ id'[t] = next_id /\ \A u \in Threads \ {t} : id'[u] = id[u]
        /\ id' \in [Threads -> Nat] /\ UNCHANGED <<store, turn>>
    BY <1>0 DEF TakeId
  <1>2. /\ Numbered \in SUBSET Threads /\ t \notin Numbered
        /\ IsFiniteSet(Numbered) /\ next_id < num_threads
    <2>1. Numbered \in SUBSET Threads /\ t \notin Numbered
      BY <1>1 DEF Numbered
    <2> QED BY <1>0, <2>1, Counting DEF IdInv
  <1>3. Numbered' = Numbered \cup {t}
    BY <1>0, <1>1, <1>2 DEF Numbered
  <1>4. IdInv'
    <2>1. next_id' = Cardinality(Numbered')
      <3>1. Cardinality(Numbered \cup {t}) = Cardinality(Numbered) + 1
        BY <1>2, FS_AddElement
      <3>2. next_id = Cardinality(Numbered)
        BY DEF IdInv
      <3> QED BY <1>1, <1>3, <3>1, <3>2
    <2>2. \A u \in Numbered' : id'[u] < next_id'
      BY <1>0, <1>1, <1>2, <1>3 DEF IdInv
    <2>3. \A u, v \in Numbered' : id'[u] = id'[v] => u = v
      BY <1>0, <1>1, <1>2, <1>3 DEF IdInv
    <2>4. \A i \in 0..next_id' - 1 : \E u \in Threads : id'[u] = i
      <3> SUFFICES ASSUME NEW i \in 0..next_id PROVE \E u \in Threads : id'[u] = i
        BY <1>0, <1>1
      <3>1. CASE i = next_id
        BY <1>1, <3>1
      <3>2. CASE i # next_id
        <4>1. PICK u \in Threads : id[u] = i
          BY <1>0, <3>2 DEF IdInv
        <4>2. u # t
          BY <1>0, <1>1, <1>2, <4>1
        <4> QED BY <1>1, <4>1, <4>2
      <3> QED BY <3>1, <3>2
    <2> QED BY <1>0, <2>1, <2>2, <2>3, <2>4 DEF IdInv
  <1>5. RemoveInv'
    <2>1. \A u \in Threads : Rounds(u)' = Rounds(u)
      BY <1>0, <1>1 DEF Rounds
    <2>2. Rounds(t) = 0 /\ turn[t] = 0
      BY <1>1 DEF Rounds, RemoveInv
    <2>3. Removed' = Removed
      BY <1>0, <1>1, <2>1, <2>2 DEF Removed
    <2>4. \A u \in Threads :
            /\ Rounds(u)' <= Share
            /\ IF tpc'[u] = "call" THEN id'[u] = num_threads => turn'[u] = 0
                                   ELSE id'[u] # num_threads
      BY <1>0, <1>1, <2>1, <2>2 DEF RemoveInv
    <2> QED BY <1>0, <1>1, <2>3, <2>4 DEF RemoveInv
  <1> QED BY <1>0, <1>1, <1>4, <1>5

(* Where a thread is in its residue class, and that nobody else is there. *)
LEMMA OwnKey ==
  ASSUME num_threads \in Nat \ {0}, DataTypeInv, IdInv, Divides, RemoveInv,
         NEW t \in Threads, tpc[t] = "call", id[t] < num_threads, turn[t] < Share
  PROVE  Key(t) \in Keys /\ Key(t) \notin Removed
  <1>0. /\ id \in [Threads -> Nat] /\ turn \in [Threads -> Nat] /\ next_id \in Nat
        /\ Share \in Nat
    BY Shares DEF DataTypeInv
  <1>1. \A u \in Numbered : id[u] \in 0..num_threads - 1
    <2>1. Numbered \in SUBSET Threads
      BY DEF Numbered
    <2>2. next_id <= num_threads
      BY <2>1, Counting DEF IdInv
    <2> QED BY <1>0, <2>1, <2>2 DEF IdInv
  <1>2. t \in Numbered
    BY <1>0 DEF Numbered
  <1>3. Key(t) \in Keys
    BY <1>0, <1>1, <1>2, KeyWithin DEF Key
  <1>4. ASSUME NEW u \in Threads, NEW j \in Nat, j < Rounds(u),
               Key(t) = j * num_threads + id[u]
        PROVE  FALSE
    <2>1. u \in Numbered
      BY <1>0, <1>4 DEF Numbered, RemoveInv, Rounds
    <2>2. id[u] = id[t] /\ j = turn[t]
      <3>1. turn[t] * num_threads + id[t] = j * num_threads + id[u]
        BY <1>4 DEF Key
      <3>2. id[t] \in 0..num_threads - 1 /\ id[u] \in 0..num_threads - 1
            /\ turn[t] \in Nat
        BY <1>0, <1>1, <1>2, <2>1
      <3>3. \A a, b \in 0..num_threads - 1, l, m \in Nat :
              l * num_threads + a = m * num_threads + b => a = b /\ l = m
        BY KeyTells
      <3> DEFINE Row(l) == l * num_threads
      <3>4. \A a, b \in 0..num_threads - 1, l, m \in Nat :
              Row(l) + a = Row(m) + b => a = b /\ l = m
        BY <3>3
      <3>5. Row(turn[t]) + id[t] = Row(j) + id[u]
        BY <3>1
      <3> HIDE DEF Row
      <3> QED BY <3>2, <3>4, <3>5
    <2>3. u = t
      BY <1>2, <2>1, <2>2 DEF IdInv
    <2> QED BY <1>0, <1>4, <2>2, <2>3 DEF Rounds
  <1> QED BY <1>3, <1>4 DEF Removed

LEMMA RemoveStep ==
  ASSUME IInv, [Next]_vars, DataTypeInv, todo' = todo, IdInv, RemoveInv, Divides,
         NEW t \in Threads, tpc[t] = "call", tpc' = tpc, RemoveOwn(t)
  PROVE  RemoveInv' /\ store' \in [Keys -> Nat]
  <1>0. /\ num_threads \in Nat \ {0} /\ num_threads' = num_threads /\ Threads' = Threads
        /\ Share' = Share /\ Share \in Nat
        /\ store \in [Keys -> Nat] /\ turn \in [Threads -> Nat] /\ id \in [Threads -> Nat]
    BY SameBench, Shares DEF IInv, TypeInv, DataTypeInv
  <1>1. /\ id[t] < num_threads /\ turn[t] < Share /\ store[Key(t)] > 0
        /\ store' = Take(store, Key(t)) /\ turn' = [turn EXCEPT ![t] = @ + 1]
        /\ id' = id
    BY DEF RemoveOwn, Around
  <1>2. Key(t) \in Keys /\ Key(t) \notin Removed
    BY <1>0, <1>1, OwnKey
  <1>3. /\ Rounds(t) = turn[t] /\ Rounds(t)' = turn[t] + 1
        /\ \A u \in Threads \ {t} : Rounds(u)' = Rounds(u)
    BY <1>0, <1>1 DEF Rounds
  <1>4. Removed' = Removed \cup {Key(t)}
    <2>1. ASSUME NEW k \in Removed' PROVE k \in Removed \cup {Key(t)}
      <3>1. PICK u \in Threads, j \in Nat :
              j < Rounds(u)' /\ k = j * num_threads + id[u]
        BY <1>0, <1>1, <2>1 DEF Removed
      <3>2. k \in Keys
        BY <2>1 DEF Removed
      <3>3. CASE u = t /\ j = turn[t]
        BY <3>1, <3>3 DEF Key
      <3>4. CASE ~(u = t /\ j = turn[t])
        <4>1. j < Rounds(u)
          BY <1>0, <1>3, <3>1, <3>4
        <4> QED BY <3>1, <3>2, <4>1 DEF Removed
      <3> QED BY <3>3, <3>4
    <2>2. ASSUME NEW k \in Removed PROVE k \in Removed'
      <3>1. PICK u \in Threads, j \in Nat :
              j < Rounds(u) /\ k = j * num_threads + id[u]
        BY <2>2 DEF Removed
      <3>2. j < Rounds(u)' /\ k \in Keys
        BY <1>0, <1>3, <2>2, <3>1 DEF Removed
      <3> QED BY <1>0, <1>1, <3>1, <3>2 DEF Removed
    <2>3. Key(t) \in Removed'
      <3>1. turn[t] \in Nat /\ turn[t] < Rounds(t)'
        BY <1>0, <1>3
      <3> QED BY <1>0, <1>1, <1>2, <3>1 DEF Removed, Key
    <2> QED BY <2>1, <2>2, <2>3
  <1>5. ASSUME NEW k \in Keys PROVE store'[k] = IF k \in Removed' THEN 0 ELSE 1
    <2>1. store[k] = IF k \in Removed THEN 0 ELSE 1
      BY DEF RemoveInv
    <2>2. store'[k] = IF k = Key(t) THEN store[k] - 1 ELSE store[k]
      BY <1>0, <1>1, <1>2 DEF Take
    <2> QED BY <1>2, <1>4, <2>1, <2>2
  <1>6. store' \in [Keys -> Nat]
    BY <1>0, <1>1, <1>2, BagTypes DEF Within
  <1>7. ASSUME NEW u \in Threads
        PROVE  /\ Rounds(u)' <= Share
               /\ IF tpc'[u] = "call" THEN id'[u] = num_threads => turn'[u] = 0
                                      ELSE id'[u] # num_threads
    BY <1>0, <1>1, <1>3 DEF RemoveInv
  <1> QED BY <1>0, <1>5, <1>6, <1>7 DEF RemoveInv

LEMMA NoPanic ==
  ASSUME IInv, Measuring, DataTypeInv, IdInv, Working,
         NEW t \in Threads, tpc[t] = "call"
  PROVE  ~Panics(t)
  <1> SUFFICES ASSUME Bench.name = "list_remove", id[t] < num_threads, turn[t] < Share,
                      store[Key(t)] = 0
               PROVE  FALSE
    BY DEF Panics, Measuring
  <1>1. Key(t) \in Keys /\ Key(t) \notin Removed
    BY OwnKey DEF Working, Measuring, IInv, TypeInv
  <1> QED BY <1>1 DEF Working, RemoveInv

(* A thread that returns has done its share, and does not come back for    *)
(* what is left to the others.                                             *)
LEMMA ReturnStep ==
  ASSUME IInv, [Next]_vars, Measuring, DataTypeInv, IdInv, Working, todo' = todo,
         Bench.name \in BenchNames,
         NEW t \in Threads, tpc[t] = "call", Ends(t),
         tpc' = [tpc EXCEPT ![t] = "reply"], turn' = [turn EXCEPT ![t] = 0],
         UNCHANGED <<store, sink, next_id, id>>
  PROVE  Working'
  <1>0. /\ num_threads' = num_threads /\ Threads' = Threads /\ Share' = Share
        /\ Bench' = Bench
        /\ num_threads \in Nat \ {0} /\ Overtaken \in Nat \ {0}
        /\ \A u \in Threads \ {t} : tpc'[u] = tpc[u] /\ turn'[u] = turn[u]
        /\ tpc'[t] = "reply" /\ turn'[t] = 0
    BY SameBench, BenchmarksAssumption DEF IInv, TypeInv, DataTypeInv, Overtaken
  <1>1. ASSUME turn[t] = Share PROVE \A u \in Threads : Rounds(u)' = Rounds(u)
    BY <1>0, <1>1 DEF Rounds
  <1>2. CASE Bench.name = "queue_push"
    <2>1. \A u \in Threads : Rounds(u)' = Rounds(u)
      BY <1>1, <1>2 DEF Ends
    <2>2. \A k : Past(k)' = Past(k)
      BY <1>0, <2>1 DEF Past
    <2>3. PushInv'
      BY <1>0, <1>2, <2>1, <2>2 DEF PushInv, Working
    <2> QED BY <1>0, <1>2, <2>3 DEF Working
  <1>3. CASE Bench.name \in {"queue_pop", "queue_transfer"}
    <2>1. turn[t] = Overtaken \/ (turn[t] = 0 /\ store = Empty)
      BY <1>3 DEF Ends
    <2>2. DrainInv'
      BY <1>0, <1>3, <2>1 DEF DrainInv, Working
    <2>3. PopInv => PopInv'
      BY <1>0 DEF PopInv
    <2>4. TransferInv => TransferInv'
      <3>1. \A k \in Keys : Carriers(k)' = Carriers(k)
        BY <1>0, <2>1, BenchmarksAssumption DEF Carriers, Overtaken, Keys
      <3> QED BY <1>0, <3>1 DEF TransferInv
    <2> QED BY <1>0, <1>3, <2>2, <2>3, <2>4 DEF Working
  <1>4. CASE Bench.name = "list_remove"
    <2>1. /\ \A u \in Threads : Rounds(u)' = Rounds(u)
          /\ id[t] < num_threads
      BY <1>1, <1>4 DEF Ends
    <2>2. Removed' = Removed
      BY <1>0, <2>1 DEF Removed
    <2>3. RemoveInv'
      BY <1>0, <1>4, <2>1, <2>2 DEF RemoveInv, Working, DataTypeInv
    <2> QED BY <1>0, <1>4, <2>3 DEF Working
  <1>5. CASE Bench.name \in {"list_real", "nop"}
    BY <1>0, <1>5 DEF Working
  <1> QED BY <1>2, <1>3, <1>4, <1>5 DEF BenchNames

LEMMA FunctionStep ==
  ASSUME IInv, [Next]_vars, Measuring, DataTypeInv, TurnInv, IdInv, Working,
         todo' = todo, Bench.name \in BenchNames,
         NEW t \in Threads, tpc[t] = "call", tpc' = tpc, calls' = calls, Function(t)
  PROVE  Working' /\ DataTypeInv' /\ TurnInv' /\ IdInv'
  <1>0. /\ num_threads' = num_threads /\ Threads' = Threads /\ Bench' = Bench
        /\ Bench.name # "user"
        /\ calls <= 1
        /\ store \in [Keys -> Nat] /\ sink \in [Keys -> Nat]
        /\ turn \in [Threads -> Nat] /\ next_id \in Nat /\ id \in [Threads -> Nat]
    BY SameBench DEF DataTypeInv, Measuring
  <1>1. ASSUME turn' \in [Threads -> Nat],
               \A u \in Threads : tpc[u] # "call" => turn'[u] = turn[u]
        PROVE  TurnInv'
    BY <1>0, <1>1 DEF TurnInv
  <1>2. CASE UNCHANGED <<next_id, id>>
    <2>1. IdInv'
      BY <1>0, <1>2, IdSame
    <2>2. CASE Push(t)
      <3>1. PushInv'
        BY <2>2, PushStep DEF Push, Working
      <3>2. turn[t] \in Keys /\ turn' = [turn EXCEPT ![t] = @ + 1]
        <4>1. Share <= Elements /\ Share \in Nat /\ Elements \in Nat
          BY Shares, BenchmarksAssumption DEF IInv, TypeInv
        <4>2. turn[t] < Share /\ turn' = [turn EXCEPT ![t] = @ + 1]
          BY <2>2 DEF Push, Around
        <4> QED BY <1>0, <4>1, <4>2 DEF Keys
      <3>3. store' \in [Keys -> Nat] /\ turn' \in [Threads -> Nat]
        BY <1>0, <2>2, <3>2, BagTypes DEF Push
      <3>4. DataTypeInv' /\ TurnInv'
        BY <1>0, <1>1, <1>2, <2>2, <3>2, <3>3 DEF DataTypeInv, Push
      <3>5. Working'
        BY <1>0, <2>2, <3>1 DEF Working, Push
      <3> QED BY <2>1, <3>4, <3>5
    <2>3. CASE Pop(t)
      <3>1. Bench.name = "queue_pop" /\ sink' = sink
        BY <2>3 DEF Pop
      <3>2. /\ PopInv' /\ DrainInv'
            /\ store' \in [Keys -> Nat] /\ turn' \in [Threads -> Nat]
            /\ \A u \in Threads : tpc[u] # "call" => turn'[u] = turn[u]
        BY <2>3, <3>1, PopStep DEF Working
      <3>3. Working'
        BY <1>0, <3>1, <3>2 DEF Working
      <3> QED BY <1>0, <1>1, <1>2, <2>1, <3>1, <3>2, <3>3 DEF DataTypeInv
    <2>4. CASE Transfer(t)
      <3>1. Bench.name = "queue_transfer"
        BY <2>4 DEF Transfer
      <3>2. /\ TransferInv' /\ DrainInv'
            /\ store' \in [Keys -> Nat] /\ sink' \in [Keys -> Nat]
            /\ turn' \in [Threads -> Nat]
            /\ \A u \in Threads : tpc[u] # "call" => turn'[u] = turn[u]
        BY <2>4, <3>1, TransferStep DEF Working
      <3>3. Working'
        BY <1>0, <3>1, <3>2 DEF Working
      <3> QED BY <1>0, <1>1, <1>2, <2>1, <3>2, <3>3 DEF DataTypeInv
    <2>5. CASE RemoveOwn(t)
      <3>1. Bench.name = "list_remove" /\ sink' = sink
            /\ turn' = [turn EXCEPT ![t] = @ + 1]
        BY <2>5 DEF RemoveOwn, Around
      <3>2. RemoveInv' /\ store' \in [Keys -> Nat]
        BY <2>5, <3>1, RemoveStep DEF Working, Measuring
      <3>3. turn' \in [Threads -> Nat]
        BY <1>0, <3>1
      <3>4. DataTypeInv' /\ TurnInv'
        BY <1>0, <1>1, <1>2, <3>1, <3>2, <3>3 DEF DataTypeInv
      <3>5. Working'
        BY <1>0, <3>1, <3>2 DEF Working
      <3> QED BY <2>1, <3>4, <3>5
    <2>6. CASE RealStep(t)
      <3>1. Bench.name = "list_real" /\ sink' = sink
            /\ turn' = [turn EXCEPT ![t] = @ + 1]
        BY <2>6 DEF RealStep, Around
      <3>2. store' \in [Keys -> Nat]
        BY <1>0, <2>6, BagTypes DEF RealStep, Within
      <3>3. turn' \in [Threads -> Nat]
        BY <1>0, <3>1
      <3>4. DataTypeInv' /\ TurnInv'
        BY <1>0, <1>1, <1>2, <3>1, <3>2, <3>3 DEF DataTypeInv
      <3>5. Working'
        BY <1>0, <3>1 DEF Working
      <3> QED BY <2>1, <3>4, <3>5
    <2> QED
      BY <1>0, <1>2, <2>2, <2>3, <2>4, <2>5, <2>6 DEF Function, TakeId, UserStep
  <1>3. CASE TakeId(t)
    <2>1. Bench.name = "list_remove" /\ UNCHANGED <<store, sink, turn>>
      BY <1>3 DEF TakeId
    <2>2. IdInv' /\ RemoveInv' /\ next_id' \in Nat /\ id' \in [Threads -> Nat]
      BY <1>3, <2>1, NumberStep DEF Working
    <2>3. Working'
      BY <1>0, <2>1, <2>2 DEF Working
    <2> QED BY <1>0, <1>1, <2>1, <2>2, <2>3 DEF DataTypeInv
  <1> QED
    BY <1>0, <1>2, <1>3
    DEF Function, Push, Pop, Transfer, RemoveOwn, RealStep, UserStep

LEMMA CallStep ==
  ASSUME IInv, [Next]_vars, Measuring, DataInv, todo' = todo,
         NEW t \in Threads, Call(t)
  PROVE  DataInv'
  <1>0. /\ DataTypeInv /\ CalmInv /\ TurnInv /\ IdInv /\ PhaseInv /\ MainInv
        /\ ThreadInv(t) /\ tpc[t] = "call"
        /\ tpc \in [Threads -> {"recv", "barrier", "call", "reply", "returned",
                          "ended", "panicked"}]
    BY DEF DataInv, Call, Work, EndCall, IInv, TypeInv
  <1>1. mpc = "recv"
    BY <1>0 DEF ThreadInv, CalmInv, Idle, Called, Dismissed, IInv, TypeInv
  <1>2. Working /\ Bench.name \in BenchNames
    BY <1>0, <1>1 DEF PhaseInv
  <1>3. Threads' = Threads /\ Bench' = Bench /\ num_threads' = num_threads
    BY SameBench
  <1>4. ASSUME UNCHANGED <<mpc, calls>>, Working', DataTypeInv', TurnInv', IdInv',
               \A u \in Threads : tpc'[u] # "panicked"
        PROVE  DataInv'
    <2>1. CalmInv'
      BY <1>1, <1>3, <1>4 DEF CalmInv
    <2>2. PhaseInv'
      BY <1>1, <1>2, <1>3, <1>4 DEF PhaseInv
    <2> QED BY <1>4, <2>1, <2>2 DEF DataInv
  <1>5. CASE Work(t, IsHp(Bench)) /\ Function(t)
    <2>1. UNCHANGED <<mpc, calls, tpc>>
      BY <1>5 DEF Work, mainVars
    <2>2. Working' /\ DataTypeInv' /\ TurnInv' /\ IdInv'
      BY <1>0, <1>2, <1>5, <2>1, FunctionStep
    <2> QED BY <1>0, <1>4, <2>1, <2>2 DEF CalmInv
  <1>6. CASE /\ Ends(t) /\ EndCall(t, "reply")
             /\ turn' = [turn EXCEPT ![t] = 0]
             /\ UNCHANGED <<store, sink, next_id, id>>
    <2>1. UNCHANGED <<mpc, calls>> /\ tpc' = [tpc EXCEPT ![t] = "reply"]
      BY <1>6 DEF EndCall, ThreadAt, mainVars
    <2>2. Working'
      BY <1>0, <1>2, <1>6, <2>1, ReturnStep
    <2>3. DataTypeInv' /\ TurnInv'
      BY <1>0, <1>3, <1>6, <2>1 DEF DataTypeInv, TurnInv
    <2>4. IdInv'
      BY <1>0, <1>3, <1>6, IdSame
    <2> QED BY <1>0, <1>4, <2>1, <2>2, <2>3, <2>4 DEF CalmInv
  <1>7. ~Panics(t)
    BY <1>0, <1>2, NoPanic
  <1> QED BY <1>5, <1>6, <1>7 DEF Call

(* A thread that is not in the function. *)
LEMMA OtherStep ==
  ASSUME IInv, [Next]_vars, Measuring, DataInv, UNCHANGED <<dataVars, todo>>,
         NEW t \in Threads, RecvSignal(t) \/ Reply(t) \/ EndThread(t)
  PROVE  DataInv'
  <1>0. /\ DataTypeInv /\ CalmInv /\ TurnInv /\ IdInv /\ PhaseInv /\ ThreadInv(t)
        /\ tpc \in [Threads -> {"recv", "barrier", "call", "reply", "returned",
                          "ended", "panicked"}]
        /\ inbox[t] \in Seq({"Run", "End"})
    BY DEF DataInv, IInv, TypeInv
  <1>1. /\ num_threads' = num_threads /\ Threads' = Threads /\ Bench' = Bench
        /\ UNCHANGED <<store, sink, turn, next_id, id>> /\ Pushed' = Pushed
    BY SameBench DEF dataVars
  <1>2. mpc = "done" => tpc[t] = "ended"
    BY <1>0 DEF ThreadInv
  <1>3. /\ UNCHANGED <<mpc, calls>>
        /\ tpc[t] # "call" /\ tpc'[t] # "call" /\ tpc'[t] # "panicked"
        /\ \A u \in Threads \ {t} : tpc'[u] = tpc[u]
    BY <1>0, <1>2 DEF RecvSignal, Reply, EndThread, ThreadAt, MainGone, CalmInv, mainVars
  <1>4. Working => Working'
    BY <1>1, <1>3, WorkingSame
  <1>5. PhaseInv'
    BY <1>0, <1>1, <1>3, <1>4 DEF PhaseInv, AtRest, Prepared, Left
  <1>6. DataTypeInv' /\ CalmInv' /\ TurnInv'
    BY <1>0, <1>1, <1>3 DEF DataTypeInv, CalmInv, TurnInv
  <1>7. IdInv'
    BY <1>0, <1>1, IdSame
  <1> QED BY <1>5, <1>6, <1>7 DEF DataInv

LEMMA DataStart ==
  ASSUME num_threads \in Nat \ {0}, calls = 0, mpc = "idle",
         tpc = [t \in Threads |-> "recv"],
         store = Empty, sink = Empty, turn = [t \in Threads |-> 0],
         next_id = 0, id = [t \in Threads |-> num_threads]
  PROVE  DataInv
  <1>1. DataTypeInv /\ CalmInv /\ TurnInv /\ PhaseInv
    BY BagTypes DEF DataTypeInv, CalmInv, TurnInv, PhaseInv
  <1>2. Numbered = {}
    BY DEF Numbered
  <1>3. IdInv
    BY <1>2, FS_EmptySet DEF IdInv
  <1> QED BY <1>1, <1>3 DEF DataInv

LEMMA DataInit == Init => DataInv
  <1> SUFFICES ASSUME Init PROVE DataInv
    OBVIOUS
  <1>1. num_threads \in Nat \ {0}
    BY BenchmarksAssumption DEF Init
  <1>2. BencherInit
    BY DEF Init
  <1> QED BY <1>1, <1>2, DataStart DEF Init, BencherInit

LEMMA DataNew ==
  ASSUME IInv, [Next]_vars, NextBench
  PROVE  DataInv'
  <1>0. num_threads' \in Nat \ {0} /\ Threads' = Threads /\ num_threads' = num_threads
    BY ThreadsStay DEF IInv, TypeInv
  <1>1. /\ calls' = 0 /\ mpc' = "idle" /\ store' = Empty /\ sink' = Empty
        /\ next_id' = 0
        /\ \A t \in Threads : tpc'[t] = "recv" /\ turn'[t] = 0 /\ id'[t] = num_threads
        /\ turn' \in [Threads -> Nat] /\ id' \in [Threads -> Nat]
    BY <1>0 DEF NextBench, NewBencher
  <1>2. DataTypeInv' /\ CalmInv' /\ TurnInv' /\ PhaseInv'
    BY <1>0, <1>1, BagTypes DEF DataTypeInv, CalmInv, TurnInv, PhaseInv
  <1>3. Numbered' = {}
    BY <1>0, <1>1 DEF Numbered
  <1>4. IdInv'
    BY <1>0, <1>1, <1>3, FS_EmptySet DEF IdInv
  <1> QED BY <1>2, <1>4 DEF DataInv

LEMMA DataStep == IInv /\ DataInv /\ [Next]_vars => DataInv'
  <1> SUFFICES ASSUME IInv, DataInv, [Next]_vars PROVE DataInv'
    OBVIOUS
  <1>1. CASE NextBench
    BY <1>1, DataNew
  <1>2. CASE ~NextBench
    <2>1. todo' = todo
      BY <1>2 DEF Next, MainStep, Sample, Choose, ThreadStep, Abort, WriteSamples,
         runVars, vars
    <2> SUFFICES ASSUME Measuring PROVE DataInv'
      BY <2>1, SameBench DEF DataInv
    <2>2. CASE UNCHANGED <<dataVars, benchVars, todo>>
      <3>1. /\ DataTypeInv /\ CalmInv /\ TurnInv /\ IdInv /\ PhaseInv
            /\ UNCHANGED <<num_threads, mpc, calls, tpc, store, sink, turn, next_id, id>>
            /\ Threads' = Threads /\ Bench' = Bench /\ Pushed' = Pushed
        BY <2>1, <2>2, SameBench
        DEF DataInv, benchVars, kindVars, mainVars, threadVars, dataVars
      <3>2. Working => Working'
        BY <2>2, <3>1, WorkingSame
      <3>3. PhaseInv'
        BY <3>1, <3>2 DEF PhaseInv, AtRest, Prepared, Left
      <3>4. DataTypeInv' /\ CalmInv' /\ TurnInv'
        BY <3>1 DEF DataTypeInv, CalmInv, TurnInv
      <3>5. IdInv'
        BY <3>1, IdSame
      <3> QED BY <3>3, <3>4, <3>5 DEF DataInv
    <2> QED BY <1>2, <2>1, <2>2, DataCases, MainLeaves, PrepareStep, CallStep, OtherStep
  <1> QED BY <1>1, <1>2

(* The state of a benchmark that is measured, as far as the order in which *)
(* the threads go does not change it (benches.rs).                         *)
THEOREM DataInductive == Spec => []DataInv
  BY IndInit, IndStep, DataInit, DataStep, PTL DEF Spec

(* Every sample of a benchmark starts with the same contents, and each but *)
(* that of list_real ends with the same, in whichever order the threads go *)
(* (prepare and run of benches.rs).                                        *)
THEOREM EachSampleAlike == Spec => []SamplesAlike
  <1>1. DataInv => SamplesAlike
    <2> SUFFICES ASSUME DataInv, Running, ~IsUser, Bench.name = "list_remove" => Divides
                 PROVE  /\ mpc \in {"send", "barrier"} => Prepared
                        /\ mpc = "end" => Left
                        /\ mpc \in {"send", "barrier"} => Bench.name \in BenchNames
      BY DEF SamplesAlike, Prepared, Left
    <2>1. Measuring
      BY DEF Measuring, Running, IsUser
    <2> QED BY <2>1 DEF DataInv, PhaseInv
  <1> QED BY <1>1, DataInductive, PTL
=============================================================================
