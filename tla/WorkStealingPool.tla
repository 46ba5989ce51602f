--------------------------- MODULE WorkStealingPool ---------------------------
(***************************************************************************)
(* WorkStealingPool: workers with a deque each, client threads that submit *)
(* tasks and wait for the pool to become idle, tasks that submit tasks and *)
(* may throw, and the owner that destroys the pool.  A lock is held inside *)
(* one action, every access to an atomic is an action, and the scan of the *)
(* deques looks at one deque per action.  The steal counters, which        *)
(* nothing reads, are left out.                                            *)
(***************************************************************************)
EXTENDS Integers, FiniteSets, SequencesExt

CONSTANTS N,          \* number of workers and deques
          Group,      \* queue_groups_
          Clients,    \* threads that use the pool
          Owner,      \* the thread that destroys it
          Tasks,
          Parent,     \* the client, or the running task, that submits a task
          Hint,       \* locality_hint of a task
          Throws,     \* tasks whose body ends in an exception
          NoTask

Workers == 0 .. N - 1
Drainers == Clients \cup {Owner}
Threads == Workers \cup Drainers

ASSUME PoolConstants ==
  /\ N \in Nat \ {0}
  /\ IsFiniteSet(Clients) /\ Clients \cap Workers = {}
  /\ Owner \notin Clients \cup Workers
  /\ IsFiniteSet(Tasks) /\ NoTask \notin Tasks /\ Tasks \cap Threads = {}
  /\ Hint \in [Tasks -> Nat] /\ Throws \subseteq Tasks
  /\ Group \in [Workers -> Nat]
  /\ Parent \in [Tasks -> Clients \cup Tasks]

VARIABLES queues,       \* queues_: one deque of tasks per worker
          outstanding,  \* outstanding_
          submitted,    \* submitted_
          executed,     \* executed_
          exception,    \* first_exception_: the task that threw it
          stop,         \* stop_
          pc,           \* where each thread is
          hand,         \* the task a thread has taken and not yet retired
          giving,       \* the task a thread is submitting
          at,           \* how far its scan of the deques is
          started,      \* history: tasks whose submit() has begun
          ran,          \* history: tasks whose body has ended
          owed,         \* history: tasks submitted before a wait_idle() began
          covered       \* history: what had run when a wait_idle() last threw

vars == <<queues, outstanding, submitted, executed, exception, stop, pc, hand,
          giving, at, started, ran, owed, covered>>
counters == <<outstanding, submitted, executed>>
history == <<started, ran, owed, covered>>

Steps == {"idle", "gone", "top", "drain", "scan", "poll", "block", "sleep", "run",
          "record", "tally", "retire", "announce", "count", "push", "notify",
          "rethrow", "stopping", "waking", "joining", "dead", "exited"}

TypeOK ==
  /\ queues \in [Workers -> Seq(Tasks)]
  /\ outstanding \in Nat /\ submitted \in Nat /\ executed \in Nat
  /\ exception \in Tasks \cup {NoTask}
  /\ stop \in BOOLEAN
  /\ pc \in [Threads -> Steps]
  /\ hand \in [Threads -> Tasks \cup {NoTask}]
  /\ giving \in [Threads -> Tasks \cup {NoTask}]
  /\ at \in [Threads -> Nat]
  /\ started \subseteq Tasks /\ ran \subseteq Tasks
  /\ owed \in [Clients -> SUBSET Tasks]
  /\ covered \subseteq Tasks

Init ==
  /\ queues = [q \in Workers |-> <<>>]
  /\ outstanding = 0 /\ submitted = 0 /\ executed = 0
  /\ exception = NoTask
  /\ stop = FALSE
  /\ pc = [th \in Threads |-> IF th \in Workers THEN "top" ELSE "idle"]
  /\ hand = [th \in Threads |-> NoTask]
  /\ giving = [th \in Threads |-> NoTask]
  /\ at = [th \in Threads |-> 0]
  /\ started = {} /\ ran = {} /\ covered = {}
  /\ owed = [c \in Clients |-> {}]

(* The head of the loop a thread looks for tasks in. *)
Head0(th) == IF th \in Workers THEN "top" ELSE "drain"

Goto(th, step) == pc' = [pc EXCEPT ![th] = step]

(* notify_all: threads blocked on the condition variable evaluate their    *)
(* predicate again; a thread that has not blocked yet misses it.           *)
NotifyAll(th, sleepers, step) ==
  pc' = [s \in Threads |-> IF s = th THEN step
                           ELSE IF s \in sleepers /\ pc[s] = "sleep" THEN "poll"
                           ELSE pc[s]]

-----------------------------------------------------------------------------
(* submit(), by a client or by the body of a running task. *)
Submit(th, t) ==
  /\ \/ pc[th] = "idle" /\ Parent[t] = th
     \/ pc[th] = "run" /\ Parent[t] = hand[th]
  /\ t \notin started
  /\ started' = started \cup {t}
  /\ giving' = [giving EXCEPT ![th] = t]
  /\ outstanding' = outstanding + 1
  /\ Goto(th, "count")
  /\ UNCHANGED <<queues, submitted, executed, exception, stop, hand, at, ran, owed, covered>>

CountSubmitted(th) ==
  /\ pc[th] = "count"
  /\ submitted' = submitted + 1
  /\ Goto(th, "push")
  /\ UNCHANGED <<queues, outstanding, executed, exception, stop, hand, giving, at, history>>

Push(th) ==
  /\ pc[th] = "push"
  /\ queues' = [queues EXCEPT ![Hint[giving[th]] % N] = Append(@, giving[th])]
  /\ giving' = [giving EXCEPT ![th] = NoTask]
  /\ Goto(th, "notify")
  /\ UNCHANGED <<counters, exception, stop, hand, at, history>>

NotifyWorkers(th) ==
  /\ pc[th] = "notify"
  /\ NotifyAll(th, Workers, IF hand[th] = NoTask THEN "idle" ELSE "run")
  /\ UNCHANGED <<queues, counters, exception, stop, hand, giving, at, history>>

-----------------------------------------------------------------------------
(* The deques in the order a thread looks at them: a worker its own, those *)
(* of its group and the others, a waiting thread all from the first.       *)
ScanOrder(th) ==
  IF th \in Workers
  THEN LET others  == [k \in 1 .. N - 1 |-> (th + k) % N]
           mate(q) == Group[q] = Group[th]
       IN  <<th>> \o SelectSeq(others, mate) \o SelectSeq(others, LAMBDA q : ~mate(q))
  ELSE [k \in 1 .. N |-> k - 1]

(* The head of worker(): leave when the pool stops. *)
Top(w) ==
  /\ pc[w] = "top"
  /\ Goto(w, IF stop THEN "exited" ELSE "scan")
  /\ at' = [at EXCEPT ![w] = 1]
  /\ UNCHANGED <<queues, counters, exception, stop, hand, giving, history>>

(* Mutant: a waiter trusts empty deques. *)
DrainWhenEmpty(d) ==
  /\ pc[d] = "drain"
  /\ Goto(d, IF \E q \in Workers : queues[q] # <<>> THEN "scan"
             ELSE IF d = Owner THEN "stopping" ELSE "rethrow")
  /\ at' = [at EXCEPT ![d] = 1]
  /\ UNCHANGED <<queues, counters, exception, stop, hand, giving, history>>

(* The head of drain_until_idle(). *)
Drain(d) ==
  /\ pc[d] = "drain"
  /\ Goto(d, IF outstanding # 0 THEN "scan"
             ELSE IF d = Owner THEN "stopping" ELSE "rethrow")
  /\ at' = [at EXCEPT ![d] = 1]
  /\ UNCHANGED <<queues, counters, exception, stop, hand, giving, history>>

(* Mutant: the owner runs the newest task and drops the oldest. *)
TakeDropsOldest(th, q) ==
  /\ queues[q] # <<>>
  /\ hand' = [hand EXCEPT ![th] = IF q = th THEN Last(queues[q]) ELSE Head(queues[q])]
  /\ queues' = [queues EXCEPT ![q] = Tail(@)]
  /\ Goto(th, "run")
  /\ UNCHANGED at

(* pop_local takes the newest task of the worker's own deque, pop_any and  *)
(* try_steal_from the oldest.                                              *)
Take(th, q) ==
  /\ queues[q] # <<>>
  /\ \/ /\ q = th
        /\ hand' = [hand EXCEPT ![th] = Last(queues[q])]
        /\ queues' = [queues EXCEPT ![q] = Front(@)]
     \/ /\ q # th
        /\ hand' = [hand EXCEPT ![th] = Head(queues[q])]
        /\ queues' = [queues EXCEPT ![q] = Tail(@)]
  /\ Goto(th, "run")
  /\ UNCHANGED at

Miss(th, q) ==
  /\ queues[q] = <<>>
  /\ at' = [at EXCEPT ![th] = @ + 1]
  /\ Goto(th, IF at[th] < N THEN "scan" ELSE "poll")
  /\ UNCHANGED <<queues, hand>>

Look(th) ==
  /\ pc[th] = "scan"
  /\ \E q \in Workers :
       /\ q = ScanOrder(th)[at[th]]
       /\ Take(th, q) \/ Miss(th, q)
  /\ UNCHANGED <<counters, exception, stop, giving, history>>

(* wait_for evaluates its predicate, then blocks. *)
Ready(th) ==
  IF th \in Workers THEN stop \/ outstanding # 0 ELSE outstanding = 0

Poll(th) ==
  /\ pc[th] = "poll"
  /\ Goto(th, IF Ready(th) THEN Head0(th) ELSE "block")
  /\ UNCHANGED <<queues, counters, exception, stop, hand, giving, at, history>>

Block(th) ==
  /\ pc[th] = "block"
  /\ Goto(th, "sleep")
  /\ UNCHANGED <<queues, counters, exception, stop, hand, giving, at, history>>

(* Mutants: only waiting threads, only workers, wait with a timeout. *)
TimeoutOfDrainers(th) ==
  /\ pc[th] = "sleep" /\ th \in Drainers
  /\ Goto(th, Head0(th))
  /\ UNCHANGED <<queues, counters, exception, stop, hand, giving, at, history>>
TimeoutOfWorkers(th) ==
  /\ pc[th] = "sleep" /\ th \in Workers
  /\ Goto(th, Head0(th))
  /\ UNCHANGED <<queues, counters, exception, stop, hand, giving, at, history>>

(* The millisecond of wait_for is over. *)
Timeout(th) ==
  /\ pc[th] = "sleep"
  /\ Goto(th, Head0(th))
  /\ UNCHANGED <<queues, counters, exception, stop, hand, giving, at, history>>

-----------------------------------------------------------------------------
(* complete_task(): the body ends, having submitted some of its children.  *)
Finish(th) ==
  /\ pc[th] = "run"
  /\ ran' = ran \cup {hand[th]}
  /\ Goto(th, IF hand[th] \in Throws THEN "record" ELSE "tally")
  /\ UNCHANGED <<queues, counters, exception, stop, hand, giving, at, started, owed, covered>>

(* record_exception() keeps the first one. *)
Record(th) ==
  /\ pc[th] = "record"
  /\ exception' = IF exception = NoTask THEN hand[th] ELSE exception
  /\ Goto(th, "tally")
  /\ UNCHANGED <<queues, counters, stop, hand, giving, at, history>>

CountExecuted(th) ==
  /\ pc[th] = "tally"
  /\ executed' = executed + 1
  /\ Goto(th, "retire")
  /\ UNCHANGED <<queues, outstanding, submitted, exception, stop, hand, giving, at, history>>

Retire(th) ==
  /\ pc[th] = "retire"
  /\ outstanding' = outstanding - 1
  /\ hand' = [hand EXCEPT ![th] = NoTask]
  /\ Goto(th, IF outstanding = 1 THEN "announce" ELSE Head0(th))
  /\ UNCHANGED <<queues, submitted, executed, exception, stop, giving, at, history>>

Announce(th) ==
  /\ pc[th] = "announce"
  /\ NotifyAll(th, Drainers, Head0(th))
  /\ UNCHANGED <<queues, counters, exception, stop, hand, giving, at, history>>

-----------------------------------------------------------------------------
(* Mutant: wait_idle() forgets what failed before it. *)
WaitIdleForgets(c) ==
  /\ pc[c] = "idle"
  /\ owed' = [owed EXCEPT ![c] = started]
  /\ exception' = NoTask
  /\ Goto(c, "drain")
  /\ UNCHANGED <<queues, counters, stop, hand, giving, at, started, ran, covered>>

(* wait_idle() begins; parallel_for is submits followed by this. *)
WaitIdle(c) ==
  /\ pc[c] = "idle"
  /\ owed' = [owed EXCEPT ![c] = started]
  /\ Goto(c, "drain")
  /\ UNCHANGED <<queues, counters, exception, stop, hand, giving, at, started, ran, covered>>

(* rethrow_pending_exception(), and the return or the throw that follows.  *)
Rethrow(c) ==
  /\ pc[c] = "rethrow"
  /\ covered' = IF exception = NoTask THEN covered ELSE ran
  /\ exception' = NoTask
  /\ Goto(c, "idle")
  /\ UNCHANGED <<queues, counters, stop, hand, giving, at, started, ran, owed>>

Leave(c) ==
  /\ pc[c] = "idle"
  /\ Goto(c, "gone")
  /\ UNCHANGED <<queues, counters, exception, stop, hand, giving, at, history>>

(* Mutant: the destructor does not drain. *)
DestroyAtOnce ==
  /\ pc[Owner] = "idle"
  /\ \A c \in Clients : pc[c] = "gone"
  /\ Goto(Owner, "stopping")
  /\ UNCHANGED <<queues, counters, exception, stop, hand, giving, at, history>>

(* ~WorkStealingPool(), once no client uses the pool any more. *)
Destroy ==
  /\ pc[Owner] = "idle"
  /\ \A c \in Clients : pc[c] = "gone"
  /\ Goto(Owner, "drain")
  /\ UNCHANGED <<queues, counters, exception, stop, hand, giving, at, history>>

Stop ==
  /\ pc[Owner] = "stopping"
  /\ stop' = TRUE
  /\ Goto(Owner, "waking")
  /\ UNCHANGED <<queues, counters, exception, hand, giving, at, history>>

WakeAll ==
  /\ pc[Owner] = "waking"
  /\ NotifyAll(Owner, Workers, "joining")
  /\ UNCHANGED <<queues, counters, exception, stop, hand, giving, at, history>>

Join ==
  /\ pc[Owner] = "joining"
  /\ \A w \in Workers : pc[w] = "exited"
  /\ Goto(Owner, "dead")
  /\ UNCHANGED <<queues, counters, exception, stop, hand, giving, at, history>>

-----------------------------------------------------------------------------
(* What a thread inside the pool's code does next. *)
Progress(th) ==
  \/ CountSubmitted(th) \/ Push(th) \/ NotifyWorkers(th)
  \/ Look(th) \/ Poll(th) \/ Block(th) \/ Timeout(th)
  \/ Finish(th) \/ Record(th) \/ CountExecuted(th) \/ Retire(th) \/ Announce(th)

Destructor == Destroy \/ Stop \/ WakeAll \/ Join

Next ==
  \/ \E th \in Threads : Progress(th) \/ \E t \in Tasks : Submit(th, t)
  \/ \E w \in Workers : Top(w)
  \/ \E d \in Drainers : Drain(d)
  \/ \E c \in Clients : WaitIdle(c) \/ Rethrow(c) \/ Leave(c)
  \/ Destructor

(* Every thread is scheduled again and again and task bodies end.  Nothing *)
(* makes a client submit, wait or leave.                                   *)
Fairness ==
  /\ \A th \in Threads : WF_vars(Progress(th))
  /\ \A w \in Workers : WF_vars(Top(w))
  /\ \A d \in Drainers : WF_vars(Drain(d))
  /\ \A c \in Clients : WF_vars(Rethrow(c))
  /\ WF_vars(Stop \/ WakeAll \/ Join)

Spec == Init /\ [][Next]_vars /\ Fairness

-----------------------------------------------------------------------------
Held == {hand[th] : th \in Threads} \ {NoTask}
Offered == {giving[th] : th \in Threads} \ {NoTask}
Queued == UNION {Range(queues[q]) : q \in Workers}

(* Tasks whose submission has begun and that have not been retired. *)
Active == started \ (ran \ Held)

(* outstanding_ counts the active tasks, whatever thread runs or submits   *)
(* them: it neither wraps below zero nor keeps a waiter for ever.          *)
Accounting == outstanding = Cardinality(Active)

(* A submitted task that has not run is in one deque, in the hands of one  *)
(* thread, or on its way into a deque, never in two of these; none is      *)
(* lost, and none runs again once it has run.                              *)
ExactlyOnce ==
  /\ started = ran \cup Queued \cup Held \cup Offered
  /\ \A q \in Workers : \A i, j \in DOMAIN queues[q] : queues[q][i] = queues[q][j] => i = j
  /\ \A q, r \in Workers : q # r => Range(queues[q]) \cap Range(queues[r]) = {}
  /\ \A th, o \in Threads :
       th # o => /\ hand[th] = NoTask \/ hand[th] # hand[o]
                 /\ giving[th] = NoTask \/ giving[th] # giving[o]
  /\ Queued \cap Held = {} /\ Queued \cap Offered = {} /\ Held \cap Offered = {}
  /\ Queued \cap ran = {}
  /\ \A th \in Threads : pc[th] = "run" => hand[th] \notin ran

(* The statistics agree whenever the pool is idle, although their updates  *)
(* are not synchronised with outstanding_.                                 *)
IdleMeansCounted == outstanding = 0 => executed = submitted

(* wait_idle() ends only after every task submitted before it, by anyone,  *)
(* has run, those submitted by running tasks included; when it returns     *)
(* without throwing, each failure among them was thrown by a wait_idle().  *)
WaitIdleCovers ==
  \A c \in Clients :
    pc[c] = "rethrow" =>
      /\ owed[c] \subseteq ran
      /\ exception = NoTask => owed[c] \cap Throws \subseteq covered

(* No failure is forgotten: unless an exception is pending, every task     *)
(* that threw is about to be recorded or had run when a wait_idle() threw. *)
FailureSurfaces ==
  exception = NoTask =>
    \A t \in ran \cap Throws :
      t \in covered \/ \E th \in Threads : pc[th] = "record" /\ hand[th] = t

(* The destructor loses no task: workers leave only after all have run.    *)
ShutdownDrains ==
  /\ stop => outstanding = 0
  /\ \A w \in Workers : pc[w] = "exited" => started = ran /\ Queued = {}

(* A submitted task runs although notifications may be missed. *)
SubmittedRuns == \A t \in Tasks : t \in started ~> t \in ran

(* wait_idle() returns. *)
WaitIdleReturns == \A c \in Clients : pc[c] = "drain" ~> pc[c] = "idle"

(* The destructor ends and every worker has left. *)
DestructorEnds == pc[Owner] = "drain" ~> pc[Owner] = "dead"
=============================================================================
