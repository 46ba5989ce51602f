------------------------------ MODULE ThreadPool ------------------------------
(***************************************************************************)
(* ThreadPool: workers that take tasks from one queue under one mutex.  A  *)
(* critical section is one action; submit() notifies after it.  Condition  *)
(* variables wake threads only when notified: whatever is right without    *)
(* spurious wake-ups does not depend on them.                              *)
(***************************************************************************)
EXTENDS Integers, Sequences, FiniteSets

CONSTANTS Threads,       \* workers_
          Callers,       \* threads that submit and wait
          Destroyer,     \* the caller that destroys the pool
          MaxTasks       \* bound on the number of tasks

ASSUME ThreadPoolConstants ==
  /\ IsFiniteSet(Threads) /\ Threads # {}
  /\ IsFiniteSet(Callers) /\ Destroyer \in Callers
  /\ Threads \cap Callers = {}
  /\ MaxTasks \in Nat

VARIABLES at,            \* where each thread is
          tasks,         \* tasks_
          busy,          \* the task each worker runs; 0 for none
          activeTasks,   \* active_
          stopping,      \* stop_
          submitted,     \* how many tasks there are; they are numbered
          finished,      \* history: tasks that have run
          awaited        \* history: tasks each caller's wait_idle() must cover

threadPool == <<at, tasks, busy, activeTasks, stopping, submitted, finished, awaited>>

InitThreadPool ==
  /\ at = [t \in Threads \cup Callers |-> IF t \in Threads THEN "awake" ELSE "out"]
  /\ tasks = <<>> /\ busy = [w \in Threads |-> 0]
  /\ activeTasks = 0 /\ stopping = FALSE
  /\ submitted = 0 /\ finished = {}
  /\ awaited = [c \in Callers |-> {}]

Goes(t, place) == at' = [at EXCEPT ![t] = place]

Asleep == {w \in Threads : at[w] = "asleep"}

-----------------------------------------------------------------------------
(* The critical section of submit(), by a caller or by the task of a       *)
(* worker, and the notification after it.                                  *)
Submit(t) ==
  /\ at[t] = "runs" \/ (at[t] = "out" /\ ~stopping)
  /\ submitted < MaxTasks
  /\ submitted' = submitted + 1
  /\ tasks' = Append(tasks, submitted')
  /\ Goes(t, IF t \in Threads THEN "notifies inside" ELSE "notifies")
  /\ UNCHANGED <<busy, activeTasks, stopping, finished, awaited>>

Back(t) == IF t \in Threads THEN "runs" ELSE "out"

Notifying == {t \in DOMAIN at : at[t] \in {"notifies", "notifies inside"}}

(* Mutant: only a push that makes the queue non-empty is notified. *)
NotifyOneIfFirst(t) ==
  /\ t \in Notifying
  /\ \/ Len(tasks) = 1 /\ \E w \in Asleep : at' = [at EXCEPT ![t] = Back(t), ![w] = "awake"]
     \/ (Len(tasks) # 1 \/ Asleep = {}) /\ Goes(t, Back(t))
  /\ UNCHANGED <<tasks, busy, activeTasks, stopping, submitted, finished, awaited>>

NotifyOne(t) ==
  /\ t \in Notifying
  /\ \/ \E w \in Asleep : at' = [at EXCEPT ![t] = Back(t), ![w] = "awake"]
     \/ Asleep = {} /\ Goes(t, Back(t))
  /\ UNCHANGED <<tasks, busy, activeTasks, stopping, submitted, finished, awaited>>

(* The critical section at the top of worker(). *)
TakeTask(w) ==
  /\ at[w] = "awake" /\ tasks # <<>>
  /\ busy' = [busy EXCEPT ![w] = Head(tasks)] /\ tasks' = Tail(tasks)
  /\ activeTasks' = activeTasks + 1
  /\ Goes(w, "runs")
  /\ UNCHANGED <<stopping, submitted, finished, awaited>>

SleepOrLeave(w) ==
  /\ at[w] = "awake" /\ tasks = <<>>
  /\ Goes(w, IF stopping THEN "left" ELSE "asleep")
  /\ UNCHANGED <<tasks, busy, activeTasks, stopping, submitted, finished, awaited>>

Idle == tasks = <<>> /\ activeTasks = 0

(* The critical section after fn(). *)
EndTask(w) ==
  /\ at[w] = "runs"
  /\ UNCHANGED <<tasks, stopping, submitted, awaited>>
  /\ finished' = finished \cup {busy[w]}
  /\ busy' = [busy EXCEPT ![w] = 0] /\ activeTasks' = activeTasks - 1
  /\ at' = [t \in DOMAIN at |-> IF t = w THEN "awake"
              ELSE IF Idle' /\ at[t] = "waits" THEN "told" ELSE at[t]]

(* wait_idle() evaluates its predicate on entry and whenever it is told.   *)
StartWaiting(c) ==
  /\ at[c] = "out" /\ ~stopping
  /\ awaited' = [awaited EXCEPT ![c] = 1 .. submitted]
  /\ Goes(c, "told")
  /\ UNCHANGED <<tasks, busy, activeTasks, stopping, submitted, finished>>

(* Mutant: an empty queue is taken for an idle pool. *)
CheckQueue(c) ==
  /\ at[c] = "told"
  /\ Goes(c, IF tasks = <<>> THEN "returned" ELSE "waits")
  /\ UNCHANGED <<tasks, busy, activeTasks, stopping, submitted, finished, awaited>>

CheckIdle(c) ==
  /\ at[c] = "told"
  /\ Goes(c, IF Idle THEN "returned" ELSE "waits")
  /\ UNCHANGED <<tasks, busy, activeTasks, stopping, submitted, finished, awaited>>

Leave(c) ==
  /\ at[c] = "returned"
  /\ awaited' = [awaited EXCEPT ![c] = {}] /\ Goes(c, "out")
  /\ UNCHANGED <<tasks, busy, activeTasks, stopping, submitted, finished>>

(* The destructor, with no call of another caller under way. *)
Stop ==
  /\ \A c \in Callers : at[c] = "out"
  /\ ~stopping /\ stopping' = TRUE
  /\ Goes(Destroyer, "notifies all")
  /\ UNCHANGED <<tasks, busy, activeTasks, submitted, finished, awaited>>

NotifyAll ==
  /\ at[Destroyer] = "notifies all"
  /\ at' = [t \in DOMAIN at |-> IF t = Destroyer THEN "joins"
              ELSE IF t \in Asleep THEN "awake" ELSE at[t]]
  /\ UNCHANGED <<tasks, busy, activeTasks, stopping, submitted, finished, awaited>>

Join ==
  /\ at[Destroyer] = "joins" /\ \A w \in Threads : at[w] = "left"
  /\ Goes(Destroyer, "destroyed")
  /\ UNCHANGED <<tasks, busy, activeTasks, stopping, submitted, finished, awaited>>

NextThreadPool ==
  \/ \E t \in DOMAIN at : Submit(t) \/ NotifyOne(t)
  \/ \E w \in Threads : TakeTask(w) \/ SleepOrLeave(w) \/ EndTask(w)
  \/ \E c \in Callers : StartWaiting(c) \/ CheckIdle(c) \/ Leave(c)
  \/ Stop \/ NotifyAll \/ Join

ThreadPoolSpec == InitThreadPool /\ [][NextThreadPool]_threadPool

(* The threads that will look into the queue or wake one that does. *)
Ready == {w \in Threads : at[w] = "awake"} \cup Notifying

-----------------------------------------------------------------------------
(* No lost wake-up: while a worker sleeps, every queued task has an awake  *)
(* worker or a notification on its way, a stopping pool wakes all workers, *)
(* and no caller keeps waiting for a pool that is idle.                    *)
NobodyForgotten ==
  /\ Asleep # {} => Len(tasks) <= Cardinality(Ready)
  /\ Asleep # {} /\ stopping => at[Destroyer] = "notifies all"
  /\ Idle => \A c \in Callers : at[c] # "waits"

(* wait_idle() returns when all tasks submitted before the call have run,  *)
(* and the destructor when all tasks have.                                 *)
ReturnsAfterWork ==
  /\ \A c \in Callers : at[c] = "returned" => awaited[c] \subseteq finished
  /\ at[Destroyer] = "destroyed" => finished = 1 .. submitted
=============================================================================
