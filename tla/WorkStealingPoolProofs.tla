------------------------ MODULE WorkStealingPoolProofs ------------------------
(***************************************************************************)
(* Proofs about WorkStealingPool for every number of workers, clients and  *)
(* tasks, every nesting of submissions, any grouping of the deques and any *)
(* set of tasks that throw.                                                *)
(*                                                                         *)
(* Every task is in one place (Places), and the place tells which counters *)
(* have seen it (Counted).  From outstanding_ = 0 it then follows that     *)
(* every submitted task has run, whichever thread observes it.             *)
(***************************************************************************)
EXTENDS WorkStealingPool, FiniteSetTheorems, TLAPS

Ended == {"record", "tally", "retire"}

NoDup(s) == \A i, j \in DOMAIN s : s[i] = s[j] => i = j

In(t, q) == t \in Range(queues[q])

(* What the place of a thread in the code says of the tasks it handles.    *)
Roles ==
  \A th \in Threads :
    /\ pc[th] \in Ended \cup {"run"} => hand[th] # NoTask
    /\ hand[th] # NoTask => pc[th] \in Ended \cup {"run", "count", "push", "notify"}
    /\ giving[th] # NoTask <=> pc[th] \in {"count", "push"}
    /\ th \notin Clients /\ pc[th] \in {"count", "push", "notify"} => hand[th] # NoTask
    /\ th \in Workers => pc[th] # "idle"

(* Every submitted task is in one place until it has run: waiting in a     *)
(* deque, held by a thread, or offered by the thread that submits it.      *)
Waiting ==
  \A q \in Workers : \A t \in Range(queues[q]) :
    /\ t \in started \ ran
    /\ \A th \in Threads : hand[th] # t /\ giving[th] # t
    /\ \A r \in Workers : In(t, r) => r = q

Holding ==
  \A th \in Threads : hand[th] # NoTask =>
    /\ hand[th] \in started
    /\ hand[th] \in ran <=> pc[th] \in Ended
    /\ \A o \in Threads : (hand[o] = hand[th] => o = th) /\ giving[o] # hand[th]

Offering ==
  \A th \in Threads : giving[th] # NoTask =>
    /\ giving[th] \in started \ ran
    /\ \A o \in Threads : giving[o] = giving[th] => o = th

Somewhere ==
  \A t \in started \ ran :
    \/ \E q \in Workers : In(t, q)
    \/ \E th \in Threads : hand[th] = t \/ giving[th] = t

Places ==
  /\ ran \subseteq started
  /\ \A q \in Workers : NoDup(queues[q])
  /\ Waiting /\ Holding /\ Offering /\ Somewhere

(* Which tasks each counter has seen. *)
Uncounted == {t \in started : \E th \in Threads : pc[th] = "count" /\ giving[th] = t}
Untallied == {t \in ran : \E th \in Threads : pc[th] \in {"record", "tally"} /\ hand[th] = t}

Counted ==
  /\ outstanding = Cardinality(Active)
  /\ submitted = Cardinality(started \ Uncounted)
  /\ executed = Cardinality(ran \ Untallied)

Failures ==
  /\ covered \subseteq ran
  /\ \A c \in Clients : owed[c] \subseteq started
  /\ FailureSurfaces

(* The owner stops the pool when no client is left and all have run. *)
Closing ==
  /\ pc[Owner] # "idle" => \A c \in Clients : pc[c] = "gone"
  /\ pc[Owner] \in {"stopping", "waking", "joining", "dead"} => outstanding = 0
  /\ stop => pc[Owner] \in {"waking", "joining", "dead"}
  /\ \A w \in Workers : pc[w] = "exited" => stop

IInv == TypeOK /\ Roles /\ Places /\ Counted /\ Failures /\ WaitIdleCovers /\ Closing

-----------------------------------------------------------------------------
(* Sequences without duplicates at both ends. *)

LEMMA AppendRange ==
  ASSUME NEW S, NEW s \in Seq(S), NEW x \in S
  PROVE  /\ Append(s, x) \in Seq(S)
         /\ Range(Append(s, x)) = Range(s) \cup {x}
         /\ NoDup(s) /\ x \notin Range(s) => NoDup(Append(s, x))
<1>. DEFINE a == Append(s, x)
<1>1. /\ a \in Seq(S) /\ DOMAIN a = 1 .. Len(s) + 1 /\ DOMAIN s = 1 .. Len(s)
      /\ \A i \in 1 .. Len(s) : a[i] = s[i]
      /\ a[Len(s) + 1] = x /\ Len(s) \in Nat
  OBVIOUS
<1>2. Range(a) = Range(s) \cup {x}
  BY <1>1 DEF Range
<1>3. ASSUME NoDup(s), x \notin Range(s) PROVE NoDup(a)
  BY <1>1, <1>3 DEF NoDup, Range
<1>. QED
  BY <1>1, <1>2, <1>3

LEMMA TailRange ==
  ASSUME NEW S, NEW s \in Seq(S), s # <<>>, NoDup(s)
  PROVE  /\ Tail(s) \in Seq(S) /\ Head(s) \in S
         /\ Head(s) \in Range(s)
         /\ Range(Tail(s)) = Range(s) \ {Head(s)}
         /\ NoDup(Tail(s))
<1>. DEFINE r == Tail(s)
<1>1. /\ r \in Seq(S) /\ Len(s) \in Nat \ {0}
      /\ DOMAIN r = 1 .. Len(s) - 1 /\ DOMAIN s = 1 .. Len(s)
      /\ \A i \in 1 .. Len(s) - 1 : r[i] = s[i + 1]
      /\ Head(s) = s[1] /\ 1 \in DOMAIN s /\ Head(s) \in S
  OBVIOUS
<1>2. Head(s) \in Range(s)
  BY <1>1 DEF Range
<1>3. \A i \in 2 .. Len(s) : i - 1 \in 1 .. Len(s) - 1 /\ r[i - 1] = s[i]
  BY <1>1
<1>4. Range(r) \subseteq Range(s) \ {Head(s)}
  BY <1>1 DEF Range, NoDup
<1>5. Range(s) \ {Head(s)} \subseteq Range(r)
  <2>1. SUFFICES ASSUME NEW i \in DOMAIN s, s[i] # Head(s) PROVE s[i] \in Range(r)
    BY DEF Range
  <2>2. i \in 2 .. Len(s)
    BY <1>1, <2>1
  <2>3. i - 1 \in DOMAIN r /\ r[i - 1] = s[i]
    BY <1>1, <1>3, <2>2
  <2>. QED
    BY <2>3 DEF Range
<1>6. NoDup(r)
  BY <1>1 DEF NoDup
<1>. QED
  BY <1>1, <1>2, <1>4, <1>5, <1>6

LEMMA FrontRange ==
  ASSUME NEW S, NEW s \in Seq(S), s # <<>>, NoDup(s)
  PROVE  /\ Front(s) \in Seq(S) /\ Last(s) \in S
         /\ Last(s) \in Range(s)
         /\ Range(Front(s)) = Range(s) \ {Last(s)}
         /\ NoDup(Front(s))
<1>. DEFINE r == Front(s)
<1>1. /\ r \in Seq(S) /\ Len(s) \in Nat \ {0}
      /\ DOMAIN r = 1 .. Len(s) - 1 /\ DOMAIN s = 1 .. Len(s)
      /\ \A i \in 1 .. Len(s) - 1 : r[i] = s[i]
      /\ Last(s) = s[Len(s)] /\ Len(s) \in DOMAIN s /\ Last(s) \in S
  BY DEF Front, Last
<1>2. Last(s) \in Range(s)
  BY <1>1 DEF Range
<1>3. Range(r) \subseteq Range(s) \ {Last(s)}
  BY <1>1 DEF Range, NoDup
<1>4. Range(s) \ {Last(s)} \subseteq Range(r)
  <2>1. SUFFICES ASSUME NEW i \in DOMAIN s, s[i] # Last(s) PROVE s[i] \in Range(r)
    BY DEF Range
  <2>2. i \in DOMAIN r /\ r[i] = s[i]
    BY <1>1, <2>1
  <2>. QED
    BY <2>2 DEF Range
<1>5. NoDup(r)
  BY <1>1 DEF NoDup
<1>. QED
  BY <1>1, <1>2, <1>3, <1>4, <1>5

-----------------------------------------------------------------------------
(* Cardinalities of sets of tasks. *)

LEMMA TaskSets ==
  ASSUME NEW S, S \subseteq Tasks
  PROVE  /\ IsFiniteSet(S) /\ Cardinality(S) \in Nat
         /\ \A t : t \notin S => Cardinality(S \cup {t}) = Cardinality(S) + 1
         /\ \A t \in S : Cardinality(S \ {t}) = Cardinality(S) - 1 /\ Cardinality(S) > 0
         /\ Cardinality(S) = 0 <=> S = {}
<1>1. IsFiniteSet(S)
  BY FS_Subset, PoolConstants
<1>2. Cardinality(S) \in Nat
  BY <1>1, FS_CardinalityType
<1>3. \A t : t \notin S => Cardinality(S \cup {t}) = Cardinality(S) + 1
  BY <1>1, FS_AddElement
<1>4. ASSUME NEW t \in S PROVE Cardinality(S \ {t}) = Cardinality(S) - 1
  BY <1>1, FS_RemoveElement
<1>5. Cardinality(S) = 0 <=> S = {}
  BY <1>1, FS_EmptySet
<1>. QED
  BY <1>1, <1>2, <1>3, <1>4, <1>5

(* When nothing is outstanding every submitted task has run, none is in a  *)
(* deque, in a thread's hands or on its way, and the statistics agree.     *)
LEMMA NothingOutstanding ==
  ASSUME TypeOK, Roles, Places, Counted, outstanding = 0
  PROVE  /\ started = ran
         /\ \A th \in Threads : hand[th] = NoTask /\ giving[th] = NoTask
         /\ \A q \in Workers : Range(queues[q]) = {}
         /\ executed = submitted
<1>1. Active \subseteq Tasks /\ Active = {}
  BY TaskSets DEF Active, TypeOK, Counted
<1>2. started \subseteq ran /\ \A t \in started : t \notin Held
  BY <1>1 DEF Active
<1>3. started = ran
  BY <1>2 DEF Places
<1>4. \A th \in Threads : hand[th] = NoTask
  BY <1>2 DEF Places, Holding, Held
<1>5. \A th \in Threads : giving[th] = NoTask
  BY <1>3 DEF Places, Offering
<1>6. \A q \in Workers : Range(queues[q]) = {}
  BY <1>3 DEF Places, Waiting
<1>7. Uncounted = {} /\ Untallied = {}
  <2>1. \A th \in Threads : pc[th] # "count"
    BY <1>5 DEF Roles
  <2>2. \A th \in Threads : pc[th] \notin {"record", "tally"}
    BY <1>4 DEF Roles, Ended
  <2>. QED
    BY <2>1, <2>2 DEF Uncounted, Untallied
<1>8. started \ Uncounted = ran \ Untallied
  BY <1>3, <1>7
<1>. QED
  BY <1>3, <1>4, <1>5, <1>6, <1>8 DEF Counted

-----------------------------------------------------------------------------
(* A step that moves threads between places that mean the same for tasks.  *)

LEMMA SamePlaces ==
  ASSUME Places, UNCHANGED <<queues, hand, giving, started, ran>>,
         \A th \in Threads : pc[th] \in Ended <=> pc'[th] \in Ended
  PROVE  Places'
<1>. QED
  BY DEF Places, Waiting, Holding, Offering, Somewhere, In

LEMMA SameCounts ==
  ASSUME Counted, UNCHANGED <<counters, hand, giving, started, ran>>,
         \A th \in Threads :
           /\ pc[th] = "count" <=> pc'[th] = "count"
           /\ pc[th] \in {"record", "tally"} <=> pc'[th] \in {"record", "tally"}
  PROVE  Counted'
<1>1. Active' = Active
  BY DEF Active, Held
<1>2. Uncounted' = Uncounted
  BY DEF Uncounted
<1>3. Untallied' = Untallied
  BY DEF Untallied
<1>. QED
  BY <1>1, <1>2, <1>3 DEF Counted, counters

(* Places in the code where a thread has no task and submits none. *)
Away == Steps \ (Ended \cup {"run", "count", "push", "notify"})

Drifts ==
  \A th \in Threads :
    \/ pc'[th] = pc[th]
    \/ pc[th] \in Away /\ pc'[th] \in Away /\ (th \in Workers => pc'[th] # "idle")

LEMMA DriftKeepsCore ==
  ASSUME TypeOK, Roles, Places, Counted, Drifts,
         UNCHANGED <<queues, counters, hand, giving, started, ran>>
  PROVE  Roles' /\ Places' /\ Counted'
<1>1. Roles'
  BY DEF Roles, Drifts, Away, Steps, Ended
<1>2. \A th \in Threads : /\ pc[th] \in Ended <=> pc'[th] \in Ended
                          /\ pc[th] = "count" <=> pc'[th] = "count"
                          /\ pc[th] \in {"record", "tally"} <=> pc'[th] \in {"record", "tally"}
  BY DEF Drifts, Away, Steps, Ended
<1>3. Places'
  BY <1>2, SamePlaces
<1>4. Counted'
  BY <1>2, SameCounts
<1>. QED
  BY <1>1, <1>3, <1>4

-----------------------------------------------------------------------------
(* The steps that move a task or count it. *)

Core == TypeOK /\ Roles /\ Places /\ Counted

LEMMA SubmitKeepsCore ==
  ASSUME Core, NEW th \in Threads, NEW t \in Tasks, Submit(th, t)
  PROVE  Core'
<1>. USE DEF Core
<1>1. TypeOK'
  BY DEF TypeOK, Submit, Goto, Steps
<1>2. /\ \A o \in Threads : o # th => pc'[o] = pc[o] /\ giving'[o] = giving[o]
      /\ pc'[th] = "count" /\ giving'[th] = t /\ hand' = hand /\ queues' = queues
      /\ ran' = ran /\ started' = started \cup {t} /\ t \notin started /\ t # NoTask
      /\ pc[th] \in {"idle", "run"}
  BY PoolConstants DEF TypeOK, Submit, Goto
<1>3. th \notin Clients => hand[th] # NoTask
  <2>1. CASE pc[th] = "run"
    BY <2>1 DEF Roles
  <2>2. CASE pc[th] = "idle" /\ Parent[t] = th
    BY <2>2, PoolConstants
  <2>. QED
    BY <2>1, <2>2 DEF Submit
<1>4. giving[th] = NoTask
  BY <1>2 DEF Roles
<1>5. Roles'
  BY <1>2, <1>3 DEF Roles, Ended
<1>6. Places'
  <2>1. /\ \A o \in Threads : hand[o] # t /\ giving[o] # t
        /\ \A q \in Workers : t \notin Range(queues[q])
    BY <1>2, PoolConstants DEF Places, Waiting, Holding, Offering
  <2>2. Waiting'
    BY <1>2, <2>1 DEF Places, Waiting, In
  <2>3. Holding'
    BY <1>2, <2>1 DEF Places, Holding, Ended
  <2>4. Offering'
    BY <1>2, <2>1 DEF Places, Offering
  <2>5. Somewhere'
    <3>1. NoTask \notin started
      BY PoolConstants DEF TypeOK
    <3>2. \A s \in started \ ran :
            \/ \E q \in Workers : s \in Range(queues'[q])
            \/ \E o \in Threads : hand'[o] = s \/ giving'[o] = s
      BY <1>2, <1>4, <3>1 DEF Places, Somewhere, In
    <3>. QED
      BY <1>2, <3>2 DEF Somewhere, In
  <2>. QED
    BY <1>2, <2>2, <2>3, <2>4, <2>5 DEF Places
<1>7. Counted'
  <2>1. Active' = Active \cup {t} /\ t \notin Active /\ Active \subseteq Tasks
    BY <1>2 DEF Active, Held, Places, TypeOK
  <2>2. started' \ Uncounted' = started \ Uncounted
    BY <1>2, <1>4 DEF Uncounted, Places, Offering, Roles
  <2>3. ran' \ Untallied' = ran \ Untallied
    BY <1>2 DEF Untallied
  <2>. QED
    BY <2>1, <2>2, <2>3, TaskSets DEF Counted, Submit
<1>. QED
  BY <1>1, <1>5, <1>6, <1>7

LEMMA CountSubmittedKeepsCore ==
  ASSUME Core, NEW th \in Threads, CountSubmitted(th)
  PROVE  Core'
<1>. USE DEF Core
<1>1. TypeOK'
  BY DEF TypeOK, CountSubmitted, Goto, Steps, history
<1>2. /\ \A o \in Threads : o # th => pc'[o] = pc[o]
      /\ pc[th] = "count" /\ pc'[th] = "push"
      /\ UNCHANGED <<queues, hand, giving, started, ran, outstanding, executed>>
      /\ submitted' = submitted + 1
  BY DEF TypeOK, CountSubmitted, Goto, history
<1>3. Roles'
  BY <1>2 DEF Roles, Ended
<1>4. Places'
  BY <1>2, SamePlaces DEF Ended
<1>5. Counted'
  <2>1. Active' = Active /\ Untallied' = Untallied
    BY <1>2 DEF Active, Held, Untallied
  <2>2. giving[th] \in started /\ giving[th] \in Uncounted
    BY <1>2 DEF Roles, Places, Offering, Uncounted
  <2>3. \A o \in Threads : giving[o] = giving[th] => o = th
    BY <1>2 DEF Roles, Places, Offering
  <2>4. started' \ Uncounted' = (started \ Uncounted) \cup {giving[th]}
    BY <1>2, <2>2, <2>3 DEF Uncounted
  <2>. QED
    <3>1. /\ started \ Uncounted \subseteq Tasks
          /\ giving[th] \notin started \ Uncounted
      BY <2>2 DEF TypeOK
    <3>2. Cardinality(started' \ Uncounted') = Cardinality(started \ Uncounted) + 1
      BY <2>4, <3>1, TaskSets
    <3>. QED
      BY <1>2, <2>1, <3>2 DEF Counted
<1>. QED
  BY <1>1, <1>3, <1>4, <1>5

LEMMA PushKeepsCore ==
  ASSUME Core, NEW th \in Threads, Push(th)
  PROVE  Core'
<1>. USE DEF Core
<1>. DEFINE t == giving[th]
            q == Hint[t] % N
<1>1. /\ pc[th] = "push" /\ t \in Tasks /\ q \in Workers
  <2>1. t \in Tasks /\ pc[th] = "push"
    BY DEF Push, Roles, TypeOK
  <2>2. Hint[t] \in Nat
    BY <2>1, PoolConstants
  <2>. QED
    BY <2>1, <2>2, PoolConstants DEF Workers
<1>. HIDE DEF q
<1>2. /\ \A o \in Threads : o # th => pc'[o] = pc[o] /\ giving'[o] = giving[o]
      /\ pc'[th] = "notify" /\ giving'[th] = NoTask
      /\ UNCHANGED <<counters, hand, started, ran>>
      /\ queues' = [queues EXCEPT ![q] = Append(@, t)]
  BY DEF TypeOK, Push, Goto, history, q
<1>3. /\ queues[q] \in Seq(Tasks) /\ NoDup(queues[q]) /\ t \notin Range(queues[q])
      /\ t \in started \ ran
  BY <1>1 DEF TypeOK, Places, Offering, Waiting, Roles
<1>4. /\ queues'[q] \in Seq(Tasks) /\ NoDup(queues'[q])
      /\ Range(queues'[q]) = Range(queues[q]) \cup {t}
      /\ \A r \in Workers : r # q => queues'[r] = queues[r]
  BY <1>1, <1>2, <1>3, AppendRange DEF TypeOK
<1>5. TypeOK'
  <2>1. queues' \in [Workers -> Seq(Tasks)]
    BY <1>1, <1>2, <1>4 DEF TypeOK
  <2>. QED
    BY <2>1, <1>2 DEF TypeOK, Push, Goto, Steps, history, counters
<1>6. Roles'
  BY <1>1, <1>2 DEF Roles, Ended
<1>7. Places'
  <2>1. \A o \in Threads : pc'[o] \in Ended <=> pc[o] \in Ended
    BY <1>1, <1>2 DEF Ended
  <2>2. t # NoTask /\ \A o \in Threads : hand[o] # t /\ (giving[o] = t => o = th)
    BY <1>1, PoolConstants DEF Places, Holding, Offering
  <2>3. \A r \in Workers : t \notin Range(queues[r])
    BY <1>1 DEF Places, Waiting
  <2>4. \A r \in Workers : NoDup(queues'[r])
    BY <1>4 DEF Places
  <2>5. \A r \in Workers : \A s : In(s, r)' <=> In(s, r) \/ (r = q /\ s = t)
    BY <1>4 DEF In
  <2>6. \A o \in Threads : giving'[o] = IF o = th THEN NoTask ELSE giving[o]
    BY <1>2
  <2>7. Waiting'
    <3>. SUFFICES ASSUME NEW r \in Workers, NEW s \in Range(queues'[r])
                  PROVE  /\ s \in started \ ran
                         /\ \A o \in Threads : hand[o] # s /\ giving'[o] # s
                         /\ \A v \in Workers : In(s, v)' => v = r
      BY <1>2 DEF Waiting, In
    <3>1. CASE s = t
      <4>1. s # NoTask
        BY <1>1, <3>1, PoolConstants
      <4>. QED
        BY <1>3, <2>2, <2>3, <2>5, <2>6, <3>1, <4>1 DEF In
    <3>2. CASE s # t
      <4>1. s \in Range(queues[r]) /\ s # NoTask
        BY <2>5, <3>2, PoolConstants DEF In, Places, Waiting, TypeOK
      <4>. QED
        BY <2>5, <2>6, <3>2, <4>1 DEF In, Places, Waiting
    <3>. QED
      BY <3>1, <3>2
  <2>8. Holding'
    BY <1>2, <2>1, <2>6 DEF Places, Holding
  <2>9. Offering'
    BY <1>2, <2>6 DEF Places, Offering
  <2>10. Somewhere'
    BY <1>1, <1>2, <2>2, <2>5, <2>6 DEF Places, Somewhere
  <2>. QED
    BY <1>2, <2>4, <2>7, <2>8, <2>9, <2>10 DEF Places
<1>8. Counted'
  <2>1. Uncounted' = Uncounted
    BY <1>1, <1>2 DEF Uncounted, Roles
  <2>2. Active' = Active /\ Untallied' = Untallied
    BY <1>1, <1>2 DEF Active, Held, Untallied
  <2>. QED
    BY <1>2, <2>1, <2>2 DEF Counted, counters
<1>. QED
  BY <1>5, <1>6, <1>7, <1>8

LEMMA NotifyWorkersKeepsCore ==
  ASSUME Core, NEW th \in Threads, NotifyWorkers(th)
  PROVE  Core'
<1>. USE DEF Core
<1>1. TypeOK'
  BY DEF TypeOK, NotifyWorkers, NotifyAll, Steps, history, counters
<1>2. /\ \A o \in Threads : o # th => pc'[o] = pc[o] \/ (pc[o] = "sleep" /\ pc'[o] = "poll")
      /\ pc[th] = "notify" /\ pc'[th] = (IF hand[th] = NoTask THEN "idle" ELSE "run")
      /\ UNCHANGED <<queues, hand, giving, started, ran, counters>>
  BY DEF NotifyWorkers, NotifyAll, history, counters
<1>3. th \in Workers => hand[th] # NoTask
  BY <1>2, PoolConstants DEF Roles
<1>4. Roles'
  BY <1>2, <1>3 DEF Roles, Ended
<1>5. \A o \in Threads : /\ pc[o] \in Ended <=> pc'[o] \in Ended
                         /\ pc[o] = "count" <=> pc'[o] = "count"
                         /\ pc[o] \in {"record", "tally"} <=> pc'[o] \in {"record", "tally"}
  BY <1>2 DEF Ended
<1>6. Places' /\ Counted'
  BY <1>2, <1>5, SamePlaces, SameCounts
<1>. QED
  BY <1>1, <1>4, <1>6

(* A task leaves a deque for the hands of the thread that looked there. *)
LEMMA TakeKeepsCore ==
  ASSUME Core, NEW th \in Threads, NEW q \in Workers, pc[th] = "scan", Take(th, q),
         UNCHANGED <<counters, exception, stop, giving, history>>
  PROVE  Core'
<1>. USE DEF Core
<1>. DEFINE t == hand'[th]
<1>1. /\ t \in Tasks /\ t \in Range(queues[q])
      /\ queues'[q] \in Seq(Tasks) /\ NoDup(queues'[q])
      /\ Range(queues'[q]) = Range(queues[q]) \ {t}
      /\ hand' = [hand EXCEPT ![th] = t]
      /\ \A r \in Workers : r # q => queues'[r] = queues[r]
      /\ queues' \in [Workers -> Seq(Tasks)]
  <2>1. queues[q] \in Seq(Tasks) /\ NoDup(queues[q]) /\ queues[q] # <<>>
    BY DEF TypeOK, Places, Take
  <2>2. CASE q = th /\ hand' = [hand EXCEPT ![th] = Last(queues[q])]
             /\ queues' = [queues EXCEPT ![q] = Front(@)]
    BY <2>1, <2>2, FrontRange DEF TypeOK
  <2>3. CASE q # th /\ hand' = [hand EXCEPT ![th] = Head(queues[q])]
             /\ queues' = [queues EXCEPT ![q] = Tail(@)]
    BY <2>1, <2>3, TailRange DEF TypeOK
  <2>. QED
    BY <2>2, <2>3 DEF Take
<1>. HIDE DEF t
<1>2. /\ \A o \in Threads : o # th => pc'[o] = pc[o] /\ hand'[o] = hand[o]
      /\ hand'[th] = t /\ pc'[th] = "run" /\ pc[th] = "scan"
      /\ UNCHANGED <<counters, giving, started, ran>>
  BY <1>1 DEF Take, Goto, TypeOK, history, t
<1>3. hand[th] = NoTask /\ t # NoTask
  BY <1>1, <1>2, PoolConstants DEF Roles, Ended
<1>4. /\ t \in started \ ran
      /\ \A o \in Threads : hand[o] # t /\ giving[o] # t
      /\ \A r \in Workers : In(t, r) => r = q
  BY <1>1 DEF Places, Waiting
<1>5. TypeOK'
  BY <1>1, <1>2 DEF TypeOK, Take, Goto, Steps, history, counters
<1>6. Roles'
  BY <1>2, <1>3 DEF Roles, Ended
<1>7. Places'
  <2>1. \A r \in Workers : \A s : In(s, r)' <=> In(s, r) /\ s # t
    BY <1>1, <1>4 DEF In
  <2>2. \A r \in Workers : NoDup(queues'[r])
    BY <1>1 DEF Places
  <2>3. Waiting'
    BY <1>2, <2>1 DEF Places, Waiting, In
  <2>4. Holding'
    BY <1>2, <1>3, <1>4 DEF Places, Holding, Ended
  <2>5. Offering'
    BY <1>2 DEF Places, Offering
  <2>6. Somewhere'
    <3>1. NoTask \notin started
      BY PoolConstants DEF TypeOK
    <3>2. \A s \in started \ ran : \A o \in Threads : hand[o] = s => hand'[o] = s
      BY <1>2, <1>3, <3>1
    <3>3. ASSUME NEW s \in started \ ran, NEW r \in Workers, In(s, r)
          PROVE  In(s, r)' \/ hand'[th] = s
      BY <1>2, <2>1, <3>3
    <3>. QED
      BY <1>2, <3>2, <3>3 DEF Places, Somewhere
  <2>. QED
    BY <1>2, <2>2, <2>3, <2>4, <2>5, <2>6 DEF Places
<1>8. Counted'
  <2>1. Active' = Active
    <3>1. Held' = Held \cup {t}
      BY <1>2, <1>3 DEF Held
    <3>. QED
      BY <1>2, <1>4, <3>1 DEF Active
  <2>2. Uncounted' = Uncounted
    BY <1>2 DEF Uncounted
  <2>3. Untallied' = Untallied
    BY <1>2, <1>3 DEF Untallied
  <2>. QED
    BY <1>2, <2>1, <2>2, <2>3 DEF Counted, counters
<1>. QED
  BY <1>5, <1>6, <1>7, <1>8

LEMMA FinishKeepsCore ==
  ASSUME Core, NEW th \in Threads, Finish(th)
  PROVE  Core'
<1>. USE DEF Core
<1>. DEFINE t == hand[th]
<1>1. /\ \A o \in Threads : o # th => pc'[o] = pc[o]
      /\ pc[th] = "run" /\ pc'[th] \in {"record", "tally"}
      /\ UNCHANGED <<counters, queues, hand, giving, started>>
      /\ ran' = ran \cup {t}
  BY DEF Finish, Goto, TypeOK, counters
<1>2. t \in Tasks /\ t # NoTask
  BY <1>1, PoolConstants DEF Roles, TypeOK
<1>3. t \in started /\ t \notin ran
  BY <1>1, <1>2 DEF Places, Holding, Ended
<1>4. /\ \A q \in Workers : t \notin Range(queues[q])
      /\ \A o \in Threads : (hand[o] = t => o = th) /\ giving[o] # t
  BY <1>2 DEF Places, Waiting, Holding
<1>5. TypeOK'
  BY <1>1, <1>2 DEF TypeOK, Finish, Goto, Steps, counters
<1>6. Roles'
  BY <1>1, <1>2 DEF Roles, Ended
<1>7. Places'
  <2>1. Waiting'
    BY <1>1, <1>4 DEF Places, Waiting, In
  <2>2. Holding'
    BY <1>1, <1>3, <1>4 DEF Places, Holding, Ended
  <2>3. Offering'
    BY <1>1, <1>4 DEF Places, Offering
  <2>4. Somewhere'
    BY <1>1 DEF Places, Somewhere, In
  <2>. QED
    BY <1>1, <1>3, <2>1, <2>2, <2>3, <2>4 DEF Places
<1>8. Counted'
  <2>1. Active' = Active
    BY <1>1, <1>2 DEF Active, Held
  <2>2. Uncounted' = Uncounted
    BY <1>1 DEF Uncounted
  <2>3. ran' \ Untallied' = ran \ Untallied
    BY <1>1, <1>3, <1>4 DEF Untallied
  <2>. QED
    BY <1>1, <2>1, <2>2, <2>3 DEF Counted, counters
<1>. QED
  BY <1>5, <1>6, <1>7, <1>8

LEMMA RecordKeepsCore ==
  ASSUME Core, NEW th \in Threads, Record(th)
  PROVE  Core'
<1>. USE DEF Core
<1>1. /\ \A o \in Threads : o # th => pc'[o] = pc[o]
      /\ pc[th] = "record" /\ pc'[th] = "tally"
      /\ UNCHANGED <<counters, queues, hand, giving, started, ran>>
  BY DEF Record, Goto, TypeOK, counters, history
<1>2. hand[th] # NoTask /\ hand[th] \in Tasks
  BY <1>1 DEF Roles, Ended, TypeOK
<1>3. TypeOK'
  BY <1>1, <1>2 DEF TypeOK, Record, Goto, Steps, history, counters
<1>4. Roles'
  BY <1>1, <1>2 DEF Roles, Ended
<1>5. Places' /\ Counted'
  BY <1>1, SamePlaces, SameCounts DEF Ended
<1>. QED
  BY <1>3, <1>4, <1>5

LEMMA CountExecutedKeepsCore ==
  ASSUME Core, NEW th \in Threads, CountExecuted(th)
  PROVE  Core'
<1>. USE DEF Core
<1>. DEFINE t == hand[th]
<1>1. /\ \A o \in Threads : o # th => pc'[o] = pc[o]
      /\ pc[th] = "tally" /\ pc'[th] = "retire"
      /\ UNCHANGED <<outstanding, submitted, queues, hand, giving, started, ran>>
      /\ executed' = executed + 1
  BY DEF CountExecuted, Goto, TypeOK, history
<1>2. t # NoTask /\ t \in ran /\ \A o \in Threads : hand[o] = t => o = th
  BY <1>1 DEF Roles, Ended, Places, Holding
<1>3. TypeOK'
  BY <1>1 DEF TypeOK, CountExecuted, Goto, Steps, history
<1>4. Roles'
  BY <1>1, <1>2 DEF Roles, Ended
<1>5. Places'
  BY <1>1, SamePlaces DEF Ended
<1>6. Counted'
  <2>1. Active' = Active /\ Uncounted' = Uncounted
    BY <1>1 DEF Active, Held, Uncounted
  <2>2. ran' \ Untallied' = (ran \ Untallied) \cup {t} /\ t \in Untallied
    BY <1>1, <1>2 DEF Untallied
  <2>3. ran \ Untallied \subseteq Tasks /\ t \notin ran \ Untallied
    BY <2>2 DEF TypeOK
  <2>4. Cardinality(ran' \ Untallied') = Cardinality(ran \ Untallied) + 1
    BY <2>2, <2>3, TaskSets
  <2>. QED
    BY <1>1, <2>1, <2>4 DEF Counted
<1>. QED
  BY <1>3, <1>4, <1>5, <1>6

LEMMA RetireKeepsCore ==
  ASSUME Core, NEW th \in Threads, Retire(th)
  PROVE  Core'
<1>. USE DEF Core
<1>. DEFINE t == hand[th]
<1>1. /\ \A o \in Threads : o # th => pc'[o] = pc[o] /\ hand'[o] = hand[o]
      /\ pc[th] = "retire" /\ pc'[th] \in {"announce", "top", "drain"}
      /\ hand'[th] = NoTask
      /\ UNCHANGED <<submitted, executed, queues, giving, started, ran>>
      /\ outstanding' = outstanding - 1
  BY DEF Retire, Goto, Head0, TypeOK, history
<1>2. /\ t # NoTask /\ t \in ran /\ t \in started /\ giving[th] = NoTask
      /\ \A o \in Threads : hand[o] = t => o = th
  BY <1>1 DEF Roles, Ended, Places, Holding
<1>3. Roles'
  BY <1>1, <1>2 DEF Roles, Ended
<1>4. Places'
  <2>1. Waiting'
    BY <1>1, PoolConstants DEF Places, Waiting, In, TypeOK
  <2>2. Holding'
    BY <1>1 DEF Places, Holding, Ended
  <2>3. Offering'
    BY <1>1 DEF Places, Offering
  <2>4. Somewhere'
    <3>1. \A s \in started \ ran : \A o \in Threads : hand[o] = s => hand'[o] = s
      BY <1>1, <1>2
    <3>. QED
      BY <1>1, <3>1 DEF Places, Somewhere, In
  <2>. QED
    BY <1>1, <2>1, <2>2, <2>3, <2>4 DEF Places
<1>5. Active' = Active \ {t} /\ t \in Active /\ Active \subseteq Tasks
  <2>1. Held' = Held \ {t} /\ t \in Held
    BY <1>1, <1>2 DEF Held
  <2>. QED
    BY <1>1, <1>2, <2>1 DEF Active, TypeOK
<1>6. Cardinality(Active') = Cardinality(Active) - 1 /\ outstanding' \in Nat
  <2>1. Cardinality(Active') = Cardinality(Active) - 1 /\ Cardinality(Active') \in Nat
    <3>1. Active' \subseteq Tasks
      BY <1>5
    <3>. QED
      BY <1>5, <3>1, TaskSets
  <2>. QED
    BY <1>1, <2>1 DEF Counted
<1>7. Counted'
  <2>1. Uncounted' = Uncounted
    BY <1>1 DEF Uncounted
  <2>2. Untallied' = Untallied
    BY <1>1 DEF Untallied
  <2>. QED
    BY <1>1, <1>6, <2>1, <2>2 DEF Counted
<1>8. TypeOK'
  BY <1>1, <1>6 DEF TypeOK, Retire, Goto, Head0, Steps, history
<1>. QED
  BY <1>3, <1>4, <1>7, <1>8

-----------------------------------------------------------------------------
(* The other steps move threads between places where they have no task. *)

DriftSteps(th) ==
  \/ Poll(th) \/ Block(th) \/ Timeout(th) \/ Announce(th)
  \/ th \in Workers /\ Top(th)
  \/ th \in Drainers /\ Drain(th)
  \/ th \in Clients /\ (WaitIdle(th) \/ Rethrow(th) \/ Leave(th))

LEMMA DriftStepsKeepCore ==
  ASSUME Core, NEW th \in Threads, DriftSteps(th)
  PROVE  Core'
<1>1. /\ UNCHANGED <<queues, outstanding, submitted, executed, hand, giving, started, ran, stop>>
      /\ at' \in [Threads -> Nat] /\ exception' \in Tasks \cup {NoTask}
      /\ owed' \in [Clients -> SUBSET Tasks] /\ covered' \subseteq Tasks
  <2>. USE DEF Core, TypeOK, counters, history
  <2>1. CASE Poll(th) \/ Block(th) \/ Timeout(th) \/ Announce(th)
    BY <2>1 DEF Poll, Block, Timeout, Announce
  <2>2. CASE th \in Workers /\ Top(th)
    BY <2>2 DEF Top
  <2>3. CASE th \in Drainers /\ Drain(th)
    BY <2>3 DEF Drain
  <2>4. CASE th \in Clients /\ WaitIdle(th)
    BY <2>4 DEF WaitIdle
  <2>5. CASE th \in Clients /\ Rethrow(th)
    BY <2>5 DEF Rethrow
  <2>6. CASE th \in Clients /\ Leave(th)
    BY <2>6 DEF Leave
  <2>. QED
    BY <2>1, <2>2, <2>3, <2>4, <2>5, <2>6 DEF DriftSteps
<1>2. Drifts /\ pc' \in [Threads -> Steps]
  <2>. USE DEF Core, TypeOK, Drifts, Away, Steps, Ended, Goto, Head0, Drainers, Threads
  <2>1. CASE Poll(th)
    BY <2>1, PoolConstants DEF Poll
  <2>2. CASE Block(th)
    BY <2>2 DEF Block
  <2>3. CASE Timeout(th)
    BY <2>3, PoolConstants DEF Timeout
  <2>4. CASE Announce(th)
    BY <2>4, PoolConstants DEF Announce, NotifyAll
  <2>5. CASE th \in Workers /\ Top(th)
    BY <2>5, PoolConstants DEF Top
  <2>6. CASE th \in Drainers /\ Drain(th)
    BY <2>6, PoolConstants DEF Drain
  <2>7. CASE th \in Clients /\ WaitIdle(th)
    BY <2>7, PoolConstants DEF WaitIdle
  <2>8. CASE th \in Clients /\ Rethrow(th)
    BY <2>8, PoolConstants DEF Rethrow
  <2>9. CASE th \in Clients /\ Leave(th)
    BY <2>9, PoolConstants DEF Leave
  <2>. QED
    BY <2>1, <2>2, <2>3, <2>4, <2>5, <2>6, <2>7, <2>8, <2>9 DEF DriftSteps
<1>3. TypeOK'
  BY <1>1, <1>2 DEF Core, TypeOK
<1>. QED
  BY <1>1, <1>2, <1>3, DriftKeepsCore DEF Core, counters

LEMMA MissKeepsCore ==
  ASSUME Core, NEW th \in Threads, NEW q \in Workers, pc[th] = "scan", Miss(th, q),
         UNCHANGED <<counters, exception, stop, giving, history>>
  PROVE  Core'
<1>1. Drifts /\ pc' \in [Threads -> Steps]
  BY DEF Core, TypeOK, Drifts, Away, Steps, Ended, Goto, Miss
<1>2. at' \in [Threads -> Nat]
  BY DEF Core, TypeOK, Miss
<1>3. TypeOK'
  BY <1>1, <1>2 DEF Core, TypeOK, Miss, counters, history
<1>. QED
  BY <1>1, <1>3, DriftKeepsCore DEF Core, Miss, counters, history

LEMMA DestructorKeepsCore ==
  ASSUME Core, Destructor
  PROVE  Core'
<1>1. Owner \in Threads /\ Owner \notin Workers
  BY PoolConstants DEF Threads, Drainers
<1>2. /\ UNCHANGED <<queues, counters, exception, hand, giving, at, history>>
      /\ stop' \in BOOLEAN
  BY DEF Destructor, Destroy, Stop, WakeAll, Join, Core, TypeOK
<1>3. Drifts /\ pc' \in [Threads -> Steps]
  <2>. USE <1>1 DEF Core, TypeOK, Drifts, Away, Steps, Ended, Goto
  <2>1. CASE Destroy
    BY <2>1 DEF Destroy
  <2>2. CASE Stop
    BY <2>2 DEF Stop
  <2>3. CASE WakeAll
    BY <2>3 DEF WakeAll, NotifyAll
  <2>4. CASE Join
    BY <2>4 DEF Join
  <2>. QED
    BY <2>1, <2>2, <2>3, <2>4 DEF Destructor
<1>4. TypeOK'
  BY <1>2, <1>3 DEF Core, TypeOK, counters, history
<1>. QED
  BY <1>2, <1>3, <1>4, DriftKeepsCore DEF Core, counters, history

-----------------------------------------------------------------------------
(* Next, as the steps the lemmas above are about. *)
TaskStep(th) ==
  \/ \E t \in Tasks : Submit(th, t)
  \/ CountSubmitted(th) \/ Push(th) \/ NotifyWorkers(th) \/ Look(th)
  \/ Finish(th) \/ Record(th) \/ CountExecuted(th) \/ Retire(th)

LEMMA NextCases ==
  ASSUME Next
  PROVE  (\E th \in Threads : TaskStep(th) \/ DriftSteps(th)) \/ Destructor
<1>1. Workers \subseteq Threads /\ Drainers \subseteq Threads /\ Clients \subseteq Threads
  BY DEF Threads, Drainers
<1>2. CASE \E th \in Threads : Progress(th) \/ \E t \in Tasks : Submit(th, t)
  BY <1>2 DEF Progress, TaskStep, DriftSteps
<1>3. CASE \E w \in Workers : Top(w)
  BY <1>1, <1>3 DEF DriftSteps
<1>4. CASE \E d \in Drainers : Drain(d)
  BY <1>1, <1>4 DEF DriftSteps
<1>5. CASE \E c \in Clients : WaitIdle(c) \/ Rethrow(c) \/ Leave(c)
  BY <1>1, <1>5 DEF DriftSteps
<1>. QED
  BY <1>2, <1>3, <1>4, <1>5 DEF Next

LEMMA InitCore == Init => Core
<1>. SUFFICES ASSUME Init PROVE Core
  OBVIOUS
<1>1. TypeOK
  <2>1. queues \in [Workers -> Seq(Tasks)] /\ owed \in [Clients -> SUBSET Tasks]
    BY DEF Init
  <2>2. /\ hand \in [Threads -> Tasks \cup {NoTask}]
        /\ giving \in [Threads -> Tasks \cup {NoTask}] /\ at \in [Threads -> Nat]
    BY DEF Init
  <2>3. pc \in [Threads -> Steps]
    BY DEF Init, Steps
  <2>. QED
    BY <2>1, <2>2, <2>3 DEF Init, TypeOK
<1>2. Roles
  BY DEF Init, Roles, Ended, Threads
<1>3. Places
  <2>1. \A q \in Workers : queues[q] = <<>> /\ Range(queues[q]) = {} /\ NoDup(queues[q])
    BY DEF Init, Range, NoDup
  <2>. QED
    BY <2>1 DEF Init, Places, Waiting, Holding, Offering, Somewhere, In
<1>4. Counted
  <2>1. Active = {} /\ started \ Uncounted = {} /\ ran \ Untallied = {}
    BY DEF Init, Active, Uncounted, Untallied
  <2>. QED
    BY <2>1, FS_EmptySet DEF Init, Counted
<1>. QED
  BY <1>1, <1>2, <1>3, <1>4 DEF Core

LEMMA NextKeepsCore ==
  ASSUME Core, [Next]_vars
  PROVE  Core'
<1>1. CASE UNCHANGED vars
  <2>1. Drifts
    BY <1>1 DEF Drifts, vars
  <2>2. TypeOK'
    BY <1>1 DEF Core, TypeOK, vars, counters, history
  <2>. QED
    BY <1>1, <2>1, <2>2, DriftKeepsCore DEF Core, vars, counters, history
<1>2. ASSUME NEW th \in Threads, TaskStep(th) PROVE Core'
  <2>1. ASSUME NEW t \in Tasks, Submit(th, t) PROVE Core'
    BY <2>1, SubmitKeepsCore
  <2>2. CASE Look(th)
    BY <2>2, TakeKeepsCore, MissKeepsCore DEF Look
  <2>. QED
    BY <1>2, <2>1, <2>2, CountSubmittedKeepsCore, PushKeepsCore, NotifyWorkersKeepsCore,
       FinishKeepsCore, RecordKeepsCore, CountExecutedKeepsCore, RetireKeepsCore DEF TaskStep
<1>. QED
  BY <1>1, <1>2, NextCases, DriftStepsKeepCore, DestructorKeepsCore

-----------------------------------------------------------------------------
(* Failures and what wait_idle() covers. *)

LEMMA NextKeepsFailures ==
  ASSUME Core, Failures, [Next]_vars
  PROVE  Failures'
<1>. USE DEF Core
<1>1. CASE UNCHANGED vars
  BY <1>1 DEF Failures, FailureSurfaces, vars, history
<1>2. ASSUME NEW th \in Threads, TaskStep(th), ~ Finish(th), ~ Record(th) PROVE Failures'
  <2>1. /\ UNCHANGED <<exception, ran, owed, covered>> /\ started \subseteq started'
        /\ \A o \in Threads : pc[o] = "record" => pc'[o] = "record" /\ hand'[o] = hand[o]
    <3>1. ASSUME NEW t \in Tasks, Submit(th, t)
          PROVE  /\ UNCHANGED <<exception, ran, owed, covered>> /\ started \subseteq started'
                 /\ \A o \in Threads : pc[o] = "record" => pc'[o] = "record" /\ hand'[o] = hand[o]
      BY <3>1 DEF Submit, Goto, TypeOK
    <3>2. CASE CountSubmitted(th) \/ Push(th)
      BY <3>2 DEF CountSubmitted, Push, Goto, TypeOK, history
    <3>3. CASE NotifyWorkers(th)
      BY <3>3 DEF NotifyWorkers, NotifyAll, TypeOK, history
    <3>4. CASE Look(th)
      <4>1. PICK q \in Workers : Take(th, q) \/ Miss(th, q)
        BY <3>4 DEF Look
      <4>. QED
        BY <3>4, <4>1 DEF Look, Take, Miss, Goto, TypeOK, history
    <3>5. CASE CountExecuted(th)
      BY <3>5 DEF CountExecuted, Goto, TypeOK, history
    <3>6. CASE Retire(th)
      BY <3>6 DEF Retire, Goto, TypeOK, history
    <3>. QED
      BY <1>2, <3>1, <3>2, <3>3, <3>4, <3>5, <3>6 DEF TaskStep
  <2>. QED
    BY <2>1 DEF Failures, FailureSurfaces
<1>3. ASSUME NEW th \in Threads, Finish(th) PROVE Failures'
  <2>1. /\ UNCHANGED <<exception, owed, covered, started, hand>> /\ ran' = ran \cup {hand[th]}
        /\ \A o \in Threads : o # th => pc'[o] = pc[o]
        /\ pc[th] = "run" /\ (hand[th] \in Throws => pc'[th] = "record")
    BY <1>3 DEF Finish, Goto, TypeOK
  <2>. QED
    BY <2>1 DEF Failures, FailureSurfaces
<1>4. ASSUME NEW th \in Threads, Record(th) PROVE Failures'
  <2>1. exception' # NoTask
    <3>1. hand[th] # NoTask
      BY <1>4 DEF Record, Roles, Ended
    <3>. QED
      BY <1>4, <3>1 DEF Record
  <2>. QED
    BY <1>4, <2>1 DEF Record, Failures, FailureSurfaces, history
<1>5. ASSUME NEW th \in Threads, DriftSteps(th), ~ (th \in Clients /\ Rethrow(th)) PROVE Failures'
  <2>1. /\ UNCHANGED <<exception, ran, covered, started, hand>>
        /\ \A c \in Clients : owed'[c] = owed[c] \/ owed'[c] = started
    BY <1>5 DEF DriftSteps, Poll, Block, Timeout, Announce, Top, Drain, WaitIdle, Leave,
                TypeOK, history
  <2>2. \A o \in Threads : pc[o] = "record" => pc'[o] = "record"
    BY <1>5 DEF DriftSteps, Poll, Block, Timeout, Announce, Top, Drain, WaitIdle, Leave,
                NotifyAll, Goto, TypeOK
  <2>. QED
    BY <2>1, <2>2 DEF Failures, FailureSurfaces
<1>6. ASSUME NEW c \in Clients, Rethrow(c) PROVE Failures'
  <2>1. \A o \in Threads : pc[o] = "record" => pc'[o] = "record"
    BY <1>6 DEF Rethrow, Goto, TypeOK
  <2>. QED
    BY <1>6, <2>1 DEF Rethrow, Failures, FailureSurfaces
<1>7. CASE Destructor
  <2>1. UNCHANGED <<exception, hand, history>>
    BY <1>7 DEF Destructor, Destroy, Stop, WakeAll, Join
  <2>2. \A o \in Threads : pc[o] = "record" => pc'[o] = "record"
    BY <1>7 DEF Destructor, Destroy, Stop, WakeAll, Join, NotifyAll, Goto, TypeOK
  <2>. QED
    BY <2>1, <2>2 DEF Failures, FailureSurfaces, history
<1>. QED
  BY <1>1, <1>2, <1>3, <1>4, <1>5, <1>6, <1>7, NextCases

-----------------------------------------------------------------------------
(* Where the steps about tasks lead. *)

Final == {"stopping", "waking", "joining", "dead"}
Working == {"run", "count", "push", "notify", "scan", "poll", "top", "drain", "announce"} \cup Ended

LEMMA TaskStepMoves ==
  ASSUME Core, NEW th \in Threads, TaskStep(th)
  PROVE  /\ UNCHANGED <<stop, owed, covered>>
         /\ exception' = exception \/ exception' # NoTask
         /\ ran \subseteq ran'
         /\ \A o \in Threads : o # th => pc'[o] = pc[o] \/ (pc[o] = "sleep" /\ pc'[o] = "poll")
         /\ pc[th] \in Working \/ (pc[th] = "idle" /\ th \in Clients)
         /\ pc'[th] \in Working \/ (pc'[th] = "idle" /\ th \in Clients)
         /\ outstanding' = outstanding \/ pc[th] \in {"idle", "run", "retire"}
<1>. USE DEF Core
<1>1. ASSUME NEW t \in Tasks, Submit(th, t) PROVE pc[th] = "idle" => th \in Clients
  BY <1>1, PoolConstants DEF Submit
<1>2. CASE \E t \in Tasks : Submit(th, t)
  BY <1>1, <1>2 DEF Submit, Goto, TypeOK, Working
<1>3. CASE CountSubmitted(th) \/ Push(th)
  BY <1>3 DEF CountSubmitted, Push, Goto, TypeOK, Working, history, counters
<1>4. CASE NotifyWorkers(th)
  <2>1. hand[th] = NoTask => th \in Clients
    BY <1>4 DEF NotifyWorkers, Roles
  <2>. QED
    BY <1>4, <2>1 DEF NotifyWorkers, NotifyAll, Working, history, counters
<1>5. CASE Look(th)
  <2>1. PICK q \in Workers : Take(th, q) \/ Miss(th, q)
    BY <1>5 DEF Look
  <2>. QED
    BY <1>5, <2>1 DEF Look, Take, Miss, Goto, TypeOK, Working, history, counters
<1>6. CASE Finish(th)
  BY <1>6 DEF Finish, Goto, TypeOK, Working, Ended, counters
<1>7. CASE Record(th)
  <2>1. hand[th] # NoTask
    BY <1>7 DEF Record, Roles, Ended
  <2>. QED
    BY <1>7, <2>1 DEF Record, Goto, TypeOK, Working, Ended, history, counters
<1>8. CASE CountExecuted(th)
  BY <1>8 DEF CountExecuted, Goto, TypeOK, Working, Ended, history
<1>9. CASE Retire(th)
  BY <1>9 DEF Retire, Goto, Head0, TypeOK, Working, Ended, history
<1>. QED
  BY <1>2, <1>3, <1>4, <1>5, <1>6, <1>7, <1>8, <1>9 DEF TaskStep

LEMMA NextKeepsCover ==
  ASSUME Core, Failures, WaitIdleCovers, [Next]_vars
  PROVE  WaitIdleCovers'
<1>. USE DEF Core
<1>. DEFINE Keeps ==
       /\ \A c \in Clients : pc'[c] = "rethrow" => pc[c] = "rethrow" /\ owed'[c] = owed[c]
       /\ ran \subseteq ran'
       /\ exception' = NoTask => \/ exception = NoTask /\ covered \subseteq covered'
                               \/ ran \subseteq covered'
<1>1. Keeps => WaitIdleCovers'
  BY DEF WaitIdleCovers
<1>2. CASE UNCHANGED vars
  BY <1>1, <1>2 DEF vars, history
<1>3. ASSUME NEW th \in Threads, TaskStep(th) PROVE Keeps
  <2>1. Clients \subseteq Threads
    BY DEF Threads, Drainers
  <2>. QED
    BY <1>3, <2>1, TaskStepMoves DEF Working, Ended
<1>4. ASSUME NEW th \in Threads, DriftSteps(th),
             ~ (th \in Drainers /\ Drain(th)), ~ (th \in Clients /\ Rethrow(th))
      PROVE  Keeps
  <2>1. Clients \subseteq Threads
    BY DEF Threads, Drainers
  <2>2. UNCHANGED <<exception, ran, covered>>
    BY <1>4 DEF DriftSteps, Poll, Block, Timeout, Announce, Top, WaitIdle, Leave, history
  <2>3. \A c \in Clients : pc'[c] = "rethrow" => pc[c] = "rethrow" /\ owed'[c] = owed[c]
    BY <1>4, <2>1 DEF DriftSteps, Poll, Block, Timeout, Announce, Top, WaitIdle, Leave,
                      NotifyAll, Goto, Head0, TypeOK, history
  <2>. QED
    BY <2>2, <2>3
<1>5. ASSUME NEW th \in Clients, Rethrow(th) PROVE Keeps
  <2>1. Clients \subseteq Threads
    BY DEF Threads, Drainers
  <2>2. \A c \in Clients : pc'[c] = "rethrow" => pc[c] = "rethrow" /\ owed'[c] = owed[c]
    BY <1>5, <2>1 DEF Rethrow, Goto, TypeOK
  <2>. QED
    BY <1>5, <2>2 DEF Rethrow
<1>6. CASE Destructor
  <2>1. Clients \subseteq Threads /\ Owner \notin Clients
    BY PoolConstants DEF Threads, Drainers
  <2>2. \A c \in Clients : pc'[c] = "rethrow" => pc[c] = "rethrow"
    BY <1>6, <2>1 DEF Destructor, Destroy, Stop, WakeAll, Join, NotifyAll, Goto, TypeOK
  <2>3. UNCHANGED <<exception, ran, owed, covered>>
    BY <1>6 DEF Destructor, Destroy, Stop, WakeAll, Join, history
  <2>. QED
    BY <1>1, <2>2, <2>3
<1>. HIDE DEF Keeps
<1>7. ASSUME NEW d \in Drainers, Drain(d) PROVE WaitIdleCovers'
  <2>1. /\ \A o \in Threads : o # d => pc'[o] = pc[o]
        /\ d \in Threads /\ Clients \subseteq Threads
        /\ UNCHANGED <<exception, ran, owed, covered>>
        /\ pc'[d] = "rethrow" => outstanding = 0
    BY <1>7 DEF Drain, Goto, TypeOK, Threads, Drainers, history
  <2>2. ASSUME outstanding = 0, NEW c \in Clients
        PROVE  owed[c] \subseteq ran /\ (exception = NoTask => owed[c] \cap Throws \subseteq covered)
    <3>1. started = ran /\ \A o \in Threads : hand[o] = NoTask
      BY <2>2, NothingOutstanding
    <3>2. \A o \in Threads : pc[o] # "record"
      BY <3>1 DEF Roles, Ended
    <3>. QED
      BY <3>1, <3>2 DEF Failures, FailureSurfaces
  <2>. QED
    BY <2>1, <2>2 DEF WaitIdleCovers
<1>. QED
  BY <1>1, <1>2, <1>3, <1>4, <1>5, <1>6, <1>7, NextCases

-----------------------------------------------------------------------------
(* Shutdown. *)

LEMMA NextKeepsClosing ==
  ASSUME Core, Closing, [Next]_vars
  PROVE  Closing'
<1>. USE DEF Core
<1>1. /\ Clients \subseteq Threads /\ Owner \in Threads /\ Workers \subseteq Threads
      /\ Owner \notin Clients /\ Owner \notin Workers
  BY PoolConstants DEF Threads, Drainers
<1>2. CASE UNCHANGED vars
  BY <1>2 DEF Closing, vars, counters
<1>3. ASSUME NEW th \in Threads, TaskStep(th) PROVE Closing'
  <2>. DEFINE moves == \A o \in Threads :
                 \/ pc'[o] = pc[o]
                 \/ pc[o] = "sleep" /\ pc'[o] = "poll"
                 \/ /\ o = th
                    /\ pc[o] \in Working \/ (pc[o] = "idle" /\ o \in Clients)
                    /\ pc'[o] \in Working \/ (pc'[o] = "idle" /\ o \in Clients)
  <2>1. moves /\ stop' = stop
    BY <1>3, TaskStepMoves
  <2>2. pc'[Owner] # "idle" => \A c \in Clients : pc'[c] = "gone"
    BY <1>1, <2>1 DEF Closing, Working, Ended
  <2>3. pc'[Owner] \in Final => pc[Owner] = pc'[Owner]
    BY <1>1, <2>1 DEF Final, Working, Ended
  <2>4. ASSUME pc'[Owner] \in Final PROVE outstanding' = 0
    <3>1. outstanding = 0 /\ \A c \in Clients : pc[c] = "gone"
      BY <2>3, <2>4 DEF Closing, Final
    <3>2. \A o \in Threads : hand[o] = NoTask
      BY <3>1, NothingOutstanding
    <3>3. pc[th] \notin {"run", "retire"}
      BY <3>2 DEF Roles, Ended
    <3>4. pc[th] # "idle"
      BY <3>1, <1>3, TaskStepMoves DEF Working, Ended
    <3>. QED
      BY <1>3, <3>1, <3>3, <3>4, TaskStepMoves
  <2>5. stop' => pc'[Owner] \in {"waking", "joining", "dead"}
    BY <1>1, <2>1 DEF Closing, Working, Ended
  <2>6. \A w \in Workers : pc'[w] = "exited" => stop'
    BY <1>1, <2>1 DEF Closing, Working, Ended
  <2>. QED
    BY <2>2, <2>4, <2>5, <2>6 DEF Closing, Final
<1>4. ASSUME NEW th \in Threads, DriftSteps(th) PROVE Closing'
  <2>1. UNCHANGED <<outstanding, stop>>
    BY <1>4 DEF DriftSteps, Poll, Block, Timeout, Announce, Top, Drain, WaitIdle, Rethrow, Leave,
                counters
  <2>2. \A c \in Clients : pc[c] = "gone" => pc'[c] = "gone"
    BY <1>1, <1>4 DEF DriftSteps, Poll, Block, Timeout, Announce, Top, Drain, WaitIdle, Rethrow,
                      Leave, NotifyAll, Goto, TypeOK
  <2>3. /\ pc[Owner] = "idle" => pc'[Owner] = "idle"
        /\ pc[Owner] \in Final => pc'[Owner] = pc[Owner]
        /\ pc'[Owner] \in Final => pc'[Owner] = pc[Owner] \/ outstanding = 0
    BY <1>1, <1>4 DEF DriftSteps, Poll, Block, Timeout, Announce, Top, Drain, WaitIdle, Rethrow,
                      Leave, NotifyAll, Goto, TypeOK, Head0, Final
  <2>4. \A w \in Workers : pc'[w] = "exited" => pc[w] = "exited" \/ stop
    BY <1>1, <1>4, PoolConstants
       DEF DriftSteps, Poll, Block, Timeout, Announce, Top, Drain, WaitIdle, Rethrow,
           Leave, NotifyAll, Goto, TypeOK, Head0
  <2>. QED
    BY <2>1, <2>2, <2>3, <2>4 DEF Closing, Final
<1>5. CASE Destructor
  <2>. USE <1>1 DEF Closing, Goto, TypeOK, counters
  <2>1. CASE Destroy
    BY <2>1 DEF Destroy
  <2>2. CASE Stop
    BY <2>2 DEF Stop
  <2>3. CASE WakeAll
    BY <2>3 DEF WakeAll, NotifyAll
  <2>4. CASE Join
    BY <2>4 DEF Join
  <2>. QED
    BY <1>5, <2>1, <2>2, <2>3, <2>4 DEF Destructor
<1>. QED
  BY <1>2, <1>3, <1>4, <1>5, NextCases

-----------------------------------------------------------------------------
LEMMA InitInvariant == Init => IInv
<1>. SUFFICES ASSUME Init PROVE IInv
  OBVIOUS
<1>1. Core
  BY InitCore
<1>2. Failures
  BY DEF Init, Failures, FailureSurfaces
<1>3. Clients \subseteq Threads /\ Clients \cap Workers = {} /\ Owner \in Threads \ Workers
  BY PoolConstants DEF Threads, Drainers
<1>4. WaitIdleCovers
  BY <1>3 DEF Init, WaitIdleCovers
<1>5. Closing
  <2>1. \A w \in Workers : pc[w] = "top"
    BY DEF Init, Threads
  <2>. QED
    BY <1>3, <2>1 DEF Init, Closing
<1>. QED
  BY <1>1, <1>2, <1>4, <1>5 DEF IInv, Core

LEMMA StepInvariant == IInv /\ [Next]_vars => IInv'
<1>. SUFFICES ASSUME IInv, [Next]_vars PROVE IInv'
  OBVIOUS
<1>. QED
  BY NextKeepsCore, NextKeepsFailures, NextKeepsCover, NextKeepsClosing DEF IInv, Core

(* The inductive invariant holds in every reachable state of every pool.   *)
THEOREM Invariance == Spec => []IInv
<1>. QED
  BY InitInvariant, StepInvariant, PTL DEF Spec

(* Counters stay natural numbers (outstanding_ never wraps) and threads    *)
(* and deques only ever hold tasks.                                        *)
THEOREM TypeCorrect == Spec => []TypeOK
<1>. QED
  BY Invariance, PTL DEF IInv

(* outstanding_ is the number of tasks submitted and not yet retired, for  *)
(* any interleaving of submissions, stealing and nested submissions.       *)
THEOREM AccountingHolds == Spec => []Accounting
<1>1. IInv => Accounting
  BY DEF IInv, Counted, Accounting
<1>. QED
  BY <1>1, Invariance, PTL

(* No task is lost, duplicated or run twice by the deques, the thieves and *)
(* the helping waiters.                                                    *)
THEOREM EachTaskOnce == Spec => []ExactlyOnce
<1>1. IInv => ExactlyOnce
  <2>. SUFFICES ASSUME IInv PROVE ExactlyOnce
    OBVIOUS
  <2>. USE DEF IInv, Places
  <2>1. NoTask \notin started
    BY PoolConstants DEF TypeOK
  <2>2. \A t : t \in Queued <=> \E q \in Workers : In(t, q)
    BY DEF Queued, In
  <2>3. \A t : t \in Held <=> t # NoTask /\ \E th \in Threads : hand[th] = t
    BY DEF Held
  <2>4. \A t : t \in Offered <=> t # NoTask /\ \E th \in Threads : giving[th] = t
    BY DEF Offered
  <2>5. started \subseteq ran \cup Queued \cup Held \cup Offered
    BY <2>1, <2>2, <2>3, <2>4 DEF Somewhere
  <2>6. Queued \subseteq started \ ran
    BY <2>2 DEF Waiting, In
  <2>7. Held \subseteq started /\ Offered \subseteq started
    BY <2>3, <2>4 DEF Holding, Offering
  <2>8. Queued \cap Held = {} /\ Queued \cap Offered = {}
    BY <2>2, <2>3, <2>4 DEF Waiting, In
  <2>9. Held \cap Offered = {}
    BY <2>3, <2>4 DEF Holding
  <2>10. \A q, r \in Workers : q # r => Range(queues[q]) \cap Range(queues[r]) = {}
    BY DEF Waiting, In
  <2>11. \A th, o \in Threads :
          th # o => /\ hand[th] = NoTask \/ hand[th] # hand[o]
                    /\ giving[th] = NoTask \/ giving[th] # giving[o]
    BY DEF Holding, Offering
  <2>12. \A th \in Threads : pc[th] = "run" => hand[th] \notin ran
    BY DEF Roles, Holding, Ended
  <2>. QED
    BY <2>5, <2>6, <2>7, <2>8, <2>9, <2>10, <2>11, <2>12 DEF ExactlyOnce, NoDup
<1>. QED
  BY <1>1, Invariance, PTL

(* executed_ and submitted_ agree whenever nothing is outstanding.         *)
THEOREM IdleCounted == Spec => []IdleMeansCounted
<1>1. IInv => IdleMeansCounted
  BY NothingOutstanding DEF IInv, IdleMeansCounted
<1>. QED
  BY <1>1, Invariance, PTL

(* wait_idle() covers every task submitted before it and hides no failure. *)
THEOREM WaitingCovers == Spec => []WaitIdleCovers
<1>. QED
  BY Invariance, PTL DEF IInv

(* A failure stays pending until a wait_idle() throws. *)
THEOREM FailuresSurface == Spec => []FailureSurfaces
<1>1. IInv => FailureSurfaces
  BY DEF IInv, Failures
<1>. QED
  BY <1>1, Invariance, PTL

(* The destructor stops the workers only after every task has run. *)
THEOREM ShutdownLosesNothing == Spec => []ShutdownDrains
<1>1. IInv => ShutdownDrains
  <2>. SUFFICES ASSUME IInv PROVE ShutdownDrains
    OBVIOUS
  <2>1. stop => outstanding = 0
    BY DEF IInv, Closing
  <2>2. outstanding = 0 => started = ran /\ Queued = {}
    BY NothingOutstanding DEF IInv, Queued
  <2>. QED
    BY <2>1, <2>2 DEF IInv, Closing, ShutdownDrains
<1>. QED
  BY <1>1, Invariance, PTL
=============================================================================
