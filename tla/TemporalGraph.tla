----------------------------- MODULE TemporalGraph -----------------------------
(***************************************************************************)
(* TemporalGraph: a graph with the log of the batches applied to it, and   *)
(* queries that replay the log up to a version or a time, or between two.  *)
(* The replayed graph is the arc set LogicalGraph promises; results are    *)
(* arc sets and update lists.                                              *)
(***************************************************************************)
EXTENDS GraphUpdates, SequencesExt

CONSTANTS MaxTime,         \* timestamps are 0 .. MaxTime
          StampedBatches,  \* the batches callers apply
          MaxBatches       \* bound on the length of the log

Time == 0 .. MaxTime

StampedOp == [src : Vertex, dst : Vertex, add : BOOLEAN, time : Time]

ASSUME TemporalConstants ==
  /\ MaxVertices \in Nat /\ MaxTime \in Nat /\ MaxBatches \in Nat
  /\ StampedBatches \subseteq Seq(StampedOp) \ {<<>>}

VARIABLES directed,        \* directed_
          now,             \* graph_: its arcs
          version,         \* graph_.version()
          log,             \* history_: version, time range and batch
          past             \* history: the arcs of versions 0 .. version

temporal == <<directed, now, version, log, past>>

InitTemporal ==
  /\ directed \in BOOLEAN
  /\ now = {} /\ version = 0 /\ log = <<>> /\ past = <<{}>>

-----------------------------------------------------------------------------
Replay(arcs, updates) == FoldLeft(LAMBDA a, op : AfterOp(directed, a, op), arcs, updates)

Earliest(b) == CHOOSE t \in Time : \E i \in DOMAIN b : b[i].time = t /\ \A j \in DOMAIN b : t <= b[j].time
Latest(b) == CHOOSE t \in Time : \E i \in DOMAIN b : b[i].time = t /\ \A j \in DOMAIN b : t >= b[j].time

Apply(b) ==
  /\ Len(log) < MaxBatches
  /\ now' = Replay(now, b)
  /\ version' = version + 1
  /\ log' = Append(log, [version |-> version + 1, from |-> Earliest(b), to |-> Latest(b), batch |-> b])
  /\ past' = Append(past, now')
  /\ UNCHANGED directed

NextTemporal == \E b \in StampedBatches : Apply(b)

-----------------------------------------------------------------------------
(* The updates of a batch at these times, and of these entries of the log. *)
Filtered(updates, times) ==
  FoldLeft(LAMBDA out, op : IF op.time \in times THEN Append(out, op) ELSE out, <<>>, updates)

Logged(entries, times) ==
  FlattenSeq([i \in DOMAIN log |-> IF i \in entries THEN Filtered(log[i].batch, times) ELSE <<>>])

All == DOMAIN log

Since(from, to) == {t \in Time : from < t /\ t <= to}

SnapshotVersion(v) == Replay({}, Logged({i \in All : log[i].version <= v}, Time))

SnapshotTime(t) == Replay({}, Logged(All, 0 .. t))

ChangesBetweenVersions(from, to) ==
  Logged({i \in All : from < log[i].version /\ log[i].version <= to}, Time)

(* Mutant: a batch that begins at the end of the range is skipped. *)
ChangesBetweenTimesOpen(from, to) ==
  Logged({i \in All : log[i].to > from /\ log[i].from < to}, Since(from, to))

(* Whole batches are skipped by their time range. *)
ChangesBetweenTimes(from, to) ==
  Logged({i \in All : log[i].to > from /\ log[i].from <= to}, Since(from, to))

SlidingWindow(end, width) ==
  LET begin == IF end > width THEN end - width ELSE 0
  IN  Replay({}, Logged(All, Since(begin, end)))

-----------------------------------------------------------------------------
(* Every snapshot is the graph as it was at that version, and the changes  *)
(* between two versions lead from the one to the other.                    *)
VersionsReplay ==
  \A v, w \in 0 .. version :
    /\ SnapshotVersion(v) = past[v + 1]
    /\ v <= w => Replay(past[v + 1], ChangesBetweenVersions(v, w)) = past[w + 1]

(* If updates came in the order of their timestamps, the same holds for    *)
(* times, the newest time is the current graph, and a window is what the   *)
(* changes in it make of an empty graph.                                   *)
TimesReplay ==
  LET all == Logged(All, Time)
  IN  (\A i, j \in DOMAIN all : i < j => all[i].time <= all[j].time) =>
        /\ SnapshotTime(MaxTime) = now
        /\ \A t, u \in Time : t <= u =>
             /\ Replay(SnapshotTime(t), ChangesBetweenTimes(t, u)) = SnapshotTime(u)
             /\ SlidingWindow(u, u - t) = Replay({}, ChangesBetweenTimes(t, u))

(* The log replays to what the graph was, by version and by time.          *)
HistoryReplays == VersionsReplay /\ TimesReplay
=============================================================================
