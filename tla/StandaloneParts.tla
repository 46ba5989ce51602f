---------------------------- MODULE StandaloneParts ----------------------------
(***************************************************************************)
(* Parts of the library that callers use on their own.  All but the thread *)
(* pool are used by one thread at a time.  They share nothing, except that *)
(* the loader fills a partition cache, so a behaviour uses one of them.    *)
(***************************************************************************)
EXTENDS ReusableKeySet, ConsolidationController, TemporalGraph, PartitionLoader,
        ThreadPool, AdjacencyCodecs, StaticGraph, VertexPartitions

VARIABLE part

(* The state of each part; the cache is the loader's. *)
vars == <<part, keySet, controller, temporal, loader, threadPool, list, rows, input, vertexPartitions>>

Init ==
  /\ part \in {"keys", "controller", "temporal", "cache", "loader", "threads", "codecs", "kernels",
               "static", "partitions"}
  /\ InitKeys /\ InitController /\ InitTemporal /\ InitCache /\ InitLoader
  /\ InitThreadPool /\ InitCodecs /\ InitKernels /\ InitStatic /\ InitPartitions
  \* What a behaviour does not use begins in one way.
  /\ directed => part = "temporal"
  /\ input.directed => part = "static"

Storage ==
  /\ UNCHANGED <<threadPool, list, rows, input, vertexPartitions>>
  /\ \/ part = "keys" /\ NextKeys /\ UNCHANGED <<controller, temporal, loader>>
     \/ part = "controller" /\ NextController /\ UNCHANGED <<keySet, temporal, loader>>
     \/ part = "temporal" /\ NextTemporal /\ UNCHANGED <<keySet, controller, loader>>
     \/ part = "cache" /\ NextCache /\ UNCHANGED <<keySet, controller, temporal, file, held>>
     \/ part = "loader" /\ NextLoader /\ UNCHANGED <<keySet, controller, temporal>>

Computation ==
  /\ UNCHANGED <<keySet, controller, temporal, loader>>
  /\ \/ part = "threads" /\ NextThreadPool /\ UNCHANGED <<list, rows, input, vertexPartitions>>
     \/ part = "codecs" /\ NextCodecs /\ UNCHANGED <<threadPool, rows, input, vertexPartitions>>
     \/ part = "kernels" /\ NextKernels /\ UNCHANGED <<threadPool, list, input, vertexPartitions>>
     \/ part = "static" /\ NextStatic /\ UNCHANGED <<threadPool, list, rows, vertexPartitions>>
     \/ part = "partitions" /\ NextPartitions /\ UNCHANGED <<threadPool, list, rows, input>>

Next == UNCHANGED part /\ (Storage \/ Computation)

Spec == Init /\ [][Next]_vars

-----------------------------------------------------------------------------
(* PayloadsWhole, where all payloads of the cache come from the loader.    *)
LoadedWhole == part = "loader" => PayloadsWhole
=============================================================================
