---------------------------- MODULE PartitionLoader ----------------------------
(***************************************************************************)
(* AsyncPartitionLoader over partition files and a PartitionCache.  A file *)
(* is written in place: truncated, then extended by the header and the     *)
(* payload.  A write that fails, or whose process dies, just never extends *)
(* it to the end; reads meet every such prefix.  A read does not overlap   *)
(* with a write of its file, and the caller waits for each future before   *)
(* the next call, because the cache has no lock.                           *)
(***************************************************************************)
EXTENDS PartitionCache

CONSTANTS Paths,
          Ids,           \* 64-bit partition ids
          CacheIds       \* how many ids a 32-bit PartitionId has

ASSUME LoaderConstants ==
  /\ CacheIds \in Nat \ {0}
  /\ Ids \subseteq Nat /\ {id % CacheIds : id \in Ids} \subseteq Partitions

VARIABLES file,          \* the files: header fields, and the length so far
          held           \* the payload of each cached entry

loader == <<file, held, cache>>

(* The header in three parts: magic to flags, partition_id, payload_bytes. *)
HeaderParts == 3

InitLoader == file = <<>> /\ held = <<>>

-----------------------------------------------------------------------------
(* PartitionFile::write. *)
Truncate(path, id, n) ==
  /\ file' = [p \in DOMAIN file \cup {path} |->
                IF p = path THEN [id |-> id, size |-> n, length |-> 0] ELSE file[p]]
  /\ UNCHANGED <<held, cache>>

Extend(path) ==
  /\ \E n \in file[path].length + 1 .. HeaderParts + file[path].size :
       file' = [file EXCEPT ![path].length = n]
  /\ UNCHANGED <<held, cache>>

(* What a reader finds in a default header it has read f into. *)
Header(f) == [id   |-> IF f.length >= 2 THEN f.id ELSE 0,
              size |-> IF f.length >= 3 THEN f.size ELSE 0]

(* Mutant: the stream is only checked after it has read a payload. *)
StreamedUnchecked(f, id) ==
  /\ Header(f).id = id
  /\ Header(f).size = 0 \/ f.length >= HeaderParts + Header(f).size

(* read(): all there is to read came, header included. *)
Streamed(f, id) ==
  /\ Header(f).id = id
  /\ f.length >= HeaderParts + Header(f).size

(* read_mmap_or_fallback(): a file that is shorter than its header, and    *)
(* any file when mapping fails, is read from a stream.                     *)
Mapped(f, id) ==
  /\ f.length >= HeaderParts
  /\ f.id = id /\ HeaderParts + f.size <= f.length

Accepted(f, id) == Streamed(f, id) \/ Mapped(f, id)

(* The cache is asked first and trusted: no path, no header.  Everything   *)
(* else, a payload above the budget included, throws.                      *)
Load(id, path) ==
  LET c == id % CacheIds
  IN  /\ UNCHANGED file
      /\ \/ Get(c) /\ UNCHANGED held
         \/ /\ c \notin Cached
            /\ path \in DOMAIN file /\ Accepted(file[path], id)
            /\ Put(c, Header(file[path]).size)
            /\ held' = [p \in DOMAIN bytes' |-> IF p = c THEN file[path] ELSE held[p]]

NextLoader ==
  \E path \in Paths :
    \/ \E id \in Ids : Load(id, path) \/ \E n \in Sizes : Truncate(path, id, n)
    \/ path \in DOMAIN file /\ Extend(path)

-----------------------------------------------------------------------------
(* Whatever was interrupted, a payload callers get from the cache is one   *)
(* that was written to the end, with its own size, for a partition that is *)
(* the requested one in its lower 32 bits.                                 *)
PayloadsWhole ==
  /\ DOMAIN held = Cached
  /\ \A c \in Cached :
       /\ held[c].length = HeaderParts + held[c].size
       /\ bytes[c] = held[c].size
       /\ held[c].id % CacheIds = c
=============================================================================
