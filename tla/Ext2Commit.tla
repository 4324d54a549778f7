----------------------------- MODULE Ext2Commit -----------------------------
(***************************************************************************)
(* How a change reaches an ext2 volume (fs.c: begin, finish, engine_init   *)
(* and the ext_ wrappers; ext2_format.inc), on a device that holds writes  *)
(* in a volatile cache until a flush and that may fail or lose power at    *)
(* any moment.  The operation itself (create, write_file, remove_node,     *)
(* ...) only changes blocks in memory: here it changes any set of sectors. *)
(*                                                                         *)
(* Data abstractions: the content of a sector is the number of the         *)
(* operation that last wrote it; the state word of the superblock (1       *)
(* clean, 2 not) is kept apart and travels with sector Super.  The second  *)
(* half of the superblock, which no code of fs.c changes or interprets, is *)
(* left out.  A sector is written whole or not at all.                     *)
(***************************************************************************)
EXTENDS Integers, FiniteSets

CONSTANTS
  Super,        \* the first sector of the superblock (sector 2)
  Descriptors,  \* sectors of the group descriptors
  Data,         \* all other sectors: bitmaps, inodes, directories, files
  MAX_OPS       \* bound: operations tried

ASSUME CommitAssumption ==
  /\ Super \notin Descriptors \cup Data
  /\ Descriptors \cap Data = {}
  /\ MAX_OPS \in Nat

Metadata == {Super} \cup Descriptors     \* kept in SB and GD between operations
Sectors == Metadata \cup Data

VARIABLES
  durable, durable_state,  \* what a power loss leaves, and its state word
  latest, latest_state,    \* what disk_read returns
  lagging,                 \* sectors whose latest write is not durable yet
  mem,                     \* SB, GD and the data of the block cache
  before,                  \* saved_super, saved_descriptors, cache[].before
  mounted,
  chained,                 \* the operation before left a cache that was committed
  phase,                   \* where finish or fs_format_selected stands
  todo,                    \* sectors its loops have still to write
  acked,                   \* the last operation that changed the disk returned 0
  content,                 \* the image before the operation in progress
  target,                  \* the image the operation is to leave
  ops                      \* operations tried

diskVars == <<durable, durable_state, latest, latest_state, lagging>>
vars == <<diskVars, mem, before, mounted, chained, phase, todo, acked,
          content, target, ops>>

Phases == {"idle", "mark", "mark_flush", "data", "clean", "clean_flush"}
Blank == [s \in Sectors |-> 0]

Init ==
  /\ durable = Blank /\ latest = Blank /\ lagging = {}
  /\ durable_state = 1 /\ latest_state = 1
  /\ mem = Blank /\ before = Blank
  /\ mounted = FALSE /\ chained = FALSE
  /\ phase = "idle" /\ todo = {} /\ acked = FALSE
  /\ content = Blank /\ target = Blank
  /\ ops = 0

-----------------------------------------------------------------------------
(* The device (disk.c and its drivers) *)

(* disk_write of the engine's copy of s; w is the state word for Super. *)
Store(s, w) ==
  /\ latest' = [latest EXCEPT ![s] = mem[s]]
  /\ latest_state' = IF s = Super THEN w ELSE latest_state
  /\ lagging' = lagging \cup {s}
  /\ UNCHANGED <<durable, durable_state>>

(* disk_flush that succeeds *)
Flush ==
  /\ durable' = latest
  /\ durable_state' = latest_state
  /\ lagging' = {}
  /\ UNCHANGED <<latest, latest_state>>

(* The device moves a sector out of its cache when it likes. *)
Destage(s) ==
  /\ s \in lagging
  /\ durable' = [durable EXCEPT ![s] = latest[s]]
  /\ durable_state' = IF s = Super THEN latest_state ELSE durable_state
  /\ lagging' = lagging \ {s}
  /\ UNCHANGED <<latest, latest_state, mem, before, mounted, chained, phase,
                 todo, acked, content, target, ops>>

(* Power loss, or removal of the device: memory and device cache are gone. *)
Crash ==
  /\ latest' = durable
  /\ latest_state' = durable_state
  /\ lagging' = {}
  /\ mounted' = FALSE /\ chained' = FALSE
  /\ phase' = "idle" /\ todo' = {} /\ acked' = FALSE
  /\ UNCHANGED <<durable, durable_state, mem, before, content, target, ops>>

-----------------------------------------------------------------------------
(* ext_init: engine_init accepts only a volume whose state word is 1. *)
Mount ==
  /\ phase = "idle"
  /\ latest_state = 1
  /\ mem' = latest
  /\ before' = latest
  /\ mounted' = TRUE /\ chained' = FALSE
  /\ UNCHANGED <<diskVars, phase, todo, acked, content, target, ops>>

(* engine_init that meets an unclean volume or a read error *)
MountFails ==
  /\ phase = "idle"
  /\ mounted' = FALSE /\ chained' = FALSE
  /\ UNCHANGED <<diskVars, mem, before, phase, todo, acked, content, target, ops>>

(***************************************************************************)
(* What an operation starts from: cache_reset drops the cached blocks, so  *)
(* they come from the disk again; begin copies SB and GD.  Only            *)
(* set_file_permissions goes on with the cache of the fs_write before it,  *)
(* where before is older than the disk.                                    *)
(***************************************************************************)
Loaded(reset) == [s \in Sectors |-> IF reset /\ s \in Data THEN latest[s] ELSE mem[s]]
Saved(reset) == [s \in Sectors |->
                   IF s \in Metadata THEN mem[s] ELSE IF reset THEN latest[s] ELSE before[s]]

Changed(image, old) == {s \in Sectors : image[s] # old[s]}
Update(image, D) == [s \in Sectors |-> IF s \in D THEN ops + 1 ELSE image[s]]

(* The operation succeeds in memory: finish goes on to the disk unless     *)
(* nothing changed.                                                        *)
Operate(D, reset) ==
  LET image == Update(Loaded(reset), D)
  IN  /\ phase = "idle"
      /\ mounted
      /\ reset \/ chained
      /\ ops < MAX_OPS
      /\ ops' = ops + 1
      /\ before' = Saved(reset)
      /\ mem' = image
      /\ IF Changed(image, Saved(reset)) = {}
         THEN /\ chained' = reset
              /\ UNCHANGED <<phase, todo, acked, content, target>>
         ELSE /\ phase' = "mark"
              /\ todo' = Changed(image, Saved(reset)) \ {Super}
              /\ content' = latest
              /\ target' = image
              /\ acked' = FALSE /\ chained' = reset
      /\ UNCHANGED <<diskVars, mounted>>

(* Mutants of Rollback: SB and GD are not restored, and the cache with its *)
(* old before images is used on.                                           *)
RollbackCacheOnly(reset, cache_error) ==
  /\ phase = "idle" /\ mounted
  /\ reset \/ chained
  /\ ops < MAX_OPS /\ ops' = ops + 1
  /\ before' = Saved(reset)
  /\ mem' = Update(Saved(reset), Metadata)
  /\ mounted' = ~(cache_error /\ reset)
  /\ chained' = FALSE
  /\ UNCHANGED <<diskVars, phase, todo, acked, content, target>>

(* The operation fails in memory: finish restores SB, GD and the cache.    *)
(* After a read error (cache_error) the ext_ wrapper also unmounts;        *)
(* set_file_permissions, which has none, does not.                         *)
Rollback(reset, cache_error) ==
  /\ phase = "idle"
  /\ mounted
  /\ reset \/ chained
  /\ ops < MAX_OPS
  /\ ops' = ops + 1
  /\ before' = Saved(reset)
  /\ mem' = Saved(reset)
  /\ mounted' = ~(cache_error /\ reset)
  /\ chained' = FALSE
  /\ UNCHANGED <<diskVars, phase, todo, acked, content, target>>

(* fs_format_selected replaces everything, whatever was on the volume. *)
Format ==
  /\ phase = "idle"
  /\ ops < MAX_OPS
  /\ ops' = ops + 1
  /\ mem' = [s \in Sectors |-> ops + 1]
  /\ phase' = "mark"
  /\ todo' = Sectors \ {Super}
  /\ content' = IF latest_state = 1 THEN latest ELSE content
  /\ target' = mem'
  /\ mounted' = FALSE /\ chained' = FALSE /\ acked' = FALSE
  /\ UNCHANGED <<diskVars, before>>

-----------------------------------------------------------------------------
(* finish, from put16(SB + 58, 2) on.  Any write or flush may fail         *)
(* instead; a write that fails may have happened or not.                   *)

MarkUnclean ==
  /\ phase = "mark"
  /\ Store(Super, 2)
  /\ phase' = "mark_flush"
  /\ UNCHANGED <<mem, before, mounted, chained, todo, acked, content, target, ops>>

(* Mutant of FlushMark: the flush after the mark is left out. *)
FlushMarkSkipped ==
  /\ phase = "mark_flush"
  /\ phase' = "data"
  /\ UNCHANGED <<diskVars, mem, before, mounted, chained, todo, acked, content, target, ops>>

FlushMark ==
  /\ phase = "mark_flush"
  /\ Flush
  /\ phase' = "data"
  /\ UNCHANGED <<mem, before, mounted, chained, todo, acked, content, target, ops>>

(* Cached blocks first, then descriptors *)
WriteSector(s) ==
  /\ phase = "data"
  /\ s \in todo
  /\ s \in Descriptors => todo \cap Data = {}
  /\ Store(s, 0)
  /\ todo' = todo \ {s}
  /\ UNCHANGED <<mem, before, mounted, chained, phase, acked, content, target, ops>>

FlushData ==
  /\ phase = "data"
  /\ todo = {}
  /\ Flush
  /\ phase' = "clean"
  /\ UNCHANGED <<mem, before, mounted, chained, todo, acked, content, target, ops>>

MarkClean ==
  /\ phase = "clean"
  /\ Store(Super, 1)
  /\ phase' = "clean_flush"
  /\ UNCHANGED <<mem, before, mounted, chained, todo, acked, content, target, ops>>

(* Mutant of FlushClean: the operation returns without the last flush. *)
FlushCleanSkipped ==
  /\ phase = "clean_flush"
  /\ phase' = "idle"
  /\ acked' = TRUE
  /\ content' = target
  /\ UNCHANGED <<diskVars, mem, before, mounted, chained, todo, target, ops>>

FlushClean ==
  /\ phase = "clean_flush"
  /\ Flush
  /\ phase' = "idle"
  /\ acked' = TRUE
  /\ content' = target
  /\ UNCHANGED <<mem, before, mounted, chained, todo, target, ops>>

(* io_error: *)
IoError ==
  /\ phase # "idle"
  /\ \/ UNCHANGED diskVars
     \/ phase = "mark" /\ Store(Super, 2)
     \/ phase = "clean" /\ Store(Super, 1)
     \/ phase = "data" /\ \E s \in todo :
          (s \in Descriptors => todo \cap Data = {}) /\ Store(s, 0)
  /\ mounted' = FALSE /\ chained' = FALSE
  /\ phase' = "idle" /\ todo' = {}
  /\ UNCHANGED <<mem, before, acked, content, target, ops>>

Finish ==
  \/ MarkUnclean \/ FlushMark \/ FlushData \/ MarkClean \/ FlushClean
  \/ \E s \in Sectors : WriteSector(s)
  \/ IoError

Next ==
  \/ Mount \/ MountFails
  \/ \E D \in SUBSET Sectors, reset \in BOOLEAN : Operate(D, reset)
  \/ \E reset, cache_error \in BOOLEAN : Rollback(reset, cache_error)
  \/ Format
  \/ Finish
  \/ \E s \in Sectors : Destage(s)
  \/ Crash

Spec == Init /\ [][Next]_vars

-----------------------------------------------------------------------------
(* Properties *)

(* Whatever the device kept when the power went, a volume that says it is   *)
(* clean is the whole image from before the operation or the whole image    *)
(* after it, never a mixture: engine_init may trust the state word.         *)
CleanIsWhole == durable_state = 1 => durable \in {content, target}

(* When a change has returned 0 its result is on the medium: a power        *)
(* loss before the next operation loses nothing.                            *)
AckedIsDurable == acked => durable_state = 1 /\ durable = latest /\ durable = content

(* A failed operation leaves no trace in memory either: between operations  *)
(* the copies in SB and GD, which no reset reloads, equal the disk.         *)
MetadataFresh ==
  (mounted /\ phase = "idle") =>
    /\ latest_state = 1
    /\ \A s \in Metadata : mem[s] = latest[s]

(* The cache that a second transaction starts from agrees with the disk,    *)
(* although its before images do not.                                       *)
ChainedFresh == (mounted /\ phase = "idle" /\ chained) => mem = latest

(* What an operation starts from is what the disk holds, after operations   *)
(* that failed and in the second transaction of set_file_permissions too.   *)
MemoryFresh == MetadataFresh /\ ChainedFresh

=============================================================================
