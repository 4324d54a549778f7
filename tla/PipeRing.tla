------------------------------ MODULE PipeRing ------------------------------
(***************************************************************************)
(* The bytes of one pipe: the ring buffer, the vectors of readv and writev *)
(* and the copying loop of linux_io_resume (linux_syscall.c), one step per *)
(* iteration of the loop.  Which process runs when is left open; LinuxTask *)
(* has the scheduling, the closing of ends and O_NONBLOCK.                 *)
(*                                                                         *)
(* The k-th byte that writer w ever passes to write is <<w, k>>.           *)
(***************************************************************************)
EXTENDS Integers, Sequences, FiniteSets

CONSTANTS
  RING_SIZE,   \* bytes in the ring (PIPE_SIZE, 4096)
  Writers,     \* processes that write
  Readers,     \* processes that read
  Vectors,     \* the vector lengths that programs pass, sequences of naturals
  MAX_BYTES    \* bound: bytes each writer passes to write in all

ASSUME RingAssumption ==
  /\ RING_SIZE \in Nat \ {0} /\ MAX_BYTES \in Nat
  /\ Vectors \subseteq Seq(Nat)
  /\ Writers \cap Readers = {} /\ "nobody" \notin Writers \cup Readers

Procs == Writers \cup Readers
Bytes == Writers \X (1..MAX_BYTES)
Nobody == "nobody"
Unset == <<"unset">>

VARIABLES
  head,       \* pipe->head
  filled,     \* pipe->used
  data,       \* pipe->data
  io,         \* [process]: its PipeIo
  copying,    \* the process whose loop runs, or Nobody
  available,  \* bytes the loop has still to move
  sent,       \* [writer]: bytes passed to write so far
  atomic,     \* ranges <<w, first, last>> of the writes of at most RING_SIZE bytes
  got         \* the bytes delivered to readers, in the order of delivery

ringVars == <<head, filled, data, io, copying, available, sent, atomic, got>>

NoTransfer == [active |-> FALSE, writing |-> FALSE, vectors |-> <<>>, base |-> 0,
         index |-> 1, offset |-> 0, total |-> 0, length |-> 0]

RingInit ==
  /\ head = 0 /\ filled = 0
  /\ data = [i \in 0..(RING_SIZE - 1) |-> Unset]
  /\ io = [p \in Procs |-> NoTransfer]
  /\ copying = Nobody /\ available = 0
  /\ sent = [w \in Writers |-> 0]
  /\ atomic = {}
  /\ got = <<>>

-----------------------------------------------------------------------------
(* The bytes in the vectors before the i-th. *)
Before(v, i) == LET sum[k \in 0..Len(v)] == IF k = 0 THEN 0 ELSE sum[k - 1] + v[k]
                IN  sum[i - 1]

Lesser(a, b) == IF a < b THEN a ELSE b

(* linux_io_ready, for a pipe whose two ends are open *)
Ready(p) ==
  /\ io[p].active
  /\ IF io[p].writing
     THEN RING_SIZE - filled >= IF io[p].length <= RING_SIZE THEN io[p].length ELSE 1
     ELSE filled > 0

(* Mutant of Blocks: short writes are split like long ones. *)
BlocksWhenFull(x) == (IF x.writing THEN RING_SIZE - filled ELSE filled) = 0

(* linux_io_resume up to its loop *)
Room(x) == IF x.writing THEN RING_SIZE - filled ELSE filled
Blocks(x) == Room(x) = 0 \/ (x.writing /\ x.length <= RING_SIZE /\ Room(x) < x.length)

Attempt(p, x) ==
  /\ io' = [io EXCEPT ![p] = x]
  /\ IF Blocks(x) THEN UNCHANGED <<copying, available>>
     ELSE copying' = p /\ available' = Lesser(Room(x), x.length - x.total)

(* pipe_transfer: a read or write of the vectors v *)
Start(p, v) ==
  LET n == Before(v, Len(v) + 1)
      w == p \in Writers
      x == [active |-> TRUE, writing |-> w, vectors |-> v,
            base |-> IF w THEN sent[p] ELSE 0,
            index |-> 1, offset |-> 0, total |-> 0, length |-> n]
  IN  /\ copying = Nobody
      /\ ~io[p].active
      /\ n > 0
      /\ IF w THEN /\ sent[p] + n <= MAX_BYTES
                   /\ sent' = [sent EXCEPT ![p] = @ + n]
                   /\ atomic' = IF n <= RING_SIZE
                                THEN atomic \cup {<<p, sent[p] + 1, sent[p] + n>>}
                                ELSE atomic
              ELSE UNCHANGED <<sent, atomic>>
      /\ Attempt(p, x)
      /\ UNCHANGED <<head, filled, data, got>>

(* linux_io_resume of a blocked transfer *)
ResumeCopy(p) ==
  /\ copying = Nobody
  /\ Ready(p)
  /\ Attempt(p, io[p])
  /\ UNCHANGED <<head, filled, data, sent, atomic, got>>

(* The loop meets the end of a vector. *)
NextVector ==
  /\ copying # Nobody
  /\ available > 0
  /\ io[copying].offset = io[copying].vectors[io[copying].index]
  /\ io' = [io EXCEPT ![copying].index = @ + 1, ![copying].offset = 0]
  /\ UNCHANGED <<head, filled, data, copying, available, sent, atomic, got>>

(* Mutant of Position: a write starts at the head. *)
PositionHead(x) == head

(* Where the loop stands in the ring. *)
Position(x) == IF x.writing THEN (head + filled) % RING_SIZE ELSE head

(* The chunk ends with the vector, the transfer or the ring, whichever is   *)
(* first.                                                                   *)
Chunk(x) == Lesser(Lesser(x.vectors[x.index] - x.offset, available), RING_SIZE - Position(x))

(* memcpy between the vector and the ring *)
CopyChunk ==
  LET x == IF copying = Nobody THEN NoTransfer ELSE io[copying]
      position == Position(x)
      chunk == Chunk(x)
      first == x.base + Before(x.vectors, x.index) + x.offset
  IN  /\ copying # Nobody
      /\ available > 0
      /\ x.offset # x.vectors[x.index]
      /\ IF x.writing
         THEN /\ data' = [i \in DOMAIN data |->
                            IF i \in position..(position + chunk - 1)
                            THEN <<copying, first + i - position + 1>> ELSE data[i]]
              /\ filled' = filled + chunk
              /\ UNCHANGED <<head, got>>
         ELSE /\ got' = got \o [i \in 1..chunk |-> data[position + i - 1]]
              /\ filled' = filled - chunk
              /\ head' = (position + chunk) % RING_SIZE
              /\ UNCHANGED data
      /\ available' = available - chunk
      /\ io' = [io EXCEPT ![copying].offset = @ + chunk, ![copying].total = @ + chunk]
      /\ UNCHANGED <<copying, sent, atomic>>

(* After the loop a long write that is not over waits again. *)
Finish ==
  /\ copying # Nobody
  /\ available = 0
  /\ copying' = Nobody
  /\ io' = [io EXCEPT ![copying] =
              IF io[copying].writing /\ io[copying].total < io[copying].length
              THEN io[copying] ELSE NoTransfer]
  /\ UNCHANGED <<head, filled, data, available, sent, atomic, got>>

RingNext ==
  \/ \E p \in Procs, v \in Vectors : Start(p, v)
  \/ \E p \in Procs : ResumeCopy(p)
  \/ NextVector
  \/ CopyChunk
  \/ Finish

RingSpec == RingInit /\ [][RingNext]_ringVars

-----------------------------------------------------------------------------
(* Properties *)

(* The bytes in the ring, oldest first *)
Contents == [i \in 1..filled |-> data[(head + i - 1) % RING_SIZE]]

(* The whole stream: what was delivered and what is buffered *)
Stream == got \o Contents

(* The pipe implements the stream of PipeStream: bytes are neither lost,    *)
(* duplicated nor reordered by wrapping, by vector ends or by transfers     *)
(* that continue after a wait.                                              *)
ImplementsStream ==
  INSTANCE PipeStream WITH Capacity <- RING_SIZE, written <- Stream, taken <- Len(got)

StreamRefined == ImplementsStream!StreamSpec

(* Of every writer, exactly the bytes that its calls have accepted so far   *)
(* are in the stream, once and in order.                                    *)
Accepted(w) == IF io[w].active THEN io[w].base + io[w].total ELSE sent[w]

Delivered ==
  LET s == Stream
  IN  /\ \A i \in DOMAIN s : s[i][1] \in Writers /\ s[i][2] \in 1..Accepted(s[i][1])
      /\ \A w \in Writers : \A k \in 1..Accepted(w) : \E i \in DOMAIN s : s[i] = <<w, k>>
      /\ \A i, j \in DOMAIN s : i < j /\ s[i][1] = s[j][1] => s[i][2] < s[j][2]

(* "Writes up to 4096 bytes (including all vectors of a writev) are         *)
(* atomic": no byte of another writer comes between the bytes of such a     *)
(* write.                                                                   *)
AtomicWrites ==
  \A r \in atomic, i \in 1..Len(Stream) :
    LET b == Stream[i]
    IN  (b[1] = r[1] /\ b[2] \in r[2]..(r[3] - 1) /\ i < Len(Stream))
          => Stream[i + 1] = <<b[1], b[2] + 1>>

(* Every write arrives once, in order and, if it is short, in one piece. *)
WritesIntact == Delivered /\ AtomicWrites

=============================================================================
