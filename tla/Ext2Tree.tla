------------------------------ MODULE Ext2Tree ------------------------------
(***************************************************************************)
(* The structures an ext2 operation changes in memory before it is         *)
(* committed (fs.c): bitmaps and free counts of several block groups,      *)
(* inodes with direct and indirect pointers, directories of variable       *)
(* length records, file contents.  Every operator takes a volume V and     *)
(* gives the volume after the C function; V.ok tells that no step has      *)
(* failed so far and V.ret is what the last allocation returned.  An       *)
(* operation that fails half way goes back to the volume it began with     *)
(* (finish); only allocation_hint is not restored.  How a changed volume   *)
(* reaches the disk, and what a read error does, is in Ext2Commit.         *)
(*                                                                         *)
(* Data abstractions: a block is WORDS words; a word is a pointer or a     *)
(* unit of file contents, and sizes and offsets of files count such units. *)
(* A directory block is a sequence of records, whose lengths count units   *)
(* of their own (Need).  i_blocks counts blocks, not sectors.  The bitmaps,*)
(* the inode table and the backups of a group are its first META blocks.   *)
(* What is left in a block after its release is Junk.  Times, modes and    *)
(* the type byte of an entry are left out.                                 *)
(***************************************************************************)
EXTENDS Integers, FiniteSets, Sequences, SequencesExt

CONSTANTS
  BLOCKS,            \* blocks of the volume, block 0 included
  BLOCKS_PER_GROUP,
  INODES_PER_GROUP,
  META,              \* blocks of a group that hold no data
  FIRST_INODE,       \* inodes below it are reserved (11 in the code)
  DIRECT,            \* direct pointers of an inode (12)
  WORDS,             \* words of a block: pointers of an indirect block (256)
  DIR_SPACE,         \* units of a directory block
  MAX_LINKS,         \* 65535
  Names, Need,       \* file names, and the units that a record of each needs
  Texts,             \* what may be written
  Parents            \* paths of directories in which operations work

ROOT_INO == 2
Dots == {".", ".."}
Size(name) == IF name \in Dots THEN 1 ELSE Need[name]
GROUPS == (BLOCKS - 2) \div BLOCKS_PER_GROUP + 1
Groups == 0 .. GROUPS - 1
Inodes == 1 .. GROUPS * INODES_PER_GROUP
Blocks == 1 .. BLOCKS - 1
Slots == 0 .. DIRECT + WORDS - 1
MAX_FILE == (DIRECT + WORDS) * WORDS

ASSUME TreeAssumption ==
  /\ BLOCKS_PER_GROUP \in Nat \ {0} /\ INODES_PER_GROUP \in Nat \ {0}
  /\ META \in Nat /\ META < BLOCKS_PER_GROUP /\ BLOCKS \in Nat /\ BLOCKS > META + 1
  /\ FIRST_INODE \in 3 .. INODES_PER_GROUP + 1
  /\ DIRECT \in Nat \ {0} /\ WORDS \in Nat \ {0} /\ DIR_SPACE \in Nat /\ DIR_SPACE >= 2
  /\ IsFiniteSet(Names) /\ Names \cap Dots = {} /\ Need \in [Names -> 1 .. DIR_SPACE]
  /\ \A t \in Texts : t \in Seq(Range(t)) /\ Len(t) <= MAX_FILE
  /\ MAX_LINKS \in Nat

VARIABLE vol
treeVars == <<vol>>

-----------------------------------------------------------------------------
(* Layout *)

GroupStart(g) == 1 + g * BLOCKS_PER_GROUP
GroupSize(g) ==
  IF BLOCKS - GroupStart(g) < BLOCKS_PER_GROUP
  THEN BLOCKS - GroupStart(g) ELSE BLOCKS_PER_GROUP
GroupOf(k, n) ==
  (n - 1) \div (IF k = "inode" THEN INODES_PER_GROUP ELSE BLOCKS_PER_GROUP)
DataBlock(b) == b \in Blocks /\ b - GroupStart(GroupOf("block", b)) >= META

(* The numbers allocate looks at in group g *)
Candidates(k, g) ==
  IF k = "inode"
  THEN g * INODES_PER_GROUP + (IF g = 0 THEN FIRST_INODE ELSE 1) .. (g + 1) * INODES_PER_GROUP
  ELSE GroupStart(g) .. GroupStart(g) + GroupSize(g) - 1

ZeroBlock == [w \in 0 .. WORDS - 1 |-> 0]
Junk == [w \in 0 .. WORDS - 1 |-> -1]
ZeroNode == [mode |-> "none", links |-> 0, size |-> 0, blocks |-> 0,
             direct |-> [i \in 0 .. DIRECT - 1 |-> 0], indirect |-> 0]

Record(ino, len, name) == [ino |-> ino, len |-> len, name |-> name]
DotRecords(n, parent) == <<Record(n, 1, "."), Record(parent, DIR_SPACE - 1, "..")>>

Failed(V) == [V EXCEPT !.ok = FALSE]

(* s[1] + ... + s[n] *)
SumTo(s, n) ==
  LET sum[j \in 0 .. n] == IF j = 0 THEN 0 ELSE sum[j - 1] + s[j] IN sum[n]

-----------------------------------------------------------------------------
(* Bitmaps and counts *)

Take(V, k, g, n) ==
  IF V.sb[k] = 0 \/ (k = "block" /\ ~DataBlock(n)) THEN Failed(V)
  ELSE [V EXCEPT !.used[k] = @ \cup {n}, !.sb[k] = @ - 1, !.gd[g][k] = @ - 1,
                 !.hint[k] = g, !.ret = n,
                 !.node = IF k = "inode" THEN [@ EXCEPT ![n] = ZeroNode] ELSE @,
                 !.data = IF k = "block" THEN [@ EXCEPT ![n] = ZeroBlock] ELSE @]

(* An empty spare is a count and a bitmap that disagree: taken for corruption. *)
TakeFirst(V, k, g, spare) == IF spare = {} THEN Failed(V) ELSE Take(V, k, g, Min(spare))
AllocateIn(V, k, g) == TakeFirst(V, k, g, Candidates(k, g) \ V.used[k])

(* The first group from the hint on that has something free *)
Allocate(V, k) ==
  LET rich == {s \in Groups : V.gd[(V.hint[k] + s) % GROUPS][k] # 0}
  IN IF rich = {} THEN Failed(V) ELSE AllocateIn(V, k, (V.hint[k] + Min(rich)) % GROUPS)

Release(V, k, n) ==
  [V EXCEPT !.used[k] = @ \ {n}, !.sb[k] = @ + 1, !.gd[GroupOf(k, n)][k] = @ + 1,
            !.data = IF k = "block" THEN [@ EXCEPT ![n] = Junk] ELSE @]

-----------------------------------------------------------------------------
(* Inodes *)

FileBlock(V, n, i) ==
  LET node == V.node[n]
  IN IF i < DIRECT THEN node.direct[i]
     ELSE IF node.indirect = 0 THEN 0 ELSE V.data[node.indirect][i - DIRECT]

Mapped(V, n) == {i \in Slots : FileBlock(V, n, i) # 0}
Indirect(V, n) == {V.node[n].indirect} \ {0}
Held(V, n) == {FileBlock(V, n, i) : i \in Mapped(V, n)} \cup Indirect(V, n)

(* supported: the checks before an inode is used; holes are allowed in files. *)
Supported(V, n, type) ==
  /\ n \in V.used["inode"]
  /\ V.node[n].mode = type
  /\ LET held == Held(V, n)
     IN /\ \A b \in held : DataBlock(b) /\ b \in V.used["block"]
        /\ Cardinality(held) = Cardinality(Mapped(V, n)) + Cardinality(Indirect(V, n))
        /\ V.node[n].blocks = Cardinality(held)
  /\ V.node[n].links # 0
  /\ type = "file" => V.node[n].size <= MAX_FILE
  /\ type = "dir" => /\ V.node[n].size \in 1 .. DIRECT
                     /\ V.node[n].indirect = 0
                     /\ \A i \in 0 .. V.node[n].size - 1 : V.node[n].direct[i] # 0

(* engine_read of the whole file *)
Contents(V, n) ==
  [k \in 1 .. V.node[n].size |->
     LET b == FileBlock(V, n, (k - 1) \div WORDS)
     IN IF b = 0 THEN 0 ELSE V.data[b][(k - 1) % WORDS]]

-----------------------------------------------------------------------------
(* Directories *)

(* The places of records in directory d: <<index of the block, of the record>> *)
Places(V, d) ==
  UNION {{i} \X DOMAIN V.data[V.node[d].direct[i]] : i \in 0 .. V.node[d].size - 1}
At(V, d, p) == V.data[V.node[d].direct[p[1]]][p[2]]
First(S) == CHOOSE p \in S : \A q \in S : p[1] < q[1] \/ (p[1] = q[1] /\ p[2] <= q[2])
Hits(V, d, name) ==
  {p \in Places(V, d) : At(V, d, p).ino # 0 /\ At(V, d, p).name = name}

(* The inode, -1 if there is no such name, -2 if d cannot be searched.     *)
(* That the records fill the block, which record() checks, is part of      *)
(* TreeSound.                                                              *)
InodeAt(V, d, hits) == IF hits = {} THEN -1 ELSE At(V, d, First(hits)).ino
Lookup(V, d, name) ==
  IF Supported(V, d, "dir") THEN InodeAt(V, d, Hits(V, d, name)) ELSE -2

LookupPath(V, path) ==
  FoldLeft(LAMBDA d, name : IF d > 0 THEN Lookup(V, d, name) ELSE -1, ROOT_INO, path)

RecordsOf(V, d, i) == V.data[V.node[d].direct[i]]
SetRecords(V, d, i, records) == [V EXCEPT !.data[V.node[d].direct[i]] = records]

(* put32(e, 0): the record keeps its length; its name, which nobody reads  *)
(* any more, is left out.                                                  *)
EraseAt(V, d, p) ==
  SetRecords(V, d, p[1], [RecordsOf(V, d, p[1]) EXCEPT ![p[2]] = Record(0, @.len, "")])
Erase(V, d, name) == EraseAt(V, d, First(Hits(V, d, name)))

Used(e) == IF e.ino = 0 THEN 0 ELSE Size(e.name)

(* The new record takes what e does not use, or the place of an erased e. *)
Split(e, name, ino) ==
  (IF e.ino = 0 THEN <<>> ELSE <<[e EXCEPT !.len = Used(e)]>>)
  \o <<Record(ino, e.len - Used(e), name)>>

SplitAt(V, d, p, name, ino) ==
  LET records == RecordsOf(V, d, p[1])
  IN SetRecords(V, d, p[1], SubSeq(records, 1, p[2] - 1) \o Split(records[p[2]], name, ino)
                            \o SubSeq(records, p[2] + 1, Len(records)))

(* A is the volume after the allocation of a further block for d. *)
Extend(A, d, name, ino) ==
  IF ~A.ok THEN A
  ELSE [A EXCEPT !.node[d].direct[A.node[d].size] = A.ret, !.node[d].size = @ + 1,
                 !.node[d].blocks = @ + 1,
                 !.data[A.ret] = <<Record(ino, DIR_SPACE, name)>>]

InsertInto(V, d, name, ino, room) ==
  IF room # {} THEN SplitAt(V, d, First(room), name, ino)
  ELSE IF V.node[d].size = DIRECT THEN Failed(V)
  ELSE Extend(Allocate(V, "block"), d, name, ino)

Insert(V, d, name, ino) ==
  IF ~V.ok THEN V
  ELSE IF Lookup(V, d, name) # -1 THEN Failed(V)
  ELSE InsertInto(V, d, name, ino,
         {p \in Places(V, d) : At(V, d, p).len - Used(At(V, d, p)) >= Size(name)})

-----------------------------------------------------------------------------
(* Files and directories come and go *)

(* Mutant of MakeDots: the directory is counted in the group of its parent. *)
MakeDotsParentGroup(A, d, n) ==
  IF ~A.ok \/ A.node[d].links = MAX_LINKS THEN Failed(A)
  ELSE [A EXCEPT !.node[n].size = 1, !.node[n].blocks = 1, !.node[n].direct[0] = A.ret,
                 !.data[A.ret] = DotRecords(n, d),
                 !.node[d].links = @ + 1,
                 !.gd[GroupOf("inode", d)]["dirs"] = @ + 1]

(* A is the volume after the allocation of the first block of directory n. *)
MakeDots(A, d, n) ==
  IF ~A.ok \/ A.node[d].links = MAX_LINKS THEN Failed(A)
  ELSE [A EXCEPT !.node[n].size = 1, !.node[n].blocks = 1, !.node[n].direct[0] = A.ret,
                 !.data[A.ret] = DotRecords(n, d),
                 !.node[d].links = @ + 1,
                 !.gd[GroupOf("inode", n)]["dirs"] = @ + 1]

(* A is the volume after the allocation of inode n. *)
Populate(A, d, name, type, n) ==
  LET N == [A EXCEPT !.node[n].mode = type, !.node[n].links = IF type = "dir" THEN 2 ELSE 1]
  IN IF ~A.ok THEN A
     ELSE Insert(IF type = "dir" THEN MakeDots(Allocate(N, "block"), d, n) ELSE N, d, name, n)

CreateWith(A, d, name, type) == Populate(A, d, name, type, A.ret)
Create(V, d, name, type) ==
  IF Lookup(V, d, name) # -1 THEN Failed(V)
  ELSE CreateWith(Allocate(V, "inode"), d, name, type)

FreeSlot(V, n, i, b) ==
  LET R == [Release(V, "block", b) EXCEPT !.node[n].blocks = @ - 1]
  IN IF b = 0 THEN V
     ELSE IF i < DIRECT THEN [R EXCEPT !.node[n].direct[i] = 0]
     ELSE [R EXCEPT !.data[V.node[n].indirect][i - DIRECT] = 0]
ReleaseSlot(V, n, i) == FreeSlot(V, n, i, FileBlock(V, n, i))

(* Mutant of FreeIndirect: the indirect block stays with a file that needs *)
(* none, and leaks when the inode is cleared.                              *)
FreeIndirectKept(V, n, keep) == V

FreeIndirect(V, n, keep) ==
  IF keep > DIRECT \/ V.node[n].indirect = 0 THEN V
  ELSE [Release(V, "block", V.node[n].indirect) EXCEPT !.node[n].indirect = 0,
                                                      !.node[n].blocks = @ - 1]

TruncateBlocks(V, n, keep) ==
  LET cut[i \in 0 .. DIRECT + WORDS] ==
        IF i <= keep THEN V ELSE ReleaseSlot(cut[i - 1], n, i - 1)
  IN FreeIndirect(cut[DIRECT + WORDS], n, keep)

(* file_slot with create_block; A and B are volumes after an allocation. *)
AttachIndirect(A, n) ==
  IF ~A.ok THEN A ELSE [A EXCEPT !.node[n].indirect = A.ret, !.node[n].blocks = @ + 1]
NeedIndirect(V, n, i) ==
  IF i < DIRECT \/ V.node[n].indirect # 0 THEN V ELSE AttachIndirect(Allocate(V, "block"), n)

AttachBlock(B, n, i) ==
  IF ~B.ok THEN B
  ELSE IF i < DIRECT
  THEN [B EXCEPT !.node[n].blocks = @ + 1, !.node[n].direct[i] = B.ret]
  ELSE [B EXCEPT !.node[n].blocks = @ + 1, !.data[B.node[n].indirect][i - DIRECT] = B.ret]
NeedBlock(V, n, i) ==
  IF ~V.ok \/ FileBlock(V, n, i) # 0 THEN V ELSE AttachBlock(Allocate(V, "block"), n, i)

(* memcpy of the part of text, which begins at offset, that lies in block i *)
CopyChunk(V, n, i, offset, text) ==
  IF ~V.ok THEN V
  ELSE [V EXCEPT !.data[FileBlock(V, n, i)] =
          [w \in 0 .. WORDS - 1 |->
             IF i * WORDS + w \in offset .. offset + Len(text) - 1
             THEN text[i * WORDS + w - offset + 1] ELSE @[w]]]

WriteBlock(V, n, i, offset, text) ==
  IF ~V.ok THEN V ELSE CopyChunk(NeedBlock(NeedIndirect(V, n, i), n, i), n, i, offset, text)

GrowTo(V, n, end) ==
  IF V.ok /\ end > V.node[n].size THEN [V EXCEPT !.node[n].size = end] ELSE V

WriteRange(V, n, offset, text) ==
  LET end == offset + Len(text)
      first == offset \div WORDS
      last == IF text = <<>> THEN first ELSE (end - 1) \div WORDS + 1
      put[i \in 0 .. last] ==
        IF i <= first THEN V ELSE WriteBlock(put[i - 1], n, i - 1, offset, text)
  IN GrowTo(put[last], n, end)

(* Mutant of CutAt: a shorter text leaves the old size. *)
CutAtOldSize(V, n, size) == V

(* The end of write_file: zeros behind the last unit, and the size *)
CutAt(V, n, size) ==
  IF ~V.ok THEN V
  ELSE IF size % WORDS = 0 THEN [V EXCEPT !.node[n].size = size]
  ELSE [V EXCEPT !.node[n].size = size,
                 !.data[FileBlock(V, n, size \div WORDS)] =
                   [w \in 0 .. WORDS - 1 |-> IF w < size % WORDS THEN @[w] ELSE 0]]

(* Mutant of Rewrite: new blocks are taken before old ones are given back. *)
RewriteThenTruncate(V, n, text) ==
  IF ~V.ok \/ n <= 0 THEN Failed(V)
  ELSE IF ~Supported(V, n, "file") THEN Failed(V)
  ELSE LET W == WriteRange(V, n, 0, text)
       IN IF ~W.ok THEN W
          ELSE CutAt(TruncateBlocks(W, n, (Len(text) + WORDS - 1) \div WORDS), n, Len(text))

Rewrite(V, n, text) ==
  IF ~V.ok \/ n <= 0 THEN Failed(V)
  ELSE IF ~Supported(V, n, "file") THEN Failed(V)
  ELSE CutAt(WriteRange(TruncateBlocks(V, n, (Len(text) + WORDS - 1) \div WORDS), n, 0, text),
             n, Len(text))

WriteNamed(V, d, name, text) == Rewrite(V, Lookup(V, d, name), text)
WriteFile(V, d, name, text) ==
  IF Len(text) > MAX_FILE THEN Failed(V)
  ELSE WriteNamed(IF Lookup(V, d, name) = -1 THEN Create(V, d, name, "file") ELSE V,
                  d, name, text)

AppendNode(V, n, text) ==
  IF n <= 0 THEN Failed(V)
  ELSE IF ~Supported(V, n, "file") \/ Len(text) > MAX_FILE - V.node[n].size THEN Failed(V)
  ELSE WriteRange(V, n, V.node[n].size, text)
AppendFile(V, d, name, text) ==
  IF Lookup(V, d, name) = -1 THEN WriteFile(V, d, name, text)
  ELSE AppendNode(V, Lookup(V, d, name), text)

CopyNode(V, d, n, name) ==
  IF n <= 0 THEN Failed(V)
  ELSE IF ~Supported(V, n, "file") \/ Lookup(V, d, name) # -1 THEN Failed(V)
  ELSE WriteFile(V, d, name, Contents(V, n))
CopyFile(V, d, source, name) == CopyNode(V, d, Lookup(V, d, source), name)

MoveNode(V, d, source, n, name) ==
  IF n <= 0 THEN Failed(V)
  ELSE IF ~(\E type \in {"file", "dir"} : Supported(V, n, type)) THEN Failed(V)
  ELSE IF Lookup(V, d, name) # -1 THEN Failed(V)
  ELSE Insert(Erase(V, d, source), d, name, n)
MoveEntry(V, d, source, name) == MoveNode(V, d, source, Lookup(V, d, source), name)

(* The last part of remove_node: the inode goes when no name is left. *)
FreeInode(V, n) == Release([V EXCEPT !.node[n] = ZeroNode], "inode", n)
DropLink(V, n, links) ==
  IF links # 0 THEN [V EXCEPT !.node[n].links = links]
  ELSE FreeInode(TruncateBlocks(V, n, 0), n)

RemoveFileNode(V, d, n, name) ==
  IF n < FIRST_INODE THEN Failed(V)
  ELSE IF ~Supported(V, n, "file") THEN Failed(V)
  ELSE DropLink(Erase(V, d, name), n, V.node[n].links - 1)
RemoveFile(V, d, name) == RemoveFileNode(V, d, Lookup(V, d, name), name)

EmptyDirectory(V, n) ==
  \A p \in Places(V, n) : At(V, n, p).ino = 0 \/ At(V, n, p).name \in Dots

(* Mutant of RemoveDirectoryNode: the parent keeps the link of "..". *)
RemoveDirectoryLink(V, d, n, name) ==
  IF n < FIRST_INODE THEN Failed(V)
  ELSE IF ~Supported(V, n, "dir") \/ V.node[n].links # 2 THEN Failed(V)
  ELSE IF ~EmptyDirectory(V, n) THEN Failed(V)
  ELSE DropLink(Erase([V EXCEPT !.gd[GroupOf("inode", n)]["dirs"] = @ - 1], d, name), n, 0)

RemoveDirectoryNode(V, d, n, name) ==
  IF n < FIRST_INODE THEN Failed(V)
  ELSE IF ~Supported(V, n, "dir") \/ V.node[n].links # 2 THEN Failed(V)
  ELSE IF ~EmptyDirectory(V, n) THEN Failed(V)
  ELSE DropLink(Erase([V EXCEPT !.node[d].links = @ - 1,
                                !.gd[GroupOf("inode", n)]["dirs"] = @ - 1], d, name), n, 0)
RemoveDirectory(V, d, name) == RemoveDirectoryNode(V, d, Lookup(V, d, name), name)

-----------------------------------------------------------------------------
(* fs_format_selected, and a volume filled by another system *)

Formatted ==
  LET root == GroupStart(0) + META
      meta == {b \in Blocks : ~DataBlock(b)}
      busy == meta \cup {root}
      free(k, g) == Cardinality(Candidates(k, g) \
                                (IF k = "block" THEN busy ELSE {}))
  IN [ok |-> TRUE, ret |-> 0, hint |-> [k \in {"block", "inode"} |-> 0],
      used |-> [k \in {"block", "inode"} |-> IF k = "block" THEN busy ELSE 1 .. FIRST_INODE - 1],
      sb |-> [k \in {"block", "inode"} |->
                IF k = "block" THEN SumTo([g \in 1 .. GROUPS |-> free("block", g - 1)], GROUPS)
                ELSE Cardinality(Inodes) - (FIRST_INODE - 1)],
      gd |-> [g \in Groups |-> [k \in {"block", "inode", "dirs"} |->
                IF k = "dirs" THEN (IF g = 0 THEN 1 ELSE 0) ELSE free(k, g)]],
      node |-> [n \in Inodes |-> IF n # ROOT_INO THEN ZeroNode
                  ELSE [ZeroNode EXCEPT !.mode = "dir", !.links = 2, !.size = 1, !.blocks = 1,
                                        !.direct[0] = root]],
      data |-> [b \in Blocks |-> IF b = root THEN DotRecords(ROOT_INO, ROOT_INO) ELSE Junk]]

(* A sparse file with two names, as another system may leave it: its first *)
(* block is a hole.                                                        *)
HostVolume(a, b, text) ==
  LET W == WriteFile(Formatted, ROOT_INO, a, text)
      n == Lookup(W, ROOT_INO, a)
      H == [W EXCEPT !.data[FileBlock(W, n, 0)] = ZeroBlock]
      L == Insert(ReleaseSlot(H, n, 0), ROOT_INO, b, n)
  IN [L EXCEPT !.node[n].links = 2, !.ret = 0, !.hint = Formatted.hint]

TreeInit ==
  \/ vol = Formatted
  \/ \E a, b \in Names, t \in Texts : a # b /\ Len(t) > WORDS /\ vol = HostVolume(a, b, t) /\ vol.ok

-----------------------------------------------------------------------------
(* The operations: begin, the work in memory, finish *)

FinishWith(W) ==
  vol' = [IF W.ok THEN W ELSE [vol EXCEPT !.hint = W.hint] EXCEPT !.ok = TRUE, !.ret = 0]

(* The directories that engine_cd and engine_write find for a path *)
WorkDirs ==
  {d \in {LookupPath(vol, p) : p \in Parents} : d > 0 /\ Supported(vol, d, "dir")}

Touch(d, a) == \E W \in {Create(vol, d, a, "file")} : FinishWith(W)
Mkdir(d, a) == \E W \in {Create(vol, d, a, "dir")} : FinishWith(W)
Write(d, a, t) == \E W \in {WriteFile(vol, d, a, t)} : FinishWith(W)
AppendTo(d, a, t) == \E W \in {AppendFile(vol, d, a, t)} : FinishWith(W)
Cp(d, a, b) == \E W \in {CopyFile(vol, d, a, b)} : FinishWith(W)
Mv(d, a, b) == \E W \in {MoveEntry(vol, d, a, b)} : FinishWith(W)
Rm(d, a) == \E W \in {RemoveFile(vol, d, a)} : FinishWith(W)
Rmdir(d, a) == \E W \in {RemoveDirectory(vol, d, a)} : FinishWith(W)

(* engine_init on a volume that was committed: the checks and the new hints *)
Mountable(V) ==
  /\ \A g \in Groups : V.gd[g]["block"] <= GroupSize(g) /\ V.gd[g]["inode"] <= INODES_PER_GROUP
  /\ \A k \in {"block", "inode"} :
       V.sb[k] = SumTo([g \in 1 .. GROUPS |-> V.gd[g - 1][k]], GROUPS)
  /\ {b \in Blocks : ~DataBlock(b)} \subseteq V.used["block"]
  /\ 1 .. FIRST_INODE - 1 \subseteq V.used["inode"]
  /\ Lookup(V, ROOT_INO, ".") = ROOT_INO
  /\ Lookup(V, ROOT_INO, "..") = ROOT_INO

Remount ==
  /\ Mountable(vol)
  /\ vol' = [vol EXCEPT !.hint = Formatted.hint]

TreeNext ==
  \/ \E d \in WorkDirs, a \in Names : Touch(d, a) \/ Mkdir(d, a) \/ Rm(d, a) \/ Rmdir(d, a)
  \/ \E d \in WorkDirs, a \in Names, t \in Texts : Write(d, a, t) \/ AppendTo(d, a, t)
  \/ \E d \in WorkDirs, a, b \in Names : Cp(d, a, b) \/ Mv(d, a, b)
  \/ Remount

TreeSpec == TreeInit /\ [][TreeNext]_treeVars

-----------------------------------------------------------------------------
(* What the engine must keep *)

LiveOf(type) == {n \in vol.used["inode"] : vol.node[n].mode = type}
LiveNodes == LiveOf("file") \cup LiveOf("dir")
EntriesOf(d) == {p \in Places(vol, d) : At(vol, d, p).ino # 0}
NamesOf(d) == {p \in EntriesOf(d) : At(vol, d, p).name \notin Dots}

(* The block bitmap marks the metadata and what some inode points to, and   *)
(* no block is pointed to twice: nothing is leaked or shared after any      *)
(* sequence of writes, truncations and failures (allocate, release,         *)
(* truncate_blocks, write_range, insert).                                   *)
BlocksExact ==
  /\ vol.used["block"] =
       {b \in Blocks : ~DataBlock(b)} \cup UNION {Held(vol, n) : n \in LiveNodes}
  /\ \A n \in LiveNodes : Supported(vol, n, vol.node[n].mode)
  /\ \A m, n \in LiveNodes : m # n => Held(vol, m) \cap Held(vol, n) = {}

(* The free counts of the superblock and of each group agree with the       *)
(* bitmaps, and the directory count of a group with its inodes, so that     *)
(* allocate never meets the mismatch it takes for corruption and the        *)
(* volume can be mounted again.                                             *)
CountsExact ==
  /\ Mountable(vol)
  /\ \A g \in Groups :
       /\ \A k \in {"block", "inode"} :
            vol.gd[g][k] = Cardinality(Candidates(k, g) \ vol.used[k])
       /\ vol.gd[g]["dirs"] =
            Cardinality({n \in LiveOf("dir") : GroupOf("inode", n) = g})

(* Bitmaps, pointers and free counts agree. *)
AllocationExact == BlocksExact /\ CountsExact

(* What is in every set that has the root and all that its directories name *)
Reachable ==
  LET below == [d \in LiveOf("dir") |-> {At(vol, d, p).ino : p \in NamesOf(d)}]
      closed == {S \in SUBSET Inodes : ROOT_INO \in S /\ \A d \in DOMAIN below \cap S : below[d] \subseteq S}
  IN {n \in Inodes : \A S \in closed : n \in S}

(* The directories are a tree whose records fill their blocks and whose     *)
(* names are unique; every inode in use is reachable; link counts are the   *)
(* names of a file, or two and the subdirectories of a directory; "." and   *)
(* ".." are right (create, insert, engine_mv, remove_node).                 *)
TreeSound ==
  /\ vol.used["inode"] = 1 .. FIRST_INODE - 1 \cup Reachable
  /\ \A d \in LiveOf("dir") :
       /\ \A i \in 0 .. vol.node[d].size - 1 :
            LET records == vol.data[vol.node[d].direct[i]]
            IN /\ SumTo([j \in DOMAIN records |-> records[j].len], Len(records)) = DIR_SPACE
               /\ \A j \in DOMAIN records : Used(records[j]) <= records[j].len
       /\ \A p, q \in EntriesOf(d) : At(vol, d, p).name = At(vol, d, q).name => p = q
       /\ Lookup(vol, d, ".") = d
       /\ \A p \in NamesOf(d) : At(vol, d, p).ino \in LiveOf("dir") =>
            Lookup(vol, At(vol, d, p).ino, "..") = d
       /\ vol.node[d].links = 2 + Cardinality({p \in NamesOf(d) : At(vol, d, p).ino \in LiveOf("dir")})
  /\ \A f \in LiveOf("file") : vol.node[f].links =
       Cardinality(UNION {{d} \X {p \in NamesOf(d) : At(vol, d, p).ino = f} : d \in LiveOf("dir")})

(* A file can always be replaced by contents that need no more blocks than  *)
(* it holds, however full the volume is: write_file gives blocks back       *)
(* before it takes new ones, and no count stands in the way.                *)
OverwriteFits ==
  \A d \in WorkDirs, a \in Names, t \in Texts :
    LET n == Lookup(vol, d, a)
        blocks == (Len(t) + WORDS - 1) \div WORDS
    IN /\ n > 0
       /\ vol.node[n].mode = "file"
       /\ blocks + (IF blocks > DIRECT THEN 1 ELSE 0) <= vol.node[n].blocks
       => WriteFile(vol, d, a, t).ok

LiveDirs == LiveOf("dir")
LiveEntries ==
  UNION {{<<d, At(vol, d, p).name, At(vol, d, p).ino>> : p \in NamesOf(d)} : d \in LiveDirs}
LiveText == [n \in LiveOf("file") |-> Contents(vol, n)]
Abstract == INSTANCE FileTree WITH
  Nodes <- Inodes, Root <- ROOT_INO, dirs <- LiveDirs, entries <- LiveEntries, text <- LiveText

(* The engine implements the tree of files: every call changes the entry it *)
(* names and the contents it is given, or nothing; a file reads back what   *)
(* was written to it, whatever blocks were freed and used again since.      *)
FileTreeRefined == Abstract!Spec

=============================================================================
