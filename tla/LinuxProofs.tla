----------------------------- MODULE LinuxProofs -----------------------------
(***************************************************************************)
(* The Linux layer for every number of slots and descriptors, every pipe   *)
(* size and every program.  Descriptors and pipes are counted exactly      *)
(* under any caller; no wakeup is lost, exactly one task runs, pids are    *)
(* unique, orphans have a living parent and the root keeps its slot; and   *)
(* the scheduler keeps to what the descriptor layer asks of it, so what is *)
(* shown of the tables holds of every schedule.  Last, the bytes of one    *)
(* pipe: the ring is a stream in which no write is torn (PipeRing).        *)
(***************************************************************************)
EXTENDS LinuxTask, PipeRing, SequenceTheorems, FiniteSetTheorems, LeastNumber, TLAPS

---------------------------------------------------------------------------
(* Descriptors and pipes: the tables of linux_syscall.c                    *)

Ios == [active : BOOLEAN, writing : BOOLEAN, fd : Fds, length : Nat, total : Nat]
TablesOK == [Tasks -> [Fds -> Descriptions \cup {None}]]
FlagsOK == [Tasks -> [Fds -> BOOLEAN]]

FilesTypeOK ==
  /\ task_files \in TablesOK
  /\ task_flags \in FlagsOK
  /\ file_task \in Tasks
  /\ refs \in [Descriptions -> Nat]
  /\ pipe \in [Descriptions -> Pipes \cup {None}]
  /\ writes \in [Descriptions -> BOOLEAN]
  /\ nonblock \in [Descriptions -> BOOLEAN]
  /\ readers \in [Pipes -> Nat]
  /\ writers \in [Pipes -> Nat]
  /\ used \in [Pipes -> 0..PIPE_SIZE]
  /\ pending_io \in [Tasks -> Ios]

FilesInv == FilesTypeOK /\ RefsExact /\ EndsExact /\ PendingOnPipe

---------------------------------------------------------------------------
(* Sets that are counted                                                   *)

\* The tables are finite; every set of references or descriptions is.
LEMMA FilesFinite ==
  /\ IsFiniteSet(Tasks) /\ IsFiniteSet(Fds) /\ IsFiniteSet(Descriptions) /\ IsFiniteSet(Pipes)
  /\ IsFiniteSet(Tasks \X Fds)
  /\ Cardinality(Tasks \X Fds) = Cardinality(Descriptions)
  /\ \A d : IsFiniteSet(References(d))
  /\ \A p : IsFiniteSet(ReadEnds(p)) /\ IsFiniteSet(WriteEnds(p))
<1>1. /\ LINUX_TASK_LIMIT \in Nat /\ LINUX_TASK_LIMIT > 0 /\ FD_COUNT \in Nat /\ FD_COUNT > 0
      /\ PIPE_COUNT \in Nat
  BY FilesAssumption
<1>2. IsFiniteSet(Tasks) /\ Cardinality(Tasks) = LINUX_TASK_LIMIT
  <2>1. LINUX_TASK_LIMIT - 1 \in Int /\ ~(0 > LINUX_TASK_LIMIT - 1)
    BY <1>1
  <2> QED BY <1>1, <2>1, FS_Interval DEF Tasks
<1>3. IsFiniteSet(Fds) /\ Cardinality(Fds) = FD_COUNT
  <2>1. FD_COUNT - 1 \in Int /\ ~(0 > FD_COUNT - 1)
    BY <1>1
  <2> QED BY <1>1, <2>1, FS_Interval DEF Fds
<1>4. IsFiniteSet(Descriptions) /\ Cardinality(Descriptions) = FD_COUNT * LINUX_TASK_LIMIT
  <2> DEFINE n == FD_COUNT * LINUX_TASK_LIMIT
  <2>1. n \in Nat /\ n > 0
    BY <1>1
  <2> HIDE DEF n
  <2>2. n - 1 \in Int /\ ~(0 > n - 1)
    BY <2>1
  <2>3. Descriptions = 0..(n - 1)
    BY DEF Descriptions, n
  <2>4. IsFiniteSet(Descriptions) /\ Cardinality(Descriptions) = n
    BY <2>1, <2>2, <2>3, FS_Interval
  <2> QED BY <2>4 DEF n
<1>5. IsFiniteSet(Pipes)
  <2>1. PIPE_COUNT - 1 \in Int
    BY <1>1
  <2> QED BY <2>1, FS_Interval DEF Pipes
<1>6. IsFiniteSet(Tasks \X Fds) /\ Cardinality(Tasks \X Fds) = LINUX_TASK_LIMIT * FD_COUNT
  BY <1>2, <1>3, FS_Product
<1>7. LINUX_TASK_LIMIT * FD_COUNT = FD_COUNT * LINUX_TASK_LIMIT
  BY <1>1
<1>8. \A d : IsFiniteSet(References(d))
  <2>1. \A d : References(d) \in SUBSET (Tasks \X Fds)
    BY DEF References
  <2> QED BY <1>6, <2>1, FS_Subset
<1>9. \A p : IsFiniteSet(ReadEnds(p)) /\ IsFiniteSet(WriteEnds(p))
  <2>1. \A p : ReadEnds(p) \in SUBSET Descriptions /\ WriteEnds(p) \in SUBSET Descriptions
    BY DEF ReadEnds, WriteEnds
  <2> QED BY <1>4, <2>1, FS_Subset
<1> QED BY <1>2, <1>3, <1>4, <1>5, <1>6, <1>7, <1>8, <1>9

\* With exact counts a description is in use exactly when a table entry
\* points at it.
LEMMA RefsPositive ==
  RefsExact => \A d \in Descriptions : refs[d] \in Nat /\ (refs[d] > 0 <=> References(d) # {})
<1> SUFFICES ASSUME RefsExact, NEW d \in Descriptions
             PROVE  refs[d] \in Nat /\ (refs[d] > 0 <=> References(d) # {})
  OBVIOUS
<1>1. IsFiniteSet(References(d)) /\ refs[d] = Cardinality(References(d))
  BY FilesFinite DEF RefsExact
<1> QED BY <1>1, FS_CardinalityType, FS_EmptySet

EntriesInUse ==
  \A s \in Tasks, fd \in Fds : task_files[s][fd] # None =>
    task_files[s][fd] \in Descriptions /\ refs[task_files[s][fd]] > 0

\* An entry of a table is a reference, so what it points at is in use.
LEMMA EntryInUse == FilesTypeOK /\ RefsExact => EntriesInUse
<1> USE DEF EntriesInUse
<1> SUFFICES ASSUME FilesTypeOK, RefsExact, NEW s \in Tasks, NEW fd \in Fds,
                    task_files[s][fd] # None
             PROVE  task_files[s][fd] \in Descriptions /\ refs[task_files[s][fd]] > 0
  OBVIOUS
<1>1. task_files[s][fd] \in Descriptions
  BY DEF FilesTypeOK, TablesOK
<1>2. <<s, fd>> \in References(task_files[s][fd])
  BY DEF References
<1> QED BY <1>1, <1>2, RefsPositive

\* A blocked transfer stays possible as long as its own entry does and ends
\* in use keep their pipe and direction.
LEMMA PendingKept ==
  ASSUME FilesInv, FilesTypeOK', RefsExact',
         \A s \in Tasks : pending_io'[s].active =>
           /\ pending_io'[s] = pending_io[s]
           /\ task_files'[s][pending_io[s].fd] = task_files[s][pending_io[s].fd],
         \A d \in Descriptions : refs'[d] > 0 /\ refs[d] > 0 =>
           pipe'[d] = pipe[d] /\ writes'[d] = writes[d]
  PROVE  PendingOnPipe'
<1> SUFFICES ASSUME NEW s \in Tasks, pending_io'[s].active
             PROVE  /\ Transferable(s, pending_io[s].fd, pending_io[s].writing)'
                    /\ pending_io'[s].total < pending_io'[s].length
  BY DEF PendingOnPipe
<1> DEFINE fd == pending_io[s].fd
           d == task_files[s][fd]
<1>1. /\ pending_io'[s] = pending_io[s] /\ pending_io[s].active /\ task_files'[s][fd] = d
  OBVIOUS
<1>2. pending_io[s] \in Ios /\ fd \in Fds
  BY DEF FilesInv, FilesTypeOK, Ios
<1>3. /\ d # None /\ pipe[d] # None /\ writes[d] = pending_io[s].writing
      /\ pending_io[s].total < pending_io[s].length
  BY <1>1 DEF FilesInv, PendingOnPipe, Transferable
<1>4. d \in Descriptions /\ refs[d] > 0
  BY <1>2, <1>3, EntryInUse DEF FilesInv, EntriesInUse
<1>5. refs'[d] > 0
  <2>1. EntriesInUse'
    BY EntryInUse, PTL
  <2> QED BY <1>1, <1>2, <1>3, <2>1 DEF EntriesInUse
<1> HIDE DEF fd, d
<1>6. pipe'[d] = pipe[d] /\ writes'[d] = writes[d]
  BY <1>4, <1>5
<1> QED BY <1>1, <1>3, <1>6 DEF Transferable, fd, d

---------------------------------------------------------------------------
(* close_fd                                                                *)

CountOK == FilesTypeOK /\ RefsExact /\ EndsExact

\* What is dropped of a description is part of its references.
LEMMA DroppedCount ==
  ASSUME CountOK, NEW R \in SUBSET (Tasks \X Fds), NEW d \in Descriptions
  PROVE  /\ Dropped(R, d) = Cardinality(R \cap References(d))
         /\ Dropped(R, d) \in Nat /\ Dropped(R, d) <= refs[d]
         /\ Dropped(R, d) > 0 <=> R \cap References(d) # {}
         /\ refs[d] - Dropped(R, d) = Cardinality(References(d) \ R)
<1>1. {r \in R : task_files[r[1]][r[2]] = d} = R \cap References(d)
  BY DEF References
<1>2. IsFiniteSet(References(d)) /\ refs[d] = Cardinality(References(d))
  BY FilesFinite DEF CountOK, RefsExact
<1>3. IsFiniteSet(R \cap References(d)) /\ Cardinality(R \cap References(d)) <= refs[d]
  BY <1>2, FS_Intersection
<1>4. Cardinality(References(d) \ R) = refs[d] - Cardinality(R \cap References(d))
  <2>1. References(d) \cap R = R \cap References(d)
    OBVIOUS
  <2> QED BY <1>2, <2>1, FS_Difference
<1>5. Cardinality(R \cap References(d)) \in Nat
  BY <1>3, FS_CardinalityType
<1>6. Cardinality(R \cap References(d)) = 0 <=> R \cap References(d) = {}
  BY <1>3, FS_EmptySet
<1>7. Dropped(R, d) = Cardinality(R \cap References(d))
  BY <1>1 DEF Dropped
<1> QED BY <1>3, <1>4, <1>5, <1>6, <1>7

\* Removing the dead ends from the ends of a pipe lowers its count by as many.
LEMMA EndsLeft ==
  ASSUME NEW S, IsFiniteSet(S), NEW D, NEW n, n = Cardinality(S), n <= 1
  PROVE  /\ n - Cardinality(D \cap S) = Cardinality(S \ D)
         /\ n - Cardinality(D \cap S) \in Nat /\ n - Cardinality(D \cap S) <= 1
<1>1. S \cap D = D \cap S
  OBVIOUS
<1>2. IsFiniteSet(S \ D) /\ Cardinality(S \ D) = n - Cardinality(D \cap S)
  BY <1>1, FS_Difference
<1>3. Cardinality(S \ D) \in Nat
  BY <1>2, FS_CardinalityType
<1>4. Cardinality(S \ D) <= n
  BY FS_Subset
<1>5. n \in Nat
  BY FS_CardinalityType
<1> QED BY <1>2, <1>3, <1>4, <1>5

\* close_fd for the references of R, of which base counts at least the ones
\* there are: an end goes with the last reference, and the counts of the
\* pipe follow.
LEMMA CloseCounts ==
  ASSUME CountOK, NEW R \in SUBSET (Tasks \X Fds), NEW base \in [Descriptions -> Nat],
         \A d \in Descriptions : base[d] >= refs[d] /\ (base[d] > 0 <=> refs[d] > 0),
         CloseReferences(R, base)
  PROVE  /\ refs' \in [Descriptions -> Nat]
         /\ \A d \in Descriptions : refs'[d] = base[d] - Dropped(R, d)
         /\ pipe' \in [Descriptions -> Pipes \cup {None}]
         /\ writes' \in [Descriptions -> BOOLEAN]
         /\ nonblock' \in [Descriptions -> BOOLEAN]
         /\ readers' \in [Pipes -> Nat] /\ writers' \in [Pipes -> Nat]
         /\ used' \in [Pipes -> 0..PIPE_SIZE]
         /\ EndsExact'
         /\ \A d \in Descriptions : refs'[d] > 0 =>
              refs[d] > 0 /\ pipe'[d] = pipe[d] /\ writes'[d] = writes[d]
<1> DEFINE dead == Dead(R, base)
<1>1. /\ refs' = [d \in Descriptions |-> base[d] - Dropped(R, d)]
      /\ readers' = [p \in Pipes |-> readers[p] - Cardinality(dead \cap ReadEnds(p))]
      /\ writers' = [p \in Pipes |-> writers[p] - Cardinality(dead \cap WriteEnds(p))]
      /\ pipe' = [d \in Descriptions |-> IF d \in dead THEN None ELSE pipe[d]]
      /\ writes' = [d \in Descriptions |-> writes[d] /\ d \notin dead]
      /\ nonblock' = [d \in Descriptions |-> nonblock[d] /\ d \notin dead]
      /\ used' = [p \in Pipes |-> IF readers'[p] = 0 /\ writers'[p] = 0 THEN 0 ELSE used[p]]
  BY DEF CloseReferences
<1>2. FilesTypeOK
  BY DEF CountOK
<1>3. ASSUME NEW d \in Descriptions
      PROVE  /\ base[d] - Dropped(R, d) \in Nat
             /\ base[d] - Dropped(R, d) > 0 <=> refs[d] > 0 /\ d \notin dead
  <2>1. /\ base[d] \in Nat /\ refs[d] \in Nat /\ base[d] >= refs[d] /\ Dropped(R, d) \in Nat
        /\ Dropped(R, d) <= refs[d] /\ (base[d] > 0 <=> refs[d] > 0)
    BY <1>2, DroppedCount DEF FilesTypeOK
  <2>2. d \in dead <=> Dropped(R, d) > 0 /\ base[d] = Dropped(R, d)
    BY DEF Dead
  <2> QED BY <2>1, <2>2
<1> HIDE DEF dead
<1>4. refs' \in [Descriptions -> Nat]
  BY <1>1, <1>3
<1>5. pipe' \in [Descriptions -> Pipes \cup {None}]
  BY <1>1, <1>2 DEF FilesTypeOK
<1>6. writes' \in [Descriptions -> BOOLEAN] /\ nonblock' \in [Descriptions -> BOOLEAN]
  BY <1>1
<1>7. \A p \in Pipes : ReadEnds(p)' = ReadEnds(p) \ dead /\ WriteEnds(p)' = WriteEnds(p) \ dead
  <2> SUFFICES ASSUME NEW p \in Pipes
               PROVE  ReadEnds(p)' = ReadEnds(p) \ dead /\ WriteEnds(p)' = WriteEnds(p) \ dead
    OBVIOUS
  <2>1. p # None
    BY DEF Pipes, None
  <2>2. ASSUME NEW d \in Descriptions
        PROVE  /\ refs'[d] > 0 <=> refs[d] > 0 /\ d \notin dead
               /\ d \notin dead => pipe'[d] = pipe[d] /\ (writes'[d] <=> writes[d])
    BY <1>1, <1>3
  <2> QED BY <2>2 DEF ReadEnds, WriteEnds
<1>8. ASSUME NEW p \in Pipes
      PROVE  /\ readers[p] = Cardinality(ReadEnds(p)) /\ readers[p] <= 1
             /\ writers[p] = Cardinality(WriteEnds(p)) /\ writers[p] <= 1
             /\ IsFiniteSet(ReadEnds(p)) /\ IsFiniteSet(WriteEnds(p))
  BY FilesFinite DEF CountOK, EndsExact
<1>9. ASSUME NEW p \in Pipes
      PROVE  /\ readers'[p] = Cardinality(ReadEnds(p)') /\ readers'[p] <= 1 /\ readers'[p] \in Nat
             /\ writers'[p] = Cardinality(WriteEnds(p)') /\ writers'[p] <= 1 /\ writers'[p] \in Nat
  <2>1. /\ readers'[p] = readers[p] - Cardinality(dead \cap ReadEnds(p))
        /\ writers'[p] = writers[p] - Cardinality(dead \cap WriteEnds(p))
    BY <1>1
  <2>2. /\ Cardinality(ReadEnds(p) \ dead) = readers[p] - Cardinality(dead \cap ReadEnds(p))
        /\ readers[p] - Cardinality(dead \cap ReadEnds(p)) \in Nat
        /\ readers[p] - Cardinality(dead \cap ReadEnds(p)) <= 1
    <3> DEFINE S == ReadEnds(p)
               n == readers[p]
    <3>1. IsFiniteSet(S) /\ n = Cardinality(S) /\ n <= 1
      BY <1>8
    <3> HIDE DEF S, n
    <3>2. /\ n - Cardinality(dead \cap S) = Cardinality(S \ dead)
          /\ n - Cardinality(dead \cap S) \in Nat /\ n - Cardinality(dead \cap S) <= 1
      BY <3>1, EndsLeft
    <3> QED BY <3>2 DEF S, n
  <2>3. /\ Cardinality(WriteEnds(p) \ dead) = writers[p] - Cardinality(dead \cap WriteEnds(p))
        /\ writers[p] - Cardinality(dead \cap WriteEnds(p)) \in Nat
        /\ writers[p] - Cardinality(dead \cap WriteEnds(p)) <= 1
    <3> DEFINE S == WriteEnds(p)
               n == writers[p]
    <3>1. IsFiniteSet(S) /\ n = Cardinality(S) /\ n <= 1
      BY <1>8
    <3> HIDE DEF S, n
    <3>2. /\ n - Cardinality(dead \cap S) = Cardinality(S \ dead)
          /\ n - Cardinality(dead \cap S) \in Nat /\ n - Cardinality(dead \cap S) <= 1
      BY <3>1, EndsLeft
    <3> QED BY <3>2 DEF S, n
  <2> QED BY <1>7, <2>1, <2>2, <2>3
<1>10. readers' \in [Pipes -> Nat] /\ writers' \in [Pipes -> Nat]
  <2>1. readers' = [p \in Pipes |-> readers'[p]] /\ writers' = [p \in Pipes |-> writers'[p]]
    BY <1>1
  <2> QED BY <1>9, <2>1
<1>11. used' \in [Pipes -> 0..PIPE_SIZE]
  <2>1. 0 \in 0..PIPE_SIZE /\ used \in [Pipes -> 0..PIPE_SIZE]
    BY <1>2, FilesAssumption DEF FilesTypeOK
  <2> QED BY <1>1, <2>1
<1>12. EndsExact'
  BY <1>9 DEF EndsExact
<1>13. ASSUME NEW d \in Descriptions, refs'[d] > 0
       PROVE  refs[d] > 0 /\ pipe'[d] = pipe[d] /\ writes'[d] = writes[d]
  <2>1. refs[d] > 0 /\ d \notin dead
    BY <1>1, <1>3, <1>13
  <2>2. writes[d] \in BOOLEAN
    BY <1>2 DEF FilesTypeOK
  <2> QED BY <1>1, <2>1, <2>2
<1>14. \A d \in Descriptions : refs'[d] = base[d] - Dropped(R, d)
  BY <1>1
<1> QED BY <1>4, <1>5, <1>6, <1>10, <1>11, <1>12, <1>13, <1>14

\* close, exec and exit: the references of R go, from tables and counts.
LEMMA CloseInv ==
  ASSUME FilesInv, file_task' \in Tasks, NEW R \in SUBSET (Tasks \X Fds),
         CloseReferences(R, refs), ClearTables(R), pending_io' \in [Tasks -> Ios],
         \A s \in Tasks : pending_io'[s].active =>
           pending_io'[s] = pending_io[s] /\ <<s, pending_io[s].fd>> \notin R
  PROVE  FilesInv'
<1>1. CountOK /\ FilesTypeOK
  BY DEF FilesInv, CountOK
<1>2. /\ refs \in [Descriptions -> Nat]
      /\ \A d \in Descriptions : refs[d] >= refs[d] /\ (refs[d] > 0 <=> refs[d] > 0)
  BY <1>1 DEF FilesTypeOK
<1>3. /\ refs' \in [Descriptions -> Nat]
      /\ \A d \in Descriptions : refs'[d] = refs[d] - Dropped(R, d)
      /\ pipe' \in [Descriptions -> Pipes \cup {None}]
      /\ writes' \in [Descriptions -> BOOLEAN]
      /\ nonblock' \in [Descriptions -> BOOLEAN]
      /\ readers' \in [Pipes -> Nat] /\ writers' \in [Pipes -> Nat]
      /\ used' \in [Pipes -> 0..PIPE_SIZE]
      /\ EndsExact'
      /\ \A d \in Descriptions : refs'[d] > 0 =>
           refs[d] > 0 /\ pipe'[d] = pipe[d] /\ writes'[d] = writes[d]
  BY <1>1, <1>2, CloseCounts
<1>4. task_files' \in TablesOK /\ task_flags' \in FlagsOK
  BY <1>1 DEF ClearTables, FilesTypeOK, TablesOK, FlagsOK
<1>5. FilesTypeOK'
  BY <1>3, <1>4 DEF FilesTypeOK
<1>6. RefsExact'
  <2> SUFFICES ASSUME NEW d \in Descriptions PROVE refs'[d] = Cardinality(References(d)')
    BY DEF RefsExact
  <2>1. d # None
    BY DEF Descriptions, None
  <2>2. References(d)' = References(d) \ R
    <3>1. ASSUME NEW r \in Tasks \X Fds
          PROVE  task_files'[r[1]][r[2]] = IF r \in R THEN None ELSE task_files[r[1]][r[2]]
      <4>1. r[1] \in Tasks /\ r[2] \in Fds /\ r = <<r[1], r[2]>>
        OBVIOUS
      <4> QED BY <4>1 DEF ClearTables
    <3> QED BY <2>1, <3>1 DEF References
  <2> QED BY <1>1, <1>3, <2>2, DroppedCount
<1>7. ASSUME NEW s \in Tasks, pending_io'[s].active
      PROVE  /\ pending_io'[s] = pending_io[s]
             /\ task_files'[s][pending_io[s].fd] = task_files[s][pending_io[s].fd]
  <2>1. pending_io[s].fd \in Fds
    BY <1>1 DEF FilesTypeOK, Ios
  <2> QED BY <1>7, <2>1 DEF ClearTables
<1>8. PendingOnPipe'
  BY <1>3, <1>5, <1>6, <1>7, PendingKept
<1> QED BY <1>3, <1>5, <1>6, <1>8 DEF FilesInv

---------------------------------------------------------------------------
(* The other calls                                                         *)

\* One entry of a table changes: what refers to a description afterwards.
LEMMA EntryReferences ==
  ASSUME task_files \in TablesOK, NEW s \in Tasks, NEW fd \in Fds,
         NEW x \in Descriptions \cup {None}, task_files' = [task_files EXCEPT ![s][fd] = x]
  PROVE  /\ task_files' \in TablesOK
         /\ \A t \in Tasks, f \in Fds :
              task_files'[t][f] = IF t = s /\ f = fd THEN x ELSE task_files[t][f]
         /\ \A d \in Descriptions :
              References(d)' = IF d = x THEN References(d) \cup {<<s, fd>>}
                               ELSE References(d) \ {<<s, fd>>}
<1>1. task_files' \in TablesOK
  BY DEF TablesOK
<1>2. ASSUME NEW t \in Tasks, NEW f \in Fds
      PROVE  task_files'[t][f] = IF t = s /\ f = fd THEN x ELSE task_files[t][f]
  BY DEF TablesOK
<1>3. ASSUME NEW d \in Descriptions
      PROVE  References(d)' = IF d = x THEN References(d) \cup {<<s, fd>>}
                              ELSE References(d) \ {<<s, fd>>}
  <2>1. ASSUME NEW r \in Tasks \X Fds
        PROVE  task_files'[r[1]][r[2]] = IF r = <<s, fd>> THEN x ELSE task_files[r[1]][r[2]]
    <3>1. r[1] \in Tasks /\ r[2] \in Fds /\ r = <<r[1], r[2]>>
      OBVIOUS
    <3> QED BY <1>2, <3>1
  <2> QED BY <2>1 DEF References
<1> QED BY <1>1, <1>2, <1>3

\* The ends of the pipes stay while the same descriptions are in use.
LEMMA EndsKept ==
  ASSUME EndsExact, \A d \in Descriptions : refs'[d] > 0 <=> refs[d] > 0,
         UNCHANGED <<pipe, writes, readers, writers>>
  PROVE  EndsExact'
<1>1. \A p \in Pipes : ReadEnds(p)' = ReadEnds(p) /\ WriteEnds(p)' = WriteEnds(p)
  BY DEF ReadEnds, WriteEnds
<1> QED BY <1>1 DEF EndsExact

\* dup and F_DUPFD: one more entry, one more reference.
LEMMA DupInv ==
  ASSUME FilesInv, file_task' \in Tasks, NEW s \in Tasks, NEW a \in Fds, NEW minimum \in Fds,
         Dup(s, a, minimum)
  PROVE  FilesInv'
<1> DEFINE x == task_files[s][a]
<1>1. PICK fd \in Fds :
        /\ task_files[s][fd] = None
        /\ task_files' = [task_files EXCEPT ![s][fd] = x]
        /\ task_flags' = [task_flags EXCEPT ![s][fd] = FALSE]
        /\ refs' = [refs EXCEPT ![x] = @ + 1]
  BY DEF Dup, Lowest, FreeFds, Share
<1>2. x # None /\ UNCHANGED <<pipe, writes, nonblock, readers, writers, used, pending_io>>
  BY DEF Dup, pipeVars
<1>3. FilesTypeOK /\ RefsExact /\ EndsExact
  BY DEF FilesInv
<1>4. x \in Descriptions /\ refs[x] > 0
  BY <1>2, <1>3, EntryInUse DEF EntriesInUse
<1> HIDE DEF x
<1>5. /\ task_files' \in TablesOK
      /\ \A t \in Tasks, f \in Fds :
           task_files'[t][f] = IF t = s /\ f = fd THEN x ELSE task_files[t][f]
      /\ \A d \in Descriptions :
           References(d)' = IF d = x THEN References(d) \cup {<<s, fd>>}
                            ELSE References(d) \ {<<s, fd>>}
  <2>1. task_files \in TablesOK /\ x \in Descriptions \cup {None}
    BY <1>3, <1>4 DEF FilesTypeOK
  <2>2. task_files' = [task_files EXCEPT ![s][fd] = x]
    BY <1>1
  <2> QED BY <2>1, <2>2, EntryReferences, Zenon
<1>6. task_flags' \in FlagsOK
  BY <1>1, <1>3 DEF FilesTypeOK, FlagsOK
<1>7. refs' \in [Descriptions -> Nat] /\ \A d \in Descriptions : refs'[d] > 0 <=> refs[d] > 0
  BY <1>1, <1>3, <1>4 DEF FilesTypeOK
<1>8. FilesTypeOK'
  BY <1>2, <1>3, <1>5, <1>6, <1>7 DEF FilesTypeOK
<1>9. RefsExact'
  <2> SUFFICES ASSUME NEW d \in Descriptions PROVE refs'[d] = Cardinality(References(d)')
    BY DEF RefsExact
  <2>1. d # None /\ <<s, fd>> \notin References(d)
    BY <1>1 DEF References, Descriptions, None
  <2>2. IsFiniteSet(References(d)) /\ refs[d] = Cardinality(References(d))
    BY <1>3, FilesFinite DEF RefsExact
  <2>3. CASE d = x
    <3>1. Cardinality(References(d) \cup {<<s, fd>>}) = refs[d] + 1
      BY <2>1, <2>2, FS_AddElement
    <3>2. refs'[d] = refs[d] + 1
      BY <1>1, <1>3, <2>3 DEF FilesTypeOK
    <3> QED BY <1>5, <2>3, <3>1, <3>2
  <2>4. CASE d # x
    <3>1. References(d)' = References(d)
      BY <1>5, <2>1, <2>4, SMTT(30)
    <3>2. refs'[d] = refs[d]
      BY <1>1, <1>3, <2>4 DEF FilesTypeOK
    <3> QED BY <2>2, <3>1, <3>2
  <2> QED BY <2>3, <2>4
<1>10. EndsExact'
  BY <1>2, <1>3, <1>7, EndsKept
<1>11. PendingOnPipe'
  <2>1. ASSUME NEW t \in Tasks, pending_io'[t].active
        PROVE  /\ pending_io'[t] = pending_io[t]
               /\ task_files'[t][pending_io[t].fd] = task_files[t][pending_io[t].fd]
    <3>1. /\ pending_io[t].fd \in Fds /\ pending_io[t].active
          /\ task_files[t][pending_io[t].fd] # None
      BY <1>2, <1>3, <2>1 DEF FilesTypeOK, Ios, FilesInv, PendingOnPipe, Transferable
    <3> QED BY <1>1, <1>2, <1>5, <3>1
  <2> QED BY <1>2, <1>8, <1>9, <2>1, PendingKept
<1> QED BY <1>8, <1>9, <1>10, <1>11 DEF FilesInv

\* dup2: the target gives up what it pointed at and shares the other.
LEMMA Dup2Inv ==
  ASSUME FilesInv, file_task' \in Tasks, NEW s \in Tasks, NEW a \in Fds, NEW b \in Fds,
         ~pending_io[s].active, Dup2(s, a, b)
  PROVE  FilesInv'
<1> DEFINE x == task_files[s][a]
           R == {<<s, b>>} \cap ({s} \X OpenFds(s))
           base == [refs EXCEPT ![x] = @ + 1]
<1>1. /\ x # None /\ CloseReferences(R, base)
      /\ task_files' = [task_files EXCEPT ![s][b] = x]
      /\ task_flags' = [task_flags EXCEPT ![s][b] = FALSE]
      /\ pending_io' = pending_io
  BY DEF Dup2, Share
<1>2. FilesTypeOK /\ RefsExact /\ EndsExact /\ CountOK
  BY DEF FilesInv, CountOK
<1>3. x \in Descriptions /\ refs[x] > 0
  BY <1>1, <1>2, EntryInUse DEF EntriesInUse
<1>4. R \in SUBSET (Tasks \X Fds) /\ R \subseteq {<<s, b>>} /\ (<<s, b>> \in R <=> task_files[s][b] # None)
  BY DEF OpenFds
<1> HIDE DEF x, R
<1>5. /\ base \in [Descriptions -> Nat]
      /\ \A d \in Descriptions : base[d] = IF d = x THEN refs[d] + 1 ELSE refs[d]
      /\ \A d \in Descriptions : base[d] >= refs[d] /\ (base[d] > 0 <=> refs[d] > 0)
  BY <1>2, <1>3 DEF FilesTypeOK
<1> HIDE DEF base
<1>6. /\ refs' \in [Descriptions -> Nat]
      /\ \A d \in Descriptions : refs'[d] = base[d] - Dropped(R, d)
      /\ pipe' \in [Descriptions -> Pipes \cup {None}]
      /\ writes' \in [Descriptions -> BOOLEAN]
      /\ nonblock' \in [Descriptions -> BOOLEAN]
      /\ readers' \in [Pipes -> Nat] /\ writers' \in [Pipes -> Nat]
      /\ used' \in [Pipes -> 0..PIPE_SIZE]
      /\ EndsExact'
      /\ \A d \in Descriptions : refs'[d] > 0 =>
           refs[d] > 0 /\ pipe'[d] = pipe[d] /\ writes'[d] = writes[d]
  BY <1>1, <1>2, <1>4, <1>5, CloseCounts
<1>7. /\ task_files' \in TablesOK
      /\ \A t \in Tasks, f \in Fds :
           task_files'[t][f] = IF t = s /\ f = b THEN x ELSE task_files[t][f]
      /\ \A d \in Descriptions :
           References(d)' = IF d = x THEN References(d) \cup {<<s, b>>}
                            ELSE References(d) \ {<<s, b>>}
  <2>1. task_files \in TablesOK /\ x \in Descriptions \cup {None}
    BY <1>2, <1>3 DEF FilesTypeOK
  <2>2. task_files' = [task_files EXCEPT ![s][b] = x]
    BY <1>1
  <2> QED BY <2>1, <2>2, EntryReferences, Zenon
<1>8. task_flags' \in FlagsOK
  BY <1>1, <1>2 DEF FilesTypeOK, FlagsOK
<1>9. FilesTypeOK'
  BY <1>1, <1>2, <1>6, <1>7, <1>8 DEF FilesTypeOK
<1>10. RefsExact'
  <2> SUFFICES ASSUME NEW d \in Descriptions PROVE refs'[d] = Cardinality(References(d)')
    BY DEF RefsExact
  <2>1. IsFiniteSet(References(d)) /\ refs[d] = Cardinality(References(d)) /\ refs[d] \in Nat
    BY <1>2, FilesFinite DEF RefsExact, FilesTypeOK
  <2>2. <<s, b>> \in References(d) <=> task_files[s][b] = d
    BY DEF References
  <2>3. d # None
    BY DEF Descriptions, None
  <2>4. /\ Dropped(R, d) = Cardinality(R \cap References(d))
        /\ refs[d] - Dropped(R, d) = Cardinality(References(d) \ R)
    BY <1>2, <1>4, DroppedCount
  <2>5. CASE d = x /\ <<s, b>> \in References(d)
    <3>1. R \cap References(d) = {<<s, b>>} /\ References(d) \cup {<<s, b>>} = References(d)
      BY <1>4, <2>2, <2>3, <2>5
    <3>2. Dropped(R, d) = 1
      BY <2>4, <3>1, FS_Singleton
    <3>3. References(d)' = References(d)
      BY <1>7, <2>5, <3>1
    <3>4. refs'[d] = (refs[d] + 1) - 1
      BY <1>5, <1>6, <2>5, <3>2
    <3> QED BY <2>1, <3>3, <3>4
  <2>6. CASE d = x /\ <<s, b>> \notin References(d)
    <3>1. R \cap References(d) = {}
      BY <1>4, <2>6
    <3>2. Dropped(R, d) = 0
      BY <2>4, <3>1, FS_EmptySet
    <3>3. <<s, b>> \notin References(d)
      BY <2>6
    <3>4. Cardinality(References(d) \cup {<<s, b>>}) = refs[d] + 1
      BY <2>1, <3>3, FS_AddElement
    <3>5. References(d)' = References(d) \cup {<<s, b>>}
      BY <1>7, <2>6
    <3>6. refs'[d] = (refs[d] + 1) - 0
      BY <1>5, <1>6, <2>6, <3>2
    <3> QED BY <2>1, <3>4, <3>5, <3>6
  <2>7. CASE d # x
    <3>1. References(d) \ R = References(d) \ {<<s, b>>}
      BY <1>4, <2>2, <2>3
    <3> QED BY <1>5, <1>6, <1>7, <2>4, <2>7, <3>1
  <2> QED BY <2>5, <2>6, <2>7
<1>11. PendingOnPipe'
  <2>1. ASSUME NEW t \in Tasks, pending_io'[t].active
        PROVE  /\ pending_io'[t] = pending_io[t]
               /\ task_files'[t][pending_io[t].fd] = task_files[t][pending_io[t].fd]
    <3>1. pending_io[t].fd \in Fds /\ t # s
      BY <1>1, <1>2, <2>1 DEF FilesTypeOK, Ios
    <3> QED BY <1>1, <1>7, <3>1
  <2> QED BY <1>6, <1>9, <1>10, <2>1, PendingKept
<1> QED BY <1>6, <1>9, <1>10, <1>11 DEF FilesInv

\* fcntl F_SETFD and F_SETFL change neither references nor ends.
LEMMA FlagInv ==
  ASSUME FilesInv, file_task' \in Tasks, task_flags' \in FlagsOK,
         nonblock' \in [Descriptions -> BOOLEAN],
         UNCHANGED <<task_files, refs, pipe, writes, pipeVars, pending_io>>
  PROVE  FilesInv'
<1>1. FilesTypeOK'
  BY DEF FilesInv, FilesTypeOK, pipeVars
<1>2. RefsExact'
  BY DEF FilesInv, RefsExact, References
<1>3. EndsExact'
  BY EndsKept DEF FilesInv, pipeVars
<1>4. PendingOnPipe'
  BY DEF FilesInv, PendingOnPipe, Transferable
<1> QED BY <1>1, <1>2, <1>3, <1>4 DEF FilesInv

\* open takes a description that nothing refers to.
LEMMA OpenInv ==
  ASSUME FilesInv, file_task' \in Tasks, NEW s \in Tasks, NEW cloexec \in BOOLEAN,
         Open(s, cloexec)
  PROVE  FilesInv'
<1>1. PICK fd \in Fds, x \in Descriptions :
        /\ task_files[s][fd] = None /\ refs[x] = 0
        /\ task_files' = [task_files EXCEPT ![s][fd] = x]
        /\ task_flags' = [task_flags EXCEPT ![s][fd] = cloexec]
        /\ refs' = [refs EXCEPT ![x] = 1]
        /\ pipe' = [pipe EXCEPT ![x] = None]
        /\ writes' = [writes EXCEPT ![x] = FALSE]
        /\ nonblock' = [nonblock EXCEPT ![x] = FALSE]
  BY DEF Open, Lowest, FreeFds, FreeDescriptions
<1>2. UNCHANGED <<readers, writers, used, pending_io>>
  BY DEF Open, pipeVars
<1>3. FilesTypeOK /\ RefsExact /\ EndsExact
  BY DEF FilesInv
<1>4. /\ task_files' \in TablesOK
      /\ \A t \in Tasks, f \in Fds :
           task_files'[t][f] = IF t = s /\ f = fd THEN x ELSE task_files[t][f]
      /\ \A d \in Descriptions :
           References(d)' = IF d = x THEN References(d) \cup {<<s, fd>>}
                            ELSE References(d) \ {<<s, fd>>}
  <2>1. task_files \in TablesOK /\ x \in Descriptions \cup {None}
    BY <1>3 DEF FilesTypeOK
  <2>2. task_files' = [task_files EXCEPT ![s][fd] = x]
    BY <1>1
  <2> QED BY <2>1, <2>2, EntryReferences, Zenon
<1>5. /\ task_flags' \in FlagsOK /\ refs' \in [Descriptions -> Nat]
      /\ pipe' \in [Descriptions -> Pipes \cup {None}]
  BY <1>1, <1>3 DEF FilesTypeOK, FlagsOK
<1>6. writes' \in [Descriptions -> BOOLEAN] /\ nonblock' \in [Descriptions -> BOOLEAN]
  BY <1>1, <1>3 DEF FilesTypeOK
<1>7. FilesTypeOK'
  BY <1>2, <1>3, <1>4, <1>5, <1>6 DEF FilesTypeOK
<1>8. References(x) = {}
  BY <1>1, <1>3, RefsPositive
<1>9. RefsExact'
  <2> SUFFICES ASSUME NEW d \in Descriptions PROVE refs'[d] = Cardinality(References(d)')
    BY DEF RefsExact
  <2>1. <<s, fd>> \notin References(d)
    BY <1>1 DEF References, Descriptions, None
  <2>2. CASE d = x
    <3>1. References(d)' = {<<s, fd>>}
      BY <1>4, <1>8, <2>2
    <3> QED BY <1>1, <1>3, <2>2, <3>1, FS_Singleton DEF FilesTypeOK
  <2>3. CASE d # x
    <3>1. References(d)' = References(d)
      <4>1. References(d)' = References(d) \ {<<s, fd>>}
        BY <1>4, <2>3
      <4>2. References(d) \ {<<s, fd>>} = References(d)
        BY <2>1
      <4> QED BY <4>1, <4>2
    <3>2. refs'[d] = refs[d]
      BY <1>1, <1>3, <2>3 DEF FilesTypeOK
    <3> QED BY <1>3, <3>1, <3>2 DEF RefsExact
  <2> QED BY <2>2, <2>3
<1>10. EndsExact'
  <2>1. \A d \in Descriptions : d # x => /\ refs'[d] = refs[d] /\ pipe'[d] = pipe[d]
                                         /\ writes'[d] = writes[d]
    BY <1>1, <1>3 DEF FilesTypeOK
  <2>2. refs[x] = 0 /\ pipe'[x] = None /\ \A p \in Pipes : p # None
    BY <1>1, <1>3 DEF FilesTypeOK, Pipes, None
  <2>3. ASSUME NEW p \in Pipes PROVE ReadEnds(p)' = ReadEnds(p) /\ WriteEnds(p)' = WriteEnds(p)
    <3>1. ASSUME NEW d \in Descriptions
          PROVE  /\ d \in ReadEnds(p)' <=> d \in ReadEnds(p)
                 /\ d \in WriteEnds(p)' <=> d \in WriteEnds(p)
      <4>1. CASE d = x
        BY <2>2, <4>1 DEF ReadEnds, WriteEnds
      <4>2. CASE d # x
        BY <2>1, <4>2 DEF ReadEnds, WriteEnds
      <4> QED BY <4>1, <4>2
    <3>2. /\ ReadEnds(p) \subseteq Descriptions /\ ReadEnds(p)' \subseteq Descriptions
          /\ WriteEnds(p) \subseteq Descriptions /\ WriteEnds(p)' \subseteq Descriptions
      BY DEF ReadEnds, WriteEnds
    <3> QED BY <3>1, <3>2
  <2> QED BY <1>2, <1>3, <2>3 DEF EndsExact
<1>11. PendingOnPipe'
  <2>1. ASSUME NEW t \in Tasks, pending_io'[t].active
        PROVE  /\ pending_io'[t] = pending_io[t]
               /\ task_files'[t][pending_io[t].fd] = task_files[t][pending_io[t].fd]
    <3>1. /\ pending_io[t].fd \in Fds /\ pending_io[t].active
          /\ task_files[t][pending_io[t].fd] # None
      BY <1>2, <1>3, <2>1 DEF FilesTypeOK, Ios, FilesInv, PendingOnPipe, Transferable
    <3> QED BY <1>1, <1>2, <1>4, <3>1
  <2>2. \A d \in Descriptions : refs'[d] > 0 /\ refs[d] > 0 =>
           pipe'[d] = pipe[d] /\ writes'[d] = writes[d]
    <3> SUFFICES ASSUME NEW d \in Descriptions, refs[d] > 0
                 PROVE  pipe'[d] = pipe[d] /\ writes'[d] = writes[d]
      OBVIOUS
    <3>1. d # x
      BY <1>1
    <3> QED BY <1>1, <1>3, <3>1 DEF FilesTypeOK
  <2> QED BY <1>7, <1>9, <2>1, <2>2, PendingKept
<1> QED BY <1>7, <1>9, <1>10, <1>11 DEF FilesInv

\* create_pipe takes two free descriptions and a pipe with no end.
LEMMA PipeInv ==
  ASSUME FilesInv, file_task' \in Tasks, NEW s \in Tasks, NEW nb \in BOOLEAN,
         NEW cloexec \in BOOLEAN, CreatePipe(s, nb, cloexec)
  PROVE  FilesInv'
<1>1. PICK r \in Fds, w \in Fds, dr \in Descriptions, dw \in Descriptions, p \in Pipes :
        /\ r # w /\ dr # dw
        /\ task_files[s][r] = None /\ task_files[s][w] = None /\ refs[dr] = 0 /\ refs[dw] = 0
        /\ readers[p] = 0 /\ writers[p] = 0
        /\ task_files' = [task_files EXCEPT ![s] = [@ EXCEPT ![r] = dr, ![w] = dw]]
        /\ task_flags' = [task_flags EXCEPT ![s] = [@ EXCEPT ![r] = cloexec, ![w] = cloexec]]
        /\ refs' = [refs EXCEPT ![dr] = 1, ![dw] = 1]
        /\ pipe' = [pipe EXCEPT ![dr] = p, ![dw] = p]
        /\ writes' = [writes EXCEPT ![dr] = FALSE, ![dw] = TRUE]
        /\ nonblock' = [nonblock EXCEPT ![dr] = nb, ![dw] = nb]
        /\ readers' = [readers EXCEPT ![p] = 1]
        /\ writers' = [writers EXCEPT ![p] = 1]
        /\ used' = [used EXCEPT ![p] = 0]
  <2>1. PICK r \in Fds, w \in Fds, dr \in Descriptions, dw \in Descriptions, p \in Pipes :
          /\ Lowest(FreeFds(s, 0), r) /\ Lowest(FreeFds(s, r + 1), w)
          /\ Lowest(FreeDescriptions, dr) /\ Lowest(FreeDescriptions \ {dr}, dw)
          /\ Lowest(FreePipes, p)
          /\ task_files' = [task_files EXCEPT ![s] = [@ EXCEPT ![r] = dr, ![w] = dw]]
          /\ task_flags' = [task_flags EXCEPT ![s] = [@ EXCEPT ![r] = cloexec, ![w] = cloexec]]
          /\ refs' = [refs EXCEPT ![dr] = 1, ![dw] = 1]
          /\ pipe' = [pipe EXCEPT ![dr] = p, ![dw] = p]
          /\ writes' = [writes EXCEPT ![dr] = FALSE, ![dw] = TRUE]
          /\ nonblock' = [nonblock EXCEPT ![dr] = nb, ![dw] = nb]
          /\ readers' = [readers EXCEPT ![p] = 1]
          /\ writers' = [writers EXCEPT ![p] = 1]
          /\ used' = [used EXCEPT ![p] = 0]
    BY Zenon DEF CreatePipe
  <2>2. r # w
    BY <2>1 DEF Lowest, FreeFds, Fds
  <2>3. /\ dr # dw /\ task_files[s][r] = None /\ task_files[s][w] = None
        /\ refs[dr] = 0 /\ refs[dw] = 0 /\ readers[p] = 0 /\ writers[p] = 0
    BY <2>1 DEF Lowest, FreeFds, FreeDescriptions, FreePipes
  <2> QED BY <2>1, <2>2, <2>3, Zenon
<1>2. pending_io' = pending_io
  BY DEF CreatePipe
<1>3. FilesTypeOK /\ RefsExact /\ EndsExact
  BY DEF FilesInv
<1>4. /\ task_files' \in TablesOK
      /\ \A t \in Tasks, f \in Fds :
           task_files'[t][f] = IF t = s /\ f = r THEN dr ELSE IF t = s /\ f = w THEN dw
                               ELSE task_files[t][f]
  BY <1>1, <1>3 DEF FilesTypeOK, TablesOK
<1>5. task_flags' \in FlagsOK
  BY <1>1, <1>3 DEF FilesTypeOK, FlagsOK
<1>6. /\ refs' \in [Descriptions -> Nat]
      /\ refs'[dr] = 1 /\ refs'[dw] = 1
      /\ \A d \in Descriptions : d # dr /\ d # dw => refs'[d] = refs[d]
  BY <1>1, <1>3 DEF FilesTypeOK
<1>7. /\ pipe' \in [Descriptions -> Pipes \cup {None}]
      /\ pipe'[dr] = p /\ pipe'[dw] = p
      /\ \A d \in Descriptions : d # dr /\ d # dw => pipe'[d] = pipe[d]
  BY <1>1, <1>3 DEF FilesTypeOK
<1>8. /\ writes' \in [Descriptions -> BOOLEAN] /\ ~writes'[dr] /\ writes'[dw]
      /\ \A d \in Descriptions : d # dr /\ d # dw => writes'[d] = writes[d]
  BY <1>1, <1>3 DEF FilesTypeOK
<1>9. nonblock' \in [Descriptions -> BOOLEAN]
  BY <1>1, <1>3 DEF FilesTypeOK
<1>10. /\ readers' \in [Pipes -> Nat] /\ writers' \in [Pipes -> Nat]
       /\ readers'[p] = 1 /\ writers'[p] = 1
       /\ \A q \in Pipes : q # p => readers'[q] = readers[q] /\ writers'[q] = writers[q]
  BY <1>1, <1>3 DEF FilesTypeOK
<1>11. used' \in [Pipes -> 0..PIPE_SIZE]
  BY <1>1, <1>3, FilesAssumption DEF FilesTypeOK
<1>12. FilesTypeOK'
  BY <1>2, <1>3, <1>4, <1>5, <1>6, <1>7, <1>8, <1>9, <1>10, <1>11 DEF FilesTypeOK
<1>13. References(dr) = {} /\ References(dw) = {}
  BY <1>1, <1>3, RefsPositive
<1>14. RefsExact'
  <2> SUFFICES ASSUME NEW d \in Descriptions PROVE refs'[d] = Cardinality(References(d)')
    BY DEF RefsExact
  <2>1. d # None
    BY DEF Descriptions, None
  <2>2. ASSUME NEW x \in Tasks \X Fds
        PROVE  task_files'[x[1]][x[2]] = IF x = <<s, r>> THEN dr ELSE IF x = <<s, w>> THEN dw
                                         ELSE task_files[x[1]][x[2]]
    <3>1. x[1] \in Tasks /\ x[2] \in Fds /\ x = <<x[1], x[2]>>
      OBVIOUS
    <3> QED BY <1>4, <3>1
  <2>3. <<s, r>> # <<s, w>> /\ <<s, r>> \in Tasks \X Fds /\ <<s, w>> \in Tasks \X Fds
    BY <1>1
  <2>4. CASE d = dr
    <3>1. References(d)' = {<<s, r>>}
      BY <1>1, <1>13, <2>2, <2>3, <2>4 DEF References
    <3> QED BY <1>6, <2>4, <3>1, FS_Singleton
  <2>5. CASE d = dw
    <3>1. References(d)' = {<<s, w>>}
      BY <1>1, <1>13, <2>2, <2>3, <2>5 DEF References
    <3> QED BY <1>6, <2>5, <3>1, FS_Singleton
  <2>6. CASE d # dr /\ d # dw
    <3>1. References(d)' = References(d)
      BY <1>1, <2>1, <2>2, <2>6 DEF References
    <3> QED BY <1>3, <1>6, <2>6, <3>1 DEF RefsExact
  <2> QED BY <2>4, <2>5, <2>6
<1>15. EndsExact'
  <2> SUFFICES ASSUME NEW q \in Pipes
               PROVE  /\ readers'[q] = Cardinality(ReadEnds(q)') /\ readers'[q] <= 1
                      /\ writers'[q] = Cardinality(WriteEnds(q)') /\ writers'[q] <= 1
    BY DEF EndsExact
  <2>1. /\ readers[q] = Cardinality(ReadEnds(q)) /\ readers[q] <= 1
        /\ writers[q] = Cardinality(WriteEnds(q)) /\ writers[q] <= 1
        /\ IsFiniteSet(ReadEnds(q)) /\ IsFiniteSet(WriteEnds(q))
    BY <1>3, FilesFinite DEF EndsExact
  <2>2. CASE q = p
    <3>1. ReadEnds(q) = {} /\ WriteEnds(q) = {}
      BY <1>1, <2>1, <2>2, FS_EmptySet
    <3>2. ReadEnds(q)' = {dr} /\ WriteEnds(q)' = {dw}
      <4>1. \A d \in Descriptions : d # dr /\ d # dw => d \notin ReadEnds(q)' /\ d \notin WriteEnds(q)'
        <5> SUFFICES ASSUME NEW d \in Descriptions, d # dr, d # dw
                     PROVE  d \notin ReadEnds(q)' /\ d \notin WriteEnds(q)'
          OBVIOUS
        <5>1. refs'[d] = refs[d] /\ pipe'[d] = pipe[d] /\ writes'[d] = writes[d]
          BY <1>6, <1>7, <1>8
        <5> QED BY <3>1, <5>1 DEF ReadEnds, WriteEnds
      <4>2. dr \in ReadEnds(q)' /\ dr \notin WriteEnds(q)'
        BY <1>6, <1>7, <1>8, <2>2 DEF ReadEnds, WriteEnds
      <4>3. dw \in WriteEnds(q)' /\ dw \notin ReadEnds(q)'
        BY <1>6, <1>7, <1>8, <2>2 DEF ReadEnds, WriteEnds
      <4>4. ReadEnds(q)' \subseteq Descriptions /\ WriteEnds(q)' \subseteq Descriptions
        BY DEF ReadEnds, WriteEnds
      <4> QED BY <4>1, <4>2, <4>3, <4>4
    <3>3. Cardinality(ReadEnds(q)') = 1 /\ Cardinality(WriteEnds(q)') = 1
      BY <3>2, FS_Singleton
    <3>4. readers'[q] = 1 /\ writers'[q] = 1
      BY <1>10, <2>2
    <3> QED BY <3>3, <3>4
  <2>3. CASE q # p
    <3>1. ASSUME NEW d \in Descriptions
          PROVE  (d \in ReadEnds(q)' <=> d \in ReadEnds(q)) /\ (d \in WriteEnds(q)' <=> d \in WriteEnds(q))
      <4>1. CASE d = dr \/ d = dw
        BY <1>1, <1>7, <2>3, <4>1 DEF ReadEnds, WriteEnds
      <4>2. CASE d # dr /\ d # dw
        <5>1. refs'[d] = refs[d] /\ pipe'[d] = pipe[d] /\ writes'[d] = writes[d]
          BY <1>6, <1>7, <1>8, <4>2
        <5> QED BY <5>1 DEF ReadEnds, WriteEnds
      <4> QED BY <4>1, <4>2
    <3>2. /\ ReadEnds(q) \subseteq Descriptions /\ ReadEnds(q)' \subseteq Descriptions
          /\ WriteEnds(q) \subseteq Descriptions /\ WriteEnds(q)' \subseteq Descriptions
      BY DEF ReadEnds, WriteEnds
    <3>3. ReadEnds(q)' = ReadEnds(q) /\ WriteEnds(q)' = WriteEnds(q)
      BY <3>1, <3>2
    <3> QED BY <1>10, <2>1, <2>3, <3>3
  <2> QED BY <2>2, <2>3
<1>16. PendingOnPipe'
  <2>1. ASSUME NEW t \in Tasks, pending_io'[t].active
        PROVE  /\ pending_io'[t] = pending_io[t]
               /\ task_files'[t][pending_io[t].fd] = task_files[t][pending_io[t].fd]
    <3>1. /\ pending_io[t].fd \in Fds /\ pending_io[t].active
          /\ task_files[t][pending_io[t].fd] # None
      BY <1>2, <1>3, <2>1 DEF FilesTypeOK, Ios, FilesInv, PendingOnPipe, Transferable
    <3> QED BY <1>1, <1>2, <1>4, <3>1
  <2>2. \A d \in Descriptions : refs'[d] > 0 /\ refs[d] > 0 =>
           pipe'[d] = pipe[d] /\ writes'[d] = writes[d]
    <3> SUFFICES ASSUME NEW d \in Descriptions, refs[d] > 0
                 PROVE  pipe'[d] = pipe[d] /\ writes'[d] = writes[d]
      OBVIOUS
    <3>1. d # dr /\ d # dw
      BY <1>1
    <3> QED BY <1>7, <1>8, <3>1
  <2> QED BY <1>12, <1>14, <2>1, <2>2, PendingKept
<1> QED BY <1>12, <1>14, <1>15, <1>16 DEF FilesInv

\* fork: the child's entries are as many references as the parent's.
LEMMA ForkInv ==
  ASSUME FilesInv, file_task' \in Tasks, NEW s \in Tasks, NEW child \in Tasks, s # child,
         OpenFds(child) = {}, ~pending_io[child].active, FilesFork(s, child)
  PROVE  FilesInv'
<1>1. /\ task_files' = [task_files EXCEPT ![child] = task_files[s]]
      /\ task_flags' = [task_flags EXCEPT ![child] = task_flags[s]]
      /\ refs' = [d \in Descriptions |->
                    refs[d] + Cardinality({fd \in Fds : task_files[s][fd] = d})]
      /\ pending_io' = [pending_io EXCEPT ![child] = Idle]
      /\ UNCHANGED <<pipe, writes, nonblock, readers, writers, used>>
  BY DEF FilesFork, pipeVars
<1>2. FilesTypeOK /\ RefsExact /\ EndsExact
  BY DEF FilesInv
<1>3. task_files' \in TablesOK /\ \A t \in Tasks : task_files'[t] = IF t = child THEN task_files[s] ELSE task_files[t]
  BY <1>1, <1>2 DEF FilesTypeOK, TablesOK
<1>4. task_flags' \in FlagsOK
  BY <1>1, <1>2 DEF FilesTypeOK, FlagsOK
<1>5. pending_io' \in [Tasks -> Ios] /\ \A t \in Tasks : pending_io'[t].active => pending_io'[t] = pending_io[t] /\ t # child
  <2>1. Idle \in Ios /\ ~Idle.active
    BY FilesAssumption DEF Idle, Ios, Fds
  <2> HIDE DEF Idle
  <2>2. ASSUME NEW t \in Tasks PROVE pending_io'[t] = IF t = child THEN Idle ELSE pending_io[t]
    BY <1>1, <1>2 DEF FilesTypeOK
  <2>3. pending_io' \in [Tasks -> Ios]
    BY <1>1, <1>2, <2>1 DEF FilesTypeOK
  <2>4. ASSUME NEW t \in Tasks, pending_io'[t].active PROVE pending_io'[t] = pending_io[t] /\ t # child
    <3>1. t # child
      BY <2>1, <2>2, <2>4
    <3> QED BY <2>2, <3>1
  <2> QED BY <2>3, <2>4
<1>6. ASSUME NEW d \in Descriptions
      PROVE  LET F == {fd \in Fds : task_files[s][fd] = d}
             IN  /\ Cardinality(F) \in Nat
                 /\ Cardinality(References(d)') = refs[d] + Cardinality(F)
                 /\ refs[d] = 0 => Cardinality(F) = 0
                 /\ refs[d] \in Nat
  <2> DEFINE F == {fd \in Fds : task_files[s][fd] = d}
             G == {child} \X F
  <2>1. F \in SUBSET Fds /\ IsFiniteSet(F)
    BY FilesFinite, FS_Subset
  <2>2. IsFiniteSet({child}) /\ Cardinality({child}) = 1
    BY FS_Singleton
  <2>3. Cardinality(F) \in Nat
    BY <2>1, FS_CardinalityType
  <2>4. IsFiniteSet(G) /\ Cardinality(G) = Cardinality(F)
    <3>1. IsFiniteSet(G) /\ Cardinality(G) = 1 * Cardinality(F)
      BY <2>1, <2>2, FS_Product
    <3> QED BY <2>3, <3>1
  <2>5. d # None
    BY DEF Descriptions, None
  <2>6. \A fd \in Fds : task_files[child][fd] = None
    BY DEF OpenFds
  <2>7. References(d)' = References(d) \cup G /\ References(d) \cap G = {}
    <3>1. ASSUME NEW r \in Tasks \X Fds
          PROVE  /\ r \in References(d)' <=> r \in References(d) \/ r \in G
                 /\ ~(r \in References(d) /\ r \in G)
      <4>1. r[1] \in Tasks /\ r[2] \in Fds /\ r = <<r[1], r[2]>>
        OBVIOUS
      <4>2. task_files'[r[1]][r[2]] = IF r[1] = child THEN task_files[s][r[2]] ELSE task_files[r[1]][r[2]]
        BY <1>3, <4>1
      <4>3. r \in References(d)' <=> task_files'[r[1]][r[2]] = d
        BY DEF References
      <4>4. r \in References(d) <=> task_files[r[1]][r[2]] = d
        BY DEF References
      <4>5. r \in G <=> r[1] = child /\ task_files[s][r[2]] = d
        BY <4>1
      <4>6. r[1] = child => task_files[r[1]][r[2]] # d
        BY <2>5, <2>6, <4>1
      <4> HIDE DEF G
      <4> QED BY <4>2, <4>3, <4>4, <4>5, <4>6
    <3>2. References(d)' \subseteq Tasks \X Fds /\ References(d) \subseteq Tasks \X Fds /\ G \subseteq Tasks \X Fds
      BY DEF References
    <3> HIDE DEF G
    <3> QED BY <3>1, <3>2
  <2>8. IsFiniteSet(References(d)) /\ refs[d] = Cardinality(References(d)) /\ refs[d] \in Nat
    BY <1>2, FilesFinite DEF RefsExact, FilesTypeOK
  <2> HIDE DEF G
  <2>9. Cardinality(References(d)') = refs[d] + Cardinality(F)
    <3>1. Cardinality(References(d) \cup G) = Cardinality(References(d)) + Cardinality(G) - Cardinality(References(d) \cap G)
      BY <2>4, <2>8, FS_Union
    <3>2. Cardinality(References(d) \cap G) = 0
      BY <2>7, FS_EmptySet
    <3> QED BY <2>3, <2>4, <2>7, <2>8, <3>1, <3>2
  <2>10. refs[d] = 0 => Cardinality(F) = 0
    <3>1. refs[d] = 0 => F = {}
      <4>1. \A fd \in F : <<s, fd>> \in References(d)
        BY DEF References
      <4>2. refs[d] = 0 => References(d) = {}
        BY <2>8, FS_EmptySet
      <4> HIDE DEF F
      <4> QED BY <4>1, <4>2
    <3> QED BY <3>1, FS_EmptySet
  <2> QED BY <2>3, <2>8, <2>9, <2>10
<1>7. refs' \in [Descriptions -> Nat] /\ RefsExact' /\ \A d \in Descriptions : refs'[d] > 0 <=> refs[d] > 0
  <2>1. ASSUME NEW d \in Descriptions
        PROVE  refs'[d] \in Nat /\ refs'[d] = Cardinality(References(d)') /\ (refs'[d] > 0 <=> refs[d] > 0)
    <3> DEFINE n == Cardinality({fd \in Fds : task_files[s][fd] = d})
    <3>1. n \in Nat /\ Cardinality(References(d)') = refs[d] + n /\ (refs[d] = 0 => n = 0) /\ refs[d] \in Nat
      BY <1>6
    <3>2. refs'[d] = refs[d] + n
      BY <1>1
    <3> HIDE DEF n
    <3> QED BY <3>1, <3>2
  <2>2. refs' = [d \in Descriptions |-> refs'[d]]
    BY <1>1
  <2>3. refs' \in [Descriptions -> Nat]
    BY <2>1, <2>2
  <2> QED BY <2>1, <2>3 DEF RefsExact
<1>8. FilesTypeOK'
  BY <1>1, <1>2, <1>3, <1>4, <1>5, <1>7 DEF FilesTypeOK
<1>9. EndsExact'
  BY <1>1, <1>2, <1>7, EndsKept
<1>10. PendingOnPipe'
  BY <1>1, <1>3, <1>5, <1>7, <1>8, PendingKept
<1> QED BY <1>7, <1>8, <1>9, <1>10 DEF FilesInv

---------------------------------------------------------------------------
(* Transfers                                                               *)

\* linux_io_resume: the ring never holds more than fits, and what waits
\* again has bytes left.
LEMMA IoEffectInv ==
  ASSUME FilesInv, file_task' \in Tasks, NEW s \in Tasks, NEW pio \in Ios, pio.active,
         pio.total < pio.length, Transferable(s, pio.fd, pio.writing),
         IoEffect(s, pio, task_files[s][pio.fd])
  PROVE  FilesInv'
<1> DEFINE d == task_files[s][pio.fd]
           p == pipe[d]
           m == Moved(pio, d)
<1>1. /\ used' = [used EXCEPT ![p] = @ + (IF pio.writing THEN m ELSE -m)]
      /\ pending_io' = [pending_io EXCEPT ![s] =
                          IF IoOutcome(pio, d) = "WAIT" THEN [pio EXCEPT !.total = @ + m] ELSE Idle]
      /\ UNCHANGED <<task_files, task_flags, refs, pipe, writes, nonblock, readers, writers>>
  BY DEF IoEffect, tableVars, descVars
<1>2. FilesTypeOK /\ RefsExact /\ EndsExact /\ PendingOnPipe
  BY DEF FilesInv
<1>3. d # None /\ p # None /\ writes[d] = pio.writing /\ pio.fd \in Fds
  BY DEF Transferable, Ios
<1>4. d \in Descriptions /\ p \in Pipes
  BY <1>2, <1>3, EntryInUse DEF EntriesInUse, FilesTypeOK
<1>5. /\ used[p] \in Nat /\ used[p] <= PIPE_SIZE /\ PIPE_SIZE \in Nat
      /\ pio.total \in Nat /\ pio.length \in Nat
  BY <1>2, <1>4, FilesAssumption DEF FilesTypeOK, Ios
<1>6. /\ m \in Nat /\ m <= pio.length - pio.total
      /\ pio.writing => m <= PIPE_SIZE - used[p]
      /\ ~pio.writing => m <= used[p]
      /\ IoOutcome(pio, d) = "WAIT" => pio.total + m < pio.length
  <2> DEFINE a == Available(pio, d)
             must == MustWait(pio, d)
  <2>1. a = IF pio.writing THEN PIPE_SIZE - used[p] ELSE used[p]
    BY DEF Available
  <2>2. a \in Nat
    BY <1>5, <2>1
  <2>3. a = 0 => must
    BY DEF MustWait
  <2>4. m = IF must \/ (pio.writing /\ readers[p] = 0) THEN 0 ELSE Smaller(a, pio.length - pio.total)
    BY DEF Moved
  <2>5. IoOutcome(pio, d) = "WAIT" => ~(pio.writing /\ readers[p] = 0) /\ ~Finished(pio, d)
    BY DEF IoOutcome
  <2>6. ~Finished(pio, d) => must \/ (pio.writing /\ pio.total + m # pio.length)
    BY DEF Finished
  <2> HIDE DEF a, must, m, p, d
  <2>7. m \in Nat /\ m <= pio.length - pio.total /\ m <= a
    <3>1. CASE must \/ (pio.writing /\ readers[p] = 0)
      BY <1>5, <2>2, <2>4, <3>1
    <3>2. CASE ~(must \/ (pio.writing /\ readers[p] = 0))
      <4>1. m = Smaller(a, pio.length - pio.total)
        BY <2>4, <3>2
      <4> QED BY <1>5, <2>2, <4>1 DEF Smaller
    <3> QED BY <3>1, <3>2
  <2>8. must => m = 0
    BY <2>4
  <2>9. IoOutcome(pio, d) = "WAIT" => pio.total + m < pio.length
    <3> SUFFICES ASSUME IoOutcome(pio, d) = "WAIT" PROVE pio.total + m < pio.length
      OBVIOUS
    <3>1. m = 0 \/ pio.total + m # pio.length
      BY <2>5, <2>6, <2>8
    <3> QED BY <1>5, <2>7, <3>1
  <2> QED BY <2>1, <2>7, <2>9
<1> HIDE DEF m
<1>7. used' \in [Pipes -> 0..PIPE_SIZE]
  <2>1. used[p] + (IF pio.writing THEN m ELSE -m) \in 0..PIPE_SIZE
    <3>1. CASE pio.writing
      BY <1>5, <1>6, <3>1
    <3>2. CASE ~pio.writing
      BY <1>5, <1>6, <3>2
    <3> QED BY <3>1, <3>2
  <2> QED BY <1>1, <1>2, <2>1 DEF FilesTypeOK
<1> DEFINE next == IF IoOutcome(pio, d) = "WAIT" THEN [pio EXCEPT !.total = @ + m] ELSE Idle
<1>8. /\ next \in Ios
      /\ next.active => /\ next.fd = pio.fd /\ next.writing = pio.writing
                        /\ next.total < next.length
  <2>1. Idle \in Ios /\ ~Idle.active
    BY FilesAssumption DEF Idle, Ios, Fds
  <2>2. pio.total + m \in Nat
    BY <1>5, <1>6
  <2>3. CASE IoOutcome(pio, d) = "WAIT"
    <3> DEFINE n == pio.total + m
    <3>1. next = [pio EXCEPT !.total = n]
      BY <2>3
    <3>2. n \in Nat /\ n < pio.length
      BY <1>6, <2>2, <2>3
    <3> HIDE DEF n, next
    <3>3. next \in Ios /\ next.fd = pio.fd /\ next.writing = pio.writing /\ next.total = n
          /\ next.length = pio.length
      BY <3>1, <3>2 DEF Ios
    <3> QED BY <3>2, <3>3
  <2>4. CASE IoOutcome(pio, d) # "WAIT"
    <3>1. next = Idle
      BY <2>4
    <3> HIDE DEF next, Idle
    <3> QED BY <2>1, <3>1
  <2> QED BY <2>3, <2>4
<1>9. pending_io' = [pending_io EXCEPT ![s] = next]
  BY <1>1
<1> HIDE DEF next
<1>10. /\ pending_io' \in [Tasks -> Ios]
       /\ \A t \in Tasks : pending_io'[t] = IF t = s THEN next ELSE pending_io[t]
  BY <1>2, <1>8, <1>9 DEF FilesTypeOK
<1>11. FilesTypeOK'
  BY <1>1, <1>2, <1>7, <1>10 DEF FilesTypeOK
<1>12. RefsExact'
  BY <1>1, <1>2 DEF RefsExact, References
<1>13. EndsExact'
  BY <1>1, <1>2, EndsKept
<1>14. PendingOnPipe'
  <2> SUFFICES ASSUME NEW t \in Tasks, pending_io'[t].active
               PROVE  /\ Transferable(t, pending_io'[t].fd, pending_io'[t].writing)
                      /\ pending_io'[t].total < pending_io'[t].length
    BY <1>1 DEF PendingOnPipe, Transferable
  <2>1. CASE t = s
    <3>1. pending_io'[t] = next
      BY <1>10, <2>1
    <3> QED BY <1>8, <2>1, <3>1
  <2>2. CASE t # s
    <3>1. pending_io'[t] = pending_io[t]
      BY <1>10, <2>2
    <3> QED BY <1>2, <3>1 DEF PendingOnPipe
  <2> QED BY <2>1, <2>2
<1> QED BY <1>11, <1>12, <1>13, <1>14 DEF FilesInv

---------------------------------------------------------------------------
(* The invariant                                                           *)

\* linux_syscall_reset: the terminal has one reference per descriptor.
LEMMA InitFilesInv == FilesInit => FilesInv
<1> SUFFICES ASSUME FilesInit PROVE FilesInv
  OBVIOUS
<1>1. /\ LINUX_TASK_LIMIT \in Nat /\ LINUX_TASK_LIMIT > 0 /\ FD_COUNT \in Nat /\ FD_COUNT > 0
      /\ STDIO \in Nat /\ STDIO <= FD_COUNT /\ PIPE_SIZE \in Nat
  BY FilesAssumption
<1>2. Idle \in Ios /\ ~Idle.active
  BY <1>1 DEF Idle, Ios, Fds
<1>3. /\ 0 \in Tasks /\ None \notin Descriptions
      /\ \A d \in Descriptions : d \in Int /\ (d < STDIO => d \in Fds)
      /\ \A fd \in Fds : fd < STDIO => fd \in Descriptions
  <2>1. FD_COUNT <= FD_COUNT * LINUX_TASK_LIMIT /\ FD_COUNT * LINUX_TASK_LIMIT \in Nat
    BY <1>1
  <2> QED BY <1>1, <2>1 DEF Tasks, Descriptions, Fds, None
<1>4. FilesTypeOK
  <2>1. task_files \in TablesOK /\ task_flags \in FlagsOK
    BY <1>3 DEF FilesInit, StartFiles, TablesOK, FlagsOK
  <2>2. refs \in [Descriptions -> Nat]
    BY DEF FilesInit, StartRefs
  <2> HIDE DEF Idle
  <2> QED BY <1>1, <1>2, <1>3, <2>1, <2>2 DEF FilesInit, FilesTypeOK
<1>5. RefsExact
  <2> SUFFICES ASSUME NEW d \in Descriptions PROVE refs[d] = Cardinality(References(d))
    BY DEF RefsExact
  <2>1. ASSUME NEW r \in Tasks \X Fds
        PROVE  r \in References(d) <=> r = <<0, d>> /\ d < STDIO
    <3>1. r[1] \in Tasks /\ r[2] \in Fds /\ r = <<r[1], r[2]>>
      OBVIOUS
    <3>2. task_files[r[1]][r[2]] = IF r[1] = 0 /\ r[2] < STDIO THEN r[2] ELSE None
      BY <3>1 DEF FilesInit, StartFiles
    <3> QED BY <1>3, <3>1, <3>2 DEF References
  <2>2. References(d) \subseteq Tasks \X Fds
    BY DEF References
  <2>3. refs[d] = IF d < STDIO THEN 1 ELSE 0
    BY DEF FilesInit, StartRefs
  <2>4. CASE d < STDIO
    <3>1. <<0, d>> \in Tasks \X Fds
      BY <1>3, <2>4
    <3>2. References(d) = {<<0, d>>}
      BY <2>1, <2>2, <2>4, <3>1
    <3> QED BY <2>3, <2>4, <3>2, FS_Singleton
  <2>5. CASE ~(d < STDIO)
    <3>1. References(d) = {}
      BY <2>1, <2>2, <2>5
    <3> QED BY <2>3, <2>5, <3>1, FS_EmptySet
  <2> QED BY <2>4, <2>5
<1>6. EndsExact
  <2>1. \A p \in Pipes : ReadEnds(p) = {} /\ WriteEnds(p) = {}
    BY DEF FilesInit, ReadEnds, WriteEnds, Pipes, None
  <2>2. \A p \in Pipes : readers[p] = 0 /\ writers[p] = 0
    BY DEF FilesInit
  <2> QED BY <2>1, <2>2, FS_EmptySet DEF EndsExact
<1>7. PendingOnPipe
  <2> HIDE DEF Idle
  <2> QED BY <1>2 DEF FilesInit, PendingOnPipe
<1> QED BY <1>4, <1>5, <1>6, <1>7 DEF FilesInv

\* Any set of slots exits, or one slot closes what it has marked.
LEMMA ExitInv ==
  ASSUME FilesInv, file_task' \in Tasks, NEW S \in SUBSET Tasks, FilesExit(S)
  PROVE  FilesInv'
<1> DEFINE R == {r \in S \X Fds : task_files[r[1]][r[2]] # None}
<1>1. /\ CloseReferences(R, refs) /\ ClearTables(R)
      /\ pending_io' = [s \in Tasks |-> IF s \in S THEN Idle ELSE pending_io[s]]
  BY DEF FilesExit
<1>2. R \in SUBSET (Tasks \X Fds) /\ \A s, fd : <<s, fd>> \in R => s \in S
  OBVIOUS
<1> HIDE DEF R
<1>3. Idle \in Ios /\ ~Idle.active
  BY FilesAssumption DEF Idle, Ios, Fds
<1> HIDE DEF Idle
<1>4. pending_io' \in [Tasks -> Ios]
  BY <1>1, <1>3 DEF FilesInv, FilesTypeOK
<1>5. \A s \in Tasks : pending_io'[s].active =>
        pending_io'[s] = pending_io[s] /\ <<s, pending_io[s].fd>> \notin R
  BY <1>1, <1>2, <1>3
<1> QED BY <1>1, <1>2, <1>4, <1>5, CloseInv

\* The descriptor calls of the slot whose tables are in use.
LEMMA CallInv ==
  ASSUME FilesInv, file_task' \in Tasks, NEW s \in Tasks, ~pending_io[s].active,
         DescriptorCall(s)
  PROVE  FilesInv'
<1>1. FilesTypeOK /\ CloexecArgs \subseteq BOOLEAN /\ NonblockArgs \subseteq BOOLEAN
  BY FilesAssumption DEF FilesInv
<1>2. ASSUME NEW R \in SUBSET ({s} \X Fds), CloseReferences(R, refs), ClearTables(R),
             pending_io' = pending_io
      PROVE  FilesInv'
  <2>1. R \in SUBSET (Tasks \X Fds) /\ \A t, fd : <<t, fd>> \in R => t = s
    BY <1>2
  <2>2. \A t \in Tasks : pending_io'[t].active =>
          pending_io'[t] = pending_io[t] /\ <<t, pending_io[t].fd>> \notin R
    BY <1>2, <2>1
  <2>3. pending_io' \in [Tasks -> Ios]
    BY <1>1, <1>2 DEF FilesTypeOK
  <2> QED BY <1>2, <2>1, <2>2, <2>3, CloseInv
<1>3. ASSUME NEW fd \in Fds, CloseFd(s, fd) PROVE FilesInv'
  <2>1. {<<s, fd>>} \in SUBSET ({s} \X Fds)
    OBVIOUS
  <2> QED BY <1>2, <1>3, <2>1 DEF CloseFd
<1>4. CASE Exec(s)
  <2> DEFINE R == {s} \X {fd \in OpenFds(s) : task_flags[s][fd]}
  <2>1. R \in SUBSET ({s} \X Fds) /\ CloseReferences(R, refs) /\ ClearTables(R)
        /\ pending_io' = pending_io
    BY <1>4 DEF Exec, OpenFds
  <2> QED BY <1>2, <2>1
<1>5. ASSUME NEW fd \in Fds, NEW c \in CloexecArgs, SetDescriptorFlag(s, fd, c) PROVE FilesInv'
  <2>1. task_flags' \in FlagsOK
    BY <1>1, <1>5 DEF SetDescriptorFlag, FilesTypeOK, FlagsOK
  <2>2. UNCHANGED <<task_files, refs, pipe, writes, nonblock, pipeVars, pending_io>>
    BY <1>5 DEF SetDescriptorFlag, descVars
  <2>3. nonblock' \in [Descriptions -> BOOLEAN]
    BY <1>1, <2>2 DEF FilesTypeOK
  <2> QED BY <2>1, <2>2, <2>3, FlagInv
<1>6. ASSUME NEW fd \in Fds, NEW nb \in NonblockArgs, SetStatusFlag(s, fd, nb) PROVE FilesInv'
  <2>1. nonblock' \in [Descriptions -> BOOLEAN]
    BY <1>1, <1>6 DEF SetStatusFlag, FilesTypeOK
  <2>2. UNCHANGED <<task_files, task_flags, refs, pipe, writes, pipeVars, pending_io>>
    BY <1>6 DEF SetStatusFlag, tableVars
  <2>3. task_flags' \in FlagsOK
    BY <1>1, <2>2 DEF FilesTypeOK
  <2> QED BY <2>1, <2>2, <2>3, FlagInv
<1>7. ASSUME NEW c \in CloexecArgs, Open(s, c) PROVE FilesInv'
  BY <1>1, <1>7, OpenInv
<1>8. ASSUME NEW nb \in NonblockArgs, NEW c \in CloexecArgs, CreatePipe(s, nb, c) PROVE FilesInv'
  BY <1>1, <1>8, PipeInv
<1>9. ASSUME NEW a \in Fds, NEW m \in Fds, Dup(s, a, m) PROVE FilesInv'
  BY <1>9, DupInv
<1>10. ASSUME NEW a \in Fds, NEW b \in Fds, Dup2(s, a, b) PROVE FilesInv'
  BY <1>10, Dup2Inv
<1> QED BY <1>3, <1>4, <1>5, <1>6, <1>7, <1>8, <1>9, <1>10 DEF DescriptorCall

\* Every step on the tables keeps the counts and the blocked transfers.
LEMMA NextFilesInv == FilesInv /\ [FilesNext]_filesVars => FilesInv'
<1> SUFFICES ASSUME FilesInv, [FilesNext]_filesVars PROVE FilesInv'
  OBVIOUS
<1>1. FilesTypeOK
  BY DEF FilesInv
<1>2. ASSUME UNCHANGED <<tableVars, descVars, pipeVars, pending_io>>, file_task' \in Tasks
      PROVE  FilesInv'
  <2>1. task_flags' \in FlagsOK /\ nonblock' \in [Descriptions -> BOOLEAN]
    BY <1>1, <1>2 DEF FilesTypeOK, tableVars, descVars
  <2> QED BY <1>2, <2>1, FlagInv DEF tableVars, descVars
<1>3. CASE UNCHANGED filesVars
  <2>1. UNCHANGED <<tableVars, descVars, pipeVars, pending_io>> /\ file_task' = file_task
    BY <1>3 DEF filesVars, tableVars, descVars, pipeVars
  <2> QED BY <1>1, <1>2, <2>1 DEF FilesTypeOK
<1>4. ASSUME NEW s \in Tasks, NEW fd \in Fds, NEW n \in Lengths, NEW w \in BOOLEAN,
             file_task' \in Tasks, Transfer(s, fd, n, w)
      PROVE  FilesInv'
  <2> DEFINE pio == NewIo(fd, n, w)
  <2>1. /\ pio \in Ios /\ pio.active /\ pio.total < pio.length /\ pio.fd = fd /\ pio.writing = w
    BY FilesAssumption DEF NewIo, Ios
  <2>2. Transferable(s, fd, w) /\ IoEffect(s, pio, task_files[s][fd])
    BY <1>4 DEF Transfer
  <2> HIDE DEF pio
  <2> QED BY <1>4, <2>1, <2>2, IoEffectInv
<1>5. ASSUME NEW s \in Tasks, file_task' \in Tasks, Resume(s) PROVE FilesInv'
  <2> DEFINE pio == pending_io[s]
  <2>1. pio.active /\ IoEffect(s, pio, task_files[s][pio.fd])
    BY <1>5 DEF Resume, IoReady
  <2>2. pio \in Ios /\ pio.total < pio.length /\ Transferable(s, pio.fd, pio.writing)
    BY <1>1, <2>1 DEF FilesInv, FilesTypeOK, PendingOnPipe
  <2> HIDE DEF pio
  <2> QED BY <1>5, <2>1, <2>2, IoEffectInv
<1>6. CASE FilesReset
  <2>1. FilesInit'
    BY <1>6 DEF FilesReset, FilesInit, StartFiles, StartRefs
  <2> QED BY <2>1, InitFilesInv, PTL
<1>7. ASSUME FilesNext PROVE FilesInv'
  <2>1. file_task' \in Tasks /\ file_task \in Tasks
    BY <1>1, <1>7 DEF FilesNext, FilesTypeOK
  <2>2. CASE SystemCall(file_task)
    BY <1>4, <2>1, <2>2, CallInv DEF SystemCall
  <2>3. CASE \E s, child \in Tasks :
               /\ s # child /\ OpenFds(child) = {} /\ ~pending_io[child].active
               /\ FilesFork(s, child)
    BY <2>1, <2>3, ForkInv
  <2> QED BY <1>2, <1>5, <1>6, <1>7, <2>1, <2>2, <2>3, ExitInv DEF FilesNext
<1> QED BY <1>3, <1>7

\* The pool of descriptions never runs out: there is one for every entry of
\* every table, and a description in use has at least one entry.
LEMMA PoolSuffices == FilesTypeOK /\ RefsExact => DescriptionsSuffice
<1> SUFFICES ASSUME FilesTypeOK, RefsExact, NEW s \in Tasks
             PROVE  Cardinality(FreeDescriptions) >= Cardinality(FreeFds(s, 0))
  BY DEF DescriptionsSuffice
<1> DEFINE U == Tasks \X Fds
           O == {r \in U : task_files[r[1]][r[2]] # None}
           D == Descriptions \ FreeDescriptions
           f == [r \in O |-> task_files[r[1]][r[2]]]
           E == {s} \X FreeFds(s, 0)
<1>1. /\ IsFiniteSet(U) /\ IsFiniteSet(Descriptions) /\ IsFiniteSet(Fds)
      /\ Cardinality(U) = Cardinality(Descriptions)
  BY FilesFinite
<1>2. f \in Surjection(O, D)
  <2>1. ASSUME NEW r \in O PROVE f[r] \in D
    <3>1. r[1] \in Tasks /\ r[2] \in Fds /\ task_files[r[1]][r[2]] # None
      OBVIOUS
    <3>2. task_files[r[1]][r[2]] \in Descriptions /\ refs[task_files[r[1]][r[2]]] > 0
      BY <3>1, EntryInUse DEF EntriesInUse
    <3>3. refs[task_files[r[1]][r[2]]] # 0
      BY <3>2 DEF FilesTypeOK
    <3> QED BY <3>2, <3>3 DEF FreeDescriptions
  <2>2. ASSUME NEW d \in D PROVE \E r \in O : f[r] = d
    <3>1. d \in Descriptions /\ refs[d] # 0 /\ d # None
      BY DEF FreeDescriptions, Descriptions, None
    <3>2. refs[d] > 0
      BY <3>1 DEF FilesTypeOK
    <3>3. PICK r : r \in References(d)
      BY <3>1, <3>2, RefsPositive
    <3>4. r \in U /\ task_files[r[1]][r[2]] = d
      BY <3>3 DEF References
    <3> QED BY <3>1, <3>4
  <2>3. f \in [O -> D]
    BY <2>1
  <2> HIDE DEF f, O, D
  <2> QED BY <2>2, <2>3 DEF Surjection
<1>3. O \in SUBSET U /\ IsFiniteSet(O)
  <2>1. O \in SUBSET U
    OBVIOUS
  <2> QED BY <1>1, <2>1, FS_Subset
<1>4. Cardinality(D) <= Cardinality(O)
  BY <1>2, <1>3, FS_Surjection
<1>5. FreeDescriptions \in SUBSET Descriptions /\ Descriptions \cap FreeDescriptions = FreeDescriptions
  BY DEF FreeDescriptions
<1>6. /\ Cardinality(D) = Cardinality(Descriptions) - Cardinality(FreeDescriptions)
      /\ Cardinality(FreeDescriptions) \in Nat
  <2>1. Cardinality(D) = Cardinality(Descriptions)
                           - Cardinality(Descriptions \cap FreeDescriptions)
    BY <1>1, FS_Difference
  <2>2. IsFiniteSet(FreeDescriptions)
    BY <1>1, <1>5, FS_Subset
  <2>3. Cardinality(FreeDescriptions) \in Nat
    BY <2>2, FS_CardinalityType
  <2> HIDE DEF D
  <2> QED BY <1>5, <2>1, <2>3
<1>7. U \cap O = O /\ IsFiniteSet(U \ O) /\ Cardinality(U \ O) = Cardinality(U) - Cardinality(O)
  <2> HIDE DEF U, O
  <2>1. U \cap O = O
    BY <1>3
  <2>2. IsFiniteSet(U \ O) /\ Cardinality(U \ O) = Cardinality(U) - Cardinality(U \cap O)
    BY <1>1, FS_Difference
  <2> QED BY <2>1, <2>2
<1>8. E \in SUBSET (U \ O)
  <2>1. ASSUME NEW r \in E PROVE r \in U /\ r \notin O
    <3>1. r[1] = s /\ r[2] \in Fds /\ task_files[r[1]][r[2]] = None /\ r = <<r[1], r[2]>>
      BY DEF FreeFds
    <3> QED BY <3>1
  <2> QED BY <2>1
<1>9. Cardinality(E) = Cardinality(FreeFds(s, 0)) /\ Cardinality(FreeFds(s, 0)) \in Nat
  <2>1. FreeFds(s, 0) \in SUBSET Fds
    BY DEF FreeFds
  <2>2. IsFiniteSet(FreeFds(s, 0))
    BY <1>1, <2>1, FS_Subset
  <2>3. IsFiniteSet({s}) /\ Cardinality({s}) = 1
    BY FS_Singleton
  <2>4. Cardinality(FreeFds(s, 0)) \in Nat
    BY <2>2, FS_CardinalityType
  <2>5. Cardinality(E) = 1 * Cardinality(FreeFds(s, 0))
    BY <2>2, <2>3, FS_Product
  <2> QED BY <2>4, <2>5
<1>10. Cardinality(E) <= Cardinality(U \ O)
  BY <1>7, <1>8, FS_Subset
<1>11. Cardinality(U) \in Nat /\ Cardinality(O) \in Nat /\ Cardinality(D) \in Int
  BY <1>1, <1>3, <1>6, FS_CardinalityType
<1> HIDE DEF U, O, D, E
<1> QED BY <1>1, <1>4, <1>6, <1>7, <1>9, <1>10, <1>11

\* The tables of linux_syscall.c on their own keep the invariant.
LEMMA FilesInvariant == FilesSpec => []FilesInv
  BY InitFilesInv, NextFilesInv, PTL DEF FilesSpec

(***************************************************************************)
(* References, readers, writers and free descriptions are counted exactly  *)
(* through every order of dup, dup2, fork, execve, close and exit, for     *)
(* every size of the tables (close_fd, create_pipe, linux_files_fork).     *)
(***************************************************************************)
THEOREM SharingExactInFiles == FilesSpec => []SharingExact
<1>1. FilesInv => SharingExact
  BY PoolSuffices DEF FilesInv, SharingExact
<1> QED BY <1>1, FilesInvariant, PTL

---------------------------------------------------------------------------
(* Processes: the table of linux_task.c on top of them                     *)

(* The root process is never reaped: it has a parent that does not exist. *)
RootInv == pid[0] = 1 /\ parent[0] = 0 /\ state[0] # "UNUSED"

(* What remains of NoLostWakeup while an exit has not been noticed yet. *)
WaitersHaveChildren ==
  mode # "returned" =>
    \A s \in Tasks : state[s] = "WAITING" => Children(s, wait_pid[s]) # {}

TaskInv ==
  /\ TaskTypeOK
  /\ OneRunner
  /\ UniquePids
  /\ RootInv
  /\ WaitersHaveChildren
  /\ NoLostWakeup
  /\ ParentAlive
  /\ SavedWhenStopped

(* The scheduler's slot arithmetic stays inside the table. *)
LEMMA RootIsTask == 0 \in Tasks
  BY FilesAssumption DEF Tasks

(* The state that linux_task_init builds satisfies the invariant. *)
LEMMA InitTaskInv == TaskInit /\ file_task = 0 => TaskInv
  BY RootIsTask, TaskAssumption
     DEF TaskInit, TaskInv, TaskTypeOK, States, OneRunner, UniquePids, RootInv,
         WaitersHaveChildren, NoLostWakeup, ParentAlive, SavedWhenStopped,
         Stopped, Children, Zombies, Matches

(* fork_task keeps the invariant: the new pid is fresh and the parent lives. *)
LEMMA ForkTaskInv == TaskInv /\ Fork => TaskInv'
<1> SUFFICES ASSUME TaskInv, Fork PROVE TaskInv'
  OBVIOUS
<1> USE DEF TaskInv
<1>1. PICK child \in Tasks :
        /\ state[child] = "UNUSED"
        /\ state' = [state EXCEPT ![current] = "READY", ![child] = "RUNNING"]
        /\ pid' = [pid EXCEPT ![child] = next_pid]
        /\ parent' = [parent EXCEPT ![child] = pid[current]]
        /\ status' = [status EXCEPT ![child] = 0]
        /\ wait_pid' = [wait_pid EXCEPT ![child] = 0]
        /\ saved' = [saved EXCEPT ![current] = TRUE, ![child] = FALSE]
        /\ current' = child
        /\ file_task' = child
  BY DEF Fork, PidsLeft, NextPid, Lowest
<1>2. /\ mode = "user" /\ mode' = "user" /\ next_pid # MAX_PID
      /\ next_pid' = next_pid + 1 /\ root_status' = root_status
  BY DEF Fork, PidsLeft, NextPid
<1>3. state[current] = "RUNNING" /\ current \in Tasks /\ child # current /\ child # 0
  BY <1>1, <1>2 DEF OneRunner, TaskTypeOK, RootInv
<1>4. TaskTypeOK'
  <2>1. next_pid + 1 \in 2..MAX_PID /\ next_pid \in Nat
    BY <1>2, TaskAssumption DEF TaskTypeOK
  <2>2. saved' \in [Tasks -> BOOLEAN]
    BY <1>1, Zenon DEF TaskTypeOK
  <2>3. state' \in [Tasks -> States]
    BY <1>1 DEF TaskTypeOK, States
  <2>4. pid' \in [Tasks -> Nat] /\ parent' \in [Tasks -> Nat] /\ status' \in [Tasks -> Nat]
    BY <1>1, <1>3, <2>1 DEF TaskTypeOK
  <2>5. wait_pid' \in [Tasks -> Int]
    BY <1>1 DEF TaskTypeOK
  <2> QED BY <1>1, <1>2, <2>1, <2>2, <2>3, <2>4, <2>5 DEF TaskTypeOK
<1>5. OneRunner'
  BY <1>1, <1>2, <1>3 DEF OneRunner, TaskTypeOK
<1>6. UniquePids'
  BY <1>1, <1>2, <1>3 DEF UniquePids, TaskTypeOK
<1>7. RootInv'
  BY <1>1, <1>3, RootIsTask DEF RootInv, TaskTypeOK
<1>8. ASSUME NEW s \in Tasks, state'[s] = "WAITING"
      PROVE  /\ Children(s, wait_pid[s])' # {}
             /\ Zombies(s, wait_pid[s])' = {}
  <2>1. state[s] = "WAITING" /\ s # child /\ s # current
    BY <1>1, <1>3, <1>8 DEF TaskTypeOK
  <2>2. Children(s, wait_pid[s]) # {} /\ Zombies(s, wait_pid[s]) = {}
    BY <2>1, <1>2 DEF NoLostWakeup
  <2>3. pid[s] # pid[current]
    BY <2>1, <1>3 DEF UniquePids
  <2>4. Children(s, wait_pid[s])' = Children(s, wait_pid[s])
    BY <1>1, <1>3, <2>1, <2>3 DEF Children, Matches, TaskTypeOK
  <2>5. Zombies(s, wait_pid[s])' \subseteq Zombies(s, wait_pid[s])
    BY <1>1, <1>3, <2>4 DEF Zombies, TaskTypeOK, Children
  <2> QED BY <2>2, <2>4, <2>5
<1>9. WaitersHaveChildren' /\ NoLostWakeup'
  BY <1>8 DEF WaitersHaveChildren, NoLostWakeup
<1>10. ParentAlive'
  <2> SUFFICES ASSUME NEW s \in Tasks \ {0}, state'[s] # "UNUSED"
               PROVE IF parent'[s] = 0 THEN state'[0] = "ZOMBIE"
                     ELSE \E t \in Tasks \ {s} : pid'[t] = parent'[s]
                            /\ state'[t] \notin {"UNUSED", "ZOMBIE"}
    BY DEF ParentAlive
  <2>1. CASE s = child
    <3>1. pid[current] # 0
      BY <1>3 DEF UniquePids, TaskTypeOK
    <3> QED BY <2>1, <3>1, <1>1, <1>3 DEF TaskTypeOK
  <2>2. CASE s # child
    <3>1. parent'[s] = parent[s] /\ state[s] # "UNUSED"
      BY <2>2, <1>1, <1>3 DEF TaskTypeOK
    <3>2. CASE parent[s] = 0
      BY <3>1, <3>2, <1>1, <1>3, RootIsTask DEF ParentAlive, TaskTypeOK
    <3>3. CASE parent[s] # 0
      <4>1. PICK t \in Tasks \ {s} : pid[t] = parent[s] /\ state[t] \notin {"UNUSED", "ZOMBIE"}
        BY <3>1, <3>3 DEF ParentAlive
      <4>2. pid'[t] = pid[t] /\ state'[t] \notin {"UNUSED", "ZOMBIE"}
        BY <4>1, <1>1, <1>3 DEF TaskTypeOK
      <4> QED BY <3>1, <3>3, <4>1, <4>2
    <3> QED BY <3>2, <3>3
  <2> QED BY <2>1, <2>2
<1>11. SavedWhenStopped'
  BY <1>1, <1>3 DEF SavedWhenStopped, Stopped, TaskTypeOK
<1> QED BY <1>4, <1>5, <1>6, <1>7, <1>9, <1>10, <1>11

(* A step that changes neither the process table nor file_task keeps it. *)
LEMMA SameTaskInv == TaskInv /\ UNCHANGED <<taskVars, file_task>> => TaskInv'
  BY DEF TaskInv, taskVars, TaskTypeOK, OneRunner, UniquePids, RootInv,
         WaitersHaveChildren, NoLostWakeup, ParentAlive, SavedWhenStopped,
         Children, Zombies, Matches

(* waitpid reaps a zombie child of the caller and disturbs nobody else. *)
LEMMA ReapTaskInv == ASSUME TaskInv, NEW p \in Int, WaitReap(p) PROVE TaskInv'
<1> USE DEF TaskInv
<1>1. PICK child \in Tasks :
        /\ child \in Zombies(current, p)
        /\ state' = [state EXCEPT ![child] = "UNUSED"]
        /\ pid' = Clear(pid, {child})
        /\ parent' = Clear(parent, {child})
        /\ status' = Clear(status, {child})
  BY DEF WaitReap, Lowest
<1>2. /\ mode = "user"
      /\ UNCHANGED <<file_task, wait_pid, saved, current, next_pid, root_status, mode>>
  BY DEF WaitReap, filesVars
<1>3. /\ state[child] = "ZOMBIE" /\ parent[child] = pid[current]
      /\ state[current] = "RUNNING" /\ current \in Tasks
  BY <1>1, <1>2 DEF Zombies, Children, Matches, OneRunner, TaskTypeOK
<1>4. pid[current] # 0 /\ child # 0
  BY <1>3 DEF UniquePids, RootInv, TaskTypeOK
<1>5. TaskTypeOK'
  BY <1>1, <1>2 DEF TaskTypeOK, States, Clear
<1>6. OneRunner' /\ UniquePids' /\ RootInv' /\ SavedWhenStopped'
  <2>1. OneRunner'
    BY <1>1, <1>2, <1>3 DEF OneRunner, TaskTypeOK
  <2>2. UniquePids'
    BY <1>1, <1>2, <1>3 DEF UniquePids, TaskTypeOK, Clear
  <2>3. RootInv'
    BY <1>1, <1>4, RootIsTask DEF RootInv, TaskTypeOK, Clear
  <2>4. SavedWhenStopped'
    BY <1>1, <1>2, <1>3 DEF SavedWhenStopped, Stopped, TaskTypeOK
  <2> QED BY <2>1, <2>2, <2>3, <2>4
<1>7. ASSUME NEW s \in Tasks, state'[s] = "WAITING"
      PROVE  /\ Children(s, wait_pid[s])' # {}
             /\ Zombies(s, wait_pid[s])' = {}
  <2>1. state[s] = "WAITING" /\ s # child /\ s # current
    BY <1>1, <1>3, <1>7 DEF TaskTypeOK
  <2>2. Children(s, wait_pid[s]) # {} /\ Zombies(s, wait_pid[s]) = {}
    BY <2>1, <1>2 DEF NoLostWakeup
  <2>3. pid[s] # pid[current]
    BY <2>1, <1>3 DEF UniquePids
  <2>4. Children(s, wait_pid[s])' = Children(s, wait_pid[s])
    BY <1>1, <1>2, <1>3, <2>1, <2>3 DEF Children, Matches, TaskTypeOK, Clear
  <2>5. Zombies(s, wait_pid[s])' \subseteq Zombies(s, wait_pid[s])
    BY <1>1, <2>4 DEF Zombies, TaskTypeOK, Children
  <2> QED BY <2>2, <2>4, <2>5
<1>8. WaitersHaveChildren' /\ NoLostWakeup'
  BY <1>7 DEF WaitersHaveChildren, NoLostWakeup
<1>9. ParentAlive'
  <2> SUFFICES ASSUME NEW s \in Tasks \ {0}, state'[s] # "UNUSED"
               PROVE IF parent'[s] = 0 THEN state'[0] = "ZOMBIE"
                     ELSE \E t \in Tasks \ {s} : pid'[t] = parent'[s]
                            /\ state'[t] \notin {"UNUSED", "ZOMBIE"}
    BY DEF ParentAlive
  <2>1. s # child /\ parent'[s] = parent[s] /\ state[s] # "UNUSED"
    BY <1>1 DEF TaskTypeOK, Clear
  <2>2. CASE parent[s] = 0
    BY <2>1, <2>2, <1>1, <1>4, RootIsTask DEF ParentAlive, TaskTypeOK
  <2>3. CASE parent[s] # 0
    <3>1. PICK t \in Tasks \ {s} : pid[t] = parent[s] /\ state[t] \notin {"UNUSED", "ZOMBIE"}
      BY <2>1, <2>3 DEF ParentAlive
    <3>2. pid'[t] = pid[t] /\ state'[t] = state[t]
      BY <3>1, <1>1, <1>3 DEF TaskTypeOK, Clear
    <3> QED BY <2>1, <2>3, <3>1, <3>2
  <2> QED BY <2>2, <2>3
<1> QED BY <1>5, <1>6, <1>8, <1>9

(* A running task that saves itself and stops: sched_yield, waitpid and a   *)
(* pipe transfer that must wait.                                            *)
LEMMA BlockTaskInv ==
  ASSUME TaskInv, NEW b \in Stopped, mode = "user", Block(b),
         file_task' = file_task,
         wait_pid' \in [Tasks -> Int],
         \A s \in Tasks : s # current => wait_pid'[s] = wait_pid[s],
         b = "WAITING" => Children(current, wait_pid'[current]) # {}
  PROVE  TaskInv'
<1> USE DEF TaskInv
<1>1. /\ state' = [state EXCEPT ![current] = b]
      /\ saved' = [saved EXCEPT ![current] = TRUE]
      /\ mode' = "wake"
      /\ UNCHANGED <<pid, parent, status, current, next_pid, root_status>>
  BY DEF Block
<1>2. state[current] = "RUNNING" /\ current \in Tasks
  BY DEF OneRunner, TaskTypeOK
<1>3. TaskTypeOK'
  <2>1. saved' \in [Tasks -> BOOLEAN]
    BY <1>1, Zenon DEF TaskTypeOK
  <2>2. state' \in [Tasks -> States]
    BY <1>1 DEF TaskTypeOK, States, Stopped
  <2> QED BY <1>1, <2>1, <2>2 DEF TaskTypeOK
<1>4. \A s \in Tasks : state'[s] # "UNUSED" <=> state[s] # "UNUSED"
  BY <1>1, <1>2 DEF TaskTypeOK, Stopped
<1>5. OneRunner' /\ UniquePids' /\ RootInv' /\ SavedWhenStopped'
  <2>1. OneRunner'
    BY <1>1, <1>2 DEF OneRunner, TaskTypeOK, Stopped
  <2>2. UniquePids'
    BY <1>1, <1>4 DEF UniquePids
  <2>3. RootInv'
    BY <1>1, <1>4, RootIsTask DEF RootInv
  <2>4. SavedWhenStopped'
    BY <1>1, <1>2 DEF SavedWhenStopped, Stopped, TaskTypeOK
  <2> QED BY <2>1, <2>2, <2>3, <2>4
<1>7. WaitersHaveChildren' /\ NoLostWakeup'
  <2> SUFFICES ASSUME NEW s \in Tasks, state'[s] = "WAITING"
               PROVE Children(s, wait_pid[s])' # {}
    BY <1>1 DEF WaitersHaveChildren, NoLostWakeup
  <2>0. Children(s, wait_pid[s])' = Children(s, wait_pid'[s])
    BY <1>1, <1>4 DEF Children, Matches
  <2>1. CASE s = current
    BY <2>0, <2>1, <1>1, <1>2 DEF TaskTypeOK
  <2>2. CASE s # current
    BY <2>0, <2>2, <1>1 DEF TaskTypeOK, WaitersHaveChildren
  <2> QED BY <2>1, <2>2
<1>8. ParentAlive'
  <2>1. \A s \in Tasks : state'[s] \in {"UNUSED", "ZOMBIE"} <=> state[s] \in {"UNUSED", "ZOMBIE"}
    BY <1>1, <1>2 DEF TaskTypeOK, Stopped
  <2>2. state[0] = "ZOMBIE" => state'[0] = "ZOMBIE"
    BY <1>1, <1>2, RootIsTask DEF TaskTypeOK
  <2> QED BY <1>1, <1>4, <2>1, <2>2 DEF ParentAlive
<1> QED BY <1>3, <1>5, <1>7, <1>8

(***************************************************************************)
(* exit_task: the task that runs, or the blocked writer the scheduler has  *)
(* just picked, becomes a zombie and its children change parents.          *)
(***************************************************************************)
LEMMA ExitTaskInv ==
  ASSUME TaskInv, NEW s \in Tasks, NEW w \in Nat, ExitTask(s, w),
         current' = s, file_task' = s,
         state[s] \notin {"UNUSED", "ZOMBIE", "WAITING"},
         mode = "pick" \/ (mode = "user" /\ s = current)
  PROVE  TaskInv'
<1> USE DEF TaskInv
<1>1. /\ state' = [state EXCEPT ![s] = "ZOMBIE"]
      /\ status' = [status EXCEPT ![s] = w]
      /\ root_status' = IF s = 0 THEN LaunchStatus(w) ELSE root_status
      /\ saved' = [saved EXCEPT ![s] = FALSE]
      /\ mode' = "wake"
      /\ UNCHANGED <<pid, wait_pid, next_pid>>
      /\ parent' = [i \in Tasks |->
                      IF i # 0 /\ state'[i] # "UNUSED" /\ parent[i] = pid[s]
                      THEN IF state'[0] # "ZOMBIE" THEN 1 ELSE 0
                      ELSE parent[i]]
  BY DEF ExitTask, Reparent
<1>2. \A i \in Tasks : state'[i] # "UNUSED" <=> state[i] # "UNUSED"
  BY <1>1 DEF TaskTypeOK
<1>3. \A i \in Tasks : i # s => state'[i] = state[i]
  BY <1>1 DEF TaskTypeOK
<1>4. state'[s] = "ZOMBIE"
  BY <1>1 DEF TaskTypeOK
<1>5. TaskTypeOK'
  <2>1. saved' \in [Tasks -> BOOLEAN]
    BY <1>1, Zenon DEF TaskTypeOK
  <2>2. state' \in [Tasks -> States]
    BY <1>1 DEF TaskTypeOK, States
  <2>3. parent' \in [Tasks -> Nat] /\ status' \in [Tasks -> Nat]
    BY <1>1 DEF TaskTypeOK
  <2>4. root_status' \in Nat
    <3>1. LaunchStatus(w) \in Nat
      BY DEF LaunchStatus
    <3> QED BY <1>1, <3>1 DEF TaskTypeOK
  <2> QED BY <1>1, <2>1, <2>2, <2>3, <2>4 DEF TaskTypeOK
<1>6. OneRunner'
  <2>1. \A i \in Tasks : i # s => state[i] # "RUNNING"
    BY DEF OneRunner
  <2> QED BY <1>1, <1>3, <1>4, <2>1 DEF OneRunner
<1>7. UniquePids' /\ RootInv' /\ SavedWhenStopped'
  <2>1. UniquePids'
    BY <1>1, <1>2 DEF UniquePids
  <2>2. RootInv'
    BY <1>1, <1>2, RootIsTask DEF RootInv
  <2>3. SavedWhenStopped'
    BY <1>1, <1>3, <1>4 DEF SavedWhenStopped, Stopped, TaskTypeOK
  <2> QED BY <2>1, <2>2, <2>3
<1>8. WaitersHaveChildren' /\ NoLostWakeup'
  <2> SUFFICES ASSUME NEW i \in Tasks, state'[i] = "WAITING"
               PROVE Children(i, wait_pid[i])' # {}
    BY <1>1 DEF WaitersHaveChildren, NoLostWakeup
  <2>1. i # s /\ state[i] = "WAITING"
    BY <1>3, <1>4
  <2>2. PICK j \in Tasks : Matches(i, j, wait_pid[i])
    BY <2>1 DEF WaitersHaveChildren, Children
  <2>3. pid[i] # pid[s]
    BY <2>1 DEF UniquePids
  <2>4. Matches(i, j, wait_pid[i])'
    BY <1>1, <1>2, <2>2, <2>3 DEF Matches, TaskTypeOK
  <2> QED BY <2>4 DEF Children
<1>9. ParentAlive'
  <2> SUFFICES ASSUME NEW i \in Tasks \ {0}, state'[i] # "UNUSED"
               PROVE IF parent'[i] = 0 THEN state'[0] = "ZOMBIE"
                     ELSE \E t \in Tasks \ {i} : pid'[t] = parent'[i]
                            /\ state'[t] \notin {"UNUSED", "ZOMBIE"}
    BY DEF ParentAlive
  <2>1. CASE parent[i] = pid[s]
    <3>1. CASE state'[0] = "ZOMBIE"
      BY <2>1, <3>1, <1>1
    <3>2. CASE state'[0] # "ZOMBIE"
      <4>1. parent'[i] = 1 /\ pid'[0] = 1 /\ state'[0] # "UNUSED"
        BY <2>1, <3>2, <1>1, <1>2, RootIsTask DEF RootInv
      <4> QED BY <3>2, <4>1, RootIsTask
    <3> QED BY <3>1, <3>2
  <2>2. CASE parent[i] # pid[s]
    <3>1. parent'[i] = parent[i] /\ state[i] # "UNUSED"
      BY <2>2, <1>1, <1>2
    <3>2. CASE parent[i] = 0
      BY <3>1, <3>2, <1>3, <1>4, RootIsTask DEF ParentAlive
    <3>3. CASE parent[i] # 0
      <4>1. PICK t \in Tasks \ {i} : pid[t] = parent[i] /\ state[t] \notin {"UNUSED", "ZOMBIE"}
        BY <3>1, <3>3 DEF ParentAlive
      <4>2. t # s
        BY <4>1, <2>2
      <4> QED BY <3>1, <3>3, <4>1, <4>2, <1>1, <1>3
    <3> QED BY <3>2, <3>3
  <2> QED BY <2>1, <2>2
<1> QED BY <1>5, <1>6, <1>7, <1>8, <1>9

(* wake_waiters: whoever still waits afterwards has no zombie child. *)
LEMMA WakeTaskInv == TaskInv /\ WakeWaiters => TaskInv'
<1> SUFFICES ASSUME TaskInv, WakeWaiters PROVE TaskInv'
  OBVIOUS
<1> USE DEF TaskInv
<1>1. /\ mode = "wake" /\ mode' = "pick"
      /\ state' = [s \in Tasks |-> IF s \in Woken THEN "READY"
                                   ELSE IF s \in Reaped THEN "UNUSED" ELSE state[s]]
      /\ pid' = Clear(pid, Reaped) /\ parent' = Clear(parent, Reaped)
      /\ status' = Clear(status, Reaped) /\ wait_pid' = Clear(wait_pid, Woken)
      /\ UNCHANGED <<file_task, saved, current, next_pid, root_status>>
  BY DEF WakeWaiters, filesVars
<1>2. \A i \in Woken : i \in Tasks /\ state[i] = "WAITING"
  BY DEF Woken
<1>3. \A j \in Reaped : /\ j \in Tasks /\ state[j] = "ZOMBIE" /\ j # 0 /\ j \notin Woken
                        /\ \E i \in Woken : parent[j] = pid[i]
  <2> SUFFICES ASSUME NEW j \in Reaped
               PROVE /\ j \in Tasks /\ state[j] = "ZOMBIE" /\ j # 0 /\ j \notin Woken
                     /\ \E i \in Woken : parent[j] = pid[i]
    OBVIOUS
  <2>1. PICK i \in Woken : j \in Zombies(i, wait_pid[i])
    BY DEF Reaped, Lowest
  <2>2. j \in Tasks /\ state[j] = "ZOMBIE" /\ parent[j] = pid[i]
    BY <2>1 DEF Zombies, Children, Matches
  <2>3. pid[i] # 0
    BY <1>2 DEF UniquePids, TaskTypeOK
  <2> QED BY <2>2, <2>3, <1>2 DEF RootInv
<1>4. \A s \in Tasks : s \notin Woken /\ s \notin Reaped =>
        /\ state'[s] = state[s] /\ pid'[s] = pid[s] /\ parent'[s] = parent[s]
        /\ wait_pid'[s] = wait_pid[s]
  BY <1>1 DEF Clear
<1>5. \A s \in Woken : /\ state'[s] = "READY" /\ pid'[s] = pid[s]
                       /\ parent'[s] = parent[s]
  BY <1>1, <1>2, <1>3 DEF Clear
<1>6. \A s \in Reaped : state'[s] = "UNUSED"
  BY <1>1, <1>3
<1>7. TaskTypeOK'
  BY <1>1 DEF TaskTypeOK, States, Clear
<1>8. OneRunner'
  BY <1>1, <1>2, <1>4, <1>5, <1>6 DEF OneRunner
<1>9. UniquePids'
  <2>1. \A s \in Tasks : state'[s] # "UNUSED" => state[s] # "UNUSED" /\ pid'[s] = pid[s]
    BY <1>2, <1>4, <1>5, <1>6
  <2> QED BY <1>1, <2>1 DEF UniquePids
<1>10. RootInv'
  BY <1>3, <1>4, <1>5, RootIsTask DEF RootInv
<1>11. SavedWhenStopped'
  BY <1>1, <1>2, <1>3, <1>4, <1>5, <1>6 DEF SavedWhenStopped, Stopped
<1>12. WaitersHaveChildren' /\ NoLostWakeup'
  <2> SUFFICES ASSUME NEW s \in Tasks, state'[s] = "WAITING"
               PROVE Children(s, wait_pid[s])' # {} /\ Zombies(s, wait_pid[s])' = {}
    BY DEF WaitersHaveChildren, NoLostWakeup
  <2>1. /\ s \notin Woken /\ s \notin Reaped /\ state[s] = "WAITING"
        /\ wait_pid'[s] = wait_pid[s] /\ pid'[s] = pid[s]
    BY <1>4, <1>5, <1>6
  <2>2. Zombies(s, wait_pid[s]) = {} /\ Children(s, wait_pid[s]) # {}
    BY <2>1, <1>1 DEF Woken, WaitersHaveChildren
  <2>3. \A j \in Tasks : Matches(s, j, wait_pid[s])' => Matches(s, j, wait_pid[s])
    BY <2>1, <1>2, <1>4, <1>5, <1>6 DEF Matches
  <2>4. PICK j \in Tasks : Matches(s, j, wait_pid[s])
    BY <2>2 DEF Children
  <2>5. state[j] # "ZOMBIE"
    BY <2>2, <2>4 DEF Zombies, Children
  <2>6. Matches(s, j, wait_pid[s])'
    BY <2>1, <2>4, <2>5, <1>2, <1>3, <1>4, <1>5 DEF Matches
  <2>7. \A k \in Tasks : state'[k] = "ZOMBIE" => state[k] = "ZOMBIE"
    BY <1>4, <1>5, <1>6
  <2> QED BY <2>2, <2>3, <2>6, <2>7 DEF Children, Zombies
<1>13. ParentAlive'
  <2> SUFFICES ASSUME NEW s \in Tasks \ {0}, state'[s] # "UNUSED"
               PROVE IF parent'[s] = 0 THEN state'[0] = "ZOMBIE"
                     ELSE \E t \in Tasks \ {s} : pid'[t] = parent'[s]
                            /\ state'[t] \notin {"UNUSED", "ZOMBIE"}
    BY DEF ParentAlive
  <2>1. s \notin Reaped /\ parent'[s] = parent[s] /\ state[s] # "UNUSED"
    BY <1>2, <1>4, <1>5, <1>6
  <2>2. CASE parent[s] = 0
    <3>1. state[0] = "ZOMBIE"
      BY <2>1, <2>2 DEF ParentAlive
    <3>2. 0 \notin Woken /\ 0 \notin Reaped
      BY <3>1, <1>2, <1>3
    <3> QED BY <2>1, <2>2, <3>1, <3>2, <1>4, RootIsTask
  <2>3. CASE parent[s] # 0
    <3>1. PICK t \in Tasks \ {s} : pid[t] = parent[s] /\ state[t] \notin {"UNUSED", "ZOMBIE"}
      BY <2>1, <2>3 DEF ParentAlive
    <3>2. t \notin Reaped
      BY <3>1, <1>3
    <3>3. pid'[t] = pid[t] /\ state'[t] \notin {"UNUSED", "ZOMBIE"}
      BY <3>1, <3>2, <1>4, <1>5
    <3> QED BY <2>1, <2>3, <3>1, <3>3
  <2> QED BY <2>2, <2>3
<1> QED BY <1>7, <1>8, <1>9, <1>10, <1>11, <1>12, <1>13

(* The scheduler hands the processor to a task that was READY or blocked. *)
LEMMA EnterTaskInv ==
  ASSUME TaskInv, NEW s \in Tasks, mode = "pick", Enter(s), current' = s, file_task' = s,
         state[s] \in {"READY", "IO_WAITING"}
  PROVE  TaskInv'
<1> USE DEF TaskInv
<1>1. /\ state' = [state EXCEPT ![s] = "RUNNING"]
      /\ saved' = [saved EXCEPT ![s] = FALSE]
      /\ mode' = "user"
      /\ UNCHANGED <<pid, parent, status, wait_pid, next_pid, root_status>>
  BY DEF Enter
<1>2. \A i \in Tasks : i # s => state'[i] = state[i]
  BY <1>1 DEF TaskTypeOK
<1>3. state'[s] = "RUNNING"
  BY <1>1 DEF TaskTypeOK
<1>4. TaskTypeOK'
  <2>1. saved' \in [Tasks -> BOOLEAN]
    BY <1>1, Zenon DEF TaskTypeOK
  <2>2. state' \in [Tasks -> States]
    BY <1>1 DEF TaskTypeOK, States
  <2> QED BY <1>1, <2>1, <2>2 DEF TaskTypeOK
<1>5. OneRunner'
  BY <1>1, <1>2, <1>3 DEF OneRunner
<1>6. UniquePids' /\ RootInv' /\ SavedWhenStopped'
  <2>1. UniquePids'
    BY <1>1, <1>2, <1>3 DEF UniquePids
  <2>2. RootInv'
    BY <1>1, <1>2, <1>3, RootIsTask DEF RootInv
  <2>3. SavedWhenStopped'
    BY <1>1, <1>2, <1>3 DEF SavedWhenStopped, Stopped, TaskTypeOK
  <2> QED BY <2>1, <2>2, <2>3
<1>7. WaitersHaveChildren' /\ NoLostWakeup'
  <2> SUFFICES ASSUME NEW i \in Tasks, state'[i] = "WAITING"
               PROVE Children(i, wait_pid[i])' # {} /\ Zombies(i, wait_pid[i])' = {}
    BY DEF WaitersHaveChildren, NoLostWakeup
  <2>1. i # s /\ state[i] = "WAITING"
    BY <1>2, <1>3
  <2>2. Children(i, wait_pid[i]) # {} /\ Zombies(i, wait_pid[i]) = {}
    BY <2>1 DEF NoLostWakeup
  <2>3. Children(i, wait_pid[i])' = Children(i, wait_pid[i])
    BY <1>1, <1>2, <1>3 DEF Children, Matches
  <2> QED BY <2>2, <2>3, <1>2, <1>3 DEF Zombies, Children
<1>8. ParentAlive'
  BY <1>1, <1>2, <1>3, RootIsTask DEF ParentAlive
<1> QED BY <1>4, <1>5, <1>6, <1>7, <1>8

(* A step of the specification keeps the invariant, action by action. *)
LEMMA StepTaskInv == TaskInv /\ [Next]_vars => TaskInv'
<1> SUFFICES ASSUME TaskInv, [Next]_vars PROVE TaskInv'
  OBVIOUS
<1>0. TaskTypeOK /\ OneRunner
  BY DEF TaskInv
<1>1. CASE Fork
  BY <1>1, ForkTaskInv
<1>2. ASSUME NEW p \in WaitArgs, WaitReap(p) PROVE TaskInv'
  BY <1>2, ReapTaskInv, TaskAssumption DEF WaitArgs
<1>3. ASSUME NEW p \in WaitArgs, WaitBlock(p) PROVE TaskInv'
  <2>1. p \in Int
    BY TaskAssumption DEF WaitArgs
  <2>2. /\ mode = "user" /\ Block("WAITING") /\ file_task' = file_task
        /\ wait_pid' = [wait_pid EXCEPT ![current] = p]
        /\ Children(current, p) # {}
    BY <1>3 DEF WaitBlock, filesVars
  <2>3. /\ wait_pid' \in [Tasks -> Int] /\ wait_pid'[current] = p
        /\ \A s \in Tasks : s # current => wait_pid'[s] = wait_pid[s]
    BY <1>0, <2>1, <2>2 DEF TaskTypeOK
  <2> QED BY <2>2, <2>3, BlockTaskInv DEF Stopped
<1>4. CASE Yield
  <2>1. mode = "user" /\ Block("READY") /\ file_task' = file_task /\ wait_pid' = wait_pid
    BY <1>4 DEF Yield, filesVars
  <2> QED BY <2>1, <1>0, BlockTaskInv DEF Stopped, TaskTypeOK
<1>5. ASSUME NEW code \in ExitCodes, Exit(code) PROVE TaskInv'
  <2>1. code * 256 \in Nat
    BY TaskAssumption
  <2>2. state[current] = "RUNNING" /\ file_task = current /\ current \in Tasks /\ mode = "user"
    BY <1>0, <1>5 DEF OneRunner, TaskTypeOK, Exit
  <2> QED BY <1>5, <2>1, <2>2, ExitTaskInv DEF Exit
<1>6. CASE Fault
  <2>1. state[current] = "RUNNING" /\ file_task = current /\ current \in Tasks /\ mode = "user"
    BY <1>0, <1>6 DEF OneRunner, TaskTypeOK, Fault
  <2>2. SIGSEGV \in Nat
    BY DEF SIGSEGV
  <2> QED BY <1>6, <2>1, <2>2, ExitTaskInv DEF Fault
<1>7. ASSUME NEW fd \in Fds, NEW n \in Lengths, NEW w \in BOOLEAN, PipeTransfer(fd, n, w)
      PROVE TaskInv'
  <2>1. /\ state[current] = "RUNNING" /\ file_task = current /\ current \in Tasks
        /\ mode = "user" /\ file_task' = file_task
    BY <1>0, <1>7 DEF OneRunner, TaskTypeOK, PipeTransfer
  <2>2. CASE UNCHANGED taskVars
    BY <2>1, <2>2, SameTaskInv
  <2>3. CASE Block("IO_WAITING") /\ wait_pid' = wait_pid
    BY <2>1, <2>3, <1>0, BlockTaskInv DEF Stopped, TaskTypeOK
  <2>4. CASE ExitTask(current, SIGPIPE) /\ current' = current
    <3>1. SIGPIPE \in Nat
      BY DEF SIGPIPE
    <3> QED BY <2>1, <2>4, <3>1, ExitTaskInv
  <2> QED BY <1>7, <2>2, <2>3, <2>4 DEF PipeTransfer
<1>8. CASE UserCall
  BY <1>8, SameTaskInv DEF UserCall
<1>9. CASE WakeWaiters
  BY <1>9, WakeTaskInv
<1>10. ASSUME NEW s \in Tasks, PickReady(s) PROVE TaskInv'
  BY <1>10, EnterTaskInv DEF PickReady
<1>11. ASSUME NEW s \in Tasks, PickBlocked(s) PROVE TaskInv'
  <2>1. mode = "pick" /\ state[s] = "IO_WAITING" /\ current' = s /\ file_task' = s
    BY <1>11 DEF PickBlocked
  <2>2. CASE Enter(s)
    BY <2>1, <2>2, EnterTaskInv
  <2>3. CASE ExitTask(s, SIGPIPE)
    <3>1. SIGPIPE \in Nat
      BY DEF SIGPIPE
    <3> QED BY <2>1, <2>3, <3>1, ExitTaskInv
  <2>4. CASE /\ mode' = "wake"
             /\ UNCHANGED <<state, pid, parent, status, wait_pid, saved, next_pid, root_status>>
    <3>1. TaskTypeOK' /\ OneRunner' /\ UniquePids' /\ RootInv' /\ SavedWhenStopped'
      BY <2>1, <2>4 DEF TaskInv, TaskTypeOK, OneRunner, UniquePids, RootInv, SavedWhenStopped
    <3>2. WaitersHaveChildren' /\ NoLostWakeup' /\ ParentAlive'
      BY <2>1, <2>4 DEF TaskInv, WaitersHaveChildren, NoLostWakeup, ParentAlive, Children, Matches
    <3> QED BY <3>1, <3>2 DEF TaskInv
  <2> QED BY <1>11, <2>2, <2>3, <2>4 DEF PickBlocked
<1>12. CASE Leave
  <2>1. /\ mode = "pick" /\ mode' = "returned" /\ root_status' \in {DEADLOCKED, root_status}
        /\ UNCHANGED <<file_task, state, pid, parent, status, wait_pid, saved, current, next_pid>>
    BY <1>12 DEF Leave
  <2>2. TaskTypeOK' /\ OneRunner' /\ UniquePids' /\ RootInv' /\ SavedWhenStopped'
    BY <2>1 DEF TaskInv, TaskTypeOK, OneRunner, UniquePids, RootInv, SavedWhenStopped, DEADLOCKED
  <2>3. WaitersHaveChildren' /\ NoLostWakeup' /\ ParentAlive'
    BY <2>1 DEF TaskInv, WaitersHaveChildren, NoLostWakeup, ParentAlive
  <2> QED BY <2>2, <2>3 DEF TaskInv
<1>13. CASE Launch
  <2>1. (TaskInit /\ file_task = 0)'
    BY <1>13 DEF Launch, TaskReset, TaskInit, FilesReset
  <2> QED BY <2>1, InitTaskInv, PTL
<1>14. CASE UNCHANGED vars
  BY <1>14, SameTaskInv DEF vars, filesVars
<1> QED
  BY <1>1, <1>2, <1>3, <1>4, <1>5, <1>6, <1>7, <1>8, <1>9, <1>10, <1>11, <1>12, <1>13, <1>14
     DEF Next, Kernel

(* The inductive invariant of the process table holds in every state. *)
LEMMA TaskInvariant == Spec => []TaskInv
<1>1. Init => TaskInv
  BY InitTaskInv DEF Init, FilesInit
<1> QED BY <1>1, StepTaskInv, PTL DEF Spec

(***************************************************************************)
(* For every number of slots: a process blocked in waitpid always has a    *)
(* child to wait for, and none of those has already exited unnoticed.      *)
(***************************************************************************)
THEOREM NoLostWakeupAlways == Spec => []NoLostWakeup
<1>1. TaskInv => NoLostWakeup
  BY DEF TaskInv
<1> QED BY <1>1, TaskInvariant, PTL

(* Every child has a living parent that can reap it, or the root is gone.  *)
THEOREM ParentAliveAlways == Spec => []ParentAlive
<1>1. TaskInv => ParentAlive
  BY DEF TaskInv
<1> QED BY <1>1, TaskInvariant, PTL

(***************************************************************************)
(* Types, the single running task with its own descriptor table, unique    *)
(* pids and valid snapshots, together.                                     *)
(***************************************************************************)
THEOREM ProcessTableSound ==
  Spec => [](TaskTypeOK /\ OneRunner /\ UniquePids /\ SavedWhenStopped)
<1>1. TaskInv => TaskTypeOK /\ OneRunner /\ UniquePids /\ SavedWhenStopped
  BY DEF TaskInv
<1> QED BY <1>1, TaskInvariant, PTL

(***************************************************************************)
(* A switch loses nothing: one program runs, on its own descriptors, and   *)
(* every other one that can run again has a fresh snapshot.                *)
(***************************************************************************)
THEOREM SwitchSoundAlways == Spec => []SwitchSound
<1>1. TaskInv => SwitchSound
  BY DEF TaskInv, SwitchSound
<1> QED BY <1>1, TaskInvariant, PTL

---------------------------------------------------------------------------
(***************************************************************************)
(* The descriptors under the scheduler.  LaunchInv relates the two halves  *)
(* of the state: which tasks have a transfer pending, which tables are     *)
(* empty, and where the status of the launch comes from.                   *)
(***************************************************************************)
ReturnedEmpty == mode = "returned" => \A s \in Tasks : OpenFds(s) = {}

RootStatus ==
  IF mode # "returned"
  THEN state[0] = "ZOMBIE" => root_status = LaunchStatus(status[0])
  ELSE IF \A s \in Tasks : state[s] \in {"UNUSED", "ZOMBIE"}
       THEN root_status = LaunchStatus(status[0])
       ELSE root_status = DEADLOCKED

LaunchInv == BlockedIffPending /\ ReturnedEmpty /\ RootStatus

(* What a step of the scheduler does to the descriptor tables is a step    *)
(* that FilesNext allows.                                                  *)
LEMMA StepFiles == TaskInv /\ BlockedIffPending /\ [Next]_vars => [FilesNext]_filesVars
<1> SUFFICES ASSUME TaskInv, BlockedIffPending, [Next]_vars PROVE [FilesNext]_filesVars
  OBVIOUS
<1>0. TaskTypeOK /\ OneRunner /\ TaskInv'
  BY StepTaskInv DEF TaskInv
<1>1. file_task' \in Tasks /\ file_task = current /\ current \in Tasks
  BY <1>0 DEF TaskInv, TaskTypeOK, OneRunner
<1>2. mode = "user" => ~pending_io[file_task].active
  BY <1>0, <1>1 DEF OneRunner, BlockedIffPending
<1>3. CASE Fork
  <2>1. PICK child \in Tasks : state[child] = "UNUSED" /\ FilesFork(current, child)
    BY <1>3 DEF Fork, Lowest
  <2>2. mode = "user" /\ state[current] = "RUNNING"
    BY <1>0, <1>1, <1>3 DEF Fork, OneRunner
  <2>3. current # child /\ OpenFds(child) = {} /\ ~pending_io[child].active
    BY <2>1, <2>2 DEF BlockedIffPending
  <2> QED BY <1>1, <2>1, <2>3 DEF FilesNext
<1>4. CASE UserCall
  BY <1>1, <1>2, <1>4 DEF UserCall, FilesNext, SystemCall
<1>5. ASSUME NEW fd \in Fds, NEW n \in Lengths, NEW w \in BOOLEAN, PipeTransfer(fd, n, w)
      PROVE  FilesNext
  <2>1. mode = "user"
    BY <1>5 DEF PipeTransfer
  <2>2. CASE Transfer(file_task, fd, n, w)
    BY <1>1, <1>2, <2>1, <2>2 DEF FilesNext, SystemCall
  <2>3. CASE ExitTask(current, SIGPIPE)
    <3>1. FilesExit({current}) /\ {current} \in SUBSET Tasks
      BY <1>1, <2>3 DEF ExitTask
    <3> QED BY <1>1, <3>1 DEF FilesNext
  <2> QED BY <1>5, <2>2, <2>3 DEF PipeTransfer
<1>6. ASSUME NEW code \in ExitCodes, Exit(code) PROVE FilesNext
  <2>1. FilesExit({current}) /\ {current} \in SUBSET Tasks
    BY <1>1, <1>6 DEF Exit, ExitTask
  <2> QED BY <1>1, <2>1 DEF FilesNext
<1>7. CASE Fault
  <2>1. FilesExit({current}) /\ {current} \in SUBSET Tasks
    BY <1>1, <1>7 DEF Fault, ExitTask
  <2> QED BY <1>1, <2>1 DEF FilesNext
<1>8. ASSUME NEW s \in Tasks, PickReady(s) PROVE FilesNext
  BY <1>1, <1>8 DEF PickReady, FilesNext
<1>9. ASSUME NEW s \in Tasks, PickBlocked(s) PROVE FilesNext
  <2>1. CASE Resume(s)
    BY <1>1, <2>1 DEF FilesNext
  <2>2. CASE ExitTask(s, SIGPIPE)
    <3>1. FilesExit({s}) /\ {s} \in SUBSET Tasks
      BY <2>2 DEF ExitTask
    <3> QED BY <1>1, <3>1 DEF FilesNext
  <2> QED BY <1>9, <2>1, <2>2 DEF PickBlocked
<1>10. CASE Leave
  <2>1. FilesExit(Tasks) /\ Tasks \in SUBSET Tasks
    BY <1>10 DEF Leave
  <2> QED BY <1>1, <2>1 DEF FilesNext
<1>11. CASE Launch
  BY <1>1, <1>11 DEF Launch, FilesNext
<1>12. ASSUME NEW p \in WaitArgs, WaitReap(p) \/ WaitBlock(p) PROVE UNCHANGED filesVars
  BY <1>12 DEF WaitReap, WaitBlock
<1>13. CASE Yield \/ WakeWaiters \/ UNCHANGED vars
  BY <1>13 DEF Yield, WakeWaiters, vars
<1> QED BY <1>3, <1>4, <1>5, <1>6, <1>7, <1>8, <1>9, <1>10, <1>11, <1>12, <1>13
        DEF Next, Kernel

(* A descriptor call touches the caller's table only. *)
LEMMA CallTables ==
  ASSUME FilesTypeOK, NEW s \in Tasks, DescriptorCall(s)
  PROVE  /\ pending_io' = pending_io
         /\ \A t \in Tasks \ {s} : OpenFds(t)' = OpenFds(t)
<1> SUFFICES /\ pending_io' = pending_io
             /\ \A t \in Tasks \ {s}, fd \in Fds : task_files'[t][fd] = task_files[t][fd]
  BY DEF OpenFds
<1>0. task_files \in TablesOK
  BY DEF FilesTypeOK
<1>1. ASSUME NEW fd \in Fds, NEW d, Share(s, fd, d)
      PROVE  \A t \in Tasks \ {s}, f \in Fds : task_files'[t][f] = task_files[t][f]
  BY <1>0, <1>1 DEF Share, TablesOK
<1>2. ASSUME NEW R, \A r \in R : r[1] = s, ClearTables(R)
      PROVE  \A t \in Tasks \ {s}, f \in Fds : task_files'[t][f] = task_files[t][f]
  <2> SUFFICES ASSUME NEW t \in Tasks \ {s}, NEW f \in Fds
               PROVE  task_files'[t][f] = task_files[t][f]
    OBVIOUS
  <2>1. <<t, f>> \notin R
    BY <1>2
  <2> QED BY <1>2, <2>1 DEF ClearTables
<1>3. ASSUME NEW fd \in Fds, CloseFd(s, fd)
      PROVE  /\ pending_io' = pending_io
             /\ \A t \in Tasks \ {s}, f \in Fds : task_files'[t][f] = task_files[t][f]
  <2>1. ClearTables({<<s, fd>>}) /\ pending_io' = pending_io
    BY <1>3 DEF CloseFd
  <2>2. \A r \in {<<s, fd>>} : r[1] = s
    OBVIOUS
  <2> QED BY <1>2, <2>1, <2>2
<1>4. ASSUME NEW a \in Fds, NEW minimum \in Fds, Dup(s, a, minimum)
      PROVE  /\ pending_io' = pending_io
             /\ \A t \in Tasks \ {s}, f \in Fds : task_files'[t][f] = task_files[t][f]
  <2>1. PICK fd \in Fds : Share(s, fd, task_files[s][a])
    BY <1>4 DEF Dup
  <2> QED BY <1>1, <1>4, <2>1 DEF Dup
<1>5. ASSUME NEW a \in Fds, NEW b \in Fds, Dup2(s, a, b)
      PROVE  /\ pending_io' = pending_io
             /\ \A t \in Tasks \ {s}, f \in Fds : task_files'[t][f] = task_files[t][f]
  <2>1. Share(s, b, task_files[s][a]) /\ pending_io' = pending_io
    BY <1>5 DEF Dup2
  <2> QED BY <1>1, <2>1
<1>6. ASSUME NEW fd \in Fds, NEW c, SetDescriptorFlag(s, fd, c) \/ SetStatusFlag(s, fd, c)
      PROVE  pending_io' = pending_io /\ task_files' = task_files
  BY <1>6 DEF SetDescriptorFlag, SetStatusFlag, tableVars
<1>7. ASSUME NEW c, Open(s, c)
      PROVE  /\ pending_io' = pending_io
             /\ \A t \in Tasks \ {s}, f \in Fds : task_files'[t][f] = task_files[t][f]
  <2>1. PICK fd \in Fds, d \in Descriptions : task_files' = [task_files EXCEPT ![s][fd] = d]
    BY <1>7 DEF Open
  <2> QED BY <1>0, <1>7, <2>1 DEF Open, TablesOK
<1>8. ASSUME NEW nb, NEW c, CreatePipe(s, nb, c)
      PROVE  /\ pending_io' = pending_io
             /\ \A t \in Tasks \ {s}, f \in Fds : task_files'[t][f] = task_files[t][f]
  <2>1. PICK r \in Fds, w \in Fds, dr \in Descriptions, dw \in Descriptions, p \in Pipes :
          /\ Lowest(FreeFds(s, 0), r) /\ Lowest(FreeFds(s, r + 1), w)
          /\ Lowest(FreeDescriptions, dr) /\ Lowest(FreeDescriptions \ {dr}, dw)
          /\ Lowest(FreePipes, p)
          /\ task_files' = [task_files EXCEPT ![s] = [@ EXCEPT ![r] = dr, ![w] = dw]]
          /\ task_flags' = [task_flags EXCEPT ![s] = [@ EXCEPT ![r] = c, ![w] = c]]
          /\ refs' = [refs EXCEPT ![dr] = 1, ![dw] = 1]
          /\ pipe' = [pipe EXCEPT ![dr] = p, ![dw] = p]
          /\ writes' = [writes EXCEPT ![dr] = FALSE, ![dw] = TRUE]
          /\ nonblock' = [nonblock EXCEPT ![dr] = nb, ![dw] = nb]
          /\ readers' = [readers EXCEPT ![p] = 1]
          /\ writers' = [writers EXCEPT ![p] = 1]
          /\ used' = [used EXCEPT ![p] = 0]
    BY <1>8, Zenon DEF CreatePipe
  <2>2. task_files' = [task_files EXCEPT ![s] = [@ EXCEPT ![r] = dr, ![w] = dw]]
    BY <2>1
  <2> QED BY <1>0, <1>8, <2>2 DEF CreatePipe, TablesOK
<1>9. ASSUME Exec(s)
      PROVE  /\ pending_io' = pending_io
             /\ \A t \in Tasks \ {s}, f \in Fds : task_files'[t][f] = task_files[t][f]
  <2> DEFINE R == {s} \X {fd \in OpenFds(s) : task_flags[s][fd]}
  <2>1. ClearTables(R) /\ pending_io' = pending_io
    BY <1>9 DEF Exec
  <2>2. \A r \in R : r[1] = s
    OBVIOUS
  <2> HIDE DEF R
  <2> QED BY <1>2, <2>1, <2>2
<1> QED BY <1>3, <1>4, <1>5, <1>6, <1>7, <1>8, <1>9 DEF DescriptorCall

(* linux_files_exit empties the tables of the slots that leave, cancels    *)
(* their transfers, and leaves the others alone.                           *)
LEMMA ExitTables ==
  ASSUME FilesTypeOK, NEW S \in SUBSET Tasks, FilesExit(S)
  PROVE  /\ \A t \in S : OpenFds(t)' = {} /\ ~pending_io'[t].active
         /\ \A t \in Tasks \ S : OpenFds(t)' = OpenFds(t) /\ pending_io'[t] = pending_io[t]
<1> DEFINE R == {r \in S \X Fds : task_files[r[1]][r[2]] # None}
<1>1. /\ ClearTables(R)
      /\ pending_io' = [s \in Tasks |-> IF s \in S THEN Idle ELSE pending_io[s]]
  BY DEF FilesExit
<1>2. \A t \in Tasks, fd \in Fds : <<t, fd>> \in R <=> t \in S /\ task_files[t][fd] # None
  OBVIOUS
<1> HIDE DEF R
<1>3. \A t \in Tasks, fd \in Fds :
        task_files'[t][fd] = IF t \in S THEN None ELSE task_files[t][fd]
  <2> SUFFICES ASSUME NEW t \in Tasks, NEW fd \in Fds
               PROVE  task_files'[t][fd] = IF t \in S THEN None ELSE task_files[t][fd]
    OBVIOUS
  <2>1. task_files'[t][fd] = IF <<t, fd>> \in R THEN None ELSE task_files[t][fd]
    BY <1>1 DEF ClearTables
  <2> QED BY <1>2, <2>1
<1> QED BY <1>1, <1>3 DEF OpenFds, Idle

(* fork_task gives the child its parent's table and no transfer. *)
LEMMA ForkLaunchInv == TaskInv /\ FilesTypeOK /\ LaunchInv /\ Fork => LaunchInv'
<1> SUFFICES ASSUME TaskInv, FilesTypeOK, LaunchInv, Fork PROVE LaunchInv'
  OBVIOUS
<1>1. PICK child \in Tasks :
        /\ state[child] = "UNUSED"
        /\ state' = [state EXCEPT ![current] = "READY", ![child] = "RUNNING"]
        /\ status' = [status EXCEPT ![child] = 0]
        /\ FilesFork(current, child)
  BY DEF Fork, Lowest
<1>2. /\ mode = "user" /\ mode' = "user" /\ root_status' = root_status
      /\ current \in Tasks /\ state[current] = "RUNNING" /\ state[0] # "UNUSED"
      /\ state \in [Tasks -> States] /\ status \in [Tasks -> Nat]
  BY DEF Fork, TaskInv, TaskTypeOK, OneRunner, RootInv
<1>3. /\ task_files' = [task_files EXCEPT ![child] = task_files[current]]
      /\ pending_io' = [pending_io EXCEPT ![child] = Idle]
      /\ task_files \in [Tasks -> [Fds -> Descriptions \cup {None}]]
      /\ pending_io \in [Tasks -> Ios]
  BY <1>1 DEF FilesFork, FilesTypeOK, TablesOK
<1>4. ASSUME NEW s \in Tasks
      PROVE  /\ pending_io'[s].active <=> state'[s] = "IO_WAITING"
             /\ state'[s] \in {"UNUSED", "ZOMBIE"} => OpenFds(s)' = {}
  <2>1. CASE s = child
    BY <1>1, <1>2, <1>3, <2>1 DEF Idle
  <2>2. CASE s # child
    <3>1. /\ pending_io'[s] = pending_io[s] /\ OpenFds(s)' = OpenFds(s)
          /\ state'[s] = IF s = current THEN "READY" ELSE state[s]
      BY <1>1, <1>2, <1>3, <2>2 DEF OpenFds
    <3> QED BY <1>2, <3>1 DEF LaunchInv, BlockedIffPending
  <2> QED BY <2>1, <2>2
<1>5. state'[0] = "ZOMBIE" => root_status' = LaunchStatus(status[0])'
  BY <1>1, <1>2, RootIsTask DEF LaunchInv, RootStatus, LaunchStatus
<1> QED BY <1>2, <1>4, <1>5 DEF LaunchInv, BlockedIffPending, ReturnedEmpty, RootStatus

(* exit_task empties the table of the slot that dies. *)
LEMMA ExitLaunchInv ==
  ASSUME TaskInv, FilesTypeOK, LaunchInv, NEW s \in Tasks, NEW w \in Nat, ExitTask(s, w),
         mode # "returned"
  PROVE  LaunchInv'
<1>1. /\ state' = [state EXCEPT ![s] = "ZOMBIE"]
      /\ status' = [status EXCEPT ![s] = w]
      /\ root_status' = IF s = 0 THEN LaunchStatus(w) ELSE root_status
      /\ FilesExit({s}) /\ mode' = "wake"
  BY DEF ExitTask
<1>2. state \in [Tasks -> States] /\ status \in [Tasks -> Nat]
  BY DEF TaskInv, TaskTypeOK
<1>3. /\ OpenFds(s)' = {} /\ ~pending_io'[s].active
      /\ \A t \in Tasks \ {s} : OpenFds(t)' = OpenFds(t) /\ pending_io'[t] = pending_io[t]
  <2>1. {s} \in SUBSET Tasks
    OBVIOUS
  <2> QED BY <1>1, <2>1, ExitTables
<1>4. ASSUME NEW t \in Tasks
      PROVE  /\ pending_io'[t].active <=> state'[t] = "IO_WAITING"
             /\ state'[t] \in {"UNUSED", "ZOMBIE"} => OpenFds(t)' = {}
  BY <1>1, <1>2, <1>3 DEF LaunchInv, BlockedIffPending
<1>5. state'[0] = "ZOMBIE" => root_status' = LaunchStatus(status[0])'
  <2>1. CASE s = 0
    BY <1>1, <1>2, <2>1, RootIsTask DEF LaunchStatus
  <2>2. CASE s # 0
    <3>1. state'[0] = state[0] /\ status'[0] = status[0] /\ root_status' = root_status
      BY <1>1, <1>2, <2>2, RootIsTask
    <3> QED BY <3>1 DEF LaunchInv, RootStatus, LaunchStatus
  <2> QED BY <2>1, <2>2
<1> QED BY <1>1, <1>4, <1>5 DEF LaunchInv, BlockedIffPending, ReturnedEmpty, RootStatus

(* A transfer by slot s leaves its PipeIo active exactly when it must wait. *)
LEMMA EffectTables ==
  ASSUME FilesTypeOK, NEW s \in Tasks, NEW pio \in Ios, pio.active, NEW d, IoEffect(s, pio, d)
  PROVE  /\ pending_io'[s].active <=> IoOutcome(pio, d) = "WAIT"
         /\ \A t \in Tasks \ {s} : pending_io'[t] = pending_io[t]
         /\ \A t \in Tasks : OpenFds(t)' = OpenFds(t)
<1>1. /\ pending_io' = [pending_io EXCEPT ![s] =
                          IF IoOutcome(pio, d) = "WAIT"
                          THEN [pio EXCEPT !.total = @ + Moved(pio, d)] ELSE Idle]
      /\ task_files' = task_files
  BY DEF IoEffect, tableVars
<1>2. pending_io \in [Tasks -> Ios]
  BY DEF FilesTypeOK
<1>3. [pio EXCEPT !.total = @ + Moved(pio, d)].active /\ ~Idle.active
  BY DEF Ios, Idle
<1> DEFINE new == [pio EXCEPT !.total = @ + Moved(pio, d)]
<1> HIDE DEF new
<1>4. pending_io'[s] = IF IoOutcome(pio, d) = "WAIT" THEN new ELSE Idle
  BY <1>1, <1>2 DEF new
<1>5. \A t \in Tasks \ {s} : pending_io'[t] = pending_io[t]
  BY <1>1, <1>2
<1>6. new.active /\ ~Idle.active
  BY <1>3 DEF new
<1> QED BY <1>1, <1>4, <1>5, <1>6 DEF OpenFds

(* Nobody is the root's parent. *)
LEMMA RootIsNoChild ==
  ASSUME TaskInv, NEW i \in Tasks, state[i] # "UNUSED", NEW p
  PROVE  0 \notin Zombies(i, p)
<1>1. pid[i] \in 1..(next_pid - 1) /\ parent[0] = 0
  BY DEF TaskInv, UniquePids, RootInv
<1> QED BY <1>1 DEF Zombies, Children, Matches

(* linux_leave_user: whoever is neither gone nor dead is blocked. *)
LEMMA LeaveLaunchInv == TaskInv /\ FilesTypeOK /\ LaunchInv /\ Leave => LaunchInv'
<1> SUFFICES ASSUME TaskInv, FilesTypeOK, LaunchInv, Leave PROVE LaunchInv'
  OBVIOUS
<1>1. /\ mode = "pick" /\ mode' = "returned" /\ state' = state /\ status' = status
      /\ \A s \in Tasks : ~Runnable(s)
      /\ FilesExit(Tasks) /\ Tasks \in SUBSET Tasks
      /\ root_status' = IF \E s \in Tasks : state[s] \in {"IO_WAITING", "WAITING"}
                        THEN DEADLOCKED ELSE root_status
  BY DEF Leave
<1>2. \A s \in Tasks : OpenFds(s)' = {}
  BY <1>1, ExitTables
<1>3. \A s \in Tasks : state[s] \in {"UNUSED", "ZOMBIE", "IO_WAITING", "WAITING"}
  BY <1>1 DEF Runnable, TaskInv, TaskTypeOK, States, OneRunner
<1>4. RootStatus'
  <2>1. CASE \A s \in Tasks : state[s] \in {"UNUSED", "ZOMBIE"}
    <3>1. state[0] = "ZOMBIE"
      BY <2>1, RootIsTask DEF TaskInv, RootInv
    <3>2. root_status' = root_status /\ root_status = LaunchStatus(status[0])
      BY <1>1, <2>1, <3>1 DEF LaunchInv, RootStatus
    <3> QED BY <1>1, <2>1, <3>2 DEF RootStatus, LaunchStatus
  <2>2. CASE \E s \in Tasks : state[s] \notin {"UNUSED", "ZOMBIE"}
    <3>1. \E s \in Tasks : state[s] \in {"IO_WAITING", "WAITING"}
      BY <1>3, <2>2
    <3> QED BY <1>1, <2>2, <3>1 DEF RootStatus
  <2> QED BY <2>1, <2>2
<1> QED BY <1>1, <1>2, <1>4 DEF LaunchInv, BlockedIffPending, ReturnedEmpty

(* A step keeps the tables, the pending transfers and the status together. *)
LEMMA StepLaunchInv ==
  TaskInv /\ FilesInv /\ LaunchInv /\ [Next]_vars => LaunchInv'
<1> SUFFICES ASSUME TaskInv, FilesInv, LaunchInv, [Next]_vars PROVE LaunchInv'
  OBVIOUS
<1>0. /\ FilesTypeOK /\ pending_io \in [Tasks -> Ios] /\ task_files \in TablesOK
      /\ current \in Tasks /\ file_task = current
      /\ state \in [Tasks -> States] /\ status \in [Tasks -> Nat]
      /\ \A s \in Tasks : state[s] = "RUNNING" <=> (mode = "user" /\ s = current)
  BY DEF FilesInv, FilesTypeOK, TaskInv, TaskTypeOK, OneRunner
<1>keep. ASSUME mode # "returned", mode' # "returned",
                \A s \in Tasks : /\ pending_io'[s].active <=> state'[s] = "IO_WAITING"
                                 /\ state'[s] \in {"UNUSED", "ZOMBIE"} => OpenFds(s)' = {},
                state'[0] = "ZOMBIE" => state[0] = "ZOMBIE" /\ status'[0] = status[0],
                root_status' = root_status
         PROVE  LaunchInv'
  BY <1>keep DEF LaunchInv, BlockedIffPending, ReturnedEmpty, RootStatus, LaunchStatus
<1>blocked. \A s \in Tasks :
              /\ mode # "returned" => (pending_io[s].active <=> state[s] = "IO_WAITING")
              /\ state[s] \in {"UNUSED", "ZOMBIE"} => OpenFds(s) = {}
  BY DEF LaunchInv, BlockedIffPending
<1>tables. UNCHANGED filesVars => pending_io' = pending_io /\ \A s \in Tasks : OpenFds(s)' = OpenFds(s)
  BY DEF filesVars, OpenFds
<1>1. CASE Fork
  BY <1>0, <1>1, ForkLaunchInv
<1>2. ASSUME NEW p \in WaitArgs, WaitReap(p) PROVE LaunchInv'
  <2>1. PICK child \in Tasks :
          /\ child \in Zombies(current, p)
          /\ state' = [state EXCEPT ![child] = "UNUSED"]
          /\ status' = Clear(status, {child})
    BY <1>2 DEF WaitReap, Lowest
  <2>2. mode = "user" /\ mode' = mode /\ UNCHANGED filesVars /\ root_status' = root_status
    BY <1>2 DEF WaitReap
  <2>3. state[child] = "ZOMBIE" /\ child # 0
    BY <1>0, <2>1, <2>2, RootIsNoChild DEF Zombies
  <2>4. state'[0] = state[0] /\ status'[0] = status[0]
    BY <1>0, <2>1, <2>3, RootIsTask DEF Clear
  <2> QED BY <1>0, <1>keep, <1>blocked, <1>tables, <2>1, <2>2, <2>3, <2>4
<1>3. ASSUME NEW blocked \in {"READY", "WAITING"}, mode = "user", Block(blocked), UNCHANGED filesVars
      PROVE  LaunchInv'
  <2>1. /\ state' = [state EXCEPT ![current] = blocked]
        /\ mode' = "wake" /\ root_status' = root_status /\ status' = status
    BY <1>3 DEF Block
  <2>2. \A s \in Tasks : state'[s] = IF s = current THEN blocked ELSE state[s]
    BY <1>0, <2>1
  <2> QED BY <1>0, <1>3, <1>keep, <1>blocked, <1>tables, <2>1, <2>2, RootIsTask
<1>4. ASSUME NEW code \in ExitCodes, Exit(code) PROVE LaunchInv'
  <2>1. code * 256 \in Nat /\ mode = "user" /\ ExitTask(current, code * 256)
    BY <1>4, TaskAssumption DEF Exit
  <2> QED BY <1>0, <2>1, ExitLaunchInv
<1>5. CASE Fault
  <2>1. SIGSEGV \in Nat /\ mode = "user" /\ ExitTask(current, SIGSEGV)
    BY <1>5 DEF Fault, SIGSEGV
  <2> QED BY <1>0, <2>1, ExitLaunchInv
<1>6. ASSUME NEW fd \in Fds, NEW n \in Lengths, NEW w \in BOOLEAN, PipeTransfer(fd, n, w)
      PROVE  LaunchInv'
  <2> DEFINE pio == NewIo(fd, n, w)
             d == task_files[file_task][fd]
             outcome == IoOutcome(pio, d)
  <2>1. mode = "user" /\ file_task' = file_task
    BY <1>6 DEF PipeTransfer
  <2>2. pio \in Ios /\ pio.active
    BY FilesAssumption DEF NewIo, Ios
  <2>3. CASE outcome = "SIGPIPE" /\ ExitTask(current, SIGPIPE)
    <3>1. SIGPIPE \in Nat
      BY DEF SIGPIPE
    <3> QED BY <1>0, <2>1, <2>3, <3>1, ExitLaunchInv
  <2>4. CASE outcome # "SIGPIPE" /\ Transfer(file_task, fd, n, w)
    <3>1. IoEffect(file_task, pio, d)
      BY <2>4 DEF Transfer
    <3> HIDE DEF pio, d
    <3>2. /\ pending_io'[current].active <=> outcome = "WAIT"
          /\ \A t \in Tasks \ {current} : pending_io'[t] = pending_io[t]
          /\ \A t \in Tasks : OpenFds(t)' = OpenFds(t)
      BY <1>0, <2>2, <3>1, EffectTables
    <3> HIDE DEF outcome
    <3>3. CASE outcome = "DONE" /\ UNCHANGED taskVars
      BY <1>0, <1>keep, <1>blocked, <2>1, <3>2, <3>3 DEF taskVars
    <3>4. CASE outcome = "WAIT" /\ Block("IO_WAITING")
      <4>1. /\ state' = [state EXCEPT ![current] = "IO_WAITING"]
            /\ mode' = "wake" /\ root_status' = root_status /\ status' = status
        BY <3>4 DEF Block
      <4>2. \A s \in Tasks : state'[s] = IF s = current THEN "IO_WAITING" ELSE state[s]
        BY <1>0, <4>1
      <4> QED BY <1>0, <1>keep, <1>blocked, <2>1, <3>2, <3>4, <4>1, <4>2, RootIsTask
    <3> QED BY <1>6, <2>4, <3>3, <3>4 DEF PipeTransfer, outcome, pio, d
  <2> QED BY <1>6, <2>3, <2>4 DEF PipeTransfer
<1>7. CASE UserCall
  <2>1. mode = "user" /\ DescriptorCall(file_task) /\ UNCHANGED taskVars
    BY <1>7 DEF UserCall
  <2>2. pending_io' = pending_io /\ \A t \in Tasks \ {current} : OpenFds(t)' = OpenFds(t)
    BY <1>0, <2>1, CallTables
  <2> QED BY <1>0, <1>keep, <1>blocked, <2>1, <2>2 DEF taskVars
<1>8. CASE WakeWaiters
  <2>1. /\ mode = "wake" /\ mode' = "pick" /\ UNCHANGED filesVars /\ root_status' = root_status
        /\ state' = [s \in Tasks |-> IF s \in Woken THEN "READY"
                                     ELSE IF s \in Reaped THEN "UNUSED" ELSE state[s]]
        /\ status' = Clear(status, Reaped)
    BY <1>8 DEF WakeWaiters
  <2>2. \A s \in Tasks : /\ s \in Woken => state[s] = "WAITING"
                         /\ s \in Reaped => state[s] = "ZOMBIE" /\ s # 0
    <3>1. \A s \in Woken : s \in Tasks /\ state[s] = "WAITING"
      BY DEF Woken
    <3>2. ASSUME NEW s \in Reaped PROVE state[s] = "ZOMBIE" /\ s # 0
      <4>1. PICK i \in Woken : s \in Zombies(i, wait_pid[i])
        BY DEF Reaped, Lowest
      <4>2. state[i] # "UNUSED" /\ i \in Tasks
        BY <3>1
      <4> QED BY <4>1, <4>2, RootIsNoChild DEF Zombies
    <3> QED BY <3>1, <3>2
  <2>3. state'[0] = "ZOMBIE" => state[0] = "ZOMBIE" /\ status'[0] = status[0]
    BY <2>1, <2>2, RootIsTask DEF Clear
  <2> QED BY <1>keep, <1>blocked, <1>tables, <2>1, <2>2, <2>3
<1>9. ASSUME NEW s \in Tasks, mode = "pick", Enter(s), ~pending_io'[s].active,
             \A t \in Tasks \ {s} : pending_io'[t] = pending_io[t],
             \A t \in Tasks : OpenFds(t)' = OpenFds(t)
      PROVE  LaunchInv'
  <2>1. /\ state' = [state EXCEPT ![s] = "RUNNING"] /\ mode' = "user"
        /\ root_status' = root_status /\ status' = status
    BY <1>9 DEF Enter
  <2>2. \A t \in Tasks : state'[t] = IF t = s THEN "RUNNING" ELSE state[t]
    BY <1>0, <2>1
  <2> QED BY <1>9, <1>keep, <1>blocked, <2>1, <2>2, RootIsTask
<1>10. ASSUME NEW s \in Tasks, PickReady(s) PROVE LaunchInv'
  <2>1. /\ mode = "pick" /\ Enter(s) /\ state[s] = "READY" /\ pending_io' = pending_io
        /\ \A t \in Tasks : OpenFds(t)' = OpenFds(t)
    BY <1>10 DEF PickReady, tableVars, OpenFds
  <2> QED BY <1>9, <1>blocked, <2>1
<1>11. ASSUME NEW s \in Tasks, PickBlocked(s) PROVE LaunchInv'
  <2> DEFINE pio == pending_io[s]
             d == task_files[s][pending_io[s].fd]
             outcome == IoOutcome(pio, d)
  <2>1. mode = "pick" /\ state[s] = "IO_WAITING"
    BY <1>11 DEF PickBlocked
  <2>2. pio \in Ios /\ pio.active
    BY <1>0, <1>blocked, <2>1
  <2>3. CASE outcome = "SIGPIPE" /\ ExitTask(s, SIGPIPE)
    <3>1. SIGPIPE \in Nat
      BY DEF SIGPIPE
    <3> QED BY <1>0, <2>1, <2>3, <3>1, ExitLaunchInv
  <2>4. CASE outcome # "SIGPIPE" /\ Resume(s)
    <3>1. IoEffect(s, pio, d)
      BY <2>4 DEF Resume
    <3> HIDE DEF pio, d
    <3>2. /\ pending_io'[s].active <=> outcome = "WAIT"
          /\ \A t \in Tasks \ {s} : pending_io'[t] = pending_io[t]
          /\ \A t \in Tasks : OpenFds(t)' = OpenFds(t)
      BY <1>0, <2>2, <3>1, EffectTables
    <3> HIDE DEF outcome
    <3>3. CASE outcome = "DONE" /\ Enter(s)
      BY <1>9, <2>1, <3>2, <3>3
    <3>4. CASE /\ outcome = "WAIT" /\ mode' = "wake"
               /\ state' = state /\ status' = status /\ root_status' = root_status
      BY <1>keep, <1>blocked, <2>1, <3>2, <3>4
    <3> QED BY <1>11, <2>4, <3>3, <3>4 DEF PickBlocked, outcome, pio, d
  <2> QED BY <1>11, <2>3, <2>4 DEF PickBlocked
<1>12. CASE Leave
  BY <1>0, <1>12, LeaveLaunchInv
<1>13. CASE Launch
  <2>1. /\ mode' = "user" /\ state' = [s \in Tasks |-> IF s = 0 THEN "RUNNING" ELSE "UNUSED"]
        /\ task_files' = StartFiles /\ pending_io' = [s \in Tasks |-> Idle]
    BY <1>13 DEF Launch, TaskReset, FilesReset
  <2>2. \A s \in Tasks : s # 0 => OpenFds(s)' = {}
    BY <2>1 DEF StartFiles, OpenFds
  <2>3. \A s \in Tasks : ~pending_io'[s].active
    BY <2>1 DEF Idle
  <2>4. BlockedIffPending'
    BY <2>1, <2>2, <2>3 DEF BlockedIffPending
  <2> QED BY <2>1, <2>4, RootIsTask DEF LaunchInv, ReturnedEmpty, RootStatus
<1>14. CASE UNCHANGED vars
  <2>1. UNCHANGED <<filesVars, mode, state, status, root_status>>
    BY <1>14 DEF vars, taskVars
  <2>2. BlockedIffPending' /\ ReturnedEmpty'
    BY <1>tables, <2>1 DEF LaunchInv, BlockedIffPending, ReturnedEmpty
  <2>3. RootStatus'
    BY <2>1 DEF LaunchInv, RootStatus, LaunchStatus
  <2> QED BY <2>2, <2>3 DEF LaunchInv
<1>15. ASSUME NEW p \in WaitArgs, WaitBlock(p) PROVE LaunchInv'
  BY <1>3, <1>15 DEF WaitBlock
<1>16. CASE Yield
  BY <1>3, <1>16 DEF Yield
<1> QED
  BY <1>1, <1>2, <1>4, <1>5, <1>6, <1>7, <1>8, <1>10, <1>11, <1>12, <1>13, <1>14, <1>15, <1>16
     DEF Next, Kernel

(* The three invariants hold together in every state. *)
LEMMA LaunchInvariant == Spec => [](TaskInv /\ FilesInv /\ LaunchInv)
<1>1. Init => TaskInv
  BY InitTaskInv DEF Init, FilesInit
<1>2. Init => FilesInv
  BY InitFilesInv DEF Init
<1>3. Init => LaunchInv
  <2> SUFFICES ASSUME Init PROVE LaunchInv
    OBVIOUS
  <2>1. /\ mode = "user" /\ state = [s \in Tasks |-> IF s = 0 THEN "RUNNING" ELSE "UNUSED"]
        /\ task_files = StartFiles /\ pending_io = [s \in Tasks |-> Idle]
    BY DEF Init, FilesInit, TaskInit
  <2>2. \A s \in Tasks : s # 0 => OpenFds(s) = {}
    BY <2>1 DEF StartFiles, OpenFds
  <2>3. \A s \in Tasks : ~pending_io[s].active
    BY <2>1 DEF Idle
  <2>4. BlockedIffPending
    BY <2>1, <2>2, <2>3 DEF BlockedIffPending
  <2> QED BY <2>1, <2>4, RootIsTask DEF LaunchInv, ReturnedEmpty, RootStatus
<1>4. TaskInv /\ FilesInv /\ LaunchInv /\ [Next]_vars => FilesInv'
  BY StepFiles, NextFilesInv DEF LaunchInv
<1> QED BY <1>1, <1>2, <1>3, <1>4, StepTaskInv, StepLaunchInv, PTL DEF Spec

(***************************************************************************)
(* The scheduler keeps to what the descriptor layer asks of it: every step *)
(* of the process table is a step of FilesSpec or leaves it unchanged.     *)
(***************************************************************************)
THEOREM FilesImplementedAlways == Spec => FilesImplemented
<1>1. Init => FilesInit
  BY DEF Init
<1>2. TaskInv /\ LaunchInv /\ [Next]_vars => [FilesNext]_filesVars
  BY StepFiles DEF LaunchInv
<1> QED BY <1>1, <1>2, LaunchInvariant, PTL DEF Spec, FilesSpec, FilesImplemented

(***************************************************************************)
(* Through every schedule of any number of processes, references, readers, *)
(* writers and free descriptions are counted exactly.                      *)
(***************************************************************************)
THEOREM SharingExactAlways == Spec => []SharingExact
  BY FilesImplementedAlways, SharingExactInFiles, PTL DEF FilesImplemented

(***************************************************************************)
(* schedule() can resume every blocked transfer: exactly the tasks in      *)
(* IO_WAITING have one, on a pipe end of its direction.                    *)
(***************************************************************************)
THEOREM TransfersResumableAlways == Spec => []TransfersResumable
<1>1. FilesInv /\ LaunchInv => TransfersResumable
  BY DEF FilesInv, LaunchInv, TransfersResumable
<1> QED BY <1>1, LaunchInvariant, PTL

(***************************************************************************)
(* When a launch returns nothing is left open, and its status is the       *)
(* root's own, or 125 when some process was still blocked.                 *)
(***************************************************************************)
THEOREM CleanReturnAlways == Spec => []CleanReturn
<1>1. FilesInv /\ LaunchInv => CleanReturn
  <2> SUFFICES ASSUME FilesInv, LaunchInv, mode = "returned"
               PROVE  /\ FreeDescriptions = Descriptions
                      /\ FreePipes = Pipes
                      /\ IF \A s \in Tasks : state[s] \in {"UNUSED", "ZOMBIE"}
                         THEN root_status = LaunchStatus(status[0])
                         ELSE root_status = DEADLOCKED
    BY DEF CleanReturn
  <2>1. \A s \in Tasks, fd \in Fds : task_files[s][fd] = None
    BY DEF LaunchInv, ReturnedEmpty, OpenFds
  <2>2. \A d \in Descriptions : References(d) = {}
    BY <2>1 DEF References, Descriptions, None
  <2>3. \A d \in Descriptions : refs[d] = 0
    BY <2>2, FS_EmptySet DEF FilesInv, RefsExact
  <2>4. \A p \in Pipes : readers[p] = 0 /\ writers[p] = 0
    <3>1. \A p \in Pipes : ReadEnds(p) = {} /\ WriteEnds(p) = {}
      BY <2>3 DEF ReadEnds, WriteEnds
    <3> QED BY <3>1, FS_EmptySet DEF FilesInv, EndsExact
  <2> QED BY <2>3, <2>4 DEF FreeDescriptions, FreePipes, LaunchInv, RootStatus
<1> QED BY <1>1, LaunchInvariant, PTL
-----------------------------------------------------------------------------
(* Vectors *)

(* What lies before a vector grows by the vector. *)
LEMMA BeforeStep ==
  ASSUME NEW v \in Seq(Nat)
  PROVE  /\ \A i \in 1..Len(v) + 1 : Before(v, i) \in Nat
         /\ Before(v, 1) = 0
         /\ \A i \in 1..Len(v) : Before(v, i + 1) = Before(v, i) + v[i]
<1> DEFINE n == Len(v)
           f == CHOOSE f : Sums(f, v, n)
<1>1. n \in Nat /\ Sums(f, v, n) /\ \A i \in 1..n : v[i] \in Nat
  BY SumsExist
<1>2. \A i : Before(v, i) = f[i - 1]
  BY DEF Before, Sums
<1> HIDE DEF f, n
<1>3. \A k \in 0..n : f[k] = IF k = 0 THEN 0 ELSE f[k - 1] + v[k]
  BY <1>1 DEF Sums
<1> DEFINE Bad == {k \in 0..n : f[k] \notin Nat}
<1>4. Bad = {}
  <2> SUFFICES ASSUME Bad # {} PROVE FALSE
    OBVIOUS
  <2>1. PICK k \in Bad : \A j \in Bad : k <= j
    <3>1. Bad \in SUBSET Nat
      BY <1>1
    <3> QED BY <3>1, LeastNat
  <2>2. k # 0
    BY <1>3, <2>1
  <2>3. f[k - 1] \in Nat
    <3>1. k - 1 \in 0..n /\ ~(k <= k - 1)
      BY <1>1, <2>1, <2>2
    <3> QED BY <2>1, <3>1
  <2>4. k \in 1..n /\ v[k] \in Nat
    BY <1>1, <2>1, <2>2
  <2> QED BY <1>3, <2>1, <2>2, <2>3, <2>4
<1>5. \A i \in 1..n + 1 : i - 1 \in 0..n
  BY <1>1
<1>6. \A i \in 1..n + 1 : Before(v, i) \in Nat
  BY <1>2, <1>4, <1>5
<1>7. Before(v, 1) = 0
  BY <1>1, <1>2, <1>3
<1>8. ASSUME NEW i \in 1..n PROVE Before(v, i + 1) = Before(v, i) + v[i]
  <2>1. i \in 0..n /\ i # 0 /\ (i + 1) - 1 = i
    BY <1>1
  <2>2. Before(v, i + 1) = f[i] /\ Before(v, i) = f[i - 1]
    BY <1>2, <2>1
  <2> QED BY <1>3, <2>1, <2>2
<1> QED BY <1>6, <1>7, <1>8 DEF n

-----------------------------------------------------------------------------
(* The ring *)

(* One turn around the ring *)
LEMMA Wrap == ASSUME NEW n \in Nat \ {0}, NEW x \in Nat, x < 2 * n
              PROVE  x % n = IF x < n THEN x ELSE x - n
<1>1. CASE x < n
  BY <1>1
<1>2. CASE ~(x < n)
  <2>1. x - n \in 0..n - 1 /\ x = n * 1 + (x - n)
    BY <1>2
  <2> QED BY <1>2, <2>1
<1> QED BY <1>1, <1>2

(* Where the i-th of the buffered bytes is *)
At(i) == (head + i - 1) % RING_SIZE

(* The place of a buffered byte, with at most one turn around the ring. *)
LEMMA AtIs ==
  ASSUME head \in 0..RING_SIZE - 1, NEW i \in 1..RING_SIZE + 1
  PROVE  /\ At(i) = IF head + i - 1 < RING_SIZE THEN head + i - 1 ELSE head + i - 1 - RING_SIZE
         /\ At(i) \in 0..RING_SIZE - 1
<1> DEFINE P == RING_SIZE
           x == head + i - 1
<1>1. P \in Nat \ {0} /\ x \in Nat /\ x < 2 * P
  BY RingAssumption
<1>2. At(i) = x % P
  BY DEF At
<1> HIDE DEF x, P
<1>3. At(i) = IF x < P THEN x ELSE x - P
  BY <1>1, <1>2, Wrap
<1> QED BY <1>1, <1>3 DEF x, P

RingOK ==
  /\ head \in 0..RING_SIZE - 1 /\ filled \in 0..RING_SIZE
  /\ data \in [0..RING_SIZE - 1 -> Bytes \cup {Unset}]
  /\ got \in Seq(Bytes)
  /\ \A i \in 1..filled : data[At(i)] \in Bytes

(* The buffered bytes, by their places. *)
LEMMA ContentsAt == Contents = [i \in 1..filled |-> data[At(i)]]
  BY DEF Contents, At

(* The buffered bytes are bytes that were written, filled of them. *)
LEMMA ContentsType == ASSUME RingOK
                      PROVE  Contents \in Seq(Bytes) /\ Len(Contents) = filled
<1>1. filled \in Nat /\ \A i \in 1..filled : data[At(i)] \in Bytes
  BY RingAssumption DEF RingOK
<1> QED BY <1>1, ContentsAt

(* Appending is associative. *)
LEMMA Regroup == \A s, t, u \in Seq(Bytes) : s \o (t \o u) = (s \o t) \o u
  BY ConcatAssociative, SMTT(30)

(* What a writer's chunk does to the ring: it is appended. *)
LEMMA WriteRing ==
  ASSUME RingOK, NEW c \in Nat, NEW w \in Writers, NEW first \in Nat, NEW q,
         q = (head + filled) % RING_SIZE, c <= RING_SIZE - filled, c <= RING_SIZE - q,
         first + c <= MAX_BYTES,
         data' = [i \in DOMAIN data |-> IF i \in q..(q + c - 1)
                                        THEN <<w, first + i - q + 1>> ELSE data[i]],
         filled' = filled + c, UNCHANGED <<head, got>>
  PROVE  RingOK' /\ Stream' = Stream \o [i \in 1..c |-> <<w, first + i>>]
<1> DEFINE P == RING_SIZE
<1>0. P \in Nat \ {0} /\ head \in Nat /\ filled \in Nat /\ head < P /\ filled <= P
  BY RingAssumption DEF RingOK
<1>1. q \in Nat /\ q < P /\ q = IF head + filled < P THEN head + filled ELSE head + filled - P
  <2>1. head + filled \in Nat /\ head + filled < 2 * P
    BY <1>0
  <2> HIDE DEF P
  <2>2. q = (head + filled) % P
    BY DEF P
  <2> DEFINE x == head + filled
  <2> HIDE DEF x
  <2>3. x \in Nat /\ x < 2 * P /\ q = x % P
    BY <2>1, <2>2 DEF x
  <2>4. q = IF x < P THEN x ELSE x - P
    BY <1>0, <2>3, Wrap
  <2> QED BY <1>0, <2>3, <2>4 DEF x
<1>2. \A i \in 1..P : /\ At(i) = IF head + i - 1 < P THEN head + i - 1 ELSE head + i - 1 - P
                      /\ At(i) \in 0..P - 1
  <2> TAKE i \in 1..P
  <2>1. i \in 1..RING_SIZE + 1
    BY <1>0
  <2> QED BY <2>1, AtIs DEF RingOK
<1> HIDE DEF P
<1>c. c <= P - filled /\ c <= P - q
  BY DEF P
<1>3. \A i \in 1..filled : At(i) \notin q..(q + c - 1) /\ i \in 1..P
  BY <1>0, <1>1, <1>2, <1>c
<1>4. \A i \in filled + 1..filled + c :
        At(i) \in q..(q + c - 1) /\ At(i) - q = i - filled - 1 /\ i \in 1..P
  BY <1>0, <1>1, <1>2, <1>c
<1> DEFINE G(i) == <<w, first + i - q + 1>>
<1>d. /\ data \in [0..P - 1 -> Bytes \cup {Unset}]
      /\ data' = [i \in 0..P - 1 |-> IF i \in q..(q + c - 1) THEN G(i) ELSE data[i]]
  BY DEF RingOK, P
<1>5. \A j \in 0..P - 1 : data'[j] = IF j \in q..(q + c - 1) THEN G(j) ELSE data[j]
  BY <1>d
<1>6. \A i \in 1..filled : data'[At(i)] = data[At(i)]
  BY <1>2, <1>3, <1>5
<1>7. \A i \in filled + 1..filled + c : data'[At(i)] = <<w, first + (i - filled)>>
  <2> TAKE i \in filled + 1..filled + c
  <2>1. At(i) \in q..(q + c - 1) /\ At(i) \in 0..P - 1 /\ At(i) - q = i - filled - 1 /\ i \in Nat
    BY <1>0, <1>2, <1>4
  <2>2. data'[At(i)] = <<w, first + At(i) - q + 1>>
    BY <1>5, <2>1
  <2>3. first + At(i) - q + 1 = first + (i - filled)
    BY <1>0, <1>1, <2>1
  <2> QED BY <2>2, <2>3
<1>8. \A j \in q..(q + c - 1) : G(j) \in Bytes
  <2> TAKE j \in q..(q + c - 1)
  <2>0. MAX_BYTES \in Nat
    BY RingAssumption
  <2>1. first + j - q + 1 \in 1..MAX_BYTES
    BY <1>1, <2>0
  <2> QED BY <2>1 DEF Bytes
<1>9. data' \in [0..P - 1 -> Bytes \cup {Unset}]
  <2> HIDE DEF G
  <2> QED BY <1>d, <1>8, SMTT(30)
<1>10. \A i \in 1..filled + c : data'[At(i)] \in Bytes
  <2> TAKE i \in 1..filled + c
  <2>1. CASE i <= filled
    <3>1. i \in 1..filled
      BY <1>0, <2>1
    <3> QED BY <1>6, <3>1 DEF RingOK
  <2>2. CASE i > filled
    <3>1. i \in filled + 1..filled + c
      BY <1>0, <2>2
    <3> HIDE DEF G
    <3> QED BY <1>2, <1>4, <1>5, <1>8, <3>1, ZenonT(30)
  <2> QED BY <1>0, <2>1, <2>2
<1>a. \A i : At(i)' = At(i)
  BY DEF At
<1>11. RingOK'
  <2>1. filled' \in 0..RING_SIZE /\ head' \in 0..RING_SIZE - 1 /\ got' \in Seq(Bytes)
    BY <1>0, <1>c DEF RingOK, P
  <2>2. \A i \in 1..filled' : data'[At(i)'] \in Bytes
    BY <1>10, <1>a
  <2> QED BY <1>9, <2>1, <2>2 DEF RingOK, P
<1> DEFINE A == [i \in 1..c |-> <<w, first + i>>]
<1>12. A \in Seq(Bytes) /\ Len(A) = c
  <2>1. \A i \in 1..c : <<w, first + i>> \in Bytes
    <3> TAKE i \in 1..c
    <3>1. first + i \in 1..MAX_BYTES
      BY RingAssumption
    <3> QED BY <3>1 DEF Bytes
  <2> QED BY <2>1
<1>13. Contents' = Contents \o A
  <2>1. Contents \in Seq(Bytes) /\ Len(Contents) = filled
    BY ContentsType
  <2> DEFINE n == filled + c
             B == [i \in 1..n |-> data'[At(i)]]
  <2>a. n \in Nat
    BY <1>0
  <2>2. \A i \in 1..n : data'[At(i)] \in Bytes
    BY <1>10
  <2>3. Contents' = B
    <3>1. Contents' = [i \in 1..filled' |-> data'[At(i)']]
      BY DEF Contents, At
    <3> QED BY <3>1, <1>a, SMTT(30)
  <2> HIDE DEF n
  <2>4. B \in Seq(Bytes) /\ Len(B) = n /\ \A i \in 1..n : B[i] = data'[At(i)]
    <3> DEFINE g(i) == data'[At(i)]
    <3>1. \A i \in 1..n : g(i) \in Bytes
      BY <2>2
    <3> HIDE DEF g
    <3>2. [i \in 1..n |-> g(i)] \in Seq(Bytes) /\ Len([i \in 1..n |-> g(i)]) = n
      BY <2>a, <3>1
    <3> QED BY <3>2 DEF g
  <2>5. \A i \in 1..filled : Contents[i] = data[At(i)]
    BY ContentsAt
  <2> HIDE DEF A, B
  <2>6. /\ Contents \o A \in Seq(Bytes) /\ Len(Contents \o A) = filled + c
        /\ \A i \in 1..filled + c : (Contents \o A)[i] = IF i <= filled THEN Contents[i]
                                                         ELSE A[i - filled]
    <3>1. PICK C : C = Contents
      OBVIOUS
    <3>2. C \in Seq(Bytes) /\ A \in Seq(Bytes) /\ Len(C) = filled /\ Len(A) = c
      BY <1>12, <2>1, <3>1
    <3>3. /\ C \o A \in Seq(Bytes) /\ Len(C \o A) = Len(C) + Len(A)
          /\ \A i \in 1..Len(C) + Len(A) : (C \o A)[i] = IF i <= Len(C) THEN C[i] ELSE A[i - Len(C)]
      BY <3>2, ConcatProperties, Zenon
    <3> QED BY <3>1, <3>2, <3>3
  <2>7. ASSUME NEW i \in 1..n PROVE B[i] = (Contents \o A)[i]
    <3>0. i \in 1..filled + c
      BY DEF n
    <3>1. CASE i <= filled
      <4>1. i \in 1..filled
        BY <1>0, <3>0, <3>1
      <4>2. (Contents \o A)[i] = Contents[i]
        BY <2>6, <3>0, <3>1
      <4> QED BY <1>6, <2>4, <2>5, <4>1, <4>2
    <3>2. CASE ~(i <= filled)
      <4>1. i \in filled + 1..filled + c /\ i - filled \in 1..c
        BY <1>0, <3>0, <3>2
      <4>2. (Contents \o A)[i] = A[i - filled]
        BY <2>6, <3>0, <3>2
      <4>3. A[i - filled] = <<w, first + (i - filled)>>
        BY <4>1 DEF A
      <4> QED BY <1>7, <2>4, <4>1, <4>2, <4>3
    <3> QED BY <3>1, <3>2
  <2>8. Len(B) = Len(Contents \o A)
    BY <2>4, <2>6 DEF n
  <2>9. B = Contents \o A
    BY <2>4, <2>6, <2>7, <2>8, SeqEqual
  <2> QED BY <2>3, <2>9
<1>14. Stream' = Stream \o A
  <2>1. got \in Seq(Bytes) /\ Contents \in Seq(Bytes)
    BY ContentsType DEF RingOK
  <2> HIDE DEF A
  <2>2. got \o (Contents \o A) = (got \o Contents) \o A
    BY <1>12, <2>1, Regroup, Zenon
  <2> QED BY <1>13, <2>2 DEF Stream
<1> QED BY <1>11, <1>14

(* What a reader's chunk does to the ring: the oldest bytes move on. *)
LEMMA ReadRing ==
  ASSUME RingOK, NEW c \in Nat, c <= filled, c <= RING_SIZE - head,
         got' = got \o [i \in 1..c |-> data[head + i - 1]],
         filled' = filled - c, head' = (head + c) % RING_SIZE, data' = data
  PROVE  RingOK' /\ Stream' = Stream /\ Len(got') = Len(got) + c
<1> DEFINE P == RING_SIZE
           m == filled - c
           X == [i \in 1..c |-> data[head + i - 1]]
           Y == [i \in 1..m |-> data[At(i + c)]]
<1>0. P \in Nat \ {0} /\ head \in Nat /\ filled \in Nat /\ head < P /\ filled <= P /\ c <= P - head
  BY RingAssumption DEF RingOK
<1>1. head' \in Nat /\ head' < P /\ head' = IF head + c < P THEN head + c ELSE head + c - P
  <2> DEFINE x == head + c
  <2>1. x \in Nat /\ x < 2 * P
    BY <1>0
  <2> HIDE DEF x, P
  <2>2. head' = x % P
    BY DEF x, P
  <2>3. head' = IF x < P THEN x ELSE x - P
    BY <1>0, <2>1, <2>2, Wrap
  <2> QED BY <1>0, <2>1, <2>3 DEF x
<1>2. \A i \in 1..P : At(i) = IF head + i - 1 < P THEN head + i - 1 ELSE head + i - 1 - P
  <2> TAKE i \in 1..P
  <2>1. i \in 1..RING_SIZE + 1
    BY <1>0
  <2> QED BY <2>1, AtIs DEF RingOK
<1>3. \A i \in 1..P + 1 : At(i)' = IF head' + i - 1 < P THEN head' + i - 1 ELSE head' + i - 1 - P
  <2>2. (head' \in 0..RING_SIZE - 1 => \A i \in 1..RING_SIZE + 1 :
           At(i)' = IF head' + i - 1 < RING_SIZE THEN head' + i - 1 ELSE head' + i - 1 - RING_SIZE)
    <3> SUFFICES ASSUME head' \in 0..RING_SIZE - 1, NEW i \in 1..RING_SIZE + 1
                 PROVE  At(i)' = IF head' + i - 1 < RING_SIZE THEN head' + i - 1
                                 ELSE head' + i - 1 - RING_SIZE
      OBVIOUS
    <3> DEFINE x == head' + i - 1
    <3>1. x \in Nat /\ x < 2 * P
      BY <1>0
    <3> HIDE DEF x, P
    <3>2. At(i)' = x % P
      BY DEF At, x, P
    <3>3. At(i)' = IF x < P THEN x ELSE x - P
      BY <1>0, <3>1, <3>2, Wrap
    <3> QED BY <1>0, <3>3 DEF x, P
  <2> QED BY <1>0, <1>1, <2>2
<1> HIDE DEF P
<1>4. m \in Nat /\ m <= P
  BY <1>0
<1>5. ASSUME NEW i \in 1..m PROVE At(i)' = At(i + c) /\ i + c \in 1..filled
  <2>1. i \in 1..P + 1 /\ i + c \in 1..P /\ i + c \in 1..filled
    BY <1>0, <1>4
  <2>2. At(i)' = IF head' + i - 1 < P THEN head' + i - 1 ELSE head' + i - 1 - P
    BY <1>3, <2>1
  <2>3. At(i + c) = IF head + (i + c) - 1 < P THEN head + (i + c) - 1 ELSE head + (i + c) - 1 - P
    BY <1>2, <2>1
  <2> QED BY <1>0, <1>1, <1>4, <2>1, <2>2, <2>3
<1>6. \A i \in 1..c : At(i) = head + i - 1 /\ i \in 1..filled
  BY <1>0, <1>2
<1>7. \A i \in 1..filled : data[At(i)] \in Bytes
  BY DEF RingOK
<1>8. X \in Seq(Bytes) /\ Len(X) = c /\ \A i \in 1..c : X[i] = data[At(i)]
  <2>1. \A i \in 1..c : data[head + i - 1] \in Bytes /\ data[head + i - 1] = data[At(i)]
    BY <1>6, <1>7
  <2> DEFINE g(i) == data[head + i - 1]
  <2>2. \A i \in 1..c : g(i) \in Bytes
    BY <2>1
  <2> HIDE DEF g
  <2>3. [i \in 1..c |-> g(i)] \in Seq(Bytes) /\ Len([i \in 1..c |-> g(i)]) = c
    BY <2>2
  <2> QED BY <2>1, <2>3 DEF g
<1> HIDE DEF m
<1>9. Y \in Seq(Bytes) /\ Len(Y) = m /\ \A i \in 1..m : Y[i] = data[At(i + c)]
  <2> DEFINE g(i) == data[At(i + c)]
  <2>1. \A i \in 1..m : g(i) \in Bytes
    BY <1>5, <1>7
  <2> HIDE DEF g
  <2>2. [i \in 1..m |-> g(i)] \in Seq(Bytes) /\ Len([i \in 1..m |-> g(i)]) = m
    BY <1>4, <2>1
  <2> QED BY <2>2 DEF g
<1>10. Contents' = Y
  <2>1. Contents' = [i \in 1..m |-> data'[At(i)']]
    BY DEF Contents, At, m
  <2>2. \A i \in 1..m : data'[At(i)'] = data[At(i + c)]
    BY <1>5
  <2> QED BY <2>1, <2>2
<1> HIDE DEF X, Y
<1>11. Contents = X \o Y
  <2>1. Contents \in Seq(Bytes) /\ Len(Contents) = filled
    BY ContentsType
  <2>2. /\ X \o Y \in Seq(Bytes) /\ Len(X \o Y) = c + m
        /\ \A i \in 1..c + m : (X \o Y)[i] = IF i <= c THEN X[i] ELSE Y[i - c]
    <3>1. X \in Seq(Bytes) /\ Y \in Seq(Bytes) /\ Len(X) = c /\ Len(Y) = m
      BY <1>8, <1>9
    <3> QED BY <3>1, ConcatProperties
  <2>3. c + m = filled
    BY <1>0 DEF m
  <2>4. ASSUME NEW i \in 1..filled PROVE Contents[i] = (X \o Y)[i]
    <3>1. Contents[i] = data[At(i)]
      BY ContentsAt
    <3>2. CASE i <= c
      <4>1. i \in 1..c
        BY <1>0, <3>2
      <4>2. (X \o Y)[i] = X[i]
        BY <2>2, <2>3, <3>2
      <4> QED BY <1>8, <3>1, <4>1, <4>2
    <3>3. CASE ~(i <= c)
      <4>1. i - c \in 1..m /\ (i - c) + c = i
        BY <1>0, <2>3, <1>4, <3>3
      <4>2. (X \o Y)[i] = Y[i - c]
        BY <2>2, <2>3, <3>3
      <4> QED BY <1>9, <3>1, <4>1, <4>2
    <3> QED BY <3>2, <3>3
  <2> QED BY <2>1, <2>2, <2>3, <2>4, SeqEqual
<1>12. got \in Seq(Bytes) /\ got' = got \o X
  BY DEF RingOK, X
<1>13. got' \in Seq(Bytes) /\ Len(got') = Len(got) + c
  BY <1>8, <1>12, ConcatProperties
<1>14. Stream' = Stream
  <2>1. got \o (X \o Y) = (got \o X) \o Y
    <3>1. X \in Seq(Bytes) /\ Y \in Seq(Bytes) /\ got \in Seq(Bytes)
      BY <1>8, <1>9, <1>12
    <3> QED BY <3>1, Regroup, Zenon
  <2> QED BY <1>10, <1>11, <1>12, <2>1 DEF Stream
<1>15. RingOK'
  <2>1. filled' \in 0..RING_SIZE /\ head' \in 0..RING_SIZE - 1
    BY <1>0, <1>1, <1>4 DEF m, P
  <2>2. \A i \in 1..filled' : data'[At(i)'] \in Bytes
    BY <1>5, <1>7 DEF m
  <2> QED BY <1>13, <2>1, <2>2 DEF RingOK
<1> QED BY <1>13, <1>14, <1>15

-----------------------------------------------------------------------------
(* Streams *)

(* Of every writer w the bytes 1..acc[w] are in s, once and in order. *)
Arrived(s, acc) ==
  /\ \A i \in 1..Len(s) : s[i][1] \in Writers /\ s[i][2] \in 1..acc[s[i][1]]
  /\ \A w \in Writers : \A k \in 1..acc[w] : \E i \in 1..Len(s) : s[i] = <<w, k>>
  /\ \A i, j \in 1..Len(s) : i < j /\ s[i][1] = s[j][1] => s[i][2] < s[j][2]

(* The bytes of each range in A follow each other, except for the last. *)
InPiece(b, r) == b[1] = r[1] /\ b[2] \in r[2]..(r[3] - 1)
Pieces(s, A) ==
  \A r \in A, i \in 1..Len(s) :
    InPiece(s[i], r) /\ i < Len(s) => s[i + 1] = <<s[i][1], s[i][2] + 1>>

(* The next bytes of a writer *)
More(w, a, c) == [i \in 1..c |-> <<w, a + i>>]

(* What appending the next bytes of a writer gives. *)
LEMMA MoreType ==
  ASSUME NEW w \in Writers, NEW a \in Nat, NEW c \in Nat, a + c <= MAX_BYTES,
         NEW s \in Seq(Bytes)
  PROVE  /\ More(w, a, c) \in Seq(Bytes) /\ Len(More(w, a, c)) = c
         /\ s \o More(w, a, c) \in Seq(Bytes) /\ Len(s \o More(w, a, c)) = Len(s) + c
         /\ \A i \in 1..Len(s) : (s \o More(w, a, c))[i] = s[i]
         /\ \A i \in Len(s) + 1..Len(s) + c : (s \o More(w, a, c))[i] = <<w, a + (i - Len(s))>>
<1> DEFINE A == More(w, a, c)
<1>1. A \in Seq(Bytes) /\ Len(A) = c /\ \A i \in 1..c : A[i] = <<w, a + i>>
  <2>1. \A i \in 1..c : <<w, a + i>> \in Bytes
    <3> TAKE i \in 1..c
    <3>1. a + i \in 1..MAX_BYTES
      BY RingAssumption
    <3> QED BY <3>1 DEF Bytes
  <2> DEFINE g(i) == <<w, a + i>>
  <2> HIDE DEF g
  <2>2. \A i \in 1..c : g(i) \in Bytes
    BY <2>1 DEF g
  <2>3. /\ [i \in 1..c |-> g(i)] \in Seq(Bytes) /\ Len([i \in 1..c |-> g(i)]) = c
        /\ \A i \in 1..c : [j \in 1..c |-> g(j)][i] = g(i)
    BY <2>2
  <2> QED BY <2>3 DEF More, g
<1> HIDE DEF A
<1>2. A \in Seq(Bytes) /\ Len(A) = c /\ Len(s) \in Nat
  BY <1>1
<1>3. /\ s \o A \in Seq(Bytes) /\ Len(s \o A) = Len(s) + c
      /\ \A i \in 1..Len(s) + c : (s \o A)[i] = IF i <= Len(s) THEN s[i] ELSE A[i - Len(s)]
  BY <1>2, ConcatProperties
<1> DEFINE t == s \o A
<1> HIDE DEF t
<1>4. \A i \in 1..Len(s) + c : t[i] = IF i <= Len(s) THEN s[i] ELSE A[i - Len(s)]
  BY <1>3 DEF t
<1>5. \A i \in 1..Len(s) : t[i] = s[i]
  BY <1>2, <1>4
<1>6. ASSUME NEW i \in Len(s) + 1..Len(s) + c PROVE t[i] = <<w, a + (i - Len(s))>>
  <2>1. i \in 1..Len(s) + c /\ ~(i <= Len(s)) /\ i - Len(s) \in 1..c
    BY <1>2
  <2> QED BY <1>1, <1>4, <2>1
<1> QED BY <1>2, <1>3, <1>5, <1>6 DEF A, t

(* The same without reference to a state: which byte is the i-th. *)
LEMMA MoreNth ==
         \A w \in Writers, a \in Nat, c \in Nat, s \in Seq(Bytes) : a + c <= MAX_BYTES =>
           /\ \A i \in Len(s) + 1..Len(s) + c : (s \o More(w, a, c))[i] = <<w, a + (i - Len(s))>>
           /\ \A i \in 1..Len(s) : (s \o More(w, a, c))[i] = s[i]
           /\ s \o More(w, a, c) \in Seq(Bytes) /\ Len(s \o More(w, a, c)) = Len(s) + c
<1> SUFFICES ASSUME NEW w \in Writers, NEW a \in Nat, NEW c \in Nat, NEW s \in Seq(Bytes),
                    a + c <= MAX_BYTES
             PROVE  /\ \A i \in Len(s) + 1..Len(s) + c :
                         (s \o More(w, a, c))[i] = <<w, a + (i - Len(s))>>
                    /\ \A i \in 1..Len(s) : (s \o More(w, a, c))[i] = s[i]
                    /\ s \o More(w, a, c) \in Seq(Bytes) /\ Len(s \o More(w, a, c)) = Len(s) + c
  OBVIOUS
<1> QED BY MoreType, ZenonT(30)

(* The bytes of s *)
LEMMA ByteOf == ASSUME NEW s \in Seq(Bytes), NEW i \in 1..Len(s)
                PROVE  s[i][1] \in Writers /\ s[i][2] \in Nat /\ s[i] = <<s[i][1], s[i][2]>>
<1>1. s[i] \in Bytes
  OBVIOUS
<1> QED BY <1>1 DEF Bytes

(* Appending the next bytes of a writer keeps all bytes in order, once each. *)
LEMMA ArrivedMore ==
  ASSUME NEW s \in Seq(Bytes), NEW acc \in [Writers -> Nat], Arrived(s, acc),
         NEW w \in Writers, NEW c \in Nat, NEW a \in Nat, acc[w] = a, a + c <= MAX_BYTES
  PROVE  Arrived(s \o More(w, a, c), [acc EXCEPT ![w] = a + c])
<1> DEFINE t == s \o More(w, a, c)
           n == Len(s)
           new == [acc EXCEPT ![w] = a + c]
<1>1. a \in Nat /\ n \in Nat /\ new \in [Writers -> Nat] /\ new[w] = a + c
  OBVIOUS
<1>2. \A x \in Writers \ {w} : new[x] = acc[x]
  OBVIOUS
<1>3. /\ t \in Seq(Bytes) /\ Len(t) = n + c
      /\ \A i \in 1..n : t[i] = s[i]
      /\ \A i \in n + 1..n + c : t[i] = <<w, a + (i - n)>>
  <2>1. t \in Seq(Bytes) /\ Len(t) = n + c
    <3>1. s \o More(w, a, c) \in Seq(Bytes) /\ Len(s \o More(w, a, c)) = Len(s) + c
      <4> HIDE DEF t, n, new
      <4> QED BY MoreNth, Zenon
    <3> QED BY <3>1, Zenon
  <2>2. \A i \in 1..n : t[i] = s[i]
    <3>1. \A i \in 1..Len(s) : (s \o More(w, a, c))[i] = s[i]
      <4> HIDE DEF t, n, new
      <4> QED BY MoreNth, Zenon
    <3> QED BY <3>1, Zenon
  <2>3. \A i \in n + 1..n + c : t[i] = <<w, a + (i - n)>>
    <3>1. \A i \in Len(s) + 1..Len(s) + c : (s \o More(w, a, c))[i] = <<w, a + (i - Len(s))>>
      <4> HIDE DEF t, n, new
      <4> QED BY MoreNth, Zenon
    <3> QED BY <3>1, Zenon
  <2> QED BY <2>1, <2>2, <2>3
<1>4. \A x \in Writers : acc[x] <= new[x] /\ acc[x] \in Nat /\ new[x] \in Nat
  BY <1>1, <1>2
<1>s. /\ \A i \in 1..n : s[i][1] \in Writers /\ s[i][2] \in 1..acc[s[i][1]]
      /\ \A x \in Writers : \A k \in 1..acc[x] : \E i \in 1..n : s[i] = <<x, k>>
      /\ \A i, j \in 1..n : i < j /\ s[i][1] = s[j][1] => s[i][2] < s[j][2]
  BY DEF Arrived
<1> HIDE DEF t, n, new
<1>5. ASSUME NEW i \in 1..Len(t) PROVE t[i][1] \in Writers /\ t[i][2] \in 1..new[t[i][1]]
  <2>1. CASE i <= n
    <3>1. i \in 1..n /\ t[i] = s[i]
      BY <1>1, <1>3, <2>1
    <3>2. s[i][1] \in Writers /\ s[i][2] \in 1..acc[s[i][1]]
      BY <1>s, <3>1
    <3> QED BY <1>4, <3>1, <3>2
  <2>2. CASE ~(i <= n)
    <3>1. i \in n + 1..n + c
      BY <1>1, <1>3, <2>2
    <3>2. t[i] = <<w, a + (i - n)>>
      BY <1>3, <3>1
    <3>3. a + (i - n) \in 1..a + c
      BY <1>1, <3>1
    <3> QED BY <1>1, <3>2, <3>3
  <2> QED BY <2>1, <2>2
<1>6. ASSUME NEW x \in Writers, NEW k \in 1..new[x] PROVE \E i \in 1..Len(t) : t[i] = <<x, k>>
  <2>1. CASE k <= acc[x]
    <3>1. k \in 1..acc[x]
      BY <1>4, <2>1
    <3>2. PICK i \in 1..n : s[i] = <<x, k>>
      BY <1>s, <3>1
    <3>3. i \in 1..Len(t) /\ t[i] = s[i]
      BY <1>1, <1>3
    <3> QED BY <3>2, <3>3
  <2>2. CASE ~(k <= acc[x])
    <3>1. x = w
      BY <1>2, <1>4, <2>2
    <3>2. k \in a + 1..a + c
      BY <1>1, <1>4, <2>2, <3>1
    <3> DEFINE i == n + (k - a)
    <3>5. Len(t) = n + c /\ n \in Nat /\ k \in Nat
      BY <1>1, <1>3, <3>2
    <3>3. i \in n + 1..n + c /\ i \in 1..Len(t) /\ a + (i - n) = k
      BY <3>2, <3>5
    <3> HIDE DEF i
    <3>4. t[i] = <<w, k>>
      BY <1>3, <3>3
    <3> QED BY <3>1, <3>3, <3>4
  <2> QED BY <2>1, <2>2
<1>7. ASSUME NEW i \in 1..Len(t), NEW j \in 1..Len(t), i < j, t[i][1] = t[j][1]
      PROVE  t[i][2] < t[j][2]
  <2>1. CASE j <= n
    <3>1. i \in 1..n /\ j \in 1..n
      BY <1>1, <1>3, <1>7, <2>1
    <3> QED BY <1>s, <1>3, <1>7, <3>1
  <2>2. CASE ~(j <= n)
    <3>1. j \in n + 1..n + c /\ i \in Nat /\ j \in Nat
      BY <1>1, <1>3, <2>2
    <3>2. t[j] = <<w, a + (j - n)>>
      BY <1>3, <3>1
    <3>3. CASE i <= n
      <4>1. i \in 1..n
        BY <3>3
      <4>2. t[i] = s[i] /\ s[i][1] = w /\ s[i][2] \in 1..a
        BY <1>3, <1>7, <3>2, <4>1, <1>s
      <4> QED BY <1>1, <3>1, <3>2, <4>2
    <3>4. CASE ~(i <= n)
      <4>1. i \in n + 1..n + c
        BY <1>1, <1>3, <3>4
      <4>2. t[i] = <<w, a + (i - n)>>
        BY <1>3, <4>1
      <4> QED BY <1>1, <1>7, <3>1, <3>2, <4>2
    <3> QED BY <3>3, <3>4
  <2> QED BY <2>1, <2>2
<1>8. Arrived(t, new)
  BY <1>5, <1>6, <1>7 DEF Arrived
<1> QED BY <1>8 DEF t, new

(* The last byte in the stream is the last its writer has got rid of. *)
LEMMA LastArrived ==
  ASSUME NEW s \in Seq(Bytes), NEW acc \in [Writers -> Nat], Arrived(s, acc), Len(s) > 0
  PROVE  s[Len(s)][2] = acc[s[Len(s)][1]] /\ s[Len(s)][1] \in Writers
<1> DEFINE n == Len(s)
           w == s[n][1]
           k == s[n][2]
<1>1. n \in 1..Len(s) /\ n \in Nat
  OBVIOUS
<1>2. w \in Writers /\ k \in 1..acc[w] /\ acc[w] \in Nat
  BY <1>1 DEF Arrived
<1>3. acc[w] \in 1..acc[w]
  BY <1>2
<1> HIDE DEF n, w, k
<1>4. PICK i \in 1..Len(s) : s[i] = <<w, acc[w]>>
  BY <1>2, <1>3 DEF Arrived
<1>5. CASE i = n
  BY <1>2, <1>4, <1>5 DEF n, k, w
<1>6. CASE i # n
  <2>1. i < n
    BY <1>6 DEF n
  <2>2. s[i][1] = s[n][1]
    BY <1>4 DEF w
  <2>3. s[i][2] < s[n][2]
    BY <1>1, <2>1, <2>2 DEF Arrived
  <2> QED BY <1>2, <1>4, <2>3 DEF k
<1> QED BY <1>5, <1>6

(* A piece that is not over goes on with the next bytes. *)
LEMMA PiecesMore ==
  ASSUME NEW s \in Seq(Bytes), NEW A, Pieces(s, A), NEW w \in Writers,
         NEW a \in Nat, NEW c \in Nat, a + c <= MAX_BYTES,
         \A r \in A : Len(s) > 0 /\ InPiece(s[Len(s)], r) => s[Len(s)] = <<w, a>>
  PROVE  Pieces(s \o More(w, a, c), A)
<1> DEFINE t == s \o More(w, a, c)
           n == Len(s)
<1>1. /\ t \in Seq(Bytes) /\ Len(t) = n + c /\ n \in Nat
      /\ \A i \in 1..n : t[i] = s[i]
      /\ \A i \in n + 1..n + c : t[i] = <<w, a + (i - n)>>
  <2>1. n \in Nat
    OBVIOUS
  <2>2. t \in Seq(Bytes) /\ Len(t) = n + c
    BY MoreType
  <2>3. \A i \in 1..n : t[i] = s[i]
    BY MoreType
  <2>4. \A i \in n + 1..n + c : t[i] = <<w, a + (i - n)>>
    BY MoreType, ZenonT(30)
  <2> QED BY <2>1, <2>2, <2>3, <2>4
<1> HIDE DEF t
<1> SUFFICES ASSUME NEW r \in A, NEW i \in 1..Len(t), InPiece(t[i], r), i < Len(t)
             PROVE  t[i + 1] = <<t[i][1], t[i][2] + 1>>
  BY DEF Pieces, t
<1>2. CASE i < n
  <2>1. i \in 1..Len(s) /\ i + 1 \in 1..n
    BY <1>1, <1>2
  <2>2. t[i] = s[i] /\ t[i + 1] = s[i + 1]
    BY <1>1, <2>1
  <2>3. s[i + 1] = <<s[i][1], s[i][2] + 1>>
    BY <1>2, <2>1, <2>2 DEF Pieces
  <2> QED BY <2>2, <2>3
<1>3. CASE i = n
  <2>1. n > 0 /\ t[i] = s[Len(s)] /\ i \in 1..n
    BY <1>1, <1>3
  <2>2. t[i] = <<w, a>>
    BY <2>1
  <2>3. i + 1 \in n + 1..n + c /\ (i + 1) - n = 1
    BY <1>1, <1>3
  <2>4. t[i + 1] = <<w, a + 1>>
    BY <1>1, <2>3
  <2> QED BY <2>2, <2>4
<1>4. CASE i > n
  <2>1. i \in n + 1..n + c /\ i + 1 \in n + 1..n + c /\ i \in Nat
    BY <1>1, <1>4
  <2>2. t[i] = <<w, a + (i - n)>> /\ t[i + 1] = <<w, a + ((i + 1) - n)>>
    BY <1>1, <2>1
  <2>3. a + ((i + 1) - n) = (a + (i - n)) + 1
    BY <1>1, <2>1
  <2> QED BY <2>2, <2>3
<1> QED BY <1>1, <1>2, <1>3, <1>4

-----------------------------------------------------------------------------
(* Transfers *)

RingIos == [active : BOOLEAN, writing : BOOLEAN, vectors : Seq(Nat), base : Nat, index : Nat,
        offset : Nat, total : Nat, length : Nat]

(* The place in the vectors is what the transfer has moved so far. *)
Shape(x) ==
  /\ x.index \in 1..Len(x.vectors) /\ x.offset <= x.vectors[x.index]
  /\ x.total = Before(x.vectors, x.index) + x.offset
  /\ x.length = Before(x.vectors, Len(x.vectors) + 1)
  /\ x.total <= x.length

(* A transfer of p under way; a write ends with the last byte passed. *)
IoOK(p, x, last) ==
  x.active => /\ Shape(x) /\ (x.writing <=> p \in Writers)
              /\ p \in Writers => x.base + x.length = last

Counted == /\ io \in [Procs -> RingIos] /\ sent \in [Writers -> 0..MAX_BYTES]
           /\ copying \in Procs \cup {Nobody} /\ available \in Nat
           /\ \A p \in Procs : IoOK(p, io[p], sent[p])

(* The loop does not move more than there is to move, and room for. *)
LoopOK == copying # Nobody => /\ io[copying].active
                              /\ available <= io[copying].length - io[copying].total
                              /\ available <= Room(io[copying])

(* A short write is moved by one run of the loop. *)
ShortOK == \A w \in Writers : io[w].active /\ io[w].length <= RING_SIZE =>
             IF copying = w THEN available = io[w].length - io[w].total ELSE io[w].total = 0

(* The range of a short write was passed before, or is the current one. *)
RangeOK(r) ==
  /\ r[1] \in Writers /\ r[2] \in Nat /\ r[3] \in Nat /\ r[3] <= sent[r[1]]
  /\ io[r[1]].active /\ r[3] > io[r[1]].base =>
       r[3] = io[r[1]].base + io[r[1]].length /\ io[r[1]].length <= RING_SIZE
RangesOK == \A r \in atomic : RangeOK(r)

(* Between two transfers the stream ends with a whole write, or a long one. *)
EndsWhole == \A r \in atomic :
               Len(Stream) > 0 /\ InPiece(Stream[Len(Stream)], r) => copying = r[1]

Acc == [w \in Writers |-> Accepted(w)]

StreamOK == Arrived(Stream, Acc) /\ Pieces(Stream, atomic) /\ EndsWhole

RingInv == RingOK /\ Counted /\ LoopOK /\ ShortOK /\ RangesOK /\ StreamOK

(* The stream is a sequence of bytes; the ring holds its end. *)
LEMMA StreamType == ASSUME RingOK
                    PROVE  Stream \in Seq(Bytes) /\ Len(Stream) = Len(got) + filled
  BY ContentsType, ConcatProperties DEF Stream, RingOK

(* What a writer has got rid of is a number. *)
LEMMA AccType == ASSUME Counted PROVE Acc \in [Writers -> Nat]
<1> SUFFICES ASSUME NEW w \in Writers PROVE Accepted(w) \in Nat
  BY DEF Acc
<1>1. io[w] \in RingIos /\ sent[w] \in Nat
  BY RingAssumption DEF Counted, Procs
<1> QED BY <1>1 DEF Accepted, RingIos

(* A step that moves no byte and takes none from its writer. *)
LEMMA StreamSame ==
  ASSUME RingInv, UNCHANGED <<head, filled, data, got>>, Acc' = Acc,
         \A r \in atomic' \ atomic : \A i \in 1..Len(Stream) : ~InPiece(Stream[i], r),
         EndsWhole'
  PROVE  RingOK' /\ StreamOK'
<1>1. RingOK' /\ Stream' = Stream
  BY DEF RingInv, RingOK, At, Stream, Contents
<1>2. Arrived(Stream, Acc) /\ Pieces(Stream, atomic)
  BY DEF RingInv, StreamOK
<1>3. Pieces(Stream, atomic')
  BY <1>2 DEF Pieces
<1>4. Arrived(Stream, Acc)' /\ Pieces(Stream, atomic)'
  BY <1>1, <1>2, <1>3 DEF Arrived, Pieces
<1> QED BY <1>1, <1>4 DEF StreamOK

(* The smaller of two numbers. *)
LEMMA LesserIs == ASSUME NEW a \in Int, NEW b \in Int
                   PROVE  Lesser(a, b) \in {a, b} /\ Lesser(a, b) <= a /\ Lesser(a, b) <= b
  BY DEF Lesser

(* linux_io_resume() up to its loop *)
LEMMA AttemptOK ==
  ASSUME RingInv, copying = Nobody, NEW p \in Procs, NEW x \in RingIos,
         x.active, NEW last, IoOK(p, x, last), Attempt(p, x), UNCHANGED filled,
         x.writing /\ x.length <= RING_SIZE => x.total = 0
  PROVE  /\ io' = [io EXCEPT ![p] = x] /\ copying' \in {p, Nobody} /\ available' \in Nat
         /\ LoopOK'
         /\ p \in Writers /\ x.length <= RING_SIZE =>
              IF copying' = p THEN available' = x.length - x.total ELSE x.total = 0
<1>1. /\ io' = [io EXCEPT ![p] = x] /\ io \in [Procs -> RingIos] /\ filled \in Nat
      /\ filled <= RING_SIZE /\ RING_SIZE \in Nat /\ available \in Nat
      /\ p # Nobody /\ io'[p] = x
  BY RingAssumption DEF Attempt, RingInv, Counted, RingOK, Nobody, Procs
<1>2. x.length \in Nat /\ x.total \in Nat /\ x.total <= x.length /\ (x.writing <=> p \in Writers)
  BY DEF IoOK, Shape, RingIos
<1>3. Room(x) \in Nat /\ Room(x)' = Room(x)
  BY <1>1 DEF Room
<1>4. CASE Blocks(x)
  <2>1. copying' = Nobody /\ available' = available
    BY <1>4 DEF Attempt
  <2> QED BY <1>1, <1>2, <2>1 DEF LoopOK
<1>5. CASE ~Blocks(x)
  <2>1. copying' = p /\ available' = Lesser(Room(x), x.length - x.total)
    BY <1>5 DEF Attempt
  <2>2. /\ available' \in Nat /\ available' <= Room(x) /\ available' <= x.length - x.total
        /\ available' \in {Room(x), x.length - x.total}
    BY <1>2, <1>3, <2>1, LesserIs
  <2>3. LoopOK'
    BY <1>1, <1>3, <2>1, <2>2 DEF LoopOK, Room
  <2>4. ASSUME p \in Writers, x.length <= RING_SIZE PROVE available' = x.length - x.total
    <3>1. x.writing /\ x.total = 0 /\ ~(Room(x) < x.length)
      BY <1>2, <1>5, <2>4 DEF Blocks
    <3> QED BY <1>2, <1>3, <2>1, <3>1 DEF Lesser
  <2> QED BY <1>1, <2>1, <2>2, <2>3, <2>4
<1> QED BY <1>4, <1>5

(* Between two runs of the loop no short write is half in the stream. *)
LEMMA NothingOpen ==
  ASSUME RingInv, copying = Nobody, NEW r \in atomic, Len(Stream) > 0
  PROVE  ~InPiece(Stream[Len(Stream)], r)
<1>1. r[1] \in Writers /\ r[1] # Nobody
  BY RingAssumption DEF RingInv, RangesOK, RangeOK, Nobody
<1> QED BY <1>1 DEF RingInv, StreamOK, EndsWhole

(* pipe_transfer() passes the next bytes of its caller to the loop, or waits. *)
LEMMA StartOK ==
  ASSUME RingInv, NEW p \in Procs, NEW v \in Vectors, Start(p, v)
  PROVE  RingInv'
<1> DEFINE n == Before(v, Len(v) + 1)
           x == [active |-> TRUE, writing |-> p \in Writers, vectors |-> v,
                 base |-> IF p \in Writers THEN sent[p] ELSE 0,
                 index |-> 1, offset |-> 0, total |-> 0, length |-> n]
<1>1. v \in Seq(Nat) /\ Len(v) \in Nat
  BY RingAssumption
<1>2. n \in Nat /\ Before(v, 1) = 0
  BY <1>1, BeforeStep
<1>3. n > 0 /\ copying = Nobody /\ ~io[p].active /\ Attempt(p, x)
      /\ UNCHANGED <<head, filled, data, got>>
  BY DEF Start
<1>4. 1 \in 1..Len(v) /\ v[1] \in Nat
  BY <1>1, <1>2, <1>3
<1>5. /\ io \in [Procs -> RingIos] /\ sent \in [Writers -> 0..MAX_BYTES] /\ MAX_BYTES \in Nat
      /\ \A q \in Procs : IoOK(q, io[q], sent[q])
  BY RingAssumption DEF RingInv, Counted
<1>s. /\ p \in Writers => /\ sent[p] + n <= MAX_BYTES
                          /\ sent' = [sent EXCEPT ![p] = @ + n]
                          /\ atomic' = IF n <= RING_SIZE
                                       THEN atomic \cup {<<p, sent[p] + 1, sent[p] + n>>}
                                       ELSE atomic
      /\ p \notin Writers => sent' = sent /\ atomic' = atomic
  BY DEF Start
<1>6. /\ sent' \in [Writers -> 0..MAX_BYTES]
      /\ p \in Writers => sent'[p] = sent[p] + n /\ sent[p] \in Nat
      /\ \A w \in Writers \ {p} : sent'[w] = sent[w]
  <2> HIDE DEF n, x
  <2> QED BY <1>2, <1>5, <1>s
<1>7. /\ x \in RingIos /\ x.active /\ x.index = 1 /\ x.offset = 0 /\ x.total = 0 /\ x.length = n
      /\ x.vectors = v /\ x.base = IF p \in Writers THEN sent[p] ELSE 0
  <2> DEFINE b == IF p \in Writers THEN sent[p] ELSE 0
             t == p \in Writers
  <2>1. b \in Nat /\ t \in BOOLEAN
    BY <1>6
  <2> HIDE DEF b, t, n
  <2>2. [active |-> TRUE, writing |-> t, vectors |-> v, base |-> b,
         index |-> 1, offset |-> 0, total |-> 0, length |-> n] \in RingIos
    BY <1>1, <1>2, <2>1 DEF RingIos
  <2> QED BY <2>2 DEF b, t
<1>8. x.writing <=> p \in Writers
  OBVIOUS
<1> HIDE DEF x
<1>9. Shape(x)
  BY <1>1, <1>2, <1>4, <1>7 DEF Shape
<1> HIDE DEF n
<1>10. IoOK(p, x, sent'[p])
  BY <1>6, <1>7, <1>8, <1>9 DEF IoOK
<1>11. /\ io' = [io EXCEPT ![p] = x] /\ copying' \in {p, Nobody} /\ available' \in Nat
       /\ LoopOK'
       /\ p \in Writers /\ x.length <= RING_SIZE =>
            IF copying' = p THEN available' = x.length - x.total ELSE x.total = 0
  BY <1>3, <1>7, <1>10, AttemptOK
<1>12. /\ io' \in [Procs -> RingIos] /\ io'[p] = x
       /\ \A q \in Procs \ {p} : io'[q] = io[q]
  BY <1>5, <1>7, <1>11
<1>p. Writers \subseteq Procs /\ p # Nobody /\ Nobody \notin Writers
  BY RingAssumption DEF Procs, Nobody
<1>13. Counted'
  <2>1. ASSUME NEW q \in Procs PROVE IoOK(q, io'[q], sent'[q])
    <3>1. CASE q = p
      BY <1>10, <1>12, <3>1
    <3>2. CASE q # p
      <4>1. io'[q] = io[q] /\ IoOK(q, io[q], sent[q]) /\ (q \in Writers => sent'[q] = sent[q])
        BY <1>5, <1>6, <1>12, <3>2
      <4> QED BY <4>1 DEF IoOK
    <3> QED BY <3>1, <3>2
  <2> QED BY <1>6, <1>11, <1>12, <2>1 DEF Counted
<1>14. ShortOK'
  <2> SUFFICES ASSUME NEW w \in Writers, io'[w].active, io'[w].length <= RING_SIZE
               PROVE  IF copying' = w THEN available' = io'[w].length - io'[w].total
                      ELSE io'[w].total = 0
    BY DEF ShortOK
  <2>1. CASE w = p
    BY <1>11, <1>12, <2>1
  <2>2. CASE w # p
    <3>1. io'[w] = io[w] /\ copying' # w /\ copying # w
      BY <1>3, <1>11, <1>12, <1>p, <2>2
    <3>2. io[w].total = 0
      BY <3>1 DEF RingInv, ShortOK
    <3> QED BY <3>1, <3>2
  <2> QED BY <2>1, <2>2
<1>15. RangesOK'
  <2> SUFFICES ASSUME NEW r \in atomic' PROVE RangeOK(r)'
    BY DEF RangesOK
  <2>1. CASE r \in atomic
    <3>1. RangeOK(r)
      BY <2>1 DEF RingInv, RangesOK
    <3>2. CASE r[1] = p
      <4>1. r[1] \in Writers /\ r[2] \in Nat /\ r[3] \in Nat /\ r[3] <= sent[r[1]]
        BY <3>1 DEF RangeOK
      <4>2. io'[r[1]] = x /\ x.base = sent[p] /\ sent[p] \in Nat /\ sent'[p] = sent[p] + n
        BY <1>6, <1>7, <1>12, <3>2, <4>1
      <4>3. ~(r[3] > x.base) /\ r[3] <= sent'[r[1]]
        BY <1>2, <3>2, <4>1, <4>2
      <4> QED BY <4>1, <4>2, <4>3 DEF RangeOK
    <3>3. CASE r[1] # p
      <4>1. io'[r[1]] = io[r[1]] /\ sent'[r[1]] = sent[r[1]]
        BY <1>6, <1>12, <1>p, <3>1, <3>3 DEF RangeOK
      <4> QED BY <3>1, <4>1 DEF RangeOK
    <3> QED BY <3>2, <3>3
  <2>2. CASE r \notin atomic
    <3>1. p \in Writers /\ n <= RING_SIZE /\ r = <<p, sent[p] + 1, sent[p] + n>>
      BY <1>s, <2>2
    <3>2. /\ io'[p] = x /\ x.base = sent[p] /\ sent[p] \in Nat /\ x.length = n
          /\ sent'[p] = sent[p] + n
      BY <1>6, <1>7, <1>12, <3>1
    <3>3. r[1] = p /\ r[2] = sent[p] + 1 /\ r[3] = sent[p] + n
      BY <3>1
    <3> QED BY <1>2, <3>1, <3>2, <3>3 DEF RangeOK
  <2> QED BY <2>1, <2>2
<1>16. Acc' = Acc
  <2>1. ASSUME NEW w \in Writers PROVE Accepted(w)' = Accepted(w)
    <3>1. CASE w = p
      <4>1. Accepted(w)' = x.base + x.total /\ Accepted(w) = sent[w]
        BY <1>3, <1>7, <1>12, <3>1 DEF Accepted
      <4> QED BY <1>6, <1>7, <3>1, <4>1
    <3>2. CASE w # p
      BY <1>6, <1>12, <1>p, <3>2 DEF Accepted
    <3> QED BY <3>1, <3>2
  <2> QED BY <2>1 DEF Acc
<1>17. ASSUME NEW r \in atomic' \ atomic, NEW i \in 1..Len(Stream)
       PROVE  ~InPiece(Stream[i], r)
  <2>1. p \in Writers /\ r = <<p, sent[p] + 1, sent[p] + n>>
    BY <1>s
  <2>2. Stream[i][1] \in Writers /\ Stream[i][2] \in 1..Acc[Stream[i][1]]
    BY DEF RingInv, StreamOK, Arrived
  <2>3. Acc[p] = sent[p] /\ sent[p] \in Nat
    BY <1>3, <1>6, <2>1 DEF Acc, Accepted
  <2> SUFFICES ASSUME InPiece(Stream[i], r) PROVE FALSE
    OBVIOUS
  <2>4. Stream[i][1] = p /\ Stream[i][2] \in sent[p] + 1..(sent[p] + n) - 1
    BY <2>1 DEF InPiece
  <2>5. Stream[i][2] \in 1..sent[p]
    BY <2>2, <2>3, <2>4
  <2> DEFINE k == Stream[i][2]
             m == sent[p]
  <2>6. m \in Nat /\ n \in Nat /\ k \in m + 1..(m + n) - 1 /\ k \in 1..m
    BY <1>2, <2>3, <2>4, <2>5
  <2> HIDE DEF k, m
  <2> QED BY <2>6
<1>18. EndsWhole'
  <2>0. Stream' = Stream
    BY <1>3 DEF Stream, Contents
  <2> SUFFICES ASSUME NEW r \in atomic', Len(Stream) > 0, InPiece(Stream[Len(Stream)], r)
               PROVE  FALSE
    BY <2>0 DEF EndsWhole, InPiece
  <2>1. CASE r \in atomic
    BY <1>3, <2>1, NothingOpen
  <2>2. CASE r \notin atomic
    <3>1. Stream \in Seq(Bytes)
      BY StreamType DEF RingInv
    <3>2. Len(Stream) \in 1..Len(Stream)
      BY <3>1
    <3> QED BY <1>17, <2>2, <3>2
  <2> QED BY <2>1, <2>2
<1>19. RingOK' /\ StreamOK'
  BY <1>3, <1>16, <1>17, <1>18, StreamSame
<1> QED BY <1>11, <1>13, <1>14, <1>15, <1>19 DEF RingInv

(* A blocked transfer goes on where it stopped. *)
LEMMA ResumeOK ==
  ASSUME RingInv, NEW p \in Procs, ResumeCopy(p)
  PROVE  RingInv'
<1> DEFINE x == io[p]
<1>1. /\ copying = Nobody /\ x.active /\ Attempt(p, x)
      /\ UNCHANGED <<head, filled, data, sent, atomic, got>>
  BY DEF ResumeCopy, Ready
<1>2. /\ io \in [Procs -> RingIos] /\ sent \in [Writers -> 0..MAX_BYTES]
      /\ IoOK(p, x, sent[p]) /\ x \in RingIos
  BY DEF RingInv, Counted
<1>p. Writers \subseteq Procs /\ p # Nobody /\ Nobody \notin Writers
  BY RingAssumption DEF Procs, Nobody
<1>3. x.writing /\ x.length <= RING_SIZE => x.total = 0
  BY <1>1, <1>2, <1>p DEF RingInv, ShortOK, IoOK
<1> HIDE DEF x
<1>4. /\ io' = [io EXCEPT ![p] = x] /\ copying' \in {p, Nobody} /\ available' \in Nat
      /\ LoopOK'
      /\ p \in Writers /\ x.length <= RING_SIZE =>
           IF copying' = p THEN available' = x.length - x.total ELSE x.total = 0
  BY <1>1, <1>2, <1>3, AttemptOK
<1>5. io' = io
  BY <1>2, <1>4 DEF x
<1>6. Counted'
  BY <1>1, <1>4, <1>5 DEF RingInv, Counted, IoOK
<1>7. ShortOK'
  <2> SUFFICES ASSUME NEW w \in Writers, io[w].active, io[w].length <= RING_SIZE
               PROVE  IF copying' = w THEN available' = io[w].length - io[w].total
                      ELSE io[w].total = 0
    BY <1>5 DEF ShortOK
  <2>1. CASE w = p
    BY <1>4, <2>1 DEF x
  <2>2. CASE w # p
    BY <1>1, <1>4, <1>p, <2>2 DEF RingInv, ShortOK
  <2> QED BY <2>1, <2>2
<1>8. RangesOK'
  BY <1>1, <1>5 DEF RingInv, RangesOK, RangeOK
<1>9. Acc' = Acc
  BY <1>1, <1>5 DEF Acc, Accepted
<1>10. EndsWhole'
  <2>0. Stream' = Stream
    BY <1>1 DEF Stream, Contents
  <2> QED BY <1>1, <2>0, NothingOpen DEF EndsWhole, InPiece
<1>11. RingOK' /\ StreamOK'
  BY <1>1, <1>9, <1>10, StreamSame
<1> QED BY <1>4, <1>6, <1>7, <1>8, <1>11 DEF RingInv

(* What the loop knows of the transfer it runs for. *)
LEMMA InLoop ==
  ASSUME RingInv, copying # Nobody
  PROVE  /\ copying \in Procs /\ io \in [Procs -> RingIos] /\ io[copying] \in RingIos
         /\ io[copying].active /\ Shape(io[copying])
         /\ io[copying].writing <=> copying \in Writers
         /\ available \in Nat /\ available <= io[copying].length - io[copying].total
         /\ available <= Room(io[copying])
         /\ copying \in Writers =>
              io[copying].base + io[copying].length = sent[copying] /\ sent[copying] \in 0..MAX_BYTES
         /\ Writers \subseteq Procs /\ Nobody \notin Writers
<1>1. /\ copying \in Procs /\ io \in [Procs -> RingIos] /\ sent \in [Writers -> 0..MAX_BYTES]
      /\ available \in Nat /\ IoOK(copying, io[copying], sent[copying])
  BY DEF RingInv, Counted
<1>2. /\ io[copying].active /\ available <= io[copying].length - io[copying].total
      /\ available <= Room(io[copying])
  BY DEF RingInv, LoopOK
<1> QED BY <1>1, <1>2, RingAssumption DEF IoOK, Procs, Nobody

(* A step of the loop moves its place in the vectors and nothing else of    *)
(* the transfer.                                                            *)
LEMMA LoopStep ==
  ASSUME RingInv, copying # Nobody, NEW y \in RingIos, y.active,
         y.writing <=> io[copying].writing, y.base = io[copying].base,
         y.length = io[copying].length, Shape(y), io' = [io EXCEPT ![copying] = y],
         UNCHANGED <<copying, sent, atomic>>, available' \in Nat
  PROVE  /\ Counted' /\ RangesOK' /\ io'[copying] = y
         /\ \A q \in Procs \ {copying} : io'[q] = io[q]
<1> DEFINE p == copying
<1>1. /\ p \in Procs /\ io \in [Procs -> RingIos] /\ io[p].active
      /\ (io[p].writing <=> p \in Writers) /\ Writers \subseteq Procs
      /\ p \in Writers => io[p].base + io[p].length = sent[p]
  BY InLoop
<1> HIDE DEF p
<1>2. io' \in [Procs -> RingIos] /\ io'[p] = y /\ \A q \in Procs \ {p} : io'[q] = io[q]
  BY <1>1 DEF p
<1>3. ASSUME NEW q \in Procs PROVE IoOK(q, io'[q], sent[q])
  <2>1. CASE q = p
    BY <1>1, <1>2, <2>1 DEF IoOK, p
  <2>2. CASE q # p
    BY <1>2, <2>2 DEF RingInv, Counted
  <2> QED BY <2>1, <2>2
<1>4. Counted'
  BY <1>2, <1>3 DEF RingInv, Counted
<1>5. ASSUME NEW r \in atomic PROVE RangeOK(r)'
  <2>1. RangeOK(r)
    BY DEF RingInv, RangesOK
  <2>2. CASE r[1] = p
    BY <1>1, <1>2, <2>1, <2>2 DEF RangeOK, p
  <2>3. CASE r[1] # p
    BY <1>1, <1>2, <2>1, <2>3 DEF RangeOK
  <2> QED BY <2>2, <2>3
<1> QED BY <1>2, <1>4, <1>5 DEF RangesOK, p

(* There is another vector as long as there are bytes to move. *)
LEMMA NextVectorOK == ASSUME RingInv, NextVector PROVE RingInv'
<1> DEFINE p == copying
           x == io[p]
           v == x.vectors
           y == [x EXCEPT !.index = @ + 1, !.offset = 0]
<1>a. /\ p # Nobody /\ available > 0 /\ x.offset = v[x.index]
      /\ UNCHANGED <<head, filled, data, copying, available, sent, atomic, got>>
  BY DEF NextVector
<1>b. io' = [io EXCEPT ![p] = y]
  <2>1. io' = [io EXCEPT ![p].index = @ + 1, ![p].offset = 0]
    BY DEF NextVector
  <2>2. io \in [Procs -> RingIos] /\ p \in Procs
    BY <1>a, InLoop
  <2> QED BY <2>1, <2>2
<1>1. /\ p # Nobody /\ available > 0 /\ x.offset = v[x.index] /\ io' = [io EXCEPT ![p] = y]
      /\ UNCHANGED <<head, filled, data, copying, available, sent, atomic, got>>
  BY <1>a, <1>b, Zenon
<1>2. /\ p \in Procs /\ io \in [Procs -> RingIos] /\ x \in RingIos /\ x.active /\ Shape(x)
      /\ available \in Nat /\ available <= x.length - x.total /\ Writers \subseteq Procs
  BY <1>1, InLoop
<1>3. /\ v \in Seq(Nat) /\ x.index \in Nat /\ x.offset \in Nat /\ x.total \in Nat
      /\ x.length \in Nat
  BY <1>2 DEF RingIos
<1>4. /\ x.index \in 1..Len(v) /\ x.total = Before(v, x.index) + x.offset
      /\ x.length = Before(v, Len(v) + 1) /\ x.total <= x.length
  BY <1>2 DEF Shape
<1>5. Before(v, x.index + 1) = x.total
  BY <1>1, <1>3, <1>4, BeforeStep
<1>6. x.index # Len(v)
  BY <1>1, <1>2, <1>3, <1>4, <1>5
<1>7. x.index + 1 \in 1..Len(v) /\ v[x.index + 1] \in Nat
  <2> DEFINE k == x.index
  <2>1. v \in Seq(Nat) /\ k \in 1..Len(v) /\ k # Len(v)
    BY <1>3, <1>4, <1>6
  <2> HIDE DEF k, v
  <2>2. k + 1 \in 1..Len(v) /\ v[k + 1] \in Nat
    BY <2>1
  <2> QED BY <2>2 DEF k
<1>8. /\ y \in RingIos /\ y.active /\ (y.writing <=> x.writing) /\ y.base = x.base
      /\ y.length = x.length /\ y.vectors = v /\ y.index = x.index + 1 /\ y.offset = 0
      /\ y.total = x.total
  <2>1. x \in RingIos /\ x.active /\ x.index + 1 \in Nat
    BY <1>2, <1>3
  <2> HIDE DEF x
  <2>2. y \in RingIos
    BY <2>1 DEF RingIos
  <2>3. y.active /\ (y.writing <=> x.writing)
    BY <2>1 DEF RingIos
  <2>4. /\ y.base = x.base /\ y.length = x.length /\ y.vectors = x.vectors
        /\ y.index = x.index + 1 /\ y.offset = 0 /\ y.total = x.total
    BY <2>1 DEF RingIos
  <2> QED BY <2>2, <2>3, <2>4
<1> HIDE DEF y
<1>9. Shape(y)
  <2> HIDE DEF x, v
  <2>1. y.index \in 1..Len(y.vectors) /\ y.offset <= y.vectors[y.index]
    BY <1>7, <1>8
  <2>2. y.total = Before(y.vectors, y.index) + y.offset
    BY <1>3, <1>5, <1>8
  <2>3. y.length = Before(y.vectors, Len(y.vectors) + 1) /\ y.total <= y.length
    BY <1>4, <1>8
  <2> QED BY <2>1, <2>2, <2>3 DEF Shape
<1>10. Counted' /\ RangesOK' /\ io'[p] = y /\ \A q \in Procs \ {p} : io'[q] = io[q]
  BY <1>1, <1>2, <1>8, <1>9, LoopStep
<1>11. LoopOK'
  BY <1>1, <1>8, <1>10 DEF RingInv, LoopOK, Room
<1>12. ShortOK'
  <2> SUFFICES ASSUME NEW w \in Writers, io'[w].active, io'[w].length <= RING_SIZE
               PROVE  IF p = w THEN available = io'[w].length - io'[w].total
                      ELSE io'[w].total = 0
    BY <1>1 DEF ShortOK
  <2>1. CASE w = p
    BY <1>2, <1>8, <1>10, <2>1 DEF RingInv, ShortOK
  <2>2. CASE w # p
    BY <1>2, <1>10, <2>2 DEF RingInv, ShortOK
  <2> QED BY <2>1, <2>2
<1>13. Acc' = Acc
  <2>1. ASSUME NEW w \in Writers PROVE Accepted(w)' = Accepted(w)
    <3>1. CASE w = p
      BY <1>1, <1>2, <1>8, <1>10, <3>1 DEF Accepted
    <3>2. CASE w # p
      BY <1>1, <1>2, <1>10, <3>2 DEF Accepted
    <3> QED BY <3>1, <3>2
  <2> QED BY <2>1 DEF Acc
<1>14. EndsWhole'
  <2>0. Stream' = Stream
    BY <1>1 DEF Stream, Contents
  <2> QED BY <1>1, <2>0 DEF RingInv, StreamOK, EndsWhole, InPiece
<1>15. RingOK' /\ StreamOK'
  BY <1>1, <1>13, <1>14, StreamSame
<1> QED BY <1>10, <1>11, <1>12, <1>15 DEF RingInv

(* The run of the loop is over: a short write with its last byte. *)
LEMMA FinishOK == ASSUME RingInv, Finish PROVE RingInv'
<1> DEFINE p == copying
           x == io[p]
           y == IF x.writing /\ x.total < x.length THEN x ELSE NoTransfer
<1>1. /\ p # Nobody /\ available = 0 /\ copying' = Nobody /\ io' = [io EXCEPT ![p] = y]
      /\ UNCHANGED <<head, filled, data, available, sent, atomic, got>>
  BY DEF Finish
<1>2. /\ p \in Procs /\ io \in [Procs -> RingIos] /\ x \in RingIos /\ x.active /\ Shape(x)
      /\ (x.writing <=> p \in Writers) /\ Writers \subseteq Procs /\ Nobody \notin Writers
      /\ p \in Writers => x.base + x.length = sent[p]
  BY <1>1, InLoop
<1>3. x.total \in Nat /\ x.length \in Nat /\ x.base \in Nat /\ x.total <= x.length
  BY <1>2 DEF RingIos, Shape
<1>4. NoTransfer \in RingIos /\ ~NoTransfer.active
  <2>1. <<>> \in Seq(Nat)
    OBVIOUS
  <2> QED BY <2>1 DEF RingIos, NoTransfer
<1>5. y \in RingIos /\ (y = x \/ y = NoTransfer)
  BY <1>2, <1>4
<1>s. p \in Writers /\ x.length <= RING_SIZE => x.total = x.length
  <2>1. p \in Writers /\ x.length <= RING_SIZE => available = x.length - x.total
    BY <1>2 DEF RingInv, ShortOK
  <2> QED BY <1>1, <1>3, <2>1
<1>y. y.active => y = x /\ p \in Writers /\ x.total < x.length
  BY <1>2, <1>4
<1>z. p \in Writers /\ ~y.active => x.total = x.length
  BY <1>2, <1>3
<1> HIDE DEF y
<1>6. io' \in [Procs -> RingIos] /\ io'[p] = y /\ \A q \in Procs \ {p} : io'[q] = io[q]
  BY <1>1, <1>2, <1>5
<1>7. Counted'
  <2>1. ASSUME NEW q \in Procs PROVE IoOK(q, io'[q], sent[q])
    <3>1. IoOK(q, io[q], sent[q])
      BY DEF RingInv, Counted
    <3>2. CASE q = p
      BY <1>y, <1>6, <3>1, <3>2 DEF IoOK
    <3>3. CASE q # p
      BY <1>6, <3>1, <3>3
    <3> QED BY <3>2, <3>3
  <2> QED BY <1>1, <1>6, <2>1 DEF RingInv, Counted
<1>8. LoopOK'
  BY <1>1 DEF LoopOK
<1>9. ShortOK'
  <2> SUFFICES ASSUME NEW w \in Writers, io'[w].active, io'[w].length <= RING_SIZE
               PROVE  io'[w].total = 0
    BY <1>1, <1>2 DEF ShortOK
  <2>1. CASE w = p
    <3>1. y.active /\ y.length <= RING_SIZE /\ y = x
      BY <1>y, <1>6, <2>1
    <3> QED BY <1>s, <1>y, <1>3, <3>1, <2>1
  <2>2. CASE w # p
    BY <1>2, <1>6, <2>2 DEF RingInv, ShortOK
  <2> QED BY <2>1, <2>2
<1>10. RangesOK'
  <2> SUFFICES ASSUME NEW r \in atomic PROVE RangeOK(r)'
    BY <1>1 DEF RangesOK
  <2>1. RangeOK(r)
    BY DEF RingInv, RangesOK
  <2>2. CASE r[1] = p
    BY <1>1, <1>y, <1>6, <2>1, <2>2 DEF RangeOK
  <2>3. CASE r[1] # p
    BY <1>1, <1>2, <1>6, <2>1, <2>3 DEF RangeOK
  <2> QED BY <2>2, <2>3
<1>11. Acc' = Acc
  <2>1. ASSUME NEW w \in Writers PROVE Accepted(w)' = Accepted(w)
    <3>1. CASE w = p
      <4>1. Accepted(w) = x.base + x.total
        BY <1>2, <3>1 DEF Accepted
      <4>2. CASE y.active
        BY <1>1, <1>y, <1>6, <3>1, <4>1, <4>2 DEF Accepted
      <4>3. CASE ~y.active
        BY <1>1, <1>2, <1>z, <1>6, <3>1, <4>1, <4>3 DEF Accepted
      <4> QED BY <4>2, <4>3
    <3>2. CASE w # p
      BY <1>1, <1>2, <1>6, <3>2 DEF Accepted
    <3> QED BY <3>1, <3>2
  <2> QED BY <2>1 DEF Acc
<1>12. EndsWhole'
  <2>0. Stream' = Stream
    BY <1>1 DEF Stream, Contents
  <2> SUFFICES ASSUME NEW r \in atomic, Len(Stream) > 0, InPiece(Stream[Len(Stream)], r)
               PROVE  FALSE
    BY <1>1, <2>0 DEF EndsWhole, InPiece
  <2> DEFINE k == Stream[Len(Stream)][2]
  <2>1. p = r[1] /\ p \in Writers /\ RangeOK(r)
    BY <1>2 DEF RingInv, StreamOK, EndsWhole, RangesOK, RangeOK
  <2>2. Stream[Len(Stream)][1] = p /\ k \in r[2]..(r[3] - 1)
    BY <2>1 DEF InPiece
  <2>3. k = Acc[p]
    <3>1. Stream \in Seq(Bytes) /\ Acc \in [Writers -> Nat] /\ Arrived(Stream, Acc)
      BY StreamType, AccType DEF RingInv, StreamOK
    <3> QED BY <2>2, <3>1, LastArrived
  <2>4. Acc[p] = x.base + x.total
    BY <1>2, <2>1 DEF Acc, Accepted
  <2>5. r[2] \in Nat /\ r[3] \in Nat /\ r[3] > x.base
    <3>1. r[2] \in Nat /\ r[3] \in Nat
      BY <2>1 DEF RangeOK
    <3> DEFINE a == r[2]
               b == r[3]
    <3>2. a \in Nat /\ b \in Nat /\ x.base + x.total \in a..b - 1
      BY <2>2, <2>3, <2>4, <3>1
    <3> HIDE DEF a, b, x
    <3>3. b > x.base
      BY <1>3, <3>2
    <3> QED BY <3>1, <3>3 DEF b
  <2>6. r[3] = x.base + x.length /\ x.length <= RING_SIZE
    BY <1>2, <2>1, <2>5 DEF RangeOK
  <2> HIDE DEF k
  <2> QED BY <1>s, <1>3, <2>1, <2>2, <2>3, <2>4, <2>5, <2>6
<1>13. RingOK' /\ StreamOK'
  BY <1>1, <1>11, <1>12, StreamSame
<1> QED BY <1>7, <1>8, <1>9, <1>10, <1>13 DEF RingInv

(* What one memcpy() moves: at least a byte, and no more than the vector,   *)
(* the transfer and the ring have.                                          *)
Drained(c) ==
  LET x == io[copying]
  IN  /\ c \in Nat \ {0} /\ c <= available /\ c <= x.vectors[x.index] - x.offset
      /\ c <= RING_SIZE - Position(x) /\ c <= Room(x)
      /\ available' = available - c
      /\ io' = [io EXCEPT ![copying].offset = @ + c, ![copying].total = @ + c]

(* One turn of the loop moves such a chunk. *)
LEMMA ChunkMoves ==
  ASSUME RingInv, CopyChunk
  PROVE  copying # Nobody /\ Drained(Chunk(io[copying]))
<1> DEFINE x == io[copying]
           v == x.vectors[x.index]
           q == Position(x)
           c == Chunk(x)
<1>1. /\ copying # Nobody /\ available > 0 /\ x.offset # v /\ available' = available - c
      /\ io' = [io EXCEPT ![copying].offset = @ + c, ![copying].total = @ + c]
  BY DEF CopyChunk
<1>2. /\ x \in RingIos /\ Shape(x) /\ available \in Nat /\ available <= Room(x)
  BY <1>1, InLoop
<1>3. x.offset \in Nat /\ v \in Nat /\ x.offset <= v
  BY <1>2 DEF RingIos, Shape
<1>4. q \in Nat /\ RING_SIZE \in Nat /\ q < RING_SIZE
  <2> DEFINE P == RING_SIZE
             s == head + filled
  <2>1. P \in Nat \ {0} /\ head \in 0..P - 1 /\ s \in Nat
    BY RingAssumption DEF RingInv, RingOK
  <2>2. q = IF x.writing THEN s % P ELSE head
    BY DEF Position
  <2> HIDE DEF P, s, q
  <2>3. s % P \in 0..P - 1
    BY <2>1
  <2> QED BY <2>1, <2>2, <2>3 DEF P
<1>5. c = Lesser(Lesser(v - x.offset, available), RING_SIZE - q)
  BY DEF Chunk
<1> DEFINE d == v - x.offset
           e == Lesser(d, available)
           f == RING_SIZE - q
<1>6. d \in Nat \ {0} /\ f \in Nat \ {0} /\ available \in Nat \ {0}
  <2> HIDE DEF v, q
  <2> QED BY <1>1, <1>2, <1>3, <1>4
<1>7. e \in {d, available} /\ e <= d /\ e <= available
  <2> HIDE DEF d
  <2> QED BY <1>6, LesserIs
<1>8. e \in Nat \ {0}
  <2> HIDE DEF d, e
  <2> QED BY <1>6, <1>7
<1>9. c \in {e, f} /\ c <= e /\ c <= f
  <2> HIDE DEF e, f, c
  <2>1. c = Lesser(e, f)
    BY <1>5 DEF e, f
  <2> QED BY <1>6, <1>8, <2>1, LesserIs
<1>r. Room(x) \in Int
  BY RingAssumption DEF Room, RingInv, RingOK
<1>10. c \in Nat \ {0} /\ c <= d /\ c <= available /\ c <= f /\ c <= Room(x)
  <2> HIDE DEF d, e, f, c, x
  <2> QED BY <1>2, <1>6, <1>7, <1>8, <1>9, <1>r
<1> QED BY <1>1, <1>10, Zenon DEF Drained

(* A writer's chunk is appended to the stream; it starts with the first     *)
(* byte that its writer has not got rid of.                                 *)
LEMMA WriteChunk ==
  ASSUME RingInv, CopyChunk, NEW c, Drained(c), c = Chunk(io[copying]),
         copying \in Writers
  PROVE  /\ RingOK' /\ UNCHANGED <<head, got, copying, sent, atomic>> /\ filled' = filled + c
         /\ Acc[copying] = io[copying].base + io[copying].total
         /\ Acc[copying] \in Nat /\ Acc[copying] + c <= MAX_BYTES
         /\ Stream' = Stream \o More(copying, Acc[copying], c)
<1> DEFINE x == io[copying]
           q == Position(x)
           first == (x.base + Before(x.vectors, x.index)) + x.offset
<1>0. copying # Nobody
  BY DEF CopyChunk
<1>1. /\ x \in RingIos /\ x.active /\ Shape(x) /\ x.writing
      /\ x.base + x.length = sent[copying] /\ sent[copying] \in 0..MAX_BYTES
      /\ available <= x.length - x.total /\ available \in Nat
  BY <1>0, InLoop
<1>2. /\ data' = [i \in DOMAIN data |-> IF i \in q..(q + c - 1)
                                        THEN <<copying, first + i - q + 1>> ELSE data[i]]
      /\ filled' = filled + c /\ UNCHANGED <<head, got, copying, sent, atomic>>
  BY <1>0, <1>1, Zenon DEF CopyChunk
<1>3. q = (head + filled) % RING_SIZE /\ Room(x) = RING_SIZE - filled
  BY <1>1 DEF Position, Room
<1>4. c \in Nat /\ c <= available /\ c <= RING_SIZE - q /\ c <= RING_SIZE - filled
  BY <1>3 DEF Drained
<1>5. x.base \in Nat /\ x.total \in Nat /\ x.length \in Nat /\ x.offset \in Nat
      /\ x.vectors \in Seq(Nat) /\ x.index \in 1..Len(x.vectors)
      /\ x.total = Before(x.vectors, x.index) + x.offset
  BY <1>1 DEF RingIos, Shape
<1>6. Before(x.vectors, x.index) \in Nat
  BY <1>5, BeforeStep
<1>7. first = x.base + x.total /\ first \in Nat /\ first + c <= MAX_BYTES
  <2> DEFINE b == x.base
             o == x.offset
             k == Before(x.vectors, x.index)
             n == x.length
             s == x.total
             m == sent[copying]
  <2>1. /\ b \in Nat /\ o \in Nat /\ k \in Nat /\ n \in Nat /\ s = k + o /\ b + n = m
        /\ MAX_BYTES \in Nat /\ m <= MAX_BYTES /\ c \in Nat /\ c <= available
        /\ available \in Nat /\ available <= n - s /\ m \in Nat
    BY <1>1, <1>4, <1>5, <1>6, RingAssumption
  <2>2. first = (b + k) + o
    OBVIOUS
  <2> HIDE DEF b, o, k, n, s, m, first, x
  <2>3. first = b + s /\ first \in Nat /\ first + c <= MAX_BYTES
    BY <2>1, <2>2
  <2> QED BY <2>3 DEF b, s
<1>8. Acc[copying] = x.base + x.total
  BY <1>1 DEF Acc, Accepted
<1> HIDE DEF x, q, first
<1>9. RingOK' /\ Stream' = Stream \o [i \in 1..c |-> <<copying, first + i>>]
  BY <1>2, <1>3, <1>4, <1>7, WriteRing DEF RingInv
<1> QED BY <1>2, <1>7, <1>8, <1>9 DEF More, x

(* A reader's chunk leaves the stream as it is and takes its oldest bytes. *)
LEMMA ReadChunk ==
  ASSUME RingInv, CopyChunk, NEW c, Drained(c), c = Chunk(io[copying]),
         copying \notin Writers
  PROVE  /\ RingOK' /\ UNCHANGED <<copying, sent, atomic>> /\ filled' = filled - c
         /\ Stream' = Stream /\ Len(got') = Len(got) + c
<1> DEFINE x == io[copying]
<1>0. copying # Nobody
  BY DEF CopyChunk
<1>1. ~x.writing
  BY <1>0, InLoop
<1>2. Position(x) = head /\ Room(x) = filled
  BY <1>1 DEF Position, Room
<1>3. /\ got' = got \o [i \in 1..c |-> data[head + i - 1]]
      /\ filled' = filled - c /\ head' = (head + c) % RING_SIZE /\ data' = data
      /\ UNCHANGED <<copying, sent, atomic>>
  BY <1>0, <1>1, <1>2, Zenon DEF CopyChunk
<1>4. c \in Nat /\ c <= filled /\ c <= RING_SIZE - head
  BY <1>2 DEF Drained
<1> QED BY <1>3, <1>4, ReadRing DEF RingInv

(* The chunk moves on within its vector and its transfer. *)
LEMMA ChunkShape ==
  ASSUME RingInv, CopyChunk, NEW c, Drained(c),
         UNCHANGED <<copying, sent, atomic>>
  PROVE  LET x == io[copying]
             y == io'[copying]
         IN  /\ Counted' /\ RangesOK' /\ \A q \in Procs \ {copying} : io'[q] = io[q]
             /\ y.active /\ (y.writing <=> x.writing) /\ y.base = x.base
             /\ y.length = x.length /\ y.total = x.total + c
             /\ available' <= y.length - y.total /\ available' = available - c
             /\ c \in Nat /\ x.total \in Nat /\ x.base \in Nat /\ x.length \in Nat
<1> DEFINE p == copying
           x == io[p]
           y == [x EXCEPT !.offset = x.offset + c, !.total = x.total + c]
<1>0. p # Nobody
  BY DEF CopyChunk
<1>1. /\ p \in Procs /\ io \in [Procs -> RingIos] /\ x \in RingIos /\ x.active /\ Shape(x)
      /\ available \in Nat /\ available <= x.length - x.total
  BY <1>0, InLoop
<1>2. c \in Nat /\ c <= available /\ c <= x.vectors[x.index] - x.offset /\ available' = available - c
  BY DEF Drained
<1>3. io' = [io EXCEPT ![p] = y]
  BY <1>1 DEF Drained
<1>4. /\ x.offset \in Nat /\ x.total \in Nat /\ x.length \in Nat /\ x.base \in Nat
      /\ x.vectors \in Seq(Nat) /\ x.index \in 1..Len(x.vectors)
      /\ x.offset <= x.vectors[x.index] /\ x.total = Before(x.vectors, x.index) + x.offset
      /\ x.length = Before(x.vectors, Len(x.vectors) + 1) /\ x.total <= x.length
  BY <1>1 DEF RingIos, Shape
<1>5. Before(x.vectors, x.index) \in Nat /\ x.vectors[x.index] \in Nat
  <2> DEFINE v == x.vectors
             k == x.index
  <2>1. v \in Seq(Nat) /\ k \in 1..Len(v)
    BY <1>4
  <2> HIDE DEF v, k
  <2>2. v[k] \in Nat /\ k \in 1..Len(v) + 1
    BY <2>1
  <2>3. Before(v, k) \in Nat
    BY <2>1, <2>2, BeforeStep
  <2> QED BY <2>2, <2>3 DEF v, k
<1>n. x.offset \in Nat /\ x.total \in Nat
  BY <1>4
<1>6. /\ y \in RingIos /\ y.active /\ (y.writing <=> x.writing) /\ y.base = x.base
      /\ y.length = x.length /\ y.vectors = x.vectors /\ y.index = x.index
      /\ y.offset = x.offset + c /\ y.total = x.total + c
  <2>a. x \in RingIos /\ x.active
    BY <1>1
  <2> HIDE DEF x
  <2>1. x \in RingIos /\ x.active /\ x.offset + c \in Nat /\ x.total + c \in Nat
    BY <2>a, <1>2, <1>n
  <2>2. y \in RingIos
    BY <2>1 DEF RingIos
  <2>3. y.active /\ (y.writing <=> x.writing)
    BY <2>1 DEF RingIos
  <2>4. /\ y.base = x.base /\ y.length = x.length /\ y.vectors = x.vectors
        /\ y.index = x.index /\ y.offset = x.offset + c /\ y.total = x.total + c
    BY <2>1 DEF RingIos
  <2> QED BY <2>2, <2>3, <2>4
<1> HIDE DEF y
<1>7. Shape(y)
  <2> HIDE DEF x
  <2>1. y.index \in 1..Len(y.vectors) /\ y.offset <= y.vectors[y.index]
    <3>1. y.index \in 1..Len(y.vectors)
      BY <1>4, <1>6
    <3> DEFINE d == x.vectors[x.index]
    <3>2. d \in Nat /\ c \in Nat /\ c <= d - x.offset /\ y.offset = x.offset + c
          /\ y.vectors[y.index] = d
      BY <1>2, <1>5, <1>6
    <3> HIDE DEF d
    <3> QED BY <1>n, <3>1, <3>2
  <2>2. y.total = Before(y.vectors, y.index) + y.offset
    <3> DEFINE k == Before(x.vectors, x.index)
    <3>1. /\ k \in Nat /\ c \in Nat /\ x.offset \in Nat /\ x.total = k + x.offset
          /\ y.total = x.total + c /\ y.offset = x.offset + c
          /\ Before(y.vectors, y.index) = k
      BY <1>2, <1>4, <1>5, <1>6
    <3> HIDE DEF k
    <3> QED BY <3>1
  <2>3. y.length = Before(y.vectors, Len(y.vectors) + 1) /\ y.total <= y.length
    BY <1>1, <1>2, <1>4, <1>6
  <2> QED BY <2>1, <2>2, <2>3 DEF Shape
<1>8. available' \in Nat /\ available' <= y.length - y.total
  <2> HIDE DEF x
  <2> QED BY <1>1, <1>2, <1>4, <1>6
<1>9. Counted' /\ RangesOK' /\ io'[p] = y /\ \A q \in Procs \ {p} : io'[q] = io[q]
  BY <1>0, <1>3, <1>6, <1>7, <1>8, LoopStep
<1> QED BY <1>2, <1>4, <1>6, <1>8, <1>9

(* memcpy() between a vector and the ring *)
LEMMA CopyChunkOK == ASSUME RingInv, CopyChunk PROVE RingInv'
<1> DEFINE p == copying
           c == Chunk(io[p])
<1>1. p # Nobody /\ Drained(c)
  BY ChunkMoves
<1>2. /\ p \in Procs /\ (io[p].writing <=> p \in Writers) /\ Writers \subseteq Procs
      /\ io[p].active /\ available <= io[p].length - io[p].total /\ available \in Nat
  BY <1>1, InLoop
<1> HIDE DEF c
<1>3. UNCHANGED <<copying, sent, atomic>>
  BY DEF CopyChunk
<1>4. /\ Counted' /\ RangesOK' /\ \A q \in Procs \ {p} : io'[q] = io[q]
      /\ io'[p].active /\ (io'[p].writing <=> io[p].writing) /\ io'[p].base = io[p].base
      /\ io'[p].length = io[p].length /\ io'[p].total = io[p].total + c
      /\ available' <= io'[p].length - io'[p].total /\ available' = available - c
      /\ c \in Nat /\ io[p].total \in Nat /\ io[p].base \in Nat /\ io[p].length \in Nat
  BY <1>1, <1>3, ChunkShape
<1>5. filled \in Nat /\ RING_SIZE \in Nat /\ available <= Room(io[p])
  BY <1>1, InLoop, RingAssumption DEF RingInv, RingOK
<1>6. filled' = IF p \in Writers THEN filled + c ELSE filled - c
  BY <1>1, WriteChunk, ReadChunk DEF c
<1>7. LoopOK'
  <2>1. available' <= IF io'[p].writing THEN RING_SIZE - filled' ELSE filled'
    <3>1. CASE p \in Writers
      BY <1>2, <1>4, <1>5, <1>6, <3>1 DEF Room
    <3>2. CASE p \notin Writers
      BY <1>2, <1>4, <1>5, <1>6, <3>2 DEF Room
    <3> QED BY <3>1, <3>2
  <2> QED BY <1>1, <1>3, <1>4, <2>1 DEF LoopOK, Room
<1>8. ShortOK'
  <2> SUFFICES ASSUME NEW w \in Writers, io'[w].active, io'[w].length <= RING_SIZE
               PROVE  IF p = w THEN available' = io'[w].length - io'[w].total
                      ELSE io'[w].total = 0
    BY <1>3 DEF ShortOK
  <2>1. CASE w = p
    <3>1. available = io[p].length - io[p].total
      BY <1>2, <1>4, <2>1 DEF RingInv, ShortOK
    <3> QED BY <1>2, <1>4, <2>1, <3>1
  <2>2. CASE w # p
    BY <1>2, <1>4, <2>2 DEF RingInv, ShortOK
  <2> QED BY <2>1, <2>2
<1>s. /\ Stream \in Seq(Bytes) /\ Acc \in [Writers -> Nat] /\ Arrived(Stream, Acc)
      /\ Pieces(Stream, atomic) /\ EndsWhole
  BY StreamType, AccType DEF RingInv, StreamOK
<1>9. CASE p \in Writers
  <2> DEFINE a == Acc[p]
  <2>1. /\ RingOK' /\ a = io[p].base + io[p].total /\ a \in Nat /\ a + c <= MAX_BYTES
        /\ Stream' = Stream \o More(p, a, c)
    BY <1>1, <1>9, WriteChunk DEF c
  <2> HIDE DEF a
  <2>2. Acc' = [Acc EXCEPT ![p] = a + c]
    <3>1. ASSUME NEW w \in Writers PROVE Accepted(w)' = IF w = p THEN a + c ELSE Accepted(w)
      <4>1. CASE w = p
        <5>1. Accepted(w)' = io[p].base + (io[p].total + c)
          BY <1>4, <4>1 DEF Accepted
        <5>2. io[p].base + (io[p].total + c) = (io[p].base + io[p].total) + c
          BY <1>4
        <5> QED BY <2>1, <4>1, <5>1, <5>2
      <4>2. CASE w # p
        BY <1>2, <1>3, <1>4, <4>2 DEF Accepted
      <4> QED BY <4>1, <4>2
    <3> QED BY <1>9, <3>1 DEF Acc
  <2>3. Arrived(Stream \o More(p, a, c), [Acc EXCEPT ![p] = a + c])
    BY <1>4, <1>9, <1>s, <2>1, ArrivedMore DEF a
  <2>4. ASSUME NEW r \in atomic, Len(Stream) > 0, InPiece(Stream[Len(Stream)], r)
        PROVE  Stream[Len(Stream)] = <<p, a>>
    <3>1. p = r[1] /\ Stream[Len(Stream)][1] = p
      BY <1>s, <2>4 DEF EndsWhole, InPiece
    <3>2. Stream[Len(Stream)][2] = Acc[p]
      BY <1>s, <2>4, <3>1, LastArrived
    <3>3. Len(Stream) \in 1..Len(Stream)
      BY <1>s, <2>4
    <3> QED BY <1>s, <3>1, <3>2, <3>3, ByteOf DEF a
  <2>5. Pieces(Stream \o More(p, a, c), atomic)
    BY <1>4, <1>9, <1>s, <2>1, <2>4, PiecesMore
  <2>6. EndsWhole'
    <3> DEFINE t == Stream \o More(p, a, c)
    <3>1. Len(t) = Len(Stream) + c /\ Len(Stream) \in Nat /\ c \in Nat \ {0}
      BY <1>1, <1>4, <1>9, <1>s, <2>1, MoreType DEF Drained
    <3>2. Len(t) \in Len(Stream) + 1..Len(Stream) + c
      <4> HIDE DEF t
      <4> QED BY <3>1
    <3>3. t[Len(t)] = <<p, a + (Len(t) - Len(Stream))>>
      <4> HIDE DEF t
      <4>1. p \in Writers /\ a \in Nat /\ c \in Nat /\ Stream \in Seq(Bytes) /\ a + c <= MAX_BYTES
        BY <1>4, <1>9, <1>s, <2>1
      <4>2. \A i \in Len(Stream) + 1..Len(Stream) + c :
              t[i] = <<p, a + (i - Len(Stream))>>
        BY <4>1, MoreNth, Zenon DEF t
      <4> QED BY <3>2, <4>2
    <3> HIDE DEF t
    <3>4. t[Len(t)][1] = p
      BY <3>3
    <3>5. Stream' = t
      BY <2>1 DEF t
    <3> QED BY <1>3, <3>4, <3>5 DEF EndsWhole, InPiece
  <2>7. StreamOK'
    <3>1. Arrived(Stream, Acc)'
      BY <2>1, <2>2, <2>3, ZenonT(30) DEF Arrived
    <3>2. Pieces(Stream, atomic)'
      BY <1>3, <2>1, <2>5 DEF Pieces
    <3> QED BY <2>6, <3>1, <3>2 DEF StreamOK
  <2> QED BY <1>4, <1>7, <1>8, <2>1, <2>7 DEF RingInv
<1>10. CASE p \notin Writers
  <2>1. RingOK' /\ Stream' = Stream
    BY <1>1, <1>10, ReadChunk DEF c
  <2>2. Acc' = Acc
    <3>1. ASSUME NEW w \in Writers PROVE Accepted(w)' = Accepted(w)
      BY <1>2, <1>3, <1>4, <1>10 DEF Accepted
    <3> QED BY <3>1 DEF Acc
  <2>3. Arrived(Stream, Acc)' /\ Pieces(Stream, atomic)' /\ EndsWhole'
    BY <1>3, <1>s, <2>1, <2>2 DEF Arrived, Pieces, EndsWhole, InPiece
  <2> QED BY <1>4, <1>7, <1>8, <2>1, <2>3 DEF RingInv, StreamOK
<1> QED BY <1>9, <1>10

-----------------------------------------------------------------------------
(* Theorems *)

(* An empty pipe without transfers *)
LEMMA PipeInit == ASSUME RingInit PROVE RingInv
<1> DEFINE P == RING_SIZE
<1>0. P \in Nat \ {0} /\ MAX_BYTES \in Nat
  BY RingAssumption
<1>1. RingOK
  <2>1. head \in 0..RING_SIZE - 1 /\ filled \in 0..RING_SIZE /\ filled = 0
    BY <1>0 DEF RingInit
  <2>2. data \in [0..RING_SIZE - 1 -> Bytes \cup {Unset}]
    BY DEF RingInit
  <2>3. got \in Seq(Bytes)
    BY DEF RingInit
  <2> QED BY <2>1, <2>2, <2>3 DEF RingOK
<1>2. NoTransfer \in RingIos /\ ~NoTransfer.active
  <2>1. <<>> \in Seq(Nat)
    OBVIOUS
  <2> QED BY <2>1 DEF RingIos, NoTransfer
<1>3. io \in [Procs -> RingIos] /\ \A p \in Procs : ~io[p].active
  BY <1>2 DEF RingInit
<1>4. Counted
  BY <1>0, <1>3 DEF RingInit, Counted, IoOK
<1>5. LoopOK /\ ShortOK /\ RangesOK
  BY <1>3 DEF RingInit, LoopOK, ShortOK, RangesOK, Procs
<1>6. Stream = <<>> /\ Len(Stream) = 0
  <2>1. Stream \in Seq(Bytes) /\ Len(Stream) = Len(got) + filled
    BY <1>1, StreamType
  <2>2. Len(Stream) = 0
    BY <2>1 DEF RingInit
  <2> QED BY <2>1, <2>2, EmptySeq
<1>7. \A w \in Writers : Acc[w] = 0
  BY <1>3 DEF RingInit, Acc, Accepted, Procs
<1>8. StreamOK
  BY <1>6, <1>7 DEF RingInit, StreamOK, Arrived, Pieces, EndsWhole
<1> QED BY <1>1, <1>4, <1>5, <1>8 DEF RingInv

(* Every step keeps the invariant. *)
LEMMA PipeNext == ASSUME RingInv, [RingNext]_ringVars PROVE RingInv'
<1>1. ASSUME NEW p \in Procs, NEW v \in Vectors, Start(p, v) PROVE RingInv'
  BY <1>1, StartOK
<1>2. ASSUME NEW p \in Procs, ResumeCopy(p) PROVE RingInv'
  BY <1>2, ResumeOK
<1>3. CASE NextVector
  BY <1>3, NextVectorOK
<1>4. CASE CopyChunk
  BY <1>4, CopyChunkOK
<1>5. CASE Finish
  BY <1>5, FinishOK
<1>6. CASE UNCHANGED ringVars
  <2>1. Stream' = Stream /\ Acc' = Acc
    BY <1>6 DEF ringVars, Stream, Contents, Acc, Accepted
  <2>2. RingOK' /\ Counted' /\ LoopOK' /\ ShortOK' /\ RangesOK'
    BY <1>6 DEF ringVars, RingInv, RingOK, At, Counted, LoopOK, Room, ShortOK, RangesOK, RangeOK
  <2>3. StreamOK'
    BY <1>6, <2>1 DEF ringVars, RingInv, StreamOK, Arrived, Pieces, EndsWhole, InPiece
  <2> QED BY <2>2, <2>3 DEF RingInv
<1> QED BY <1>1, <1>2, <1>3, <1>4, <1>5, <1>6 DEF RingNext

(* What the invariant says to the reader of a pipe. *)
LEMMA InvIntact == ASSUME RingInv PROVE WritesIntact
<1>1. /\ Stream \in Seq(Bytes) /\ Arrived(Stream, Acc) /\ Pieces(Stream, atomic)
  BY StreamType DEF RingInv, StreamOK
<1>2. DOMAIN Stream = 1..Len(Stream) /\ \A w \in Writers : Acc[w] = Accepted(w)
  BY <1>1 DEF Acc
<1>3. Delivered
  BY <1>1, <1>2 DEF Delivered, Arrived
<1>4. AtomicWrites
  BY <1>1 DEF AtomicWrites, Pieces, InPiece
<1> QED BY <1>3, <1>4 DEF WritesIntact

(* A pipe delivers the bytes of every writer once and in order, and the     *)
(* bytes of a write of at most RING_SIZE in one piece, whatever the sizes   *)
(* of the vectors, wherever the ring wraps and however the transfers of     *)
(* its readers and writers interleave.                                      *)
THEOREM WritesIntactAlways == RingSpec => []WritesIntact
<1>1. RingInit => RingInv
  BY PipeInit
<1>2. RingInv /\ [RingNext]_ringVars => RingInv'
  BY PipeNext
<1>3. RingInv => WritesIntact
  BY InvIntact
<1> QED BY <1>1, <1>2, <1>3, PTL DEF RingSpec

(* What was appended can be read off. *)
LEMMA AppendedIs ==
  \A s, t \in Seq(Bytes) : SubSeq(s \o t, Len(s) + 1, Len(s \o t)) = t
<1> SUFFICES ASSUME NEW s \in Seq(Bytes), NEW t \in Seq(Bytes)
             PROVE  SubSeq(s \o t, Len(s) + 1, Len(s \o t)) = t
  OBVIOUS
<1> DEFINE u == s \o t
           z == SubSeq(u, Len(s) + 1, Len(u))
<1>1. /\ u \in Seq(Bytes) /\ Len(u) = Len(s) + Len(t) /\ Len(s) \in Nat /\ Len(t) \in Nat
      /\ \A i \in 1..Len(u) : u[i] = IF i <= Len(s) THEN s[i] ELSE t[i - Len(s)]
  BY ConcatProperties
<1> HIDE DEF u
<1>2. /\ z \in Seq(Bytes) /\ Len(z) = Len(t)
      /\ \A i \in 1..Len(t) : z[i] = u[Len(s) + i]
  <2>1. Len(s) + 1 \in 1..Len(u) + 1 /\ Len(u) \in Len(s)..Len(u)
    BY <1>1
  <2> QED BY <1>1, <2>1, SubSeqProperties
<1> HIDE DEF z
<1>3. \A i \in 1..Len(t) : z[i] = t[i]
  <2> TAKE i \in 1..Len(t)
  <2>1. Len(s) + i \in 1..Len(u) /\ ~(Len(s) + i <= Len(s)) /\ (Len(s) + i) - Len(s) = i
    BY <1>1
  <2> QED BY <1>1, <1>2, <2>1
<1>4. z = t
  BY <1>2, <1>3, SeqEqual
<1> QED BY <1>4 DEF z, u

(* A chunk is a write or a take of the stream; nothing else touches it. *)
LEMMA StreamStep ==
  ASSUME RingInv, RingInv', [RingNext]_ringVars
  PROVE  [ImplementsStream!StreamNext]_<<Stream, Len(got)>>
<1> DEFINE p == copying
           c == Chunk(io[p])
<1>s. /\ Stream \in Seq(Bytes) /\ Len(Stream) = Len(got) + filled /\ Len(got) \in Nat
      /\ filled \in Nat /\ RING_SIZE \in Nat
  BY StreamType, RingAssumption DEF RingInv, RingOK
<1>1. CASE ~CopyChunk
  <2>1. UNCHANGED <<head, filled, data, got>>
    BY <1>1 DEF RingNext, Start, ResumeCopy, NextVector, Finish, ringVars
  <2> QED BY <2>1 DEF Stream, Contents
<1>2. CASE CopyChunk /\ p \in Writers
  <2> DEFINE a == Acc[p]
             A == More(p, a, c)
  <2>1. Drained(c)
    BY <1>2, ChunkMoves
  <2>2. /\ a \in Nat /\ a + c <= MAX_BYTES /\ Stream' = Stream \o A /\ got' = got
        /\ RingOK' /\ filled' = filled + c
    BY <1>2, <2>1, WriteChunk
  <2>3. c \in Nat /\ c <= RING_SIZE - filled
    <3>1. c \in Nat /\ c <= Room(io[p])
      BY <2>1 DEF Drained
    <3>2. io[p].writing
      BY <1>2, InLoop DEF CopyChunk
    <3> QED BY <3>1, <3>2 DEF Room
  <2> HIDE DEF a, c
  <2>4. A \in Seq(Bytes) /\ Len(A) = c
    BY <1>2, <1>s, <2>2, <2>3, MoreType
  <2> HIDE DEF A
  <2>5. ImplementsStream!Added = A
    <3>1. SubSeq(Stream \o A, Len(Stream) + 1, Len(Stream \o A)) = A
      BY <1>s, <2>4, AppendedIs, Zenon
    <3>2. ImplementsStream!Added = SubSeq(Stream', Len(Stream) + 1, Len(Stream'))
      BY DEF ImplementsStream!Added
    <3> QED BY <2>2, <3>1, <3>2, Zenon
  <2>6. Len(Stream) + Len(A) - Len(got) <= RING_SIZE
    BY <1>s, <2>3, <2>4
  <2>7. ImplementsStream!Write(A)
    BY <2>2, <2>6 DEF ImplementsStream!Write
  <2> QED BY <2>4, <2>5, <2>7 DEF ImplementsStream!StreamNext
<1>3. CASE CopyChunk /\ p \notin Writers
  <2>1. Drained(c)
    BY <1>3, ChunkMoves
  <2>2. Stream' = Stream /\ Len(got') = Len(got) + c /\ filled' = filled - c
    BY <1>3, <2>1, ReadChunk
  <2>3. c \in Nat \ {0}
    BY <2>1 DEF Drained
  <2>4. c <= filled
    <3>1. c <= Room(io[p])
      BY <2>1 DEF Drained
    <3>2. ~io[p].writing
      BY <1>3, InLoop DEF CopyChunk
    <3> QED BY <3>1, <3>2 DEF Room
  <2> HIDE DEF c
  <2>5. Len(got') \in Nat /\ Len(got') > Len(got) /\ Len(got') - Len(got) = c
    BY <1>s, <2>2, <2>3
  <2>6. ImplementsStream!Take(Len(got') - Len(got))
    BY <1>s, <2>2, <2>3, <2>4, <2>5 DEF ImplementsStream!Take
  <2> QED BY <2>5, <2>6 DEF ImplementsStream!StreamNext
<1> QED BY <1>1, <1>2, <1>3

(* The pipe implements one stream of bytes: writers append to it, at most   *)
(* RING_SIZE bytes ahead of the readers, and readers take the bytes in      *)
(* order, each byte once.                                                   *)
THEOREM StreamRefinedAlways == RingSpec => StreamRefined
<1>1. RingInit => RingInv
  BY PipeInit
<1>2. RingInv /\ [RingNext]_ringVars => RingInv'
  BY PipeNext
<1>3. RingInv /\ RingInv' /\ [RingNext]_ringVars => [ImplementsStream!StreamNext]_<<Stream, Len(got)>>
  BY StreamStep
<1>4. RingInit => ImplementsStream!StreamInit
  <2> SUFFICES ASSUME RingInit PROVE Stream = <<>> /\ Len(got) = 0
    BY DEF ImplementsStream!StreamInit
  <2>1. Stream \in Seq(Bytes) /\ Len(Stream) = Len(got) + filled
    BY PipeInit, StreamType DEF RingInv
  <2>2. Len(Stream) = 0 /\ Len(got) = 0
    BY <2>1 DEF RingInit
  <2> QED BY <2>1, <2>2, EmptySeq
<1> QED BY <1>1, <1>2, <1>3, <1>4, PTL DEF RingSpec, StreamRefined, ImplementsStream!StreamSpec
=============================================================================
