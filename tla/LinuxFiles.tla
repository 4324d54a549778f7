----------------------------- MODULE LinuxFiles -----------------------------
(***************************************************************************)
(* Descriptor tables, open-file descriptions and pipes of the Linux ABI    *)
(* (linux_syscall.c).  Every process slot has a table of FD_COUNT          *)
(* descriptors; an entry points at an open-file description shared by      *)
(* fork, dup and dup2 and counted by refs; a pipe lives while one of its   *)
(* two descriptions does.                                                  *)
(*                                                                         *)
(* The kernel is never preempted, so each system call is one step.  What   *)
(* the steps of different processes may do to each other is decided by     *)
(* the scheduler of LinuxTask; here the slot that acts is file_task, and   *)
(* any operation may be followed by linux_files_switch.                    *)
(*                                                                         *)
(* Data abstractions: a pipe is its number of buffered bytes (PipeRing has *)
(* the bytes); a description that is not a pipe end (terminal, file or     *)
(* directory) is one with no pipe; the fields of a description whose refs  *)
(* is 0, of a pipe with no end and of a PipeIo that is not active are      *)
(* cleared, since no code reads them before create_pipe, open or           *)
(* pipe_transfer rewrites them.                                            *)
(***************************************************************************)
EXTENDS Integers, FiniteSets

CONSTANTS
  LINUX_TASK_LIMIT,  \* process slots (3)
  FD_COUNT,          \* descriptors per process (16)
  STDIO,             \* terminal descriptors a launch starts with (3)
  PIPE_COUNT,        \* pipes (FD_COUNT * LINUX_TASK_LIMIT / 2)
  PIPE_SIZE,         \* bytes a pipe buffers (4096)
  Calls,             \* descriptor calls that programs make, out of AllCalls
  Lengths,           \* byte counts that programs pass to read and write
  NonblockArgs,      \* O_NONBLOCK settings that programs use
  CloexecArgs        \* FD_CLOEXEC settings that programs use

AllCalls == {"close", "dup", "dup2", "setfd", "setfl", "open", "pipe", "exec"}

ASSUME FilesAssumption ==
  /\ LINUX_TASK_LIMIT \in Nat \ {0}
  /\ FD_COUNT \in Nat \ {0}
  /\ STDIO \in 0..FD_COUNT
  /\ PIPE_COUNT \in Nat
  /\ PIPE_SIZE \in Nat \ {0}
  /\ Calls \subseteq AllCalls
  /\ Lengths \subseteq Nat \ {0}
  /\ NonblockArgs \subseteq BOOLEAN
  /\ CloexecArgs \subseteq BOOLEAN

Tasks == 0..(LINUX_TASK_LIMIT - 1)
Fds == 0..(FD_COUNT - 1)
Descriptions == 0..(FD_COUNT * LINUX_TASK_LIMIT - 1)
Pipes == 0..(PIPE_COUNT - 1)

None == -1                              \* the null pointer
Lowest(S, x) == x \in S /\ \A y \in S : x <= y

VARIABLES
  task_files,  \* [slot][fd]: the description, or None
  task_flags,  \* [slot][fd]: FD_CLOEXEC
  file_task,   \* the slot whose tables system calls use
  refs,        \* descriptions[d].refs
  pipe,        \* descriptions[d].pipe, or None
  writes,      \* descriptions[d].flags & O_ACCMODE
  nonblock,    \* descriptions[d].flags & O_NONBLOCK
  readers,     \* pipes[p].readers
  writers,     \* pipes[p].writers
  used,        \* pipes[p].used
  pending_io   \* [slot]: the PipeIo a blocked transfer resumes from

descVars == <<refs, pipe, writes, nonblock>>
pipeVars == <<readers, writers, used>>
tableVars == <<task_files, task_flags>>
filesVars == <<task_files, task_flags, file_task, refs, pipe, writes,
               nonblock, readers, writers, used, pending_io>>

Idle == [active |-> FALSE, writing |-> FALSE, fd |-> 0, length |-> 0, total |-> 0]

(* linux_syscall_reset: descriptors 0, 1, ... are the terminal. *)
StartFiles == [s \in Tasks |-> [fd \in Fds |-> IF s = 0 /\ fd < STDIO THEN fd ELSE None]]
StartRefs == [d \in Descriptions |-> IF d < STDIO THEN 1 ELSE 0]

FilesInit ==
  /\ task_files = StartFiles
  /\ task_flags = [s \in Tasks |-> [fd \in Fds |-> FALSE]]
  /\ file_task = 0
  /\ refs = StartRefs
  /\ pipe = [d \in Descriptions |-> None]
  /\ writes = [d \in Descriptions |-> FALSE]
  /\ nonblock = [d \in Descriptions |-> FALSE]
  /\ readers = [p \in Pipes |-> 0]
  /\ writers = [p \in Pipes |-> 0]
  /\ used = [p \in Pipes |-> 0]
  /\ pending_io = [s \in Tasks |-> Idle]

(* The same values for the next launch *)
FilesReset ==
  /\ task_files' = StartFiles
  /\ task_flags' = [s \in Tasks |-> [fd \in Fds |-> FALSE]]
  /\ file_task' = 0
  /\ refs' = StartRefs
  /\ pipe' = [d \in Descriptions |-> None]
  /\ writes' = [d \in Descriptions |-> FALSE]
  /\ nonblock' = [d \in Descriptions |-> FALSE]
  /\ readers' = [p \in Pipes |-> 0]
  /\ writers' = [p \in Pipes |-> 0]
  /\ used' = [p \in Pipes |-> 0]
  /\ pending_io' = [s \in Tasks |-> Idle]

-----------------------------------------------------------------------------
(* What points at what. *)

References(d) == {r \in Tasks \X Fds : task_files[r[1]][r[2]] = d}
FreeFds(s, minimum) == {fd \in Fds : fd >= minimum /\ task_files[s][fd] = None}
FreeDescriptions == {d \in Descriptions : refs[d] = 0}
FreePipes == {p \in Pipes : readers[p] = 0 /\ writers[p] = 0}
ReadEnds(p) == {d \in Descriptions : refs[d] > 0 /\ pipe[d] = p /\ ~writes[d]}
WriteEnds(p) == {d \in Descriptions : refs[d] > 0 /\ pipe[d] = p /\ writes[d]}
OpenFds(s) == {fd \in Fds : task_files[s][fd] # None}

(***************************************************************************)
(* close_fd for every reference of the set R, the counts starting from     *)
(* base: a description whose last reference goes gives up its pipe end.    *)
(***************************************************************************)
Dropped(R, d) == Cardinality({r \in R : task_files[r[1]][r[2]] = d})

(* Mutant of Dead: only a description with one reference gives up its end. *)
DeadSingle(R, base) == {d \in Descriptions : Dropped(R, d) > 0 /\ base[d] = 1}

Dead(R, base) == {d \in Descriptions : Dropped(R, d) > 0 /\ base[d] = Dropped(R, d)}

CloseReferences(R, base) ==
  LET dead == Dead(R, base)
  IN  /\ refs' = [d \in Descriptions |-> base[d] - Dropped(R, d)]
      /\ readers' = [p \in Pipes |-> readers[p] - Cardinality(dead \cap ReadEnds(p))]
      /\ writers' = [p \in Pipes |-> writers[p] - Cardinality(dead \cap WriteEnds(p))]
      /\ pipe' = [d \in Descriptions |-> IF d \in dead THEN None ELSE pipe[d]]
      /\ writes' = [d \in Descriptions |-> writes[d] /\ d \notin dead]
      /\ nonblock' = [d \in Descriptions |-> nonblock[d] /\ d \notin dead]
      /\ used' = [p \in Pipes |->
                    IF readers'[p] = 0 /\ writers'[p] = 0 THEN 0 ELSE used[p]]

(* The tables with the references of R cleared. *)
ClearTables(R) ==
  /\ task_files' = [s \in Tasks |-> [fd \in Fds |->
                      IF <<s, fd>> \in R THEN None ELSE task_files[s][fd]]]
  /\ task_flags' = [s \in Tasks |-> [fd \in Fds |->
                      task_flags[s][fd] /\ <<s, fd>> \notin R]]

-----------------------------------------------------------------------------
(* System calls on descriptors, by slot s.  A call that fails changes      *)
(* nothing and is a stuttering step.                                       *)

CloseFd(s, fd) ==
  /\ task_files[s][fd] # None
  /\ CloseReferences({<<s, fd>>}, refs)
  /\ ClearTables({<<s, fd>>})
  /\ UNCHANGED pending_io

(* files[fd] = file; file->refs++; descriptor_flags[fd] = 0 *)
Share(s, fd, d) ==
  /\ task_files' = [task_files EXCEPT ![s][fd] = d]
  /\ task_flags' = [task_flags EXCEPT ![s][fd] = FALSE]

(* dup (minimum 0) and fcntl F_DUPFD *)
Dup(s, a, minimum) ==
  /\ task_files[s][a] # None
  /\ \E fd \in Fds :
       /\ Lowest(FreeFds(s, minimum), fd)
       /\ Share(s, fd, task_files[s][a])
       /\ refs' = [refs EXCEPT ![task_files[s][a]] = @ + 1]
  /\ UNCHANGED <<pipe, writes, nonblock, pipeVars, pending_io>>

(* Mutant of Dup2: an open target is overwritten. *)
Dup2Overwrites(s, a, b) ==
  /\ a # b
  /\ task_files[s][a] # None
  /\ Share(s, b, task_files[s][a])
  /\ refs' = [refs EXCEPT ![task_files[s][a]] = @ + 1]
  /\ UNCHANGED <<pipe, writes, nonblock, pipeVars, pending_io>>

(* dup2 closes an open target first. *)
Dup2(s, a, b) ==
  /\ a # b
  /\ task_files[s][a] # None
  /\ CloseReferences({<<s, b>>} \cap ({s} \X OpenFds(s)),
                     [refs EXCEPT ![task_files[s][a]] = @ + 1])
  /\ Share(s, b, task_files[s][a])
  /\ UNCHANGED pending_io

(* fcntl F_SETFD *)
SetDescriptorFlag(s, fd, cloexec) ==
  /\ task_files[s][fd] # None
  /\ task_flags' = [task_flags EXCEPT ![s][fd] = cloexec]
  /\ UNCHANGED <<task_files, descVars, pipeVars, pending_io>>

(* fcntl F_SETFL on a pipe end: the description is shared, so this reaches *)
(* every process that has it open.                                         *)
SetStatusFlag(s, fd, nb) ==
  /\ task_files[s][fd] # None
  /\ pipe[task_files[s][fd]] # None
  /\ nonblock' = [nonblock EXCEPT ![task_files[s][fd]] = nb]
  /\ UNCHANGED <<tableVars, refs, pipe, writes, pipeVars, pending_io>>

(* open of a file or a directory that succeeds *)
Open(s, cloexec) ==
  /\ \E fd \in Fds, d \in Descriptions :
       /\ Lowest(FreeFds(s, 0), fd)
       /\ Lowest(FreeDescriptions, d)
       /\ task_files' = [task_files EXCEPT ![s][fd] = d]
       /\ task_flags' = [task_flags EXCEPT ![s][fd] = cloexec]
       /\ refs' = [refs EXCEPT ![d] = 1]
       /\ pipe' = [pipe EXCEPT ![d] = None]
       /\ writes' = [writes EXCEPT ![d] = FALSE]
       /\ nonblock' = [nonblock EXCEPT ![d] = FALSE]
  /\ UNCHANGED <<pipeVars, pending_io>>

(* create_pipe: pipe and pipe2.  All three resources are found before any  *)
(* of them is published.                                                   *)
CreatePipe(s, nb, cloexec) ==
  /\ \E r, w \in Fds, dr, dw \in Descriptions, p \in Pipes :
       /\ Lowest(FreeFds(s, 0), r) /\ Lowest(FreeFds(s, r + 1), w)
       /\ Lowest(FreeDescriptions, dr) /\ Lowest(FreeDescriptions \ {dr}, dw)
       /\ Lowest(FreePipes, p)
       /\ task_files' = [task_files EXCEPT ![s] = [@ EXCEPT ![r] = dr, ![w] = dw]]
       /\ task_flags' = [task_flags EXCEPT ![s] = [@ EXCEPT ![r] = cloexec, ![w] = cloexec]]
       /\ refs' = [refs EXCEPT ![dr] = 1, ![dw] = 1]
       /\ pipe' = [pipe EXCEPT ![dr] = p, ![dw] = p]
       /\ writes' = [writes EXCEPT ![dr] = FALSE, ![dw] = TRUE]
       /\ nonblock' = [nonblock EXCEPT ![dr] = nb, ![dw] = nb]
       /\ readers' = [readers EXCEPT ![p] = 1]
       /\ writers' = [writers EXCEPT ![p] = 1]
       /\ used' = [used EXCEPT ![p] = 0]
  /\ UNCHANGED pending_io

(* linux_syscall_exec: a successful execve closes what is marked. *)
Exec(s) ==
  LET R == {s} \X {fd \in OpenFds(s) : task_flags[s][fd]}
  IN  /\ CloseReferences(R, refs)
      /\ ClearTables(R)
      /\ UNCHANGED pending_io

FilesFork(s, child) ==
  /\ task_files' = [task_files EXCEPT ![child] = task_files[s]]
  /\ task_flags' = [task_flags EXCEPT ![child] = task_flags[s]]
  /\ refs' = [d \in Descriptions |->
                refs[d] + Cardinality({fd \in Fds : task_files[s][fd] = d})]
  /\ pending_io' = [pending_io EXCEPT ![child] = Idle]
  /\ UNCHANGED <<pipe, writes, nonblock, pipeVars>>

(* Mutant of FilesExit: the pending transfer is not cancelled. *)
FilesExitPending(S) ==
  LET R == {r \in S \X Fds : task_files[r[1]][r[2]] # None}
  IN  CloseReferences(R, refs) /\ ClearTables(R) /\ UNCHANGED pending_io

(* linux_files_exit for each slot of the set S *)
FilesExit(S) ==
  LET R == {r \in S \X Fds : task_files[r[1]][r[2]] # None}
  IN  /\ CloseReferences(R, refs)
      /\ ClearTables(R)
      /\ pending_io' = [s \in Tasks |-> IF s \in S THEN Idle ELSE pending_io[s]]

-----------------------------------------------------------------------------
(* Pipe transfers. *)

(* Mutant of IoReady: a blocked writer always tries again. *)
IoReadyEager(s) ==
  LET io == pending_io[s]
      d == task_files[s][io.fd]
  IN  io.active /\ (io.writing \/ nonblock[d] \/ used[pipe[d]] > 0 \/ writers[pipe[d]] = 0)

(* linux_io_ready *)
IoReady(s) ==
  LET io == pending_io[s]
      d == task_files[s][io.fd]
      need == IF io.length <= PIPE_SIZE THEN io.length ELSE 1
  IN  /\ io.active
      /\ \/ nonblock[d]
         \/ ~io.writing /\ (used[pipe[d]] > 0 \/ writers[pipe[d]] = 0)
         \/ io.writing /\ (readers[pipe[d]] = 0 \/ PIPE_SIZE - used[pipe[d]] >= need)

(***************************************************************************)
(* linux_io_resume for io on description d: how many bytes move and        *)
(* whether the call is over (DONE), must wait (WAIT) or kills the writer   *)
(* (SIGPIPE).  A write of at most PIPE_SIZE bytes moves whole or not at    *)
(* all; a longer blocking write moves what fits and waits again.           *)
(***************************************************************************)
Available(io, d) == IF io.writing THEN PIPE_SIZE - used[pipe[d]] ELSE used[pipe[d]]

MustWait(io, d) ==
  \/ Available(io, d) = 0
  \/ io.writing /\ io.length <= PIPE_SIZE /\ Available(io, d) < io.length

Smaller(a, b) == IF a < b THEN a ELSE b

Moved(io, d) ==
  IF MustWait(io, d) \/ (io.writing /\ readers[pipe[d]] = 0) THEN 0
  ELSE Smaller(Available(io, d), io.length - io.total)

(* A reader is done with any bytes or at end of file, a writer when all of *)
(* it is in the pipe, and neither waits on an O_NONBLOCK description.      *)
Finished(io, d) ==
  \/ nonblock[d]
  \/ ~io.writing /\ used[pipe[d]] = 0 /\ writers[pipe[d]] = 0
  \/ ~MustWait(io, d) /\ (io.writing => io.total + Moved(io, d) = io.length)

IoOutcome(io, d) ==
  IF io.writing /\ readers[pipe[d]] = 0 THEN "SIGPIPE"
  ELSE IF Finished(io, d) THEN "DONE" ELSE "WAIT"

(* The bytes move, and the PipeIo stays active only for a WAIT. *)
IoEffect(s, io, d) ==
  /\ used' = [used EXCEPT ![pipe[d]] =
                @ + (IF io.writing THEN Moved(io, d) ELSE -Moved(io, d))]
  /\ pending_io' = [pending_io EXCEPT ![s] =
                      IF IoOutcome(io, d) = "WAIT"
                      THEN [io EXCEPT !.total = @ + Moved(io, d)]
                      ELSE Idle]
  /\ UNCHANGED <<tableVars, descVars, readers, writers>>

(* pipe_transfer builds a PipeIo for n > 0 bytes on a pipe end open for    *)
(* that direction.                                                         *)
NewIo(fd, n, w) == [active |-> TRUE, writing |-> w, fd |-> fd, length |-> n, total |-> 0]

Transferable(s, fd, w) ==
  /\ task_files[s][fd] # None
  /\ pipe[task_files[s][fd]] # None
  /\ writes[task_files[s][fd]] = w

Transfer(s, fd, n, w) ==
  /\ Transferable(s, fd, w)
  /\ IoEffect(s, NewIo(fd, n, w), task_files[s][fd])

Resume(s) ==
  /\ IoReady(s)
  /\ IoEffect(s, pending_io[s], task_files[s][pending_io[s].fd])

(***************************************************************************)
(* The component on its own: the slot whose tables are in use makes a      *)
(* system call unless it is blocked, slots fork into empty slots, exit and *)
(* resume, and a new launch resets everything.                             *)
(***************************************************************************)
DescriptorCall(s) ==
  \/ "close" \in Calls /\ \E fd \in Fds : CloseFd(s, fd)
  \/ "dup" \in Calls /\ \E a, minimum \in Fds : Dup(s, a, minimum)
  \/ "dup2" \in Calls /\ \E a, b \in Fds : Dup2(s, a, b)
  \/ "setfd" \in Calls /\ \E fd \in Fds, c \in CloexecArgs : SetDescriptorFlag(s, fd, c)
  \/ "setfl" \in Calls /\ \E fd \in Fds, nb \in NonblockArgs : SetStatusFlag(s, fd, nb)
  \/ "open" \in Calls /\ \E c \in CloexecArgs : Open(s, c)
  \/ "pipe" \in Calls /\ \E nb \in NonblockArgs, c \in CloexecArgs : CreatePipe(s, nb, c)
  \/ "exec" \in Calls /\ Exec(s)

SystemCall(s) ==
  /\ ~pending_io[s].active
  /\ \/ DescriptorCall(s)
     \/ \E fd \in Fds, n \in Lengths, w \in BOOLEAN : Transfer(s, fd, n, w)

FilesNext ==
  /\ file_task' \in Tasks
  /\ \/ SystemCall(file_task)
     \/ \E s, child \in Tasks :
          /\ s # child /\ OpenFds(child) = {} /\ ~pending_io[child].active
          /\ FilesFork(s, child)
     \/ \E S \in SUBSET Tasks : FilesExit(S)
     \/ \E s \in Tasks : Resume(s)
     \/ FilesReset
     \/ UNCHANGED <<tableVars, descVars, pipeVars, pending_io>>

FilesSpec == FilesInit /\ [][FilesNext]_filesVars

-----------------------------------------------------------------------------
(* Properties *)

(* The refs count of a description (close_fd, dup, fork, exec, exit) is     *)
(* exactly the number of descriptor-table entries that point at it: it is   *)
(* neither freed while in use nor leaked.                                   *)
RefsExact == \A d \in Descriptions : refs[d] = Cardinality(References(d))

(* readers and writers, which decide EOF, SIGPIPE and reuse of the pipe,    *)
(* count its live read and write descriptions, and there is at most one of  *)
(* each however often the ends were duplicated or inherited.                *)
EndsExact ==
  \A p \in Pipes :
    /\ readers[p] = Cardinality(ReadEnds(p)) /\ readers[p] <= 1
    /\ writers[p] = Cardinality(WriteEnds(p)) /\ writers[p] <= 1

(* A blocked transfer resumes on a descriptor that is still a pipe end of   *)
(* its direction (linux_io_ready follows the pointer unchecked), and has    *)
(* bytes left to move.                                                      *)
PendingOnPipe ==
  \A s \in Tasks : pending_io[s].active =>
    /\ Transferable(s, pending_io[s].fd, pending_io[s].writing)
    /\ pending_io[s].total < pending_io[s].length

(* The pool of descriptions is never the limit: a process with two free     *)
(* descriptors finds two free descriptions, so create_pipe's first ENFILE   *)
(* and open's second EMFILE are unreachable.                                *)
DescriptionsSuffice ==
  \A s \in Tasks : Cardinality(FreeDescriptions) >= Cardinality(FreeFds(s, 0))

(* References, readers, writers and free descriptions are counted exactly   *)
(* through every order of dup, dup2, fork, execve, close and exit.          *)
SharingExact == RefsExact /\ EndsExact /\ DescriptionsSuffice

=============================================================================
