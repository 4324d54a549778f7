------------------------------ MODULE LinuxTask ------------------------------
(***************************************************************************)
(* The process table and the cooperative scheduler of the Linux ABI        *)
(* (linux_task.c), driving the descriptors and pipes of LinuxFiles.        *)
(*                                                                         *)
(* User programs run with interrupts off, so the running process keeps the *)
(* processor until it makes a system call that yields, blocks or exits, or *)
(* faults.  mode is "user" while a program runs; "wake" and "pick" are the *)
(* two halves of schedule() (wake_waiters, then the round-robin search),   *)
(* which calls itself again after a resumed writer blocks or is killed; and *)
(* "returned" follows linux_leave_user, until Bssh launches again.  While   *)
(* mode is "wake" or "pick" only the next scheduler step is possible.       *)
(*                                                                         *)
(* Data abstractions: registers and memory are only saved or not; a wait    *)
(* status is the integer waitpid stores.  An UNUSED slot, and the wait_pid  *)
(* of a task that does not wait, are written as 0: fork_task clears a slot  *)
(* before using it and no code reads those fields before.                   *)
(***************************************************************************)
EXTENDS LinuxFiles

CONSTANTS
  MAX_PID,    \* next_pid stops here (0x7fffffff)
  ExitCodes   \* codes that programs pass to exit

ASSUME TaskAssumption ==
  /\ MAX_PID \in Nat /\ MAX_PID >= 2
  /\ ExitCodes \subseteq 0..255

VARIABLES
  state,        \* tasks[s].state
  pid,          \* tasks[s].pid
  parent,       \* tasks[s].parent, a pid
  status,       \* tasks[s].status, as waitpid reports it
  wait_pid,     \* tasks[s].wait_pid
  saved,        \* snapshot(s) holds the registers and memory of s
  current,      \* the slot that runs
  next_pid,
  root_status,  \* what the launch returns to Bssh
  mode

taskVars == <<state, pid, parent, status, wait_pid, saved, current, next_pid,
              root_status, mode>>
vars == <<filesVars, taskVars>>

States == {"UNUSED", "RUNNING", "READY", "WAITING", "IO_WAITING", "ZOMBIE"}
SIGSEGV == 11
SIGPIPE == 13
DEADLOCKED == 125

TaskInit ==
  /\ state = [s \in Tasks |-> IF s = 0 THEN "RUNNING" ELSE "UNUSED"]
  /\ pid = [s \in Tasks |-> IF s = 0 THEN 1 ELSE 0]
  /\ parent = [s \in Tasks |-> 0]
  /\ status = [s \in Tasks |-> 0]
  /\ wait_pid = [s \in Tasks |-> 0]
  /\ saved = [s \in Tasks |-> FALSE]
  /\ current = 0
  /\ next_pid = 2
  /\ root_status = 0
  /\ mode = "user"

TaskReset ==
  /\ state' = [s \in Tasks |-> IF s = 0 THEN "RUNNING" ELSE "UNUSED"]
  /\ pid' = [s \in Tasks |-> IF s = 0 THEN 1 ELSE 0]
  /\ parent' = [s \in Tasks |-> 0]
  /\ status' = [s \in Tasks |-> 0]
  /\ wait_pid' = [s \in Tasks |-> 0]
  /\ saved' = [s \in Tasks |-> FALSE]
  /\ current' = 0
  /\ next_pid' = 2
  /\ root_status' = 0
  /\ mode' = "user"

Init == FilesInit /\ TaskInit

-----------------------------------------------------------------------------
Matches(i, j, p) ==
  state[j] # "UNUSED" /\ parent[j] = pid[i] /\ (p <= 0 \/ pid[j] = p)

Children(i, p) == {j \in Tasks : Matches(i, j, p)}
Zombies(i, p) == {j \in Children(i, p) : state[j] = "ZOMBIE"}

(* The slots of R become UNUSED. *)
Clear(f, R) == [s \in Tasks |-> IF s \in R THEN 0 ELSE f[s]]

(* Mutant of NextPid: the pid is handed out again. *)
NextPidAgain == next_pid

(* fork_task's pids: they run out, and are never reused in a launch. *)
PidsLeft == next_pid # MAX_PID
NextPid == next_pid + 1

(* fork_task: the child takes the lowest free slot and runs first, on the  *)
(* live memory; the parent waits in its snapshot.                          *)
Fork ==
  /\ mode = "user"
  /\ PidsLeft
  /\ \E child \in Tasks :
       /\ Lowest({s \in Tasks : state[s] = "UNUSED"}, child)
       /\ state' = [state EXCEPT ![current] = "READY", ![child] = "RUNNING"]
       /\ pid' = [pid EXCEPT ![child] = next_pid]
       /\ parent' = [parent EXCEPT ![child] = pid[current]]
       /\ status' = [status EXCEPT ![child] = 0]
       /\ wait_pid' = [wait_pid EXCEPT ![child] = 0]
       /\ saved' = [saved EXCEPT ![current] = TRUE, ![child] = FALSE]
       /\ FilesFork(current, child)
       /\ current' = child
       /\ file_task' = child
  /\ next_pid' = NextPid
  /\ UNCHANGED <<root_status, mode>>

(* wait_task when a zombie matches: reap the first. *)
WaitReap(p) ==
  /\ mode = "user"
  /\ \E child \in Tasks :
       /\ Lowest(Zombies(current, p), child)
       /\ state' = [state EXCEPT ![child] = "UNUSED"]
       /\ pid' = Clear(pid, {child})
       /\ parent' = Clear(parent, {child})
       /\ status' = Clear(status, {child})
  /\ UNCHANGED <<filesVars, wait_pid, saved, current, next_pid, root_status, mode>>

(* Mutant of Block: save_current is forgotten. *)
BlockUnsaved(blocked) ==
  /\ state' = [state EXCEPT ![current] = blocked]
  /\ mode' = "wake"
  /\ UNCHANGED <<pid, parent, status, saved, current, next_pid, root_status>>

(* save_current, a blocked state, schedule() *)
Block(blocked) ==
  /\ state' = [state EXCEPT ![current] = blocked]
  /\ saved' = [saved EXCEPT ![current] = TRUE]
  /\ mode' = "wake"
  /\ UNCHANGED <<pid, parent, status, current, next_pid, root_status>>

(* wait_task when the children that match still run, without WNOHANG *)
WaitBlock(p) ==
  /\ mode = "user"
  /\ Children(current, p) # {}
  /\ Zombies(current, p) = {}
  /\ wait_pid' = [wait_pid EXCEPT ![current] = p]
  /\ Block("WAITING")
  /\ UNCHANGED filesVars

Yield ==
  /\ mode = "user"
  /\ Block("READY")
  /\ UNCHANGED <<filesVars, wait_pid>>

(***************************************************************************)
(* exit_task by slot s with wait status w.  Its children become children   *)
(* of pid 1 while that lives, else of nobody.                              *)
(***************************************************************************)
LaunchStatus(w) == IF w % 128 # 0 THEN 128 + (w % 128) ELSE w \div 256

(* Mutant of Reparent: the children keep their dead parent. *)
ReparentNobody(s) == parent' = parent

Reparent(s) ==
  parent' = [i \in Tasks |->
               IF i # 0 /\ state'[i] # "UNUSED" /\ parent[i] = pid[s]
               THEN IF state'[0] # "ZOMBIE" THEN 1 ELSE 0
               ELSE parent[i]]

ExitTask(s, w) ==
  /\ state' = [state EXCEPT ![s] = "ZOMBIE"]
  /\ status' = [status EXCEPT ![s] = w]
  /\ root_status' = IF s = 0 THEN LaunchStatus(w) ELSE root_status
  /\ Reparent(s)
  /\ saved' = [saved EXCEPT ![s] = FALSE]
  /\ FilesExit({s})
  /\ mode' = "wake"
  /\ UNCHANGED <<pid, wait_pid, next_pid>>

Exit(code) ==
  /\ mode = "user"
  /\ ExitTask(current, code * 256)
  /\ UNCHANGED <<current, file_task>>

Fault ==
  /\ mode = "user"
  /\ ExitTask(current, SIGSEGV)
  /\ UNCHANGED <<current, file_task>>

(* read, readv, write and writev on a pipe, through linux_task_io_result *)
PipeTransfer(fd, n, w) ==
  /\ mode = "user"
  /\ Transferable(file_task, fd, w)
  /\ LET outcome == IoOutcome(NewIo(fd, n, w), task_files[file_task][fd])
     IN  \/ /\ outcome = "DONE"
            /\ Transfer(file_task, fd, n, w)
            /\ UNCHANGED taskVars
         \/ /\ outcome = "WAIT"
            /\ Transfer(file_task, fd, n, w)
            /\ Block("IO_WAITING")
            /\ UNCHANGED wait_pid
         \/ /\ outcome = "SIGPIPE"
            /\ ExitTask(current, SIGPIPE)
            /\ UNCHANGED current
  /\ UNCHANGED file_task

(* The other calls that change descriptors. *)
UserCall ==
  /\ mode = "user"
  /\ DescriptorCall(file_task)
  /\ UNCHANGED <<file_task, taskVars>>

-----------------------------------------------------------------------------
(* Mutant of Woken: waitpid(-1) is compared like a pid. *)
WokenByPid == {i \in Tasks : state[i] = "WAITING" /\
                 \E j \in Zombies(i, wait_pid[i]) : pid[j] = wait_pid[i]}

(* wake_waiters: every waiting parent reaps its first zombie.  Parents do  *)
(* not compete, since pids are unique (UniquePids).                        *)
Woken == {i \in Tasks : state[i] = "WAITING" /\ Zombies(i, wait_pid[i]) # {}}
Reaped == {j \in Tasks : \E i \in Woken : Lowest(Zombies(i, wait_pid[i]), j)}

WakeWaiters ==
  /\ mode = "wake"
  /\ state' = [s \in Tasks |-> IF s \in Woken THEN "READY"
                               ELSE IF s \in Reaped THEN "UNUSED" ELSE state[s]]
  /\ pid' = Clear(pid, Reaped)
  /\ parent' = Clear(parent, Reaped)
  /\ status' = Clear(status, Reaped)
  /\ wait_pid' = Clear(wait_pid, Woken)
  /\ mode' = "pick"
  /\ UNCHANGED <<filesVars, saved, current, next_pid, root_status>>

(* The search starts after the current slot and ends with it. *)
Runnable(s) == state[s] = "READY" \/ (state[s] = "IO_WAITING" /\ IoReady(s))
Distance(s) == IF s > current THEN s - current ELSE s + LINUX_TASK_LIMIT - current

(* Mutant of Chosen: the search always starts at slot 0. *)
ChosenFirst(s) == Runnable(s) /\ \A t \in Tasks : Runnable(t) => s <= t

Chosen(s) == Runnable(s) /\ \A t \in Tasks : Runnable(t) => Distance(s) <= Distance(t)

(* The chosen task returns to its program. *)
Enter(s) ==
  /\ state' = [state EXCEPT ![s] = "RUNNING"]
  /\ saved' = [saved EXCEPT ![s] = FALSE]
  /\ mode' = "user"
  /\ UNCHANGED <<pid, parent, status, wait_pid, next_pid, root_status>>

(* Mutants of PickReady: linux_files_switch is forgotten, and a task that *)
(* waits for its pipe runs as if it were READY.                           *)
PickReadyNoSwitch(s) ==
  /\ mode = "pick"
  /\ Chosen(s)
  /\ state[s] = "READY"
  /\ current' = s
  /\ Enter(s)
  /\ UNCHANGED filesVars

PickReadyBlocked(s) ==
  /\ mode = "pick"
  /\ state[s] \in {"READY", "IO_WAITING"}
  /\ current' = s
  /\ file_task' = s
  /\ Enter(s)
  /\ UNCHANGED <<tableVars, descVars, pipeVars, pending_io>>

PickReady(s) ==
  /\ mode = "pick"
  /\ Chosen(s)
  /\ state[s] = "READY"
  /\ current' = s
  /\ file_task' = s
  /\ Enter(s)
  /\ UNCHANGED <<tableVars, descVars, pipeVars, pending_io>>

(* The chosen task's transfer goes on first: it may finish, fill the pipe  *)
(* again, or find that the readers are gone.                               *)
PickBlocked(s) ==
  /\ mode = "pick"
  /\ Chosen(s)
  /\ state[s] = "IO_WAITING"
  /\ current' = s
  /\ file_task' = s
  /\ LET outcome == IoOutcome(pending_io[s], task_files[s][pending_io[s].fd])
     IN  \/ outcome = "DONE" /\ Resume(s) /\ Enter(s)
         \/ /\ outcome = "WAIT"
            /\ Resume(s)
            /\ mode' = "wake"
            /\ UNCHANGED <<state, pid, parent, status, wait_pid, saved,
                           next_pid, root_status>>
         \/ outcome = "SIGPIPE" /\ ExitTask(s, SIGPIPE)

(* Nothing can run: linux_leave_user returns to the launcher. *)
Leave ==
  /\ mode = "pick"
  /\ \A s \in Tasks : ~Runnable(s)
  /\ root_status' = IF \E s \in Tasks : state[s] \in {"IO_WAITING", "WAITING"}
                    THEN DEADLOCKED ELSE root_status
  /\ FilesExit(Tasks)
  /\ mode' = "returned"
  /\ UNCHANGED <<file_task, state, pid, parent, status, wait_pid, saved,
                 current, next_pid>>

(* linux_run_image of the next command *)
Launch ==
  /\ mode = "returned"
  /\ FilesReset /\ TaskReset

-----------------------------------------------------------------------------
Kernel ==
  \/ WakeWaiters
  \/ \E s \in Tasks : PickReady(s) \/ PickBlocked(s)
  \/ Leave

WaitArgs == {-1} \cup 2..MAX_PID

Next ==
  \/ Fork
  \/ \E p \in WaitArgs : WaitReap(p) \/ WaitBlock(p)
  \/ Yield
  \/ \E code \in ExitCodes : Exit(code)
  \/ Fault
  \/ \E fd \in Fds, n \in Lengths, w \in BOOLEAN : PipeTransfer(fd, n, w)
  \/ UserCall
  \/ Kernel
  \/ Launch

Spec == Init /\ [][Next]_vars

(* The kernel runs with interrupts off: a scheduler step that can be taken *)
(* is taken.  Nothing is assumed of the programs.                          *)
KernelSpec == Spec /\ WF_vars(Kernel)

(* Cooperative programs: whoever runs gives the processor up in the end,   *)
(* by yielding, blocking, exiting or faulting.  The kernel has no timer    *)
(* interrupt to force this, so it is an assumption about programs.         *)
GiveUp == Next /\ mode = "user" /\ mode' = "wake"
CooperativeSpec == KernelSpec /\ SF_vars(GiveUp)

-----------------------------------------------------------------------------
(* Properties *)

Kernelmode == mode \in {"wake", "pick"}
Stopped == {"READY", "WAITING", "IO_WAITING"}

(* Every variable has the values its declaration in linux_task.c allows. *)
TaskTypeOK ==
  /\ state \in [Tasks -> States]
  /\ pid \in [Tasks -> Nat]
  /\ parent \in [Tasks -> Nat]
  /\ status \in [Tasks -> Nat]
  /\ wait_pid \in [Tasks -> Int]
  /\ saved \in [Tasks -> BOOLEAN]
  /\ current \in Tasks
  /\ next_pid \in 2..MAX_PID
  /\ root_status \in Nat
  /\ mode \in {"user", "wake", "pick", "returned"}

(* While a program runs it is the only RUNNING task, it is the current one, *)
(* and its system calls use its own descriptor table (linux_files_switch);  *)
(* while the scheduler decides, no task is RUNNING.                         *)
OneRunner ==
  /\ \A s \in Tasks : state[s] = "RUNNING" <=> (mode = "user" /\ s = current)
  /\ file_task = current

(* No two processes of a launch share a pid, and a pid is never one that    *)
(* fork_task has yet to hand out: a wait cannot reap a stranger.            *)
UniquePids ==
  \A s, t \in Tasks : state[s] # "UNUSED" =>
    /\ pid[s] \in 1..(next_pid - 1)
    /\ (state[t] # "UNUSED" /\ pid[s] = pid[t]) => s = t

(* No wakeup is lost: outside schedule()'s own first half, a task in        *)
(* waitpid has a child to wait for, and none of those is already a zombie.  *)
NoLostWakeup ==
  mode \in {"user", "pick"} =>
    \A s \in Tasks : state[s] = "WAITING" =>
      /\ Children(s, wait_pid[s]) # {}
      /\ Zombies(s, wait_pid[s]) = {}

(* exit_task leaves no orphan with a dead parent: every process but the     *)
(* root has a living parent that can reap it, or the root has exited and it *)
(* belongs to nobody.                                                       *)
ParentAlive ==
  \A s \in Tasks \ {0} : state[s] # "UNUSED" =>
    IF parent[s] = 0 THEN state[0] = "ZOMBIE"
    ELSE \E t \in Tasks \ {s} : pid[t] = parent[s] /\ state[t] \notin {"UNUSED", "ZOMBIE"}

(* A task that stopped can be resumed: its registers and memory were saved  *)
(* since it last ran, and the running task is never resumed from a stale    *)
(* snapshot.                                                                *)
SavedWhenStopped == \A s \in Tasks : saved[s] <=> state[s] \in Stopped

(* A switch loses nothing: one program runs, on its own descriptors, and    *)
(* every other one that can run again has a snapshot taken when it stopped. *)
SwitchSound == OneRunner /\ SavedWhenStopped

(* A transfer is pending exactly for the tasks in IO_WAITING, and the slots *)
(* of processes that are gone hold no descriptor.                           *)
BlockedIffPending ==
  \A s \in Tasks :
    /\ mode # "returned" => (pending_io[s].active <=> state[s] = "IO_WAITING")
    /\ state[s] \in {"UNUSED", "ZOMBIE"} => OpenFds(s) = {}

(* schedule() can resume every blocked transfer: exactly the tasks in       *)
(* IO_WAITING have one, on a descriptor that is still a pipe end of its     *)
(* direction, whatever the others closed, forked or wrote meanwhile.        *)
TransfersResumable == BlockedIffPending /\ PendingOnPipe

(* "closes their descriptors and returns status 125": when the launch       *)
(* returns, no description and no pipe end is left open, and the status is  *)
(* 125 if some process was still blocked, else the root's own.              *)
CleanReturn ==
  mode = "returned" =>
    /\ FreeDescriptions = Descriptions
    /\ FreePipes = Pipes
    /\ IF \A s \in Tasks : state[s] \in {"UNUSED", "ZOMBIE"}
       THEN root_status = LaunchStatus(status[0])
       ELSE root_status = DEADLOCKED

(* The scheduler keeps to what the descriptor layer asks of it: only the    *)
(* slot that linux_files_switch chose makes calls, never while its transfer *)
(* is pending, a fork starts from an empty slot, and a transfer is resumed  *)
(* only when linux_io_ready says so.                                        *)
FilesImplemented == FilesSpec

(* schedule() calls itself when a resumed writer blocks again or dies; it   *)
(* nevertheless always comes back, to a program or to the launcher.         *)
ScheduleReturns == Kernelmode ~> mode \in {"user", "returned"}

(* Among cooperative programs the round-robin search starves nobody: a      *)
(* READY task runs, whatever the others fork, write or wait for.            *)
ReadyRuns == \A s \in Tasks : state[s] = "READY" ~> state[s] = "RUNNING"

=============================================================================
