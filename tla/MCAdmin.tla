------------------------------- MODULE MCAdmin -------------------------------
(* What Bssh and Setup do for a user, for TLC: access records, sessions,     *)
(* pipelines and the installation.  They share no state, so one of them is   *)
(* chosen and runs alone; the others rest in an initial state.               *)
EXTENDS Access, Sessions, Setup

VARIABLE tool   \* the one that runs

\* The variables of Pipeline
VARIABLES pipe_plan, text, fd, ends, kids, got, ended, task_files, task_flags, file_task,
  refs, pipe, writes, nonblock, readers, writers, used, pending_io, state, pid, parent,
  status, wait_pid, snapshots, current, next_pid, root_status, mode

\* Two directories of one user and a file in each, so that a directory and
\* what lies in it can be renamed both ways.
Dir(d) == Home("ann") \o <<d>>
MCPaths == {Dir("d"), Dir("e"), Dir("d") \o <<"f">>, Dir("e") \o <<"f">>}
MCRights == {{}, {"w"}}
MCCapacity == [d \in Drives |-> 8]

\* At most three of the four objects are there and one of them is locked.
AccessBounds == Cardinality(tree \cap Paths) <= 3 /\ Cardinality(secured) <= 1

\* Partitions are made by hand on the drive that was there at first; they fill
\* the table from its first slot, with one ESP at most.  After a first
\* installation, in any mode, others follow only when it erased the drive and
\* no write went astray; they erase too, and are started from the same medium.
Begun == {d \in Drives : begun[d].mode # Never}
SetupBounds ==
  /\ page = "manual" =>
       /\ socket.generation = 0
       /\ InUse(plan.table) = 1..Cardinality(InUse(plan.table))
       /\ Cardinality({s \in InUse(plan.table) : plan.table[s].type = Efi}) <= 1
  /\ page \in {"welcome", "disk"} => astray = {} /\
       \A d \in Begun : begun[d] = [mode |-> 0, efi |-> efi]
  /\ page \in {"manual", "profile"} /\ Begun # {} => plan.mode = 0

\* A pipeline; redirections before, after and instead of the pipe; and lines
\* that shell_parse refuses or that need no runner.
MCLines ==
  LET W == "WORD"
  IN  { <<W, "PIPE", W>>, <<W, "OUTPUT", W, "PIPE", W>>, <<W, "PIPE", W, "INPUT", W>>,
        <<W, "INPUT", W, "OUTPUT", W>>,
        <<W, W>>, <<W, W, W>>, <<"PIPE", W>>, <<W, "PIPE">>, <<W, "PIPE", "EMPTY">>,
        <<W, "INPUT", "PIPE">>, <<W, "OUTPUT">>, <<W, "PIPE", W, "PIPE", W>>,
        <<W, "OUTPUT", W, "OUTPUT", W, "OUTPUT", W>> }

\* Three stdio descriptors, the pipe and the file of a redirection fit in the
\* table; a write of three bytes is longer than the pipe; a command may fork
\* once, before or after the second stage.
P == INSTANCE Pipeline WITH
       plan <- pipe_plan, saved <- snapshots,
       LINUX_TASK_LIMIT <- 3, FD_COUNT <- 6, STDIO <- 3, PIPE_COUNT <- 1, PIPE_SIZE <- 2,
       MAX_PID <- 5, Calls <- {}, Lengths <- {1, 3}, NonblockArgs <- {}, CloexecArgs <- {},
       ExitCodes <- {0, 3}, Lines <- MCLines, SHELL_STAGES_MAX <- 2, SHELL_ARGS_MAX <- 2,
       SHELL_REDIRECTS_MAX <- 2

pipelineVars == <<pipe_plan, text, fd, ends, kids, got, ended, task_files, task_flags,
  file_task, refs, pipe, writes, nonblock, readers, writers, used, pending_io, state, pid,
  parent, status, wait_pid, snapshots, current, next_pid, root_status, mode>>

AdminInit ==
  /\ tool \in {"access", "sessions", "setup", "pipeline"}
  /\ AccessInit /\ SessionInit /\ SetupInit /\ P!PipelineInit
  /\ tool # "setup" => Here = CHOOSE d \in Drives : TRUE
  /\ tool # "pipeline" => pipe_plan = CHOOSE p \in P!Plans : TRUE

AdminNext ==
  \/ tool = "access" /\ AccessNext /\ UNCHANGED <<sessionVars, setupVars, pipelineVars>>
  \/ tool = "sessions" /\ SessionNext /\ UNCHANGED <<accessVars, setupVars, pipelineVars>>
  \/ tool = "setup" /\ SetupNext /\ UNCHANGED <<accessVars, sessionVars, pipelineVars>>
  \/ tool = "pipeline" /\ P!PipelineNext /\ UNCHANGED <<accessVars, sessionVars, setupVars>>

adminVars == <<tool, accessVars, sessionVars, setupVars, pipelineVars>>

AdminSpec == AdminInit /\ [][UNCHANGED tool /\ AdminNext]_adminVars

(* A pipeline ends, and returns the status of its right command            *)
(* (main of bssh-run.c).                                                   *)
PipelineEnds == P!PipelineEnds
===============================================================================
