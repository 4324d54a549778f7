------------------------------ MODULE Pipeline ------------------------------
(***************************************************************************)
(* A pipeline of Bssh: shell_parse.c, which bssh.c uses to accept a line,  *)
(* and the runner userland/bssh-run.c, an ordinary Linux program that the  *)
(* kernel of LinuxTask runs.  The runner's text is a sequence of           *)
(* instructions, nearly all of them system calls; fork copies what is left *)
(* of it, and a call of LinuxTask may stop the process anywhere.           *)
(*                                                                         *)
(* A line is its sequence of tokens: words are alike but for the empty one *)
(* (""), and APPEND stands for OUTPUT too, which opens its file with other *)
(* flags.  A command that execve started is any program that reads         *)
(* descriptor 0, writes descriptor 1, forks, waits for its children,       *)
(* yields, exits or faults; one that waits for a pipe it made itself could *)
(* block for ever without the runner's fault, and is left out.             *)
(*                                                                         *)
(* Left out because a launch starts with one process and three open        *)
(* descriptors: the runner's error paths for a pipe or first fork that     *)
(* fails, for dup2 that fails, and for a wait that finds no child.         *)
(***************************************************************************)
EXTENDS LinuxTask, Sequences

CONSTANTS
  Lines,               \* lines of tokens that users type
  SHELL_STAGES_MAX,    \* commands in a pipeline (2)
  SHELL_ARGS_MAX,      \* words of a command (64)
  SHELL_REDIRECTS_MAX  \* redirections of a command (8)

VARIABLES
  plan,   \* the commands of the line
  text,   \* [slot]: the instructions the program has left
  fd,     \* [slot]: what its last open returned
  ends,   \* pipe[0] and pipe[1] of main
  kids,   \* left and right of main; 0 before the fork, -1 if it failed
  got,    \* the wait status that waitpid stored for the runner
  ended   \* history: the wait status left and right ended with, -1 before

runnerVars == <<plan, text, fd, ends, kids, got, ended>>
pipelineVars == <<vars, runnerVars>>

-----------------------------------------------------------------------------
(* shell_parse *)

Words == {"WORD", "EMPTY"}
NoCommand == [argv |-> <<>>, redirects |-> <<>>]
NoPlan == [commands |-> <<NoCommand>>, redirect |-> "NONE", error |-> FALSE]

Refused(p) == [p EXCEPT !.error = TRUE]

(* One turn of the loop; the path of a redirection is a turn of its own. *)
Parsed(p, token) ==
  LET stage == Len(p.commands)
      command == p.commands[stage]
  IN  CASE p.error -> p
        [] p.redirect # "NONE" ->
             IF token \notin Words THEN Refused(p)
             ELSE [p EXCEPT !.redirect = "NONE",
                            !.commands[stage].redirects = Append(@, p.redirect)]
        [] token \in Words ->
             IF Len(command.argv) = SHELL_ARGS_MAX THEN Refused(p)
             ELSE [p EXCEPT !.commands[stage].argv = Append(@, token)]
        [] token = "PIPE" ->
             IF command.argv = <<>> \/ stage = SHELL_STAGES_MAX THEN Refused(p)
             ELSE [p EXCEPT !.commands = Append(@, NoCommand)]
        [] OTHER ->
             IF Len(command.redirects) = SHELL_REDIRECTS_MAX THEN Refused(p)
             ELSE [p EXCEPT !.redirect = token]

shell_parse(line) ==
  LET after[i \in 0..Len(line)] == IF i = 0 THEN NoPlan ELSE Parsed(after[i - 1], line[i])
  IN  after[Len(line)]

Compound(commands) == Len(commands) > 1 \/ commands[1].redirects # <<>>

(* The plans that execute() hands to the runner. *)
Accepted(p) ==
  /\ ~p.error /\ p.redirect = "NONE"
  /\ Compound(p.commands)
  /\ \A i \in DOMAIN p.commands :
       p.commands[i].argv # <<>> /\ p.commands[i].argv[1] # "EMPTY"

Plans == {p.commands : p \in {q \in {shell_parse(line) : line \in Lines} : Accepted(q)}}

-----------------------------------------------------------------------------
(* Instructions: <<call, operands>>.  The descriptors "r" and "w" are the  *)
(* ends of the pipe, "fd" what open returned.                              *)

redirect_fd(x, target) == << <<"dup2", x, target>>, <<"close", x>> >>
Redirection(kind) ==
  << <<"redirect">> >> \o redirect_fd("fd", IF kind = "INPUT" THEN 0 ELSE 1)

(* Redirections of a command, left to right *)
Redirections(kinds) ==
  LET after[i \in 0..Len(kinds)] ==
        IF i = 0 THEN <<>> ELSE after[i - 1] \o Redirection(kinds[i])
  IN  after[Len(kinds)]

Looked == << <<"open">>, <<"close", "fd">> >>
exit(code) == << <<"exit", code>> >>

(* run_command, by what is found under the name of the program: nothing,   *)
(* a file that may not be read, a program for Barnix, one for Linux; or    *)
(* the word linux stands alone.                                            *)
run_command(command) ==
  LET redirects == Redirections(command.redirects)
  IN  {exit(2), Looked \o exit(126), redirects \o exit(127), redirects \o exit(126),
       Looked \o redirects \o << <<"execve">> >>}

Stage(i) == << <<"command", i>> >>

(* Mutant of Left: the writer keeps the read end too. *)
LeftKeepsEnd == redirect_fd("w", 1) \o Stage(1)

Left == << <<"close", "r">> >> \o redirect_fd("w", 1) \o Stage(1)
Right == redirect_fd("r", 0) \o Stage(2)

Main == << <<"pipe">>, <<"fork", 1>>, <<"close", "w">>, <<"fork", 2>>,
           <<"close", "r">>, <<"wait", 1>>, <<"wait", 2>>, <<"return">> >>

Started(commands) == IF Len(commands) = 1 THEN Stage(1) ELSE Main

PipelineInit ==
  /\ Init
  /\ plan \in Plans
  /\ text = [s \in Tasks |-> IF s = 0 THEN Started(plan) ELSE <<>>]
  /\ fd = [s \in Tasks |-> None]
  /\ ends = <<None, None>>
  /\ kids = <<0, 0>>
  /\ got = 0
  /\ ended = <<-1, -1>>

-----------------------------------------------------------------------------
(* The program of the running process.                                     *)

At(call) == mode = "user" /\ text[current] # <<>> /\ Head(text[current])[1] = call
Operand(i) == Head(text[current])[i]
Go == text' = [text EXCEPT ![current] = Tail(@)]
Descriptor(x) == CASE x = "r" -> ends[1] [] x = "w" -> ends[2] [] OTHER -> fd[current]

(* A call on descriptors *)
Called == UNCHANGED <<file_task, taskVars, plan, ends, kids>>

MakePipe ==
  /\ At("pipe") /\ Go
  /\ CreatePipe(current, FALSE, FALSE)
  /\ \E r \in Fds, w \in Fds :
       /\ Lowest(FreeFds(current, 0), r) /\ Lowest(FreeFds(current, r + 1), w)
       /\ ends' = <<r, w>>
  /\ UNCHANGED <<file_task, taskVars, plan, kids, fd>>

ForkStage ==
  /\ At("fork")
  /\ Fork
  /\ kids' = [kids EXCEPT ![Operand(2)] = next_pid]
  /\ text' = [text EXCEPT ![current] = Tail(@),
                          ![current'] = IF Operand(2) = 1 THEN Left ELSE Right]
  /\ fd' = [fd EXCEPT ![current'] = fd[current]]
  /\ UNCHANGED <<plan, ends>>

(* The first command forked too, and no slot or no pid is left. *)
ForkFails ==
  /\ At("fork") /\ Go
  /\ ~PidsLeft \/ \A s \in Tasks : state[s] # "UNUSED"
  /\ kids' = [kids EXCEPT ![Operand(2)] = -1]
  /\ UNCHANGED <<vars, plan, ends, fd>>

Close == At("close") /\ Go /\ CloseFd(current, Descriptor(Operand(2))) /\ Called /\ UNCHANGED fd

Redirect ==
  At("dup2") /\ Go /\ Dup2(current, Descriptor(Operand(2)), Operand(3)) /\ Called /\ UNCHANGED fd

(* open of the program, and of the path of a redirection, which may fail   *)
OpenFile ==
  /\ At("open") \/ At("redirect")
  /\ Go
  /\ Open(current, FALSE)
  /\ \E x \in Fds : Lowest(FreeFds(current, 0), x) /\ fd' = [fd EXCEPT ![current] = x]
  /\ Called

OpenFails ==
  /\ At("redirect")
  /\ text' = [text EXCEPT ![current] = exit(1)]
  /\ UNCHANGED <<vars, plan, fd, ends, kids>>

(* run_command finds out what its program is. *)
Lookup ==
  /\ At("command")
  /\ \E rest \in run_command(plan[Operand(2)]) : text' = [text EXCEPT ![current] = rest]
  /\ UNCHANGED <<vars, plan, fd, ends, kids>>

Execve ==
  /\ At("execve")
  /\ text' = [text EXCEPT ![current] = << <<"program">> >>]
  /\ Exec(current) /\ Called /\ UNCHANGED fd

ExecveFails ==
  /\ At("execve")
  /\ text' = [text EXCEPT ![current] = exit(126)]
  /\ UNCHANGED <<vars, plan, fd, ends, kids>>

(* wait_for; when right was not forked main gives up after left. *)
WaitFor ==
  /\ At("wait")
  /\ kids[Operand(2)] # -1
  /\ Go
  /\ WaitReap(kids[Operand(2)]) \/ WaitBlock(kids[Operand(2)])
  /\ UNCHANGED <<plan, fd, ends, kids>>

ExitProgram ==
  /\ \/ At("exit") /\ Exit(Operand(2))
     \/ At("return") /\ Exit(LaunchStatus(got))
     \/ At("wait") /\ kids[Operand(2)] = -1 /\ Exit(125)
  /\ UNCHANGED <<plan, text, fd, ends, kids>>

(* The program that execve started *)
ForkProgram ==
  /\ At("program")
  /\ Fork
  /\ text' = [text EXCEPT ![current'] = text[current]]
  /\ UNCHANGED <<plan, fd, ends, kids>>

Program ==
  /\ At("program")
  /\ \/ \E n \in Lengths : PipeTransfer(0, n, FALSE) \/ PipeTransfer(1, n, TRUE)
     \/ WaitReap(-1) \/ WaitBlock(-1)
     \/ Yield
     \/ \E code \in ExitCodes : Exit(code)
     \/ Fault
  /\ UNCHANGED <<plan, text, fd, ends, kids>>

Scheduler == Kernel /\ UNCHANGED <<plan, text, fd, ends, kids>>

(* The next line *)
NextLine ==
  /\ Launch
  /\ plan' \in Plans
  /\ text' = [s \in Tasks |-> IF s = 0 THEN Started(plan') ELSE <<>>]
  /\ fd' = [s \in Tasks |-> None]
  /\ ends' = <<None, None>>
  /\ kids' = <<0, 0>>
  /\ got' = 0
  /\ ended' = <<-1, -1>>

(* The statuses that waitpid passed on and that the stages ended with      *)
Reaps(s) == state[s] = "ZOMBIE" /\ state'[s] = "UNUSED" /\ parent[s] = 1
Ends(s, i) == state[s] # "ZOMBIE" /\ state'[s] = "ZOMBIE" /\ pid[s] = kids[i]

Statuses ==
  /\ got' = IF \E s \in Tasks : Reaps(s)
            THEN status[CHOOSE s \in Tasks : Reaps(s)] ELSE got
  /\ ended' = [i \in 1..2 |-> IF \E s \in Tasks : Ends(s, i)
                              THEN status'[CHOOSE s \in Tasks : Ends(s, i)] ELSE ended[i]]

PipelineNext ==
  \/ /\ \/ MakePipe \/ ForkStage \/ ForkFails \/ Close \/ Redirect
        \/ OpenFile \/ OpenFails \/ Lookup \/ Execve \/ ExecveFails
        \/ WaitFor \/ ExitProgram \/ ForkProgram \/ Program \/ Scheduler
     /\ Statuses
  \/ NextLine

PipelineSpec == PipelineInit /\ [][PipelineNext]_pipelineVars

-----------------------------------------------------------------------------
(* "It returns the last stage's status, including 128 + signal for a       *)
(* fault": main, its two copies and their redirections close every pipe    *)
(* end in time.  A command starts with no descriptor but its own three, so *)
(* none waits for an end that only the runner or the other stage holds; no *)
(* launch ends in a deadlock; and what Bssh prints is how the right        *)
(* command ended, in whatever order the stages write, read, fork and die.  *)
PipelineEnds ==
  /\ At("program") => OpenFds(current) = 0..2
  /\ mode = "returned" =>
       /\ \A s \in Tasks : state[s] \in {"UNUSED", "ZOMBIE"}
       /\ Len(plan) = 2 =>
            root_status = IF kids[2] = -1 THEN 125 ELSE LaunchStatus(ended[2])
=============================================================================
