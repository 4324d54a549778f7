------------------------------- MODULE Sessions -------------------------------
(***************************************************************************)
(* Accounts and the nested sessions of bssh: the first start, login, su,   *)
(* sudo, useradd, exit and logout (bssh.c), with the account functions of  *)
(* permissions.c.  sudo runs the rest of its line by a recursive call of   *)
(* execute(), so what su, exit or logout do inside it is undone from the C *)
(* stack on the way back; the array of sessions is not saved, only its     *)
(* depth.  An account is made in four writes with the record last.         *)
(* Whether a typed password is right is a free choice.  fs_cd, which may   *)
(* fail, only moves the working directory and is left out.                 *)
(***************************************************************************)
EXTENDS Naturals, Sequences

CONSTANTS People,    \* ordinary account names
          MaxDepth,  \* entries of sessions[] (8)
          MaxSudo    \* bound on the sudo words of one line

ASSUME SessionAssumption == MaxDepth \in Nat

VARIABLES
  accounts,  \* names in /etc/userpasswd.cfg
  homes,     \* how many of the three objects of a home exist
  making,    \* account_create in progress: the name, or "none"
  user,      \* current_user
  saved,     \* sessions[].user
  depth,     \* session_depth
  frames,    \* the calls of execute() that sudo waits in
  at,        \* "first", "person", "login", "prompt", "command", "back"
  truth      \* history: the users of the sessions a person has open

sessionVars == <<accounts, homes, making, user, saved, depth, frames, at, truth>>

Names == People \cup {"root"}
HomeObjects == 3   \* the home, useretc and its sys-lang.cfg

SessionInit ==
  /\ accounts = {} /\ homes = [u \in Names |-> 0] /\ making = "none"
  /\ user = "root" /\ saved = [i \in 1..MaxDepth |-> "root"] /\ depth = 0
  /\ frames = << >> /\ at = "first" /\ truth = << >>

\* bssh_main and the head of do_login: the file may be there already.
Boot ==
  /\ at # "first" \/ making # "none"
  /\ at' = IF accounts = {} THEN "first" ELSE "login"
  /\ user' = "root" /\ depth' = 0 /\ frames' = << >> /\ truth' = << >>
  /\ saved' = [i \in 1..MaxDepth |-> "root"] /\ making' = "none"
  /\ UNCHANGED <<accounts, homes>>

---------------------------------------------------------------------------
(* account_create(): home, useretc, sys-lang.cfg, and then the record.     *)

\* Mutant of StartAccount: the first start asks for the person first.
StartAccountPerson(u) ==
  /\ making = "none" /\ user = "root" /\ u \notin accounts
  /\ \/ at = "first" /\ u # "root"
     \/ at = "person" /\ u = "root"
     \/ at \in {"prompt", "command"}
  /\ making' = u
  /\ UNCHANGED <<accounts, homes, user, saved, depth, frames, at, truth>>

StartAccount(u) ==
  /\ making = "none" /\ user = "root" /\ u \notin accounts
  /\ \/ at = "first" /\ u = "root"
     \/ at = "person" /\ u # "root"
     \/ at \in {"prompt", "command"}
  /\ making' = u
  /\ UNCHANGED <<accounts, homes, user, saved, depth, frames, at, truth>>

MakeHome ==
  /\ making # "none" /\ homes[making] < HomeObjects
  /\ homes' = [homes EXCEPT ![making] = @ + 1]
  /\ UNCHANGED <<accounts, making, user, saved, depth, frames, at, truth>>

\* Where execute() goes on after a command.
After == IF at = "prompt" THEN "prompt" ELSE "back"

WriteRecord ==
  /\ making # "none" /\ homes[making] = HomeObjects
  /\ accounts' = accounts \cup {making} /\ making' = "none"
  /\ at' = CASE at = "first" -> "person" [] at = "person" -> "login" [] OTHER -> After
  /\ UNCHANGED <<homes, user, saved, depth, frames, truth>>

\* One of the writes fails; the first start asks again.
AccountFails ==
  /\ making # "none" /\ making' = "none"
  /\ at' = IF at \in {"first", "person"} THEN at ELSE After
  /\ UNCHANGED <<accounts, homes, user, saved, depth, frames, truth>>

---------------------------------------------------------------------------
Idle == making = "none"

\* A password is right, or root names an existing account (switch_user).
Login(u) ==
  /\ Idle /\ at = "login" /\ u \in accounts
  /\ user' = u
  /\ at' = IF frames = << >> THEN "prompt" ELSE "back"
  /\ truth' = IF frames = << >> THEN <<u>> ELSE truth
  /\ UNCHANGED <<accounts, homes, making, saved, depth, frames>>

\* The entry is written before the password is known to be right.
Su(u, right) ==
  /\ Idle /\ at \in {"prompt", "command"} /\ depth < MaxDepth
  /\ saved' = [saved EXCEPT ![depth + 1] = user]
  /\ at' = After
  /\ \/ /\ u \in accounts /\ (right \/ user = "root")
        /\ user' = u /\ depth' = depth + 1
        /\ truth' = IF frames = << >> THEN Append(truth, u) ELSE truth
     \/ /\ u \notin accounts \/ (~right /\ user # "root")
        /\ UNCHANGED <<user, depth, truth>>
  /\ UNCHANGED <<accounts, homes, making, frames>>

Sudo ==
  /\ Idle /\ at \in {"prompt", "command"} /\ Len(frames) < MaxSudo
  /\ user = "root" \/ "root" \in accounts
  /\ frames' = Append(frames, [user |-> user, depth |-> depth])
  /\ user' = "root" /\ at' = "command"
  /\ UNCHANGED <<accounts, homes, making, saved, depth, truth>>

\* Mutant of SudoBack: the depth is not put back.
SudoBackUser ==
  /\ at = "back" /\ frames # << >>
  /\ user' = frames[Len(frames)].user
  /\ frames' = SubSeq(frames, 1, Len(frames) - 1)
  /\ at' = IF Len(frames) = 1 THEN "prompt" ELSE "back"
  /\ UNCHANGED <<accounts, homes, making, saved, depth, truth>>

\* The way back of sudo: depth and user as they were.
SudoBack ==
  /\ at = "back" /\ frames # << >>
  /\ user' = frames[Len(frames)].user /\ depth' = frames[Len(frames)].depth
  /\ frames' = SubSeq(frames, 1, Len(frames) - 1)
  /\ at' = IF Len(frames) = 1 THEN "prompt" ELSE "back"
  /\ UNCHANGED <<accounts, homes, making, saved, truth>>

Exit ==
  /\ Idle /\ at \in {"prompt", "command"} /\ depth > 0
  /\ depth' = depth - 1 /\ user' = saved[depth]
  /\ at' = After
  /\ truth' = IF frames = << >> THEN SubSeq(truth, 1, Len(truth) - 1) ELSE truth
  /\ UNCHANGED <<accounts, homes, making, saved, frames>>

\* logout, and exit with no session open.
Logout ==
  /\ Idle /\ at \in {"prompt", "command"}
  /\ depth' = 0 /\ user' = "root"
  /\ at' = "login"
  /\ truth' = IF frames = << >> THEN << >> ELSE truth
  /\ UNCHANGED <<accounts, homes, making, saved, frames>>

\* Any other command, and one that is refused.
Plain == Idle /\ at = "command" /\ at' = "back"
         /\ UNCHANGED <<accounts, homes, making, user, saved, depth, frames, truth>>

SessionNext ==
  \/ Boot \/ MakeHome \/ WriteRecord \/ AccountFails
  \/ \E u \in Names : StartAccount(u) \/ Login(u)
  \/ \E u \in Names, right \in BOOLEAN : Su(u, right)
  \/ Sudo \/ SudoBack \/ Exit \/ Logout \/ Plain

SessionSpec == SessionInit /\ [][SessionNext]_sessionVars

---------------------------------------------------------------------------
\* At the prompt the user, the depth and every saved entry are those of the
\* sessions the person really opened with login and su and has not left: no
\* mixture of su, failed su, exit and logout inside or outside sudo returns
\* to somebody else, or to a session that is over.
SessionsNest ==
  at = "prompt" => /\ Len(truth) = depth + 1
                   /\ user = truth[depth + 1]
                   /\ \A i \in 1..depth : saved[i] = truth[i]

\* Whoever a command runs for has an account, and once there is a login
\* prompt so has root: no write that fails and no power loss during the first
\* start leaves a machine that nobody can administer, and no su, sudo, exit
\* or logout goes on for a name that is not in the file.
OnlyAccountsAct ==
  /\ at \notin {"first", "person"} => "root" \in accounts
  /\ at \in {"prompt", "command", "back"} => user \in accounts
===============================================================================
