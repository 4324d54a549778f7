--------------------------- MODULE AdminProofs -----------------------------
(***************************************************************************)
(* Sessions nest and run for accounts, rights and locks follow the objects *)
(* they were given to, for every number of accounts, sessions, nested sudo *)
(* words, paths and access records.  What Setup publishes is whole, and    *)
(* what it is told to keep is not written, for any number of drives,       *)
(* sizes, swaps and slots, whatever fails and whenever power goes.         *)
(***************************************************************************)
EXTENDS Access, Sessions, Setup, SequenceTheorems, LeastNumber, TLAPS

---------------------------------------------------------------------------
(* Sessions                                                                *)

Frames == [user : Names, depth : 0..MaxDepth]
SessionTypeOK ==
  /\ accounts \subseteq Names /\ making \in Names \cup {"none"}
  /\ user \in Names /\ depth \in 0..MaxDepth
  /\ saved \in [1..MaxDepth -> Names] /\ frames \in Seq(Frames) /\ truth \in Seq(Names)

\* Which positions of execute() have a sudo waiting below them.
Waiting ==
  /\ at \in {"first", "person", "login", "prompt", "command", "back"}
  /\ at \in {"first", "person", "prompt"} => frames = << >>
  /\ at \in {"command", "back"} => frames # << >>
  /\ making # "none" => at \in {"first", "person", "prompt", "command"}

\* What the person opened is in user and depth at the prompt and in the
\* oldest frame while sudo runs; the entries below that depth are its own.
Opened(u, d) == /\ Len(truth) = d + 1 /\ u = truth[d + 1]
                /\ \A i \in 1..d : saved[i] = truth[i]
Nested == /\ at = "prompt" => Opened(user, depth)
          /\ frames # << >> => Opened(frames[1].user, frames[1].depth)
          /\ at = "command" => depth = frames[1].depth
          /\ at \in {"first", "person", "login"} => depth = 0

SessionInv == SessionTypeOK /\ Waiting /\ Nested

\* Before the first start there is no session and no prompt.
LEMMA InitSessionInv == SessionInit => SessionInv
  BY SessionAssumption DEF SessionInit, SessionInv, SessionTypeOK, Waiting, Nested, Names

\* Power loss, and the account commands, which leave the sessions alone.
LEMMA AccountsSessionInv ==
  ASSUME SessionInv,
         Boot \/ MakeHome \/ WriteRecord \/ AccountFails \/ \E u \in Names : StartAccount(u)
  PROVE  SessionInv'
<1>1. CASE Boot
  <2>1. frames' = << >> /\ frames' \in Seq(Frames) /\ truth' = << >> /\ truth' \in Seq(Names)
    BY <1>1 DEF Boot
  <2>2. at' \in {"first", "login"} /\ making' = "none" /\ depth' = 0
    BY <1>1 DEF Boot
  <2>3. SessionTypeOK'
    BY <1>1, <2>1, SessionAssumption DEF Boot, SessionInv, SessionTypeOK, Names
  <2> QED BY <2>1, <2>2, <2>3 DEF SessionInv, Waiting, Nested
<1>2. CASE MakeHome \/ WriteRecord \/ AccountFails \/ \E u \in Names : StartAccount(u)
  <2>1. UNCHANGED <<user, saved, depth, frames, truth>>
    BY <1>2 DEF MakeHome, WriteRecord, AccountFails, StartAccount
  <2>2. accounts' \subseteq Names /\ making' \in Names \cup {"none"}
    BY <1>2 DEF MakeHome, WriteRecord, AccountFails, StartAccount, SessionInv, SessionTypeOK
  <2>3. CASE WriteRecord \/ AccountFails
    <3>1. making' = "none" /\ (at' \in {"prompt", "command"} => at' = at)
      BY <2>3 DEF WriteRecord, AccountFails, After
    <3>2. /\ at \in {"first", "person"} => at' \in {"first", "person", "login"}
          /\ at = "prompt" => at' = at
          /\ at = "command" => at' = "back"
          /\ making # "none"
      BY <2>3 DEF WriteRecord, AccountFails, After
    <3>3. Waiting' /\ Nested'
      BY <2>1, <3>1, <3>2 DEF SessionInv, Waiting, Nested, Opened
    <3> QED BY <2>1, <2>2, <3>3 DEF SessionInv, SessionTypeOK
  <2>4. CASE MakeHome \/ \E u \in Names : StartAccount(u)
    <3>1. at' = at /\ (making' # "none" => at \in {"first", "person", "prompt", "command"})
      BY <2>4 DEF MakeHome, StartAccount, SessionInv, Waiting
    <3> QED BY <2>1, <2>2, <3>1 DEF SessionInv, SessionTypeOK, Waiting, Nested, Opened
  <2> QED BY <1>2, <2>3, <2>4
<1> QED BY <1>1, <1>2

\* Login, su, exit and logout.  Inside sudo they change what the way back
\* restores, and su writes only above the depth of the oldest frame.
LEMMA CommandSessionInv ==
  ASSUME SessionInv,
         \/ \E u \in Names : Login(u)
         \/ \E u \in Names, right \in BOOLEAN : Su(u, right)
         \/ Exit \/ Logout \/ Plain
  PROVE  SessionInv'
<1> USE SessionAssumption
<1>1. /\ UNCHANGED <<accounts, making, frames>> /\ making = "none"
  BY DEF Login, Su, Exit, Logout, Plain, Idle
<1>2. ASSUME NEW u \in Names, Login(u) PROVE SessionInv'
  <2>1. SessionTypeOK'
    BY <1>1, <1>2 DEF Login, SessionInv, SessionTypeOK
  <2>2. Waiting' /\ Nested'
    BY <1>1, <1>2 DEF Login, SessionInv, SessionTypeOK, Waiting, Nested, Opened
  <2> QED BY <2>1, <2>2 DEF SessionInv
<1>3. ASSUME NEW u \in Names, NEW right \in BOOLEAN, Su(u, right) PROVE SessionInv'
  <2>1. depth + 1 \in 1..MaxDepth /\ saved' \in [1..MaxDepth -> Names]
    BY <1>3 DEF Su, SessionInv, SessionTypeOK
  <2>2. \A i \in 1..depth : saved'[i] = saved[i]
    BY <1>3, <2>1 DEF Su, SessionInv, SessionTypeOK
  <2>3. saved'[depth + 1] = user
    BY <1>3, <2>1 DEF Su, SessionInv, SessionTypeOK
  <2>4. SessionTypeOK'
    <3>1. user' \in Names /\ depth' \in 0..MaxDepth
      BY <1>3, <2>1 DEF Su, SessionInv, SessionTypeOK
    <3>2. truth' = truth \/ truth' = Append(truth, u)
      BY <1>3 DEF Su
    <3>3. truth' \in Seq(Names)
      BY <3>2 DEF SessionInv, SessionTypeOK
    <3> QED BY <1>1, <2>1, <3>1, <3>3 DEF SessionInv, SessionTypeOK
  <2>5. Waiting'
    BY <1>1, <1>3 DEF Su, After, SessionInv, Waiting
  <2>6. CASE at = "prompt"
    <3>1. frames = << >> /\ at' = "prompt" /\ Opened(user, depth)
      BY <1>3, <2>6 DEF Su, After, SessionInv, Waiting, Nested
    <3>2. Opened(user, depth)'
      BY <1>3, <3>1, <2>2, <2>3, SMTT(30) DEF Su, Opened, SessionInv, SessionTypeOK
    <3> QED BY <1>1, <3>1, <3>2, <2>4, <2>5 DEF SessionInv, Nested
  <2>7. CASE at = "command"
    <3>1. /\ frames # << >> /\ at' = "back" /\ truth' = truth
          /\ depth = frames[1].depth /\ Opened(frames[1].user, frames[1].depth)
      BY <1>3, <2>7 DEF Su, After, SessionInv, Waiting, Nested
    <3> QED BY <1>1, <2>2, <3>1, <2>4, <2>5 DEF SessionInv, Nested, Opened
  <2> QED BY <1>3, <2>6, <2>7 DEF Su
<1>4. CASE Exit
  <2>1. SessionTypeOK'
    BY <1>1, <1>4 DEF Exit, SessionInv, SessionTypeOK, Waiting, Nested, Opened
  <2>2. Waiting'
    BY <1>1, <1>4 DEF Exit, After, SessionInv, Waiting
  <2>3. Nested'
    BY <1>1, <1>4 DEF Exit, After, SessionInv, SessionTypeOK, Waiting, Nested, Opened
  <2> QED BY <2>1, <2>2, <2>3 DEF SessionInv
<1>5. CASE Logout
  <2>1. SessionTypeOK'
    BY <1>1, <1>5 DEF Logout, SessionInv, SessionTypeOK, Names
  <2>2. Waiting' /\ Nested'
    BY <1>1, <1>5 DEF Logout, SessionInv, Waiting, Nested, Opened
  <2> QED BY <2>1, <2>2 DEF SessionInv
<1>6. CASE Plain
  BY <1>1, <1>6 DEF Plain, SessionInv, SessionTypeOK, Waiting, Nested, Opened
<1> QED BY <1>2, <1>3, <1>4, <1>5, <1>6

\* A stack of frames without its last one.
LEMMA FrontOfSeq ==
  ASSUME NEW S, NEW q \in Seq(S), Len(q) # 0
  PROVE  /\ SubSeq(q, 1, Len(q) - 1) \in Seq(S) /\ Len(SubSeq(q, 1, Len(q) - 1)) = Len(q) - 1
         /\ \A i \in 1..Len(q) - 1 : SubSeq(q, 1, Len(q) - 1)[i] = q[i]
<1> DEFINE n == Len(q) - 1
<1>1. 1 \in Int /\ n \in Int /\ n >= 0 /\ \A i \in 1..n : q[i] \in S
  OBVIOUS
<1> HIDE DEF n
<1>2. /\ SubSeq(q, 1, n) \in Seq(S) /\ Len(SubSeq(q, 1, n)) = IF 1 <= n THEN n - 1 + 1 ELSE 0
      /\ \A i \in 1..n - 1 + 1 : SubSeq(q, 1, n)[i] = q[1 + i - 1]
  BY <1>1, SubSeqProperties
<1>3. Len(SubSeq(q, 1, n)) = n /\ \A i \in 1..n : SubSeq(q, 1, n)[i] = q[i]
  BY <1>1, <1>2
<1> QED BY <1>2, <1>3 DEF n

\* sudo keeps the oldest frame, and its way back restores from it.
LEMMA SudoSessionInv == ASSUME SessionInv, Sudo \/ SudoBack PROVE SessionInv'
<1> USE SessionAssumption
<1>1. CASE Sudo
  <2> DEFINE f == [user |-> user, depth |-> depth]
  <2>1. f \in Frames /\ frames' = Append(frames, f)
    BY <1>1 DEF Sudo, SessionInv, SessionTypeOK, Frames
  <2>2. /\ frames' \in Seq(Frames) /\ frames' # << >>
        /\ frames'[1] = IF frames = << >> THEN f ELSE frames[1]
    BY <2>1 DEF SessionInv, SessionTypeOK
  <2>3. SessionTypeOK'
    BY <1>1, <2>2 DEF Sudo, SessionInv, SessionTypeOK, Names
  <2>4. Waiting'
    BY <1>1, <2>2 DEF Sudo, Idle, Waiting
  <2>5. Nested'
    <3>1. CASE frames = << >>
      <4>1. Opened(user, depth) /\ frames'[1].user = user /\ frames'[1].depth = depth
        BY <1>1, <2>2, <3>1 DEF Sudo, SessionInv, Waiting, Nested
      <4> QED BY <1>1, <4>1 DEF Sudo, Nested, Opened
    <3>2. CASE frames # << >>
      <4>1. frames'[1] = frames[1] /\ at = "command"
        BY <1>1, <2>2, <3>2 DEF Sudo, SessionInv, Waiting
      <4> QED BY <1>1, <3>2, <4>1 DEF Sudo, SessionInv, Nested, Opened
    <3> QED BY <3>1, <3>2
  <2> QED BY <2>3, <2>4, <2>5 DEF SessionInv
<1>2. CASE SudoBack
  <2>1. Len(frames) \in Nat \ {0} /\ frames[Len(frames)] \in Frames
    BY <1>2 DEF SudoBack, SessionInv, SessionTypeOK
  <2>2. /\ frames' \in Seq(Frames) /\ Len(frames') = Len(frames) - 1
        /\ \A i \in 1..Len(frames) - 1 : frames'[i] = frames[i]
    <3>1. frames' = SubSeq(frames, 1, Len(frames) - 1) /\ frames \in Seq(Frames)
      BY <1>2 DEF SudoBack, SessionInv, SessionTypeOK
    <3> QED BY <2>1, <3>1, FrontOfSeq
  <2>5. /\ Len(frames) > 1 => frames' # << >> /\ frames'[1] = frames[1]
        /\ Len(frames) = 1 => frames' = << >>
    BY <2>1, <2>2
  <2>3. SessionTypeOK'
    BY <1>2, <2>1, <2>2 DEF SudoBack, SessionInv, SessionTypeOK, Frames
  <2>7. /\ at = "back" /\ UNCHANGED <<making, saved, truth>>
        /\ at' = IF Len(frames) = 1 THEN "prompt" ELSE "back"
        /\ Len(frames) = 1 => user' = frames[1].user /\ depth' = frames[1].depth
    BY <1>2 DEF SudoBack
  <2>8. CASE Len(frames) = 1
    BY <2>3, <2>5, <2>7, <2>8 DEF SessionInv, Waiting, Nested, Opened
  <2>9. CASE Len(frames) > 1
    BY <2>3, <2>5, <2>7, <2>9 DEF SessionInv, Waiting, Nested, Opened
  <2>10. Len(frames) = 1 \/ Len(frames) > 1
    BY <2>1
  <2> QED BY <2>8, <2>9, <2>10
<1> QED BY <1>1, <1>2

\* Every step, and a stutter.
LEMMA StepSessionInv == ASSUME SessionInv, [SessionNext]_sessionVars PROVE SessionInv'
<1>1. CASE UNCHANGED sessionVars
  BY <1>1 DEF sessionVars, SessionInv, SessionTypeOK, Waiting, Nested, Opened
<1> QED BY <1>1, AccountsSessionInv, CommandSessionInv, SudoSessionInv DEF SessionNext

\* Whatever su, exit and logout do inside and outside sudo, the prompt is
\* always that of a session the person opened and has not left (bssh.c).
THEOREM SessionsNestAlways == SessionSpec => []SessionsNest
<1>1. SessionInv => SessionsNest
  BY DEF SessionInv, Nested, Opened, SessionsNest
<1> QED BY <1>1, InitSessionInv, StepSessionInv, PTL DEF SessionSpec

\* The names a session may run for, now and on the way back: root, which has
\* no record only during the first start, or an account.
Known(u) == u \in accounts \cup {"root"}
ActInv == /\ at = "first" <=> accounts = {}
          /\ accounts # {} => "root" \in accounts
          /\ at = "first" /\ making # "none" => making = "root"
          /\ Known(user) /\ \A i \in 1..MaxDepth : Known(saved[i])
          /\ \A i \in 1..Len(frames) : Known(frames[i].user)

\* Accounts are only added, so that the names kept for later stay known.
LEMMA StepActInv ==
  ASSUME SessionInv, ActInv, [SessionNext]_sessionVars PROVE ActInv'
<1> USE SessionAssumption
<1>0. accounts \subseteq accounts' /\ frames \in Seq(Frames)
  BY DEF SessionNext, sessionVars, Boot, MakeHome, WriteRecord, AccountFails, StartAccount,
         Login, Su, Sudo, SudoBack, Exit, Logout, Plain, SessionInv, SessionTypeOK
<1>1. CASE Boot
  <2>1. frames' = << >> /\ accounts' = accounts /\ user' = "root" /\ making' = "none"
    BY <1>1 DEF Boot
  <2>2. at' = "first" <=> accounts' = {}
    BY <1>1 DEF Boot
  <2>3. \A i \in 1..MaxDepth : saved'[i] = "root"
    BY <1>1 DEF Boot
  <2> QED BY <2>1, <2>2, <2>3 DEF ActInv, Known
<1>2. CASE MakeHome \/ \E u \in Names : StartAccount(u)
  <2>1. UNCHANGED <<accounts, user, saved, frames, at>> /\ (at = "first" /\ making' # "none" => making' = "root")
    BY <1>2 DEF MakeHome, StartAccount, ActInv
  <2> QED BY <2>1 DEF ActInv, Known
<1>3. CASE WriteRecord
  <2>1. UNCHANGED <<user, saved, frames>> /\ accounts' # {} /\ making' = "none"
    BY <1>3 DEF WriteRecord
  <2>2. at' # "first"
    BY <1>3 DEF WriteRecord, After
  <2>3. "root" \in accounts'
    BY <1>3 DEF WriteRecord, ActInv
  <2> QED BY <1>0, <2>1, <2>2, <2>3 DEF ActInv, Known
<1>4. CASE AccountFails
  <2>1. UNCHANGED <<accounts, user, saved, frames>> /\ making' = "none"
    BY <1>4 DEF AccountFails
  <2>2. at' = "first" <=> at = "first"
    BY <1>4 DEF AccountFails, After
  <2> QED BY <2>1, <2>2 DEF ActInv, Known
<1>5. CASE \/ \E u \in Names : Login(u)
           \/ \E u \in Names, right \in BOOLEAN : Su(u, right)
           \/ Sudo \/ SudoBack \/ Exit \/ Logout \/ Plain
  <2>1. UNCHANGED <<accounts, making>> /\ at # "first" /\ at' # "first"
    BY <1>5 DEF Login, Su, Sudo, SudoBack, Exit, Logout, Plain, After
  <2>2. Known(user')
    <3>1. CASE SudoBack
      <4>1. Len(frames) \in 1..Len(frames) /\ user' = frames[Len(frames)].user
        BY <3>1, <1>0 DEF SudoBack
      <4> QED BY <4>1 DEF ActInv
    <3>2. CASE Exit
      BY <3>2 DEF Exit, SessionInv, SessionTypeOK, ActInv
    <3>3. CASE ~SudoBack /\ ~Exit
      BY <1>5, <3>3 DEF Login, Su, Sudo, Logout, Plain, ActInv, Known
    <3> QED BY <3>1, <3>2, <3>3
  <2>3. \A i \in 1..MaxDepth : Known(saved'[i])
    <3>1. saved' = saved \/ saved' = [saved EXCEPT ![depth + 1] = user]
      BY <1>5 DEF Login, Su, Sudo, SudoBack, Exit, Logout, Plain
    <3> QED BY <3>1 DEF SessionInv, SessionTypeOK, ActInv
  <2>4. \A i \in 1..Len(frames') : Known(frames'[i].user)
    <3>1. CASE SudoBack
      <4>1. /\ frames' = SubSeq(frames, 1, Len(frames) - 1) /\ Len(frames) # 0
        BY <3>1, <1>0 DEF SudoBack
      <4>2. /\ Len(frames') = Len(frames) - 1 /\ Len(frames) \in Nat
            /\ \A i \in 1..Len(frames) - 1 : frames'[i] = frames[i]
        BY <1>0, <4>1, FrontOfSeq
      <4> QED BY <4>2 DEF ActInv
    <3>2. CASE Sudo
      <4> DEFINE f == [user |-> user, depth |-> depth]
      <4>1. f \in Frames /\ frames' = Append(frames, f) /\ f.user = user
        BY <3>2 DEF Sudo, SessionInv, SessionTypeOK, Frames
      <4>2. Len(frames') = Len(frames) + 1 /\ \A i \in 1..Len(frames') :
              frames'[i] = IF i <= Len(frames) THEN frames[i] ELSE f
        BY <1>0, <4>1
      <4> HIDE DEF f
      <4> QED BY <1>0, <4>1, <4>2 DEF ActInv
    <3>3. CASE ~SudoBack /\ ~Sudo
      BY <1>5, <3>3 DEF Login, Su, Exit, Logout, Plain, ActInv
    <3> QED BY <3>1, <3>2, <3>3
  <2> QED BY <2>1, <2>2, <2>3, <2>4 DEF ActInv, Known
<1>6. CASE UNCHANGED sessionVars
  BY <1>6 DEF sessionVars, ActInv, Known
<1> QED BY <1>1, <1>2, <1>3, <1>4, <1>5, <1>6 DEF SessionNext

\* Whoever a command runs for has an account, and from the first login
\* prompt on so has root: the entries of sessions[] and the users sudo goes
\* back to are names that were in the file, and nothing takes one out of it.
THEOREM OnlyAccountsActAlways == SessionSpec => []OnlyAccountsAct
<1>1. SessionInit => ActInv
  BY SessionAssumption DEF SessionInit, ActInv, Known
<1>2. ASSUME SessionInv /\ ActInv, [SessionNext]_sessionVars PROVE (SessionInv /\ ActInv)'
  BY <1>2, StepSessionInv, StepActInv
<1>3. SessionInv /\ ActInv => OnlyAccountsAct
  BY DEF ActInv, Known, OnlyAccountsAct
<1> QED BY <1>1, <1>2, <1>3, InitSessionInv, PTL DEF SessionSpec

---------------------------------------------------------------------------
(* What is published                                                       *)

\* A drive, seen as stored and as its cache has it.
Views(x) == /\ DOMAIN x = {"stored", "cached"}
            /\ DOMAIN x.stored = Parts /\ DOMAIN x.cached = Parts
SetupTypeOK ==
  /\ socket.generation \in Nat /\ target.generation \in Nat
  /\ target.generation <= socket.generation /\ Here \in Drives
  /\ DOMAIN disk = Drives /\ \A d \in Drives : Views(disk[d])
  /\ DOMAIN begun = Drives

\* The parts of a system apart from its sector 0.
WholeSystem(v, build) == /\ v.root = [step |-> Complete, users |-> 2]
                         /\ IF build THEN v.esp = "new" ELSE v.boot = "new"

\* Stored or still in the cache, a sector 0 of Setup stands for parts that
\* are whole in both: whichever of the cached writes get lost.  Nothing is
\* claimed of a drive that took a sector meant for another one.
Sound(d) == d \notin astray /\ begun[d].mode = 0
            /\ (disk[d].stored.mbr.by = "setup" \/ disk[d].cached.mbr.by = "setup")
              => WholeSystem(disk[d].stored, begun[d].efi) /\ WholeSystem(disk[d].cached, begun[d].efi)

Writing == {"boot", "esp", "verify", "root", "files", "publish", "flush"}
Bootable == IF efi THEN "esp" ELSE "boot"

\* An erasing installation that may still write to the drive in the socket.
Erasing == /\ page \in Writing /\ target.generation = socket.generation /\ plan.mode = 0
Progress ==
  /\ page \in Writing /\ target.generation = socket.generation
       => begun[Here].mode = plan.mode /\ begun[Here].efi = efi
  /\ page \in {"review"} \cup Positions => people = 2
  /\ Erasing /\ page # "flush" =>
       disk[Here].stored.mbr.by # "setup" /\ disk[Here].cached.mbr.by # "setup"
  /\ Erasing /\ page \in {"root", "files", "publish", "flush"} =>
       disk[Here].stored[Bootable] = "new" /\ disk[Here].cached[Bootable] = "new"
  /\ Erasing /\ page \in {"publish", "flush"} =>
       /\ disk[Here].stored.root = [step |-> Complete, users |-> 2]
       /\ disk[Here].cached.root = [step |-> Complete, users |-> 2]

PublishInv == SetupTypeOK /\ (\A d \in Drives : Sound(d)) /\ Progress

\* Before Setup is started nothing was begun.
LEMMA InitPublishInv == SetupInit => PublishInv
<1> SUFFICES ASSUME SetupInit PROVE PublishInv
  OBVIOUS
<1>1. PICK d \in Drives : socket = [drive |-> d, generation |-> 0]
  BY DEF SetupInit
<1>2. /\ socket.generation = 0 /\ Here \in Drives /\ target.generation = 0 /\ page = "live"
      /\ DOMAIN disk = Drives /\ DOMAIN begun = Drives /\ \A e \in Drives : begun[e].mode = Never
  BY <1>1 DEF SetupInit, Here
<1>3. ASSUME NEW e \in Drives PROVE Views(disk[e])
  <2>1. Views([stored |-> Fresh, cached |-> Fresh])
    BY DEF Views, Parts, Fresh
  <2>2. Views([stored |-> Earlier, cached |-> Earlier])
    BY DEF Views, Parts, Earlier
  <2> QED BY <2>1, <2>2 DEF SetupInit
<1> QED BY <1>2, <1>3 DEF PublishInv, SetupTypeOK, Sound, Progress, Erasing, Writing, Positions, Never

\* The pages of the wizard write nothing; accounts are complete from the
\* review on.
LEMMA PagesPublishInv ==
  ASSUME PublishInv, UNCHANGED <<socket, disk, astray, begun>>, page' \notin Writing,
         target' = target \/ target'.generation = socket.generation,
         page' \in {"review"} \cup Positions => people' = 2
  PROVE  PublishInv'
<1>1. SetupTypeOK'
  BY DEF PublishInv, SetupTypeOK, Here
<1>2. \A d \in Drives : Sound(d)'
  BY DEF PublishInv, Sound
<1>3. Progress'
  BY DEF Progress, Erasing
<1> QED BY <1>1, <1>2, <1>3 DEF PublishInv

\* The actions that only turn pages or edit the plan.
LEMMA WizardPublishInv ==
  ASSUME PublishInv,
         \/ \E build \in BOOLEAN : StartSetup(build)
         \/ Pages \/ ManualOpen
         \/ \E mode \in 0..1 : Automatic(mode)
         \/ \E s \in 1..Slots, a \in Starts, n \in Sizes :
              \E type \in IF efi THEN {Data, Efi} ELSE {Data} : ManualNew(s, a, n, type)
         \/ \E s \in 1..Slots : ManualDelete(s)
         \/ ManualClear
         \/ \E r \in 1..Slots, e \in IF efi THEN 1..Slots ELSE {NoSlot} : ManualAccept(r, e)
         \/ Check \/ InstallFails
  PROVE  PublishInv'
<1>1. UNCHANGED <<socket, disk, astray, begun>>
  <2>1. CASE Pages
    BY <2>1 DEF Pages, Turn, ScanTargets
  <2>2. CASE \E mode \in 0..1 : Automatic(mode)
    BY <2>2, Zenon DEF Automatic
  <2>3. CASE ~Pages /\ ~\E mode \in 0..1 : Automatic(mode)
    <3>1. \/ (\E build \in BOOLEAN : StartSetup(build)) \/ Check \/ InstallFails
          \/ \E p, to : Edit(p, to)
      BY <2>3, Zenon DEF ManualOpen, ManualNew, ManualDelete, ManualClear, ManualAccept
    <3> QED BY <3>1 DEF StartSetup, Edit, Check, InstallFails
  <2> QED BY <2>1, <2>2, <2>3
<1>2. target' = target \/ target'.generation = socket.generation
  <2>1. CASE Pages
    BY <2>1 DEF Pages, Turn, ScanTargets
  <2>2. CASE \E mode \in 0..1 : Automatic(mode)
    BY <2>2, Zenon DEF Automatic
  <2>3. CASE ~Pages /\ ~\E mode \in 0..1 : Automatic(mode)
    <3>1. \/ (\E build \in BOOLEAN : StartSetup(build)) \/ Check \/ InstallFails
          \/ \E p, to : Edit(p, to)
      BY <2>3, Zenon DEF ManualOpen, ManualNew, ManualDelete, ManualClear, ManualAccept
    <3> QED BY <3>1 DEF StartSetup, Edit, Check, InstallFails
  <2> QED BY <2>1, <2>2, <2>3
<1>3. CASE Pages
  <2>1. page' \notin Writing /\ (page' \in {"review"} \cup Positions =>
          people' = 2 \/ (people' = people /\ page = "review"))
    BY <1>3 DEF Pages, Turn, ScanTargets, Writing, Positions
  <2> QED BY <1>1, <1>2, <2>1, PagesPublishInv DEF PublishInv, Progress
<1>4. CASE Check
  <2>1. page' = "erase" /\ people' = people /\ page = "check"
    BY <1>4 DEF Check
  <2> QED BY <1>1, <1>2, <2>1, PagesPublishInv DEF PublishInv, Progress, Writing, Positions
<1>5. CASE ~Pages /\ ~Check
  <2>1. page' \in {"welcome", "manual", "profile", "error"}
    BY <1>5 DEF StartSetup, ManualOpen, Automatic, ManualNew, ManualDelete,
                ManualClear, ManualAccept, Edit, InstallFails
  <2> QED BY <1>1, <1>2, <2>1, PagesPublishInv DEF Writing, Positions
<1> QED BY <1>3, <1>4, <1>5

\* fdisk is not used on a drive once an installation has begun on it.
LEMMA FdiskPublishInv ==
  ASSUME PublishInv, NEW d \in Drives, NEW t, fdisk(d, t)
  PROVE  PublishInv'
<1> DEFINE v == [disk[d].cached EXCEPT !.mbr = [table |-> t, by |-> "fdisk"]]
<1>1. /\ disk' = [disk EXCEPT ![d] = [stored |-> v, cached |-> v]] /\ begun[d].mode = Never
      /\ page = "live" /\ UNCHANGED <<efi, socket, page, target, plan, people, astray, begun>>
  BY DEF fdisk, FdiskFree
<1>2. Views([stored |-> v, cached |-> v])
  BY DEF PublishInv, SetupTypeOK, Views
<1> HIDE DEF v
<1>3. SetupTypeOK'
  BY <1>1, <1>2 DEF PublishInv, SetupTypeOK, Here
<1>4. ASSUME NEW e \in Drives PROVE Sound(e)'
  BY <1>1 DEF PublishInv, SetupTypeOK, Sound, Never
<1>5. Progress'
  BY <1>1 DEF Progress, Erasing, Writing, Positions
<1> QED BY <1>3, <1>4, <1>5 DEF PublishInv

\* The drives after the one in the socket has lost part of its cache.
Left(kept) == [disk EXCEPT ![Here] = Settled(Here, kept)]
\* What Sound says of a drive, of a value it may have.
SoundAs(d, x) == begun[d].mode = 0 /\ (x.stored.mbr.by = "setup" \/ x.cached.mbr.by = "setup")
                   => WholeSystem(x.stored, begun[d].efi) /\ WholeSystem(x.cached, begun[d].efi)

\* Each cached write may be lost on its own: the parts of a published system
\* are whole in either view.
LEMMA LeftIs ==
  ASSUME PublishInv, NEW kept
  PROVE  /\ DOMAIN Left(kept) = Drives
         /\ \A d \in Drives : Views(Left(kept)[d]) /\ (d \notin astray => SoundAs(d, Left(kept)[d]))
<1> DEFINE v == [p \in Parts |-> IF p \in kept THEN disk[Here].cached[p] ELSE disk[Here].stored[p]]
<1>1. Here \in Drives /\ DOMAIN disk = Drives /\ Settled(Here, kept) = [stored |-> v, cached |-> v]
  BY DEF PublishInv, SetupTypeOK, Settled
<1>2. Views([stored |-> v, cached |-> v])
  BY DEF Views
<1>4. Sound(Here) /\ "mbr" \in Parts /\ "root" \in Parts /\ "boot" \in Parts /\ "esp" \in Parts
  BY <1>1 DEF PublishInv, Parts
<1>5. ASSUME Here \notin astray, begun[Here].mode = 0, v["mbr"].by = "setup"
      PROVE  v["root"] = [step |-> Complete, users |-> 2]
             /\ IF begun[Here].efi THEN v["esp"] = "new" ELSE v["boot"] = "new"
  <2>1. disk[Here].stored.mbr.by = "setup" \/ disk[Here].cached.mbr.by = "setup"
    BY <1>4, <1>5
  <2>2. WholeSystem(disk[Here].stored, begun[Here].efi) /\ WholeSystem(disk[Here].cached, begun[Here].efi)
    BY <1>4, <1>5, <2>1 DEF Sound
  <2> QED BY <1>4, <2>2 DEF WholeSystem
<1> HIDE DEF v
<1>6. DOMAIN Left(kept) = Drives
  BY <1>1 DEF Left
<1>7. ASSUME NEW d \in Drives
      PROVE  Views(Left(kept)[d]) /\ (d \notin astray => SoundAs(d, Left(kept)[d]))
  <2>1. CASE d = Here
    <3>1. Left(kept)[d] = [stored |-> v, cached |-> v]
      BY <1>1, <2>1 DEF Left
    <3> QED BY <1>2, <1>5, <2>1, <3>1 DEF SoundAs, WholeSystem
  <2>2. CASE d # Here
    <3>1. Left(kept)[d] = disk[d] /\ Sound(d) /\ Views(disk[d])
      BY <1>1, <2>2 DEF Left, PublishInv, SetupTypeOK
    <3> QED BY <3>1 DEF Sound, SoundAs
  <2> QED BY <2>1, <2>2
<1> QED BY <1>6, <1>7

\* A step on which cached writes are lost and no position remains from which
\* the installation could go on writing.
LEMMA SettledPublishInv ==
  ASSUME PublishInv, NEW kept, disk' = Left(kept),
         begun' = begun, astray' = astray, target' = target, socket'.generation \in Nat,
         socket'.generation >= socket.generation, Here' \in Drives,
         page' \in Writing => socket'.generation # target.generation,
         page' \in {"review"} \cup Positions => page' = page /\ people' = people
  PROVE  PublishInv'
<1>1. SetupTypeOK'
  <2>1. target'.generation <= socket'.generation
    BY DEF PublishInv, SetupTypeOK
  <2>2. DOMAIN disk' = Drives /\ \A d \in Drives : Views(disk'[d])
    BY LeftIs
  <2> QED BY <2>1, <2>2 DEF PublishInv, SetupTypeOK
<1>2. ASSUME NEW d \in Drives PROVE Sound(d)'
  <2>1. d \notin astray => SoundAs(d, disk'[d])
    BY LeftIs
  <2> QED BY <2>1 DEF Sound, SoundAs
<1>3. Progress'
  BY DEF PublishInv, Progress, Erasing
<1> QED BY <1>1, <1>2, <1>3 DEF PublishInv

\* One sector on another drive changes one part in its cache at most.
LEMMA MisplacedIs ==
  ASSUME NEW x, Views(x), NEW y \in Misplaced(x)
  PROVE  \/ y = x
         \/ \E p \in Parts : \E v \in {Fresh[p], [table |-> plan.table, by |-> "setup"]} :
              /\ p # "mbr" => v = Fresh[p]
              /\ y = [x EXCEPT !.cached[p] = v]
<1>1. "mbr" \in Parts /\ "boot" \in Parts /\ "esp" \in Parts /\ "root" \in Parts
      /\ Fresh.mbr = Fresh["mbr"] /\ Fresh.boot = Fresh["boot"]
  BY DEF Parts
<1> HIDE DEF Fresh, Parts
<1> DEFINE With(p, v) == [x EXCEPT !.cached[p] = v]
           s == [table |-> plan.table, by |-> "setup"]
<1>2. \/ y = x \/ y = With("mbr", Fresh["mbr"]) \/ y = With("mbr", s)
      \/ y = With("boot", Fresh["boot"]) \/ y = With("esp", Fresh["esp"])
      \/ y = With("root", Fresh["root"])
  BY <1>1 DEF Misplaced
<1> HIDE DEF With, s
<1>3. y = x \/ \E p \in Parts : \E v \in {Fresh[p], s} : (p # "mbr" => v = Fresh[p]) /\ y = With(p, v)
  BY <1>1, <1>2
<1> QED BY <1>3 DEF With, s

\* The drive that is enumerated between the comparison and the transfer.
LEMMA LatePublishInv ==
  ASSUME PublishInv, NEW d \in Drives, LateExchange(d) PROVE PublishInv'
<1>1. PICK kept \in SUBSET Unflushed(Here) : \E x \in Misplaced(Left(kept)[d]) :
        disk' = [Left(kept) EXCEPT ![d] = x]
  BY DEF LateExchange, Left
<1>2. PICK x \in Misplaced(Left(kept)[d]) : disk' = [Left(kept) EXCEPT ![d] = x]
  BY <1>1
<1>3. /\ socket' = [drive |-> d, generation |-> socket.generation + 1]
      /\ page' \in {"ready", "error"} /\ astray' = astray \cup {d}
      /\ target' = target /\ begun' = begun
  BY DEF LateExchange
<1>4. DOMAIN Left(kept) = Drives /\ \A e \in Drives : Views(Left(kept)[e])
  BY LeftIs
<1>5. Views(x)
  <2> DEFINE w == Left(kept)[d]
  <2>1. Views(w) /\ x \in Misplaced(w)
    BY <1>4
  <2> HIDE DEF w
  <2>2. x = w \/ \E p \in Parts : \E v : x = [w EXCEPT !.cached[p] = v]
    BY <2>1, MisplacedIs
  <2>3. ASSUME NEW p \in Parts, NEW v PROVE Views([w EXCEPT !.cached[p] = v])
    BY <2>1 DEF Views
  <2> QED BY <2>1, <2>2, <2>3
<1>6. SetupTypeOK'
  <2>1. socket'.generation = socket.generation + 1 /\ Here' = d
    BY <1>3 DEF Here
  <2>2. DOMAIN disk' = Drives /\ \A e \in Drives : Views(disk'[e])
    BY <1>2, <1>4, <1>5
  <2> QED BY <1>3, <2>1, <2>2 DEF PublishInv, SetupTypeOK
<1>7. ASSUME NEW e \in Drives PROVE Sound(e)'
  <2>1. CASE e = d
    BY <1>3, <2>1 DEF Sound
  <2>2. CASE e # d
    <3>1. disk'[e] = Left(kept)[e] /\ (e \notin astray => SoundAs(e, Left(kept)[e]))
      BY <1>2, <1>4, <2>2, LeftIs
    <3> QED BY <1>3, <2>2, <3>1 DEF Sound, SoundAs
  <2> QED BY <2>1, <2>2
<1>8. Progress'
  BY <1>3 DEF Progress, Erasing, Writing, Positions
<1> QED BY <1>6, <1>7, <1>8 DEF PublishInv

\* A swap moves the generation on, and power loss leaves the wizard.
LEMMA WorldPublishInv ==
  ASSUME PublishInv, (\E d \in Drives : Swap(d)) \/ SetupPowerLoss
  PROVE  PublishInv'
<1>1. ASSUME NEW d \in Drives, Swap(d) PROVE PublishInv'
  <2>1. PICK kept \in SUBSET Unflushed(Here) : disk' = Left(kept)
    BY <1>1 DEF Swap, Left
  <2>2. socket'.generation = socket.generation + 1 /\ Here' = d
    BY <1>1 DEF Swap, Here
  <2>3. UNCHANGED <<begun, astray, target, page, people>>
    BY <1>1 DEF Swap
  <2>4. socket.generation \in Nat /\ target.generation \in Nat
        /\ target.generation <= socket.generation
    BY DEF PublishInv, SetupTypeOK
  <2>5. /\ socket'.generation \in Nat /\ socket'.generation >= socket.generation
        /\ socket'.generation # target.generation
    BY <2>2, <2>4
  <2> QED BY <2>1, <2>2, <2>3, <2>5, SettledPublishInv
<1>2. CASE SetupPowerLoss
  <2>1. PICK kept \in SUBSET Unflushed(Here) : disk' = Left(kept)
    BY <1>2 DEF SetupPowerLoss, Left
  <2>2. page' = "live" /\ begun' = begun /\ astray' = astray /\ target' = target /\ socket' = socket
    BY <1>2 DEF SetupPowerLoss
  <2>3. socket'.generation \in Nat /\ socket'.generation >= socket.generation /\ Here' \in Drives
    BY <2>2 DEF PublishInv, SetupTypeOK, Here
  <2> QED BY <2>1, <2>2, <2>3, SettledPublishInv DEF Writing, Positions
<1> QED BY <1>1, <1>2

\* The erasing installation clears sector 0 before anything else.
LEMMA ErasePublishInv == ASSUME PublishInv, EraseFirst PROVE PublishInv'
<1>1. /\ page = "erase" /\ page' = "boot" /\ disk' = Cleared
      /\ begun' = [begun EXCEPT ![Here] = [mode |-> plan.mode, efi |-> efi]]
      /\ UNCHANGED <<efi, socket, target, plan, people, astray>>
  BY DEF EraseFirst
<1>2. Here \in Drives /\ DOMAIN disk = Drives /\ Views(disk[Here]) /\ DOMAIN begun = Drives
  BY DEF PublishInv, SetupTypeOK
<1> DEFINE c == [disk[Here].cached EXCEPT !["mbr"] = Fresh.mbr]
<1>3. disk' = IF plan.mode = 0 THEN [disk EXCEPT ![Here] = [stored |-> c, cached |-> c]] ELSE disk
  BY <1>1 DEF Cleared, PutFlushed
<1>4. Views([stored |-> c, cached |-> c]) /\ c["mbr"].by = "none"
  BY <1>2 DEF Views, Parts, Fresh
<1> HIDE DEF c
<1>5. SetupTypeOK'
  BY <1>1, <1>2, <1>3, <1>4 DEF PublishInv, SetupTypeOK, Here
<1>6. begun'[Here].mode = plan.mode /\ begun'[Here].efi = efi /\ Here' = Here
  BY <1>1, <1>2 DEF Here
<1>7. plan.mode = 0 => disk'[Here].stored.mbr.by = "none" /\ disk'[Here].cached.mbr.by = "none"
  BY <1>2, <1>3, <1>4
<1>8. ASSUME NEW d \in Drives PROVE Sound(d)'
  <2>1. CASE d = Here
    BY <1>6, <1>7, <2>1 DEF Sound
  <2>2. CASE d # Here
    <3>1. disk'[d] = disk[d] /\ begun'[d] = begun[d]
      BY <1>1, <1>2, <1>3, <2>2
    <3> QED BY <1>1, <3>1 DEF PublishInv, Sound
  <2> QED BY <2>1, <2>2
<1>9. Progress'
  BY <1>1, <1>6, <1>7 DEF PublishInv, Progress, Erasing, Writing, Positions
<1> QED BY <1>5, <1>8, <1>9 DEF PublishInv

\* A step of install_image() that changes one part of the drive in the
\* socket, in its cache or through it.
LEMMA GoPublishInv ==
  ASSUME PublishInv, NEW from, NEW to, NEW d, NEW n, Go(from, to, d, n),
         from \in Writing, to \in Writing \cup {"ready"},
         NEW x, Views(x), d = [disk EXCEPT ![Here] = x],
         \* nothing is published before the end, and then all of it is there
         plan.mode = 0 /\ (x.stored.mbr.by = "setup" \/ x.cached.mbr.by = "setup") =>
           WholeSystem(x.stored, efi) /\ WholeSystem(x.cached, efi),
         plan.mode = 0 /\ to \notin {"flush", "ready"} =>
           x.stored.mbr.by # "setup" /\ x.cached.mbr.by # "setup",
         plan.mode = 0 /\ to \in {"root", "files", "publish", "flush"} =>
           x.stored[Bootable] = "new" /\ x.cached[Bootable] = "new",
         plan.mode = 0 /\ to \in {"publish", "flush"} =>
           /\ x.stored.root = [step |-> Complete, users |-> 2]
           /\ x.cached.root = [step |-> Complete, users |-> 2]
  PROVE  PublishInv'
<1>1. /\ page = from /\ page' = to /\ disk' = d /\ target.generation = socket.generation
      /\ UNCHANGED <<efi, socket, target, plan, people, astray, begun>>
  BY DEF Go, SameDrive
<1>2. Here \in Drives /\ DOMAIN disk = Drives /\ Here' = Here
  BY <1>1 DEF PublishInv, SetupTypeOK, Here
<1>3. begun[Here].mode = plan.mode /\ begun[Here].efi = efi /\ people = 2
  BY <1>1 DEF PublishInv, Progress, Writing, Positions
<1>4. disk'[Here] = x /\ DOMAIN disk' = Drives /\ \A e \in Drives : e # Here => disk'[e] = disk[e]
  BY <1>1, <1>2
<1>5. SetupTypeOK'
  BY <1>1, <1>2, <1>4 DEF PublishInv, SetupTypeOK
<1>6. ASSUME NEW e \in Drives PROVE Sound(e)'
  <2>1. CASE e = Here
    BY <1>1, <1>3, <1>4, <2>1 DEF Sound
  <2>2. CASE e # Here
    BY <1>1, <1>4, <2>2 DEF PublishInv, Sound
  <2> QED BY <2>1, <2>2
<1>7. Progress'
  <2>1. Bootable' = Bootable
    BY <1>1 DEF Bootable
  <2> QED BY <1>1, <1>2, <1>3, <1>4, <2>1 DEF Progress, Erasing, Writing
<1> QED BY <1>5, <1>6, <1>7 DEF PublishInv

\* One part in the cache, one part through it, and the whole cache written.
InCache(p, v) == [stored |-> disk[Here].stored, cached |-> [disk[Here].cached EXCEPT ![p] = v]]
Through(p, v) == LET c == [disk[Here].cached EXCEPT ![p] = v] IN [stored |-> c, cached |-> c]
Flushed == [stored |-> disk[Here].cached, cached |-> disk[Here].cached]

\* The three ways install_image() writes, as changes of one drive.
LEMMA DriveWrites ==
  ASSUME PublishInv, NEW p \in Parts, NEW v
  PROVE  /\ Put(p, v) = [disk EXCEPT ![Here] = InCache(p, v)] /\ Views(InCache(p, v))
         /\ PutFlushed(p, v) = [disk EXCEPT ![Here] = Through(p, v)] /\ Views(Through(p, v))
         /\ [disk EXCEPT ![Here].stored = disk[Here].cached] = [disk EXCEPT ![Here] = Flushed]
         /\ Views(Flushed)
         /\ \A q \in Parts :
              /\ InCache(p, v).stored[q] = disk[Here].stored[q]
              /\ InCache(p, v).cached[q] = IF q = p THEN v ELSE disk[Here].cached[q]
              /\ Through(p, v).stored[q] = IF q = p THEN v ELSE disk[Here].cached[q]
              /\ Through(p, v).cached[q] = IF q = p THEN v ELSE disk[Here].cached[q]
              /\ Flushed.stored[q] = disk[Here].cached[q]
              /\ Flushed.cached[q] = disk[Here].cached[q]
<1>1. Here \in Drives /\ DOMAIN disk = Drives /\ Views(disk[Here])
  BY DEF PublishInv, SetupTypeOK
<1>2. [disk[Here] EXCEPT !.cached = [@ EXCEPT ![p] = v]] = InCache(p, v)
  BY <1>1 DEF Views, InCache
<1>3. Put(p, v) = [disk EXCEPT ![Here] = InCache(p, v)]
  BY <1>1, <1>2 DEF Put
<1>4. [disk[Here] EXCEPT !.stored = disk[Here].cached] = Flushed
  BY <1>1 DEF Views, Flushed
<1>5. [disk EXCEPT ![Here].stored = disk[Here].cached] = [disk EXCEPT ![Here] = Flushed]
  BY <1>1, <1>4
<1>6. PutFlushed(p, v) = [disk EXCEPT ![Here] = Through(p, v)]
  BY DEF PutFlushed, Through
<1>7. Views(InCache(p, v)) /\ Views(Through(p, v)) /\ Views(Flushed)
  BY <1>1 DEF Views, InCache, Through, Flushed
<1>8. ASSUME NEW q \in Parts
      PROVE  /\ InCache(p, v).stored[q] = disk[Here].stored[q]
             /\ InCache(p, v).cached[q] = IF q = p THEN v ELSE disk[Here].cached[q]
             /\ Through(p, v).stored[q] = IF q = p THEN v ELSE disk[Here].cached[q]
             /\ Through(p, v).cached[q] = IF q = p THEN v ELSE disk[Here].cached[q]
             /\ Flushed.stored[q] = disk[Here].cached[q]
             /\ Flushed.cached[q] = disk[Here].cached[q]
  BY <1>1 DEF Views, InCache, Through, Flushed
<1> QED BY <1>3, <1>5, <1>6, <1>7, <1>8

\* Boot area, ESP, verification and root are written before sector 0.
LEMMA InstallPublishInv ==
  ASSUME PublishInv, WriteBoot \/ WriteEsp \/ Verify \/ WriteRoot \/ PublishWrite \/ PublishFlush
  PROVE  PublishInv'
<1>1. /\ "mbr" \in Parts /\ "boot" \in Parts /\ "esp" \in Parts /\ "root" \in Parts
      /\ Bootable \in {"boot", "esp"} /\ Bootable \in Parts
      /\ Bootable = IF efi THEN "esp" ELSE "boot"
  BY DEF Parts, Bootable
<1>2. Progress
  BY DEF PublishInv
<1>3. ASSUME NEW p \in {"boot", "esp"}, NEW v, NEW from \in {"boot", "esp"},
             NEW to \in {"esp", "verify"}, NEW n, Go(from, to, Put(p, v), n)
      PROVE  PublishInv'
  <2>1. /\ plan.mode = 0 => /\ InCache(p, v).stored["mbr"].by # "setup"
                            /\ InCache(p, v).cached["mbr"].by # "setup"
    <3>1. page = from /\ target.generation = socket.generation
      BY <1>3 DEF Go, SameDrive
    <3> QED BY <1>1, <1>2, <3>1, DriveWrites DEF Progress, Erasing, Writing
  <2>2. Put(p, v) = [disk EXCEPT ![Here] = InCache(p, v)] /\ Views(InCache(p, v))
    BY <1>1, DriveWrites
  <2> HIDE DEF InCache
  <2> QED BY <1>3, <2>1, <2>2, GoPublishInv DEF Writing
<1>4. CASE WriteBoot
  BY <1>3, <1>4 DEF WriteBoot
<1>5. CASE WriteEsp
  BY <1>3, <1>5 DEF WriteEsp
<1>6. CASE Verify
  <2>1. Go("verify", "root", [disk EXCEPT ![Here].stored = disk[Here].cached], {})
        /\ disk[Here].cached[Bootable] = "new"
    BY <1>6 DEF Verify, Verified, Bootable
  <2>2. page = "verify" /\ target.generation = socket.generation
    BY <2>1 DEF Go, SameDrive
  <2>3. /\ [disk EXCEPT ![Here].stored = disk[Here].cached] = [disk EXCEPT ![Here] = Flushed]
        /\ Views(Flushed) /\ Flushed.stored[Bootable] = "new" /\ Flushed.cached[Bootable] = "new"
        /\ plan.mode = 0 => Flushed.stored["mbr"].by # "setup" /\ Flushed.cached["mbr"].by # "setup"
    BY <1>1, <1>2, <2>1, <2>2, DriveWrites DEF Progress, Erasing, Writing
  <2> HIDE DEF Flushed
  <2> QED BY <2>1, <2>3, GoPublishInv DEF Writing
<1>7. CASE WriteRoot
  <2> DEFINE new == IF page = "root" THEN 1 ELSE disk[Here].cached.root.step + 1
             r == [step |-> new, users |-> IF new = Complete THEN people ELSE 0]
             to == IF new = Complete THEN "publish" ELSE "files"
  <2>1. page \in {"root", "files"}
        /\ Go(page, to, PutFlushed("root", r), Sectors(plan.table[plan.root]))
    BY <1>7 DEF WriteRoot
  <2>2. target.generation = socket.generation /\ people = 2
    BY <1>2, <2>1 DEF Go, SameDrive, Progress, Positions
  <2>3. to = "publish" => r = [step |-> Complete, users |-> 2]
    BY <2>2
  <2>4. to \in {"publish", "files"}
    OBVIOUS
  <2> HIDE DEF new, r, to
  <2>5. /\ PutFlushed("root", r) = [disk EXCEPT ![Here] = Through("root", r)] /\ Views(Through("root", r))
        /\ Through("root", r).stored["root"] = r /\ Through("root", r).cached["root"] = r
    BY <1>1, DriveWrites
  <2>6. plan.mode = 0 => /\ Through("root", r).stored[Bootable] = "new"
                         /\ Through("root", r).cached[Bootable] = "new"
                         /\ Through("root", r).stored["mbr"].by # "setup"
                         /\ Through("root", r).cached["mbr"].by # "setup"
    BY <1>1, <1>2, <2>1, <2>2, DriveWrites DEF Progress, Erasing, Writing
  <2> HIDE DEF Through
  <2> QED BY <2>1, <2>3, <2>4, <2>5, <2>6, GoPublishInv DEF Writing
<1>8. CASE PublishWrite
  <2> DEFINE v == [table |-> plan.table, by |-> "setup"]
  <2>1. Go("publish", "flush", Put("mbr", v), {0})
    BY <1>8 DEF PublishWrite
  <2>2. page = "publish" /\ target.generation = socket.generation
    BY <2>1 DEF Go, SameDrive
  <2> HIDE DEF v
  <2>3. Put("mbr", v) = [disk EXCEPT ![Here] = InCache("mbr", v)] /\ Views(InCache("mbr", v))
    BY <1>1, DriveWrites
  <2>4. plan.mode = 0 => /\ InCache("mbr", v).stored[Bootable] = "new"
                         /\ InCache("mbr", v).cached[Bootable] = "new"
                         /\ InCache("mbr", v).stored["root"] = [step |-> Complete, users |-> 2]
                         /\ InCache("mbr", v).cached["root"] = [step |-> Complete, users |-> 2]
    BY <1>1, <1>2, <2>2, DriveWrites DEF Progress, Erasing, Writing
  <2> HIDE DEF InCache
  <2>5. plan.mode = 0 => /\ WholeSystem(InCache("mbr", v).stored, efi)
                         /\ WholeSystem(InCache("mbr", v).cached, efi)
    BY <1>1, <2>4 DEF WholeSystem
  <2> QED BY <2>1, <2>3, <2>4, <2>5, GoPublishInv DEF Writing
<1>9. CASE PublishFlush
  <2>1. Go("flush", "ready", [disk EXCEPT ![Here].stored = disk[Here].cached], {})
    BY <1>9 DEF PublishFlush
  <2>2. page = "flush" /\ target.generation = socket.generation
    BY <2>1 DEF Go, SameDrive
  <2>3. [disk EXCEPT ![Here].stored = disk[Here].cached] = [disk EXCEPT ![Here] = Flushed]
        /\ Views(Flushed)
    BY <1>1, DriveWrites
  <2>4. plan.mode = 0 => /\ Flushed.stored[Bootable] = "new" /\ Flushed.cached[Bootable] = "new"
                         /\ Flushed.stored["root"] = [step |-> Complete, users |-> 2]
                         /\ Flushed.cached["root"] = [step |-> Complete, users |-> 2]
    BY <1>1, <1>2, <2>2, DriveWrites DEF Progress, Erasing, Writing
  <2> HIDE DEF Flushed
  <2>5. plan.mode = 0 => WholeSystem(Flushed.stored, efi) /\ WholeSystem(Flushed.cached, efi)
    BY <1>1, <2>4 DEF WholeSystem
  <2> QED BY <2>1, <2>3, <2>5, GoPublishInv DEF Writing
<1> QED BY <1>4, <1>5, <1>6, <1>7, <1>8, <1>9

\* Every step of Setup, fdisk and the world keeps what is published whole.
LEMMA NextPublishInv == ASSUME PublishInv, [SetupNext]_setupVars PROVE PublishInv'
<1>1. CASE UNCHANGED setupVars
  <2>1. Bootable' = Bootable /\ Here' = Here
    BY <1>1 DEF setupVars, Bootable, Here
  <2>2. SetupTypeOK'
    BY <1>1 DEF setupVars, PublishInv, SetupTypeOK, Here
  <2>3. \A d \in Drives : Sound(d)'
    BY <1>1 DEF setupVars, PublishInv, Sound
  <2>4. Progress'
    BY <1>1, <2>1 DEF setupVars, PublishInv, Progress, Erasing
  <2> QED BY <2>2, <2>3, <2>4 DEF PublishInv
<1>2. CASE \/ \E d \in Edited, s \in 1..Slots, a \in Starts, n \in Sizes : FdiskNew(d, s, a, n)
           \/ \E d \in Edited, n \in Sizes : FdiskAuto(d, n)
           \/ \E d \in Edited, s \in 1..Slots : FdiskDelete(d, s)
           \/ \E d \in Edited : FdiskWipe(d)
  <2>1. \E d \in Edited : \E t : fdisk(d, t)
    BY <1>2, Zenon DEF FdiskNew, FdiskAuto, FdiskDelete, FdiskWipe
  <2> QED BY <2>1, FdiskPublishInv, SetupAssumption
<1> QED BY <1>1, <1>2, WizardPublishInv, WorldPublishInv, LatePublishInv, ErasePublishInv,
           InstallPublishInv DEF SetupNext

\* After an erasing installation has begun on a drive, its sector 0 names a
\* bootable system only when all of it is stored, whatever fails, is removed
\* or loses its power, whenever, and however often it is tried again
\* (install_image()).  Drives that took a sector meant for another one, by
\* an exchange between comparison and transfer, are set aside.
THEOREM PublishedIsWholeAlways == SetupSpec => []PublishedIsWhole
<1>1. PublishInv => PublishedIsWhole
  BY DEF PublishInv, Sound, WholeSystem, PublishedIsWhole
<1> QED BY <1>1, InitPublishInv, NextPublishInv, PTL DEF SetupSpec

---------------------------------------------------------------------------
(* What partition_auto computes                                            *)

Entries == [start : Nat, size : Nat, type : {"free", Data, Efi}]
Tables == [1..Slots -> Entries]
Found3 == [is : {"search", "found", "full"}, start : Nat, size : Nat]

\* The ends of the partitions of a table are bounded.
LEMMA TableBound ==
  ASSUME NEW t \in Tables
  PROVE  \E b \in Nat : \A i \in 1..Slots : t[i].start + t[i].size <= b
<1> DEFINE Bad == {k \in 0..Slots : ~\E b \in Nat : \A i \in 1..k : t[i].start + t[i].size <= b}
<1>1. SUFFICES ASSUME Bad # {} PROVE FALSE
  <2>1. Slots \in 0..Slots
    BY PartitionAssumption
  <2> QED BY <2>1
<1>2. PICK k \in Bad : \A j \in Bad : k <= j
  <2>1. Bad \in SUBSET Nat
    OBVIOUS
  <2> QED BY <1>1, <2>1, LeastNat
<1>3. k # 0
  BY <1>2
<1>4. PICK b \in Nat : \A i \in 1..k - 1 : t[i].start + t[i].size <= b
  <2>1. k - 1 \in 0..Slots /\ ~(k <= k - 1)
    BY <1>2, <1>3, PartitionAssumption
  <2>2. k - 1 \notin Bad
    BY <1>2, <2>1
  <2> QED BY <2>1, <2>2
<1> DEFINE e == t[k].start + t[k].size
<1>5. e \in Nat
  <2>1. k \in 1..Slots /\ t[k] \in Entries
    BY <1>3, PartitionAssumption DEF Tables
  <2> QED BY <2>1 DEF Entries
<1> HIDE DEF e
<1>6. PICK c \in Nat : b <= c /\ e <= c
  <2>1. b + e \in Nat /\ b <= b + e /\ e <= b + e
    BY <1>5
  <2> QED BY <2>1
<1>7. \A i \in 1..k : t[i].start + t[i].size <= c
  <2> SUFFICES ASSUME NEW i \in 1..k PROVE t[i].start + t[i].size <= c
    OBVIOUS
  <2>1. CASE i = k
    BY <1>6, <2>1 DEF e
  <2>2. CASE i # k
    <3>1. i \in 1..k - 1 /\ t[i] \in Entries
      BY <1>3, <2>2, PartitionAssumption DEF Tables
    <3>2. t[i].start + t[i].size \in Nat /\ t[i].start + t[i].size <= b
      BY <1>4, <3>1 DEF Entries
    <3> QED BY <1>6, <3>2
  <2> QED BY <2>1, <2>2
<1> QED BY <1>2, <1>7

\* A free slot that is found is free.
LEMMA FreeSlotFree ==
  ASSUME NEW t, FreeSlot(t) # NoSlot
  PROVE  FreeSlot(t) \in 1..Slots /\ FreeSlot(t) \notin InUse(t)
<1> DEFINE F == (1..Slots) \ InUse(t)
<1>1. F # {} /\ F \in SUBSET Nat /\ FreeSlot(t) = Min(F)
  BY DEF FreeSlot, InUse
<1>2. \E x \in F : \A y \in F : x <= y
  BY <1>1, LeastNat
<1>3. Min(F) \in F
  BY <1>2 DEF Min
<1> QED BY <1>1, <1>3

\* The next multiple of the alignment.
LEMMA AlignUpType == ASSUME NEW n \in Nat PROVE AlignUp(n) \in Nat
<1>1. n + Align - 1 \in Nat /\ Align \in Nat \ {0}
  BY PartitionAssumption
<1>2. (n + Align - 1) \div Align \in Nat
  BY <1>1
<1> QED BY <1>1, <1>2 DEF AlignUp

\* One round of the search yields sectors.
LEMMA RoundType ==
  ASSUME NEW t \in Tables, NEW n \in Nat, NEW s, NEW size \in Nat, NEW type, NEW start \in Nat
  PROVE  Round(t, n, s, size, type, start) \in Found3
<1> DEFINE covering == {i \in InUse(t) : t[i].start <= start /\ t[i].start + t[i].size > start}
           ends == {t[i].start + t[i].size : i \in covering}
           starts == {n} \cup {t[i].start : i \in {j \in InUse(t) : t[j].start > start}}
           end == Min(starts)
           room == IF end > start THEN end - start ELSE 0
           wanted == IF size > 0 THEN size ELSE room
<1>1. \A i \in InUse(t) : i \in 1..Slots /\ t[i].start \in Nat /\ t[i].size \in Nat
  BY DEF InUse, Tables, Entries
<1>2. end \in Nat
  <2>1. starts \in SUBSET Nat /\ starts # {}
    BY <1>1
  <2>2. \E x \in starts : \A y \in starts : x <= y
    BY <2>1, LeastNat
  <2> QED BY <2>1, <2>2 DEF Min
<1>3. ASSUME covering # {} PROVE AlignUp(Max(ends)) \in Nat
  <2>1. ends \in SUBSET Nat /\ ends # {}
    BY <1>1, <1>3
  <2>2. PICK b \in Nat : \A i \in 1..Slots : t[i].start + t[i].size <= b
    BY TableBound
  <2>3. \A x \in ends : x <= b
    BY <1>1, <2>2
  <2>4. PICK x \in ends : \A y \in ends : y <= x
    BY <2>1, <2>2, <2>3, GreatestNat
  <2>5. \A y \in ends : x >= y
    BY <2>1, <2>4
  <2>6. Max(ends) \in ends
    BY <2>5 DEF Max
  <2> QED BY <2>1, <2>6, AlignUpType
<1>4. room \in Nat /\ wanted \in Nat
  BY <1>2
<1>5. Round(t, n, s, size, type, start) =
        IF covering # {} THEN [is |-> "search", start |-> AlignUp(Max(ends)), size |-> 0]
        ELSE IF wanted > 0 /\ room >= wanted /\ CanAdd(t, n, s, start, wanted, type)
        THEN [is |-> "found", start |-> start, size |-> wanted]
        ELSE IF end = n THEN [is |-> "full", start |-> start, size |-> 0]
        ELSE [is |-> "search", start |-> end, size |-> 0]
  BY DEF Round
<1> HIDE DEF covering, ends, end, room, wanted
<1> QED BY <1>2, <1>3, <1>4, <1>5 DEF Found3

\* The rounds of the search, as a function; the definition by recursion has
\* one because it can be built round by round.
Rounds(f, k, t, n, size, type) ==
  f = [m \in 0..k |-> IF m = 0 THEN [is |-> "search", start |-> Align, size |-> 0]
                      ELSE IF f[m - 1].is # "search" THEN f[m - 1]
                      ELSE Round(t, n, FreeSlot(t), size, type, f[m - 1].start)]

\* The rounds of partition_auto exist.
LEMMA RoundsExist == ASSUME NEW t, NEW n, NEW size, NEW type
                     PROVE  \E f : Rounds(f, Attempts, t, n, size, type)
<1> DEFINE Bad == {k \in Nat : ~\E f : Rounds(f, k, t, n, size, type)}
<1>1. SUFFICES ASSUME Bad # {} PROVE FALSE
  BY PartitionAssumption
<1>2. PICK k \in Bad : \A j \in Bad : k <= j
  BY <1>1, LeastNat
<1> DEFINE S(x) == IF x.is # "search" THEN x ELSE Round(t, n, FreeSlot(t), size, type, x.start)
           a == [is |-> "search", start |-> Align, size |-> 0]
<1>3. \A f, j : Rounds(f, j, t, n, size, type) <=>
                 f = [m \in 0..j |-> IF m = 0 THEN a ELSE S(f[m - 1])]
  BY DEF Rounds
<1> HIDE DEF S, a
<1>4. k # 0
  <2> DEFINE h == [m \in 0..0 |-> a]
  <2>1. \A m \in 0..0 : h[m] = IF m = 0 THEN a ELSE S(h[m - 1])
    OBVIOUS
  <2>2. h = [m \in 0..0 |-> IF m = 0 THEN a ELSE S(h[m - 1])]
    BY <2>1
  <2>3. Rounds(h, 0, t, n, size, type)
    BY <1>3, <2>2
  <2> QED BY <1>2, <2>3
<1>5. PICK f : Rounds(f, k - 1, t, n, size, type)
  <2>1. k - 1 \in Nat /\ ~(k <= k - 1)
    BY <1>2, <1>4
  <2>2. k - 1 \notin Bad
    BY <1>2, <2>1
  <2> QED BY <2>1, <2>2
<1> DEFINE g == [m \in 0..k |-> IF m < k THEN f[m] ELSE S(f[k - 1])]
<1>6. \A m \in 0..k : g[m] = IF m = 0 THEN a ELSE S(g[m - 1])
  <2> TAKE m \in 0..k
  <2>1. CASE m = k
    BY <1>2, <1>4, <2>1
  <2>2. CASE m < k
    <3>1. m \in 0..k - 1 /\ (m # 0 => m - 1 \in 0..k - 1 /\ m - 1 < k)
      BY <1>2, <1>4, <2>2
    <3>2. f[m] = IF m = 0 THEN a ELSE S(f[m - 1])
      BY <1>3, <1>5, <3>1
    <3> QED BY <2>2, <3>1, <3>2
  <2> QED BY <2>1, <2>2
<1>7. Rounds(g, k, t, n, size, type)
  BY <1>3, <1>6
<1> QED BY <1>2, <1>7

\* What the search of partition_auto finds are sectors.
LEMMA SearchType ==
  ASSUME NEW t \in Tables, NEW n \in Nat, NEW size \in Nat, NEW type
  PROVE  Search(t, n, size, type) \in Found3
<1> DEFINE f == CHOOSE f : Rounds(f, Attempts, t, n, size, type)
<1>1. Rounds(f, Attempts, t, n, size, type)
  BY RoundsExist
<1>2. Search(t, n, size, type) = f[Attempts]
  BY DEF Search, Rounds
<1> HIDE DEF f
<1> DEFINE Bad == {k \in 0..Attempts : f[k] \notin Found3}
<1>3. SUFFICES ASSUME Bad # {} PROVE FALSE
  <2>1. Attempts \in 0..Attempts
    BY PartitionAssumption
  <2> QED BY <1>2, <2>1
<1>4. PICK k \in Bad : \A j \in Bad : k <= j
  <2>1. Bad \in SUBSET Nat
    OBVIOUS
  <2> QED BY <1>3, <2>1, LeastNat
<1>5. f[k] = IF k = 0 THEN [is |-> "search", start |-> Align, size |-> 0]
             ELSE IF f[k - 1].is # "search" THEN f[k - 1]
             ELSE Round(t, n, FreeSlot(t), size, type, f[k - 1].start)
  BY <1>1 DEF Rounds
<1>6. k # 0
  BY <1>4, <1>5, PartitionAssumption DEF Found3
<1>7. f[k - 1] \in Found3
  <2>1. k - 1 \in 0..Attempts /\ ~(k <= k - 1)
    BY <1>4, <1>6, PartitionAssumption
  <2> QED BY <1>4, <2>1
<1>8. f[k - 1].start \in Nat
  BY <1>7 DEF Found3
<1> QED BY <1>4, <1>5, <1>6, <1>7, <1>8, RoundType

\* partition_auto fills a free slot and keeps the others.
LEMMA AutoKeeps ==
  ASSUME NEW t \in Tables, NEW n \in Nat, NEW size \in Nat, NEW type \in {Data, Efi}
  PROVE  /\ AutoAdded(t, n, size, type) \in Tables
         /\ AutoSlot(t, n, size, type) \in 0..Slots
         /\ \A s \in InUse(t) : /\ AutoAdded(t, n, size, type)[s] = t[s]
                                /\ s # AutoSlot(t, n, size, type)
                                /\ s \in InUse(AutoAdded(t, n, size, type))
<1> DEFINE r == Search(t, n, size, type)
           e == [start |-> r.start, size |-> r.size, type |-> type]
<1>1. e \in Entries
  BY SearchType DEF Found3, Entries
<1>2. InUse(t) \subseteq 1..Slots /\ NoSlot \in 0..Slots /\ NoSlot \notin InUse(t)
  BY PartitionAssumption DEF InUse, NoSlot
<1> HIDE DEF r, e
<1>3. CASE AutoSlot(t, n, size, type) = NoSlot
  <2>1. AutoAdded(t, n, size, type) = t
    BY <1>3 DEF AutoAdded
  <2> QED BY <1>2, <1>3, <2>1
<1>4. CASE AutoSlot(t, n, size, type) # NoSlot
  <2>1. AutoSlot(t, n, size, type) = FreeSlot(t) /\ FreeSlot(t) # NoSlot
    BY <1>4 DEF AutoSlot
  <2>2. FreeSlot(t) \in 1..Slots /\ FreeSlot(t) \notin InUse(t) /\ FreeSlot(t) \in 0..Slots
    BY <2>1, FreeSlotFree
  <2>3. AutoAdded(t, n, size, type) = [t EXCEPT ![FreeSlot(t)] = e]
    BY <1>4 DEF AutoAdded, Added, r, e
  <2>4. AutoAdded(t, n, size, type) \in Tables
    BY <1>1, <2>3 DEF Tables
  <2>5. \A s \in InUse(t) : AutoAdded(t, n, size, type)[s] = t[s]
    BY <1>2, <2>2, <2>3 DEF Tables
  <2> QED BY <1>2, <2>1, <2>2, <2>4, <2>5 DEF InUse
<1> QED BY <1>3, <1>4

---------------------------------------------------------------------------
(* What is kept                                                            *)

Plans == [table : Tables, sectors : Nat, mode : 0..2, root : 0..Slots, esp : 0..Slots]
TablesOK == /\ plan \in Plans /\ target.sectors \in Nat /\ efi \in BOOLEAN
            /\ \A d \in Drives : /\ disk[d].stored.mbr.table \in Tables
                                 /\ disk[d].cached.mbr.table \in Tables

\* The pages on which a plan is complete, and what it knows of the drive.
Planned == {"profile", "settings", "users", "review"} \cup Positions
HereTable == disk[Here].cached.mbr.table
PlanOK == /\ page = "manual" => plan.mode = 2
          /\ page = "esp" => efi
          /\ page \in Planned =>
               /\ valid_layout(plan)
               /\ target.generation = socket.generation /\ plan.mode = 1 =>
                    \A s \in InUse(HereTable) : plan.table[s] = HereTable[s]

KeepInv == TablesOK /\ PlanOK /\ ForeignKept

\* No plan, and nothing harmed.
LEMMA InitKeepInv == SetupInit => KeepInv
<1> SUFFICES ASSUME SetupInit PROVE KeepInv
  OBVIOUS
<1> USE PartitionAssumption, SetupAssumption
<1>1. Unused \in Entries /\ NoTable \in Tables
  BY DEF Unused, Entries, NoTable, Tables
<1>2. NoPlan \in Plans
  BY <1>1 DEF NoPlan, NoSlot, Plans
<1>3. Added(NoTable, 1, Align, RootMin, Data) \in Tables
  <2>1. [start |-> Align, size |-> RootMin, type |-> Data] \in Entries
    BY DEF Entries
  <2> QED BY <1>1, <2>1 DEF Added, Tables
<1>4. ASSUME NEW d \in Drives
      PROVE  disk[d].stored.mbr.table \in Tables /\ disk[d].cached.mbr.table \in Tables
  <2>1. disk[d] = IF d \in Edited THEN [stored |-> Fresh, cached |-> Fresh]
                  ELSE [stored |-> Earlier, cached |-> Earlier]
    BY DEF SetupInit
  <2>2. Fresh.mbr.table = NoTable /\ Earlier.mbr.table = Added(NoTable, 1, Align, RootMin, Data)
    BY DEF Fresh, Earlier
  <2> HIDE DEF Fresh, Earlier
  <2> QED BY <1>1, <1>3, <2>1, <2>2
<1>5. TablesOK
  BY <1>2, <1>4 DEF SetupInit, TablesOK
<1> QED BY <1>5 DEF SetupInit, KeepInv, PlanOK, Planned, Positions, ForeignKept

\* Pages and the plan: what leaves the layout page is valid, and made from
\* the table of the drive in the socket.
LEMMA EditKeepInv ==
  ASSUME PublishInv, KeepInv, UNCHANGED <<socket, disk, harmed, astray>>,
         target' = target \/ target'.sectors \in Nat,
         plan' \in Plans, efi' \in BOOLEAN, page' = "manual" => plan'.mode = 2,
         page' # "esp",
         page' \in Planned =>
            \/ page \in Planned /\ UNCHANGED <<efi, plan, target>>
            \/ /\ valid_layout(plan)'
               /\ plan'.mode = 1 => \A s \in InUse(HereTable) : plan'.table[s] = HereTable[s]
  PROVE  KeepInv'
<1>1. TablesOK' /\ ForeignKept'
  BY DEF KeepInv, TablesOK, ForeignKept
<1>2. HereTable' = HereTable
  BY DEF HereTable, Here
<1>3. PlanOK'
  <2>1. CASE page \in Planned /\ UNCHANGED <<efi, plan, target>>
    <3>1. valid_layout(plan)' <=> valid_layout(plan)
      BY <2>1 DEF valid_layout
    <3> QED BY <1>2, <2>1, <3>1 DEF KeepInv, PlanOK, Planned, Positions
  <2>2. CASE ~(page \in Planned /\ UNCHANGED <<efi, plan, target>>)
    BY <1>2, <2>2 DEF PlanOK
  <2> QED BY <2>1, <2>2
<1> QED BY <1>1, <1>3 DEF KeepInv

\* A layout that is kept automatically holds the partitions of the drive.
LEMMA AutomaticKeepInv ==
  ASSUME PublishInv, KeepInv, NEW mode \in 0..1, Automatic(mode)
  PROVE  KeepInv'
<1> USE PartitionAssumption, SetupAssumption
<1> DEFINE n  == IF mode = 0 THEN target.sectors ELSE Capacity[Here]
           t0 == IF mode = 0 THEN NoTable ELSE HereTable
           e  == AutoSlot(t0, n, EspSize, Efi)
           t1 == IF efi THEN AutoAdded(t0, n, EspSize, Efi) ELSE t0
           r  == AutoSlot(t1, n, 0, Data)
           t2 == AutoAdded(t1, n, 0, Data)
           t3 == IF r = NoSlot THEN t2 ELSE [t2 EXCEPT ![r].size = IF @ > RootMax THEN RootMax ELSE @]
           p  == [table |-> t3, sectors |-> n, mode |-> mode, root |-> r,
                  esp |-> IF efi THEN e ELSE NoSlot]
<1>1. /\ valid_layout(p) /\ plan' = p /\ page' = "profile"
      /\ UNCHANGED <<efi, socket, disk, target, people, harmed, astray, begun>>
  BY Zenon DEF Automatic, HereTable
<1>2. n \in Nat /\ t0 \in Tables
  <2>1. Here \in Drives /\ NoTable \in Tables
    BY DEF PublishInv, SetupTypeOK, NoTable, Tables, Unused, Entries
  <2> QED BY <2>1 DEF KeepInv, TablesOK, HereTable
<1> HIDE DEF n, t0
<1>3. /\ t1 \in Tables /\ e \in 0..Slots /\ \A s \in InUse(t0) : t1[s] = t0[s] /\ s \in InUse(t1)
  BY <1>2, AutoKeeps
<1> HIDE DEF e, t1
<1>4. /\ t2 \in Tables /\ r \in 0..Slots
      /\ \A s \in InUse(t1) : t2[s] = t1[s] /\ s # r /\ s \in InUse(t2)
  BY <1>2, <1>3, AutoKeeps
<1> HIDE DEF t2, r
<1>5. t3 \in Tables /\ \A s \in InUse(t1) : t3[s] = t2[s]
  <2>1. CASE r = NoSlot
    BY <1>4, <2>1
  <2>2. CASE r # NoSlot
    <3>1. r \in 1..Slots /\ t2[r] \in Entries
      BY <1>4, <2>2 DEF NoSlot, Tables
    <3>2. [t2[r] EXCEPT !.size = IF @ > RootMax THEN RootMax ELSE @] \in Entries
      BY <3>1 DEF Entries
    <3>3. t3 = [t2 EXCEPT ![r] = [t2[r] EXCEPT !.size = IF @ > RootMax THEN RootMax ELSE @]]
      BY <2>2, <3>1, <1>4 DEF Tables
    <3>4. t3 \in Tables
      BY <1>4, <3>1, <3>2, <3>3 DEF Tables
    <3>5. \A s \in InUse(t1) : t3[s] = t2[s]
      BY <1>4, <3>3 DEF Tables, InUse
    <3> QED BY <3>4, <3>5
  <2> QED BY <2>1, <2>2
<1> HIDE DEF t3
<1>6. p \in Plans /\ p.mode = mode /\ p.table = t3
  BY <1>2, <1>3, <1>4, <1>5 DEF Plans, NoSlot
<1>7. mode = 1 => \A s \in InUse(HereTable) : t3[s] = HereTable[s]
  BY <1>3, <1>4, <1>5 DEF t0
<1> HIDE DEF p
<1>8. valid_layout(plan)'
  BY <1>1 DEF valid_layout
<1> QED BY <1>1, <1>6, <1>7, <1>8, EditKeepInv DEF KeepInv, TablesOK

\* Pages that are turned and tables that are edited by hand.
LEMMA WizardKeepInv ==
  ASSUME PublishInv, KeepInv,
         \/ \E build \in BOOLEAN : StartSetup(build)
         \/ Pages \/ ManualOpen
         \/ \E s \in 1..Slots, a \in Starts, n \in Sizes :
              \E type \in IF efi THEN {Data, Efi} ELSE {Data} : ManualNew(s, a, n, type)
         \/ \E s \in 1..Slots : ManualDelete(s)
         \/ ManualClear
         \/ \E r \in 1..Slots, e \in IF efi THEN 1..Slots ELSE {NoSlot} : ManualAccept(r, e)
         \/ Check \/ InstallFails
  PROVE  KeepInv'
<1> USE PartitionAssumption, SetupAssumption
<1>1. Unused \in Entries /\ NoTable \in Tables /\ NoPlan \in Plans
  BY DEF Unused, Entries, NoTable, Tables, NoPlan, NoSlot, Plans
<1>2. plan \in Plans /\ plan.table \in Tables /\ Here \in Drives /\ efi \in BOOLEAN
      /\ HereTable \in Tables /\ Capacity[Here] \in Nat /\ target.sectors \in Nat
  BY DEF KeepInv, TablesOK, Plans, PublishInv, SetupTypeOK, HereTable
<1> HIDE DEF NoPlan, NoTable, Unused
<1>3. ASSUME NEW build \in BOOLEAN, StartSetup(build) PROVE KeepInv'
  <2>1. page' = "welcome" /\ efi' = build /\ UNCHANGED <<socket, disk, target, plan, harmed, astray>>
    BY <1>3 DEF StartSetup
  <2> QED BY <1>2, <2>1, EditKeepInv DEF Planned, Positions
<1>4. CASE Pages
  <2>1. ASSUME NEW from, ScanTargets(from) PROVE KeepInv'
    <3>1. page' = "disk" /\ target'.sectors = Capacity[Here] /\ plan' = NoPlan
          /\ UNCHANGED <<efi, socket, disk, harmed, astray>>
      BY <2>1 DEF ScanTargets
    <3> QED BY <1>1, <1>2, <3>1, EditKeepInv DEF Planned, Positions
  <2>2. CASE ~\E from \in {"welcome", "disk", "layout", "profile", "error"} : ScanTargets(from)
    <3>1. UNCHANGED <<efi, socket, disk, target, plan, harmed, astray>>
      BY <1>4, <2>2 DEF Pages, Turn
    <3>2. page' \notin {"manual", "esp"} /\ (page' \in Planned => page \in Planned)
      BY <1>4, <2>2 DEF Pages, Turn, Planned, Positions
    <3> QED BY <1>2, <3>1, <3>2, EditKeepInv
  <2> QED BY <1>4, <2>1, <2>2
<1>5. ASSUME NEW q \in Plans, Edit(q, "manual"), q.mode = 2 PROVE KeepInv'
  BY <1>2, <1>5, EditKeepInv DEF Edit, Planned, Positions
<1>6. CASE ManualOpen
  <2> DEFINE q == [table |-> HereTable, sectors |-> Capacity[Here], mode |-> 2,
                   root |-> NoSlot, esp |-> NoSlot]
  <2>1. q \in Plans /\ q.mode = 2
    BY <1>2 DEF Plans, NoSlot
  <2>2. Edit(q, "manual")
    BY <1>6, Zenon DEF ManualOpen, HereTable
  <2> QED BY <1>5, <2>1, <2>2
<1>7. ASSUME NEW t \in Tables, page = "manual", Edit([plan EXCEPT !.table = t], "manual") PROVE KeepInv'
  <2>1. [plan EXCEPT !.table = t] \in Plans /\ [plan EXCEPT !.table = t].mode = 2
    BY <1>2, <1>7 DEF Plans, KeepInv, PlanOK
  <2> QED BY <1>5, <1>7, <2>1
<1>8. ASSUME NEW s \in 1..Slots, NEW a \in Starts, NEW n \in Sizes, NEW type \in {Data, Efi},
             ManualNew(s, a, n, type)
      PROVE  KeepInv'
  <2>1. [start |-> a, size |-> n, type |-> type] \in Entries
    <3>1. a \in Nat
      BY DEF Starts
    <3> QED BY <3>1 DEF Entries
  <2>2. Added(plan.table, s, a, n, type) \in Tables
    BY <1>2, <2>1 DEF Added, Tables
  <2>3. page = "manual" /\ Edit([plan EXCEPT !.table = Added(plan.table, s, a, n, type)], "manual")
    BY <1>8 DEF ManualNew
  <2> QED BY <1>7, <2>2, <2>3
<1>9. ASSUME NEW s \in 1..Slots, ManualDelete(s) PROVE KeepInv'
  <2>1. [plan.table EXCEPT ![s] = Unused] \in Tables
    BY <1>1, <1>2 DEF Tables
  <2>2. [plan EXCEPT !.table[s] = Unused] = [plan EXCEPT !.table = [plan.table EXCEPT ![s] = Unused]]
    BY <1>2 DEF Plans
  <2>3. page = "manual" /\ Edit([plan EXCEPT !.table = [plan.table EXCEPT ![s] = Unused]], "manual")
    BY <1>9, <2>2 DEF ManualDelete
  <2> QED BY <1>7, <2>1, <2>3
<1>10. CASE ManualClear
  BY <1>1, <1>7, <1>10 DEF ManualClear
<1>11. ASSUME NEW r \in 1..Slots, NEW e \in 0..Slots, ManualAccept(r, e) PROVE KeepInv'
  <2> DEFINE q == [plan EXCEPT !.root = r, !.esp = e]
  <2>1. page = "manual" /\ valid_layout(q) /\ plan' = q /\ page' = "profile"
        /\ UNCHANGED <<efi, socket, disk, target, harmed, astray>>
    BY <1>11, Zenon DEF ManualAccept, Edit
  <2>2. q \in Plans /\ q.mode = 2
    <3>1. plan.mode = 2 /\ r \in 0..Slots
      BY <2>1 DEF KeepInv, PlanOK
    <3> QED BY <1>2, <3>1 DEF Plans
  <2> HIDE DEF q
  <2>3. valid_layout(plan)'
    BY <2>1 DEF valid_layout
  <2> QED BY <1>2, <2>1, <2>2, <2>3, EditKeepInv
<1>12. CASE Check
  <2>1. page = "check" /\ page' = "erase" /\ UNCHANGED <<efi, socket, disk, target, plan, harmed, astray>>
    BY <1>12 DEF Check
  <2> QED BY <1>2, <2>1, EditKeepInv DEF Planned, Positions
<1>13. CASE InstallFails
  <2>1. page' = "error" /\ plan' = NoPlan /\ UNCHANGED <<efi, socket, disk, target, harmed, astray>>
    BY <1>13 DEF InstallFails
  <2> QED BY <1>1, <1>2, <2>1, EditKeepInv DEF Planned, Positions
<1>14. CASE \/ \E s \in 1..Slots, a \in Starts, n \in Sizes :
                 \E type \in IF efi THEN {Data, Efi} ELSE {Data} : ManualNew(s, a, n, type)
            \/ \E r \in 1..Slots, e \in IF efi THEN 1..Slots ELSE {NoSlot} : ManualAccept(r, e)
  <2>1. \A e \in IF efi THEN 1..Slots ELSE {NoSlot} : e \in 0..Slots
    BY DEF NoSlot
  <2>2. \A type \in IF efi THEN {Data, Efi} ELSE {Data} : type \in {Data, Efi}
    OBVIOUS
  <2> QED BY <1>8, <1>11, <1>14, <2>1, <2>2
<1> QED BY <1>3, <1>4, <1>6, <1>9, <1>10, <1>12, <1>13, <1>14

\* fdisk writes a table.
LEMMA FdiskKeepInv ==
  ASSUME PublishInv, KeepInv, NEW d \in Drives, NEW t \in Tables, fdisk(d, t)
  PROVE  KeepInv'
<1> DEFINE v == [disk[d].cached EXCEPT !.mbr = [table |-> t, by |-> "fdisk"]]
<1>1. /\ disk' = [disk EXCEPT ![d] = [stored |-> v, cached |-> v]] /\ page = "live"
      /\ UNCHANGED <<efi, page, target, plan, harmed, astray>>
  BY DEF fdisk, FdiskFree
<1>2. v.mbr.table = t /\ DOMAIN disk = Drives
  BY DEF PublishInv, SetupTypeOK, Views, Parts
<1> HIDE DEF v
<1>3. TablesOK'
  BY <1>1, <1>2 DEF KeepInv, TablesOK
<1> QED BY <1>1, <1>3 DEF KeepInv, PlanOK, Planned, Positions, ForeignKept

\* The parts of the drive that install_image() writes.
Written(n) == \/ n = 1..(Align - 1) \/ n = {0} \/ n = {}
              \/ n = Sectors(plan.table[plan.root])
              \/ efi /\ n = plan.table[plan.esp].start..(plan.table[plan.esp].start + EspSize - 1)

\* None of them reaches into a partition that is kept.
LEMMA WrittenApart ==
  ASSUME PublishInv, KeepInv, page \in Planned, SameDrive, NEW n, Written(n), NEW s \in Kept
  PROVE  n \cap Sectors(HereTable[s]) = {}
<1> USE PartitionAssumption, SetupAssumption
<1>1. plan \in Plans /\ plan.table \in Tables /\ valid_layout(plan)
  BY DEF KeepInv, TablesOK, PlanOK, Plans
<1>2. s \in InUse(HereTable) /\ s # plan.root /\ s # plan.esp /\ plan.table[s] = HereTable[s]
  BY DEF Kept, HereTable, SameDrive, KeepInv, PlanOK
<1> DEFINE a == plan.table[s]
<1>3. s \in InUse(plan.table) /\ a \in Entries /\ HereTable[s] = a
  BY <1>1, <1>2 DEF InUse, Tables
<1>4. a.start >= Align
  BY <1>1, <1>3 DEF valid_layout
<1>5. ASSUME NEW r \in InUse(plan.table), r # s
      PROVE  Sectors(plan.table[r]) \cap Sectors(a) = {} /\ plan.table[r] \in Entries
  <2> DEFINE b == plan.table[r]
  <2>1. b \in Entries /\ r \in 1..Slots /\ s \in 1..Slots
    BY <1>1, <1>3 DEF InUse, Tables
  <2>2. ~Overlap(b, a) \/ ~Overlap(a, b)
    BY <1>1, <1>3, <1>5, <2>1 DEF valid_layout, partition_validate
  <2> HIDE DEF a, b
  <2>3. /\ a.start \in Nat /\ a.size \in Nat /\ b.start \in Nat /\ b.size \in Nat
    BY <1>3, <2>1 DEF Entries
  <2>4. Sectors(b) \cap Sectors(a) = {}
    BY <2>2, <2>3 DEF Overlap, Sectors
  <2> QED BY <2>1, <2>4 DEF a, b
<1>6. a.start \in Nat /\ a.size \in Nat
  BY <1>3 DEF Entries
<1>7. CASE n = 1..(Align - 1) \/ n = {0} \/ n = {}
  <2> HIDE DEF a
  <2> QED BY <1>3, <1>4, <1>6, <1>7 DEF Sectors
<1>8. CASE n = Sectors(plan.table[plan.root])
  <2>1. plan.root \in 1..Slots /\ plan.root \in InUse(plan.table)
    BY <1>1 DEF valid_layout, Plans, NoSlot, InUse, Data
  <2> QED BY <1>2, <1>3, <1>5, <1>8, <2>1
<1>9. CASE efi /\ n = plan.table[plan.esp].start..(plan.table[plan.esp].start + EspSize - 1)
  <2> DEFINE b == plan.table[plan.esp]
  <2>1. plan.esp \in InUse(plan.table) /\ b.size >= EspSize
    BY <1>1, <1>9 DEF valid_layout, Plans, NoSlot, InUse, Efi
  <2>2. Sectors(b) \cap Sectors(a) = {} /\ b \in Entries
    BY <1>2, <1>5, <2>1
  <2> HIDE DEF b
  <2>3. b.start \in Nat /\ b.size \in Nat
    BY <2>2 DEF Entries
  <2>4. n \subseteq Sectors(b)
    BY <1>9, <2>1, <2>3, SMTT(30) DEF Sectors, b
  <2> QED BY <1>3, <2>2, <2>4
<1> QED BY <1>7, <1>8, <1>9 DEF Written

\* A step of install_image() harms nothing and leaves the table, or
\* publishes the planned one.
LEMMA GoKeepInv ==
  ASSUME PublishInv, KeepInv, NEW from, NEW to, NEW d, NEW n, Go(from, to, d, n), Written(n),
         from \in Planned, to \in Planned \cup {"ready"}, to = "esp" => efi, NEW x, d = [disk EXCEPT ![Here] = x],
         x.stored["mbr"].table \in Tables, x.cached["mbr"].table \in {HereTable, plan.table}
  PROVE  KeepInv'
<1>1. /\ page = from /\ page' = to /\ disk' = d /\ SameDrive
      /\ harmed' = IF \E s \in Kept : n \cap Sectors(HereTable[s]) # {}
                   THEN harmed \cup {Here} ELSE harmed
      /\ UNCHANGED <<efi, socket, target, plan, people, astray, begun>>
  BY DEF Go, HereTable
<1>2. ForeignKept'
  BY <1>1, WrittenApart DEF KeepInv, ForeignKept
<1>3. /\ Here \in Drives /\ DOMAIN disk = Drives /\ Here' = Here /\ disk'[Here] = x
      /\ \A e \in Drives : e # Here => disk'[e] = disk[e]
  BY <1>1 DEF PublishInv, SetupTypeOK, Here
<1>4. HereTable \in Tables /\ plan.table \in Tables
  BY <1>3 DEF KeepInv, TablesOK, HereTable, Plans
<1>5. TablesOK'
  BY <1>1, <1>3, <1>4 DEF KeepInv, TablesOK
<1>6. valid_layout(plan)'
  <2>1. valid_layout(plan)
    BY <1>1 DEF KeepInv, PlanOK
  <2> QED BY <1>1, <2>1 DEF valid_layout
<1>7. HereTable' \in {HereTable, plan.table}
  BY <1>3 DEF HereTable
<1>8. PlanOK'
  BY <1>1, <1>6, <1>7 DEF KeepInv, PlanOK, Planned, Positions
<1> QED BY <1>2, <1>5, <1>8 DEF KeepInv

\* The steps of install_image().
LEMMA InstallKeepInv ==
  ASSUME PublishInv, KeepInv,
         WriteBoot \/ WriteEsp \/ Verify \/ WriteRoot \/ PublishWrite \/ PublishFlush
  PROVE  KeepInv'
<1>1. Here \in Drives /\ disk[Here].stored["mbr"].table \in Tables /\ HereTable \in Tables
      /\ disk[Here].cached["mbr"].table = HereTable /\ plan.table \in Tables
  BY DEF PublishInv, SetupTypeOK, KeepInv, TablesOK, HereTable, Plans
<1>2. /\ "mbr" \in Parts /\ "boot" \in Parts /\ "esp" \in Parts /\ "root" \in Parts
  BY DEF Parts
<1>3. ASSUME NEW p \in {"boot", "esp", "mbr"}, NEW v, NEW from, NEW to, NEW n,
             Go(from, to, Put(p, v), n), Written(n), from \in Planned, to \in Planned,
             to = "esp" => efi,
             p = "mbr" => v.table = plan.table
      PROVE  KeepInv'
  <2>1. p \in Parts
    BY <1>2
  <2>2. Put(p, v) = [disk EXCEPT ![Here] = InCache(p, v)]
    BY <2>1, DriveWrites
  <2>3. InCache(p, v).stored["mbr"].table \in Tables
    BY <1>1, <1>2, <2>1, DriveWrites
  <2>4. InCache(p, v).cached["mbr"].table \in {HereTable, plan.table}
    BY <1>1, <1>2, <1>3, <2>1, DriveWrites
  <2> QED BY <1>3, <2>2, <2>3, <2>4, GoKeepInv
<1>4. ASSUME NEW from, NEW to, from \in Planned, to \in Planned \cup {"ready"}, to # "esp",
             Go(from, to, [disk EXCEPT ![Here].stored = disk[Here].cached], {})
      PROVE  KeepInv'
  <2>1. [disk EXCEPT ![Here].stored = disk[Here].cached] = [disk EXCEPT ![Here] = Flushed]
    BY <1>2, DriveWrites
  <2>2. Flushed.stored["mbr"].table = HereTable /\ Flushed.cached["mbr"].table = HereTable
    BY <1>1, <1>2, DriveWrites
  <2>3. Written({})
    BY DEF Written
  <2> QED BY <1>1, <1>4, <2>1, <2>2, <2>3, GoKeepInv
<1>5. CASE WriteBoot
  <2>1. PICK v \in {"new", "bad"} :
          Go("boot", IF efi THEN "esp" ELSE "verify", Put("boot", v), 1..(Align - 1))
    BY <1>5 DEF WriteBoot
  <2>2. Written(1..(Align - 1))
    BY DEF Written
  <2> QED BY <1>3, <2>1, <2>2 DEF Planned, Positions
<1>6. CASE WriteEsp
  <2> DEFINE n == plan.table[plan.esp].start..(plan.table[plan.esp].start + EspSize - 1)
  <2>1. PICK v \in {"new", "bad"} : Go("esp", "verify", Put("esp", v), n)
    BY <1>6 DEF WriteEsp
  <2>2. efi
    BY <2>1 DEF Go, KeepInv, PlanOK
  <2>3. Written(n)
    BY <2>2 DEF Written
  <2> QED BY <1>3, <2>1, <2>3 DEF Planned, Positions
<1>7. CASE Verify \/ PublishFlush
  BY <1>4, <1>7 DEF Verify, PublishFlush, Planned, Positions
<1>8. CASE WriteRoot
  <2>1. PICK r, to : /\ page \in {"root", "files"} /\ to \in {"publish", "files"}
                     /\ Go(page, to, PutFlushed("root", r), Sectors(plan.table[plan.root]))
    BY <1>8 DEF WriteRoot
  <2>2. PutFlushed("root", r) = [disk EXCEPT ![Here] = Through("root", r)]
    BY <1>2, DriveWrites
  <2>3. /\ Through("root", r).stored["mbr"].table = HereTable
        /\ Through("root", r).cached["mbr"].table = HereTable
    BY <1>1, <1>2, DriveWrites
  <2>4. Written(Sectors(plan.table[plan.root]))
    BY DEF Written
  <2>5. page \in Planned /\ to \in Planned /\ to # "esp"
    BY <2>1 DEF Planned, Positions
  <2> QED BY <1>1, <2>1, <2>2, <2>3, <2>4, <2>5, GoKeepInv
<1>9. CASE PublishWrite
  <2> DEFINE v == [table |-> plan.table, by |-> "setup"]
  <2>1. Go("publish", "flush", Put("mbr", v), {0})
    BY <1>9 DEF PublishWrite
  <2>2. Written({0}) /\ v.table = plan.table
    BY DEF Written
  <2> HIDE DEF v
  <2> QED BY <1>3, <2>1, <2>2 DEF Planned, Positions
<1> QED BY <1>5, <1>6, <1>7, <1>8, <1>9

\* Only an erasing installation clears sector 0.
LEMMA EraseKeepInv == ASSUME PublishInv, KeepInv, EraseFirst PROVE KeepInv'
<1>1. /\ page = "erase" /\ page' = "boot" /\ disk' = Cleared
      /\ UNCHANGED <<efi, socket, target, plan, people, harmed, astray>>
  BY DEF EraseFirst
<1>2. valid_layout(plan)' /\ Here \in Drives /\ DOMAIN disk = Drives /\ Here' = Here
  <2>1. valid_layout(plan)
    BY <1>1 DEF KeepInv, PlanOK, Planned, Positions
  <2>2. valid_layout(plan)'
    BY <1>1, <2>1 DEF valid_layout
  <2> QED BY <1>1, <2>2 DEF PublishInv, SetupTypeOK, Here
<1>3. CASE plan.mode = 0
  <2>1. disk' = [disk EXCEPT ![Here] = Through("mbr", Fresh.mbr)]
    BY <1>1, <1>3, DriveWrites DEF Cleared, Parts
  <2>2. /\ Through("mbr", Fresh.mbr).stored["mbr"].table = NoTable
        /\ Through("mbr", Fresh.mbr).cached["mbr"].table = NoTable
    BY DriveWrites DEF Parts, Fresh
  <2>3. NoTable \in Tables
    BY DEF NoTable, Tables, Unused, Entries
  <2>4. TablesOK'
    BY <1>1, <1>2, <2>1, <2>2, <2>3 DEF KeepInv, TablesOK
  <2> QED BY <1>1, <1>2, <1>3, <2>4 DEF KeepInv, PlanOK, ForeignKept
<1>4. CASE plan.mode # 0
  <2>1. disk' = disk
    BY <1>1, <1>4 DEF Cleared
  <2>2. HereTable' = HereTable
    BY <1>2, <2>1 DEF HereTable
  <2> QED BY <1>1, <1>2, <2>1, <2>2 DEF KeepInv, TablesOK, PlanOK, ForeignKept, Planned, Positions
<1> QED BY <1>3, <1>4

\* The drive that is enumerated between the comparison and the transfer
\* takes one sector, and the plan is at its end.
LEMMA LateKeepInv ==
  ASSUME PublishInv, KeepInv, NEW d \in Drives, LateExchange(d) PROVE KeepInv'
<1>1. PICK kept \in SUBSET Unflushed(Here) : \E x \in Misplaced(Left(kept)[d]) :
        disk' = [Left(kept) EXCEPT ![d] = x]
  BY DEF LateExchange, Left
<1>2. PICK x \in Misplaced(Left(kept)[d]) : disk' = [Left(kept) EXCEPT ![d] = x]
  BY <1>1
<1>3. /\ page' \in {"ready", "error"} /\ plan' \in {plan, NoPlan} /\ UNCHANGED <<efi, target>>
      /\ astray' = astray \cup {d} /\ harmed' = harmed \cup {d}
  BY DEF LateExchange
<1>4. NoPlan \in Plans /\ NoTable \in Tables /\ plan.table \in Tables /\ Fresh["mbr"].table = NoTable
  <2>1. NoPlan \in Plans /\ NoTable \in Tables
    BY PartitionAssumption DEF NoPlan, NoSlot, Plans, NoTable, Tables, Unused, Entries
  <2> QED BY <2>1 DEF KeepInv, TablesOK, Plans, Fresh
<1> DEFINE Good(w) == w.stored["mbr"].table \in Tables /\ w.cached["mbr"].table \in Tables
<1>5. ASSUME NEW e \in Drives PROVE Good(Left(kept)[e])
  <2>1. Here \in Drives /\ DOMAIN disk = Drives /\ "mbr" \in Parts
    BY DEF PublishInv, SetupTypeOK, Parts
  <2>2. disk[e].stored["mbr"].table \in Tables /\ disk[e].cached["mbr"].table \in Tables
    BY DEF KeepInv, TablesOK
  <2> QED BY <2>1, <2>2 DEF Left, Settled
<1>6. DOMAIN Left(kept) = Drives /\ Views(Left(kept)[d])
  BY LeftIs
<1>7. Good(x)
  <2> DEFINE w == Left(kept)[d]
  <2>1. Views(w) /\ x \in Misplaced(w) /\ Good(w)
    BY <1>5, <1>6
  <2> HIDE DEF w
  <2>2. x = w \/ \E p \in Parts : \E v \in {Fresh[p], [table |-> plan.table, by |-> "setup"]} :
           (p # "mbr" => v = Fresh[p]) /\ x = [w EXCEPT !.cached[p] = v]
    BY <2>1, MisplacedIs
  <2>3. ASSUME NEW p \in Parts, NEW v, p = "mbr" => v.table \in Tables
        PROVE  Good([w EXCEPT !.cached[p] = v])
    BY <2>1, <2>3 DEF Views
  <2>4. [table |-> plan.table, by |-> "setup"].table \in Tables
    BY <1>4
  <2> QED BY <1>4, <2>1, <2>2, <2>3, <2>4
<1>8. TablesOK'
  <2>1. \A e \in Drives : Good(disk'[e])
    BY <1>2, <1>5, <1>6, <1>7
  <2> QED BY <1>3, <1>4, <2>1 DEF KeepInv, TablesOK
<1>9. ForeignKept'
  BY <1>3 DEF KeepInv, ForeignKept
<1> QED BY <1>3, <1>8, <1>9 DEF KeepInv, PlanOK, Planned, Positions

\* Once the drive is out of the socket the plan writes nothing any more.
LEMMA WorldKeepInv ==
  ASSUME PublishInv, KeepInv, (\E d \in Drives : Swap(d)) \/ SetupPowerLoss
  PROVE  KeepInv'
<1>1. PICK kept : disk' = [disk EXCEPT ![Here] = Settled(Here, kept)]
  BY DEF Swap, SetupPowerLoss
<1>2. Here \in Drives /\ DOMAIN disk = Drives /\ "mbr" \in Parts
  BY DEF PublishInv, SetupTypeOK, Parts
<1>3. \A d \in Drives : /\ disk'[d].stored["mbr"].table \in Tables
                        /\ disk'[d].cached["mbr"].table \in Tables
  <2> SUFFICES ASSUME NEW d \in Drives
               PROVE  /\ disk'[d].stored["mbr"].table \in Tables
                      /\ disk'[d].cached["mbr"].table \in Tables
    OBVIOUS
  <2>1. disk[d].stored["mbr"].table \in Tables /\ disk[d].cached["mbr"].table \in Tables
    BY DEF KeepInv, TablesOK
  <2> QED BY <1>1, <1>2, <2>1 DEF Settled
<1>4. ForeignKept' /\ efi' = efi /\ target' = target
  BY DEF KeepInv, ForeignKept, Swap, SetupPowerLoss
<1>5. ASSUME NEW d \in Drives, Swap(d) PROVE KeepInv'
  <2>1. plan' = plan /\ page' = page /\ socket'.generation = socket.generation + 1
    BY <1>5 DEF Swap
  <2>2. target'.generation # socket'.generation
    BY <1>4, <2>1 DEF PublishInv, SetupTypeOK
  <2>3. valid_layout(plan)' <=> valid_layout(plan)
    BY <1>4, <2>1 DEF valid_layout
  <2>4. TablesOK'
    BY <1>3, <1>4, <2>1 DEF KeepInv, TablesOK
  <2> QED BY <1>4, <2>1, <2>2, <2>3, <2>4 DEF KeepInv, PlanOK
<1>6. CASE SetupPowerLoss
  <2>1. plan' = NoPlan /\ page' = "live"
    BY <1>6 DEF SetupPowerLoss
  <2>2. NoPlan \in Plans
    BY PartitionAssumption DEF NoPlan, NoSlot, Plans, NoTable, Tables, Unused, Entries
  <2>3. TablesOK'
    BY <1>3, <1>4, <2>1, <2>2 DEF KeepInv, TablesOK
  <2> QED BY <1>4, <2>1, <2>3 DEF KeepInv, PlanOK, Planned, Positions
<1> QED BY <1>5, <1>6

\* fdisk's commands write tables.
LEMMA FdisksKeepInv ==
  ASSUME PublishInv, KeepInv, NEW d \in Edited,
         \/ \E s \in 1..Slots, a \in Starts, n \in Sizes : FdiskNew(d, s, a, n)
         \/ \E n \in Sizes : FdiskAuto(d, n)
         \/ \E s \in 1..Slots : FdiskDelete(d, s)
         \/ FdiskWipe(d)
  PROVE  KeepInv'
<1> USE PartitionAssumption, SetupAssumption
<1>1. Unused \in Entries /\ NoTable \in Tables
  BY DEF Unused, Entries, NoTable, Tables
<1> DEFINE t == disk[d].cached.mbr.table
<1>2. d \in Drives /\ t \in Tables /\ Capacity[d] \in Nat
  BY DEF KeepInv, TablesOK
<1> HIDE DEF Unused, NoTable
<1>3. ASSUME NEW s \in 1..Slots, NEW a \in Starts, NEW n \in Sizes, FdiskNew(d, s, a, n)
      PROVE  KeepInv'
  <2>1. [start |-> a, size |-> n, type |-> Data] \in Entries
    <3>1. a \in Nat
      BY DEF Starts
    <3> QED BY <3>1 DEF Entries
  <2>2. Added(t, s, a, n, Data) \in Tables
    BY <1>2, <2>1 DEF Added, Tables
  <2>3. fdisk(d, Added(t, s, a, n, Data))
    BY <1>3 DEF FdiskNew
  <2> QED BY <1>2, <2>2, <2>3, FdiskKeepInv
<1>4. ASSUME NEW n \in Sizes, FdiskAuto(d, n) PROVE KeepInv'
  <2>1. AutoAdded(t, Capacity[d], n, Data) \in Tables
    BY <1>2, AutoKeeps
  <2>2. fdisk(d, AutoAdded(t, Capacity[d], n, Data))
    BY <1>4 DEF FdiskAuto
  <2> QED BY <1>2, <2>1, <2>2, FdiskKeepInv
<1>5. ASSUME NEW s \in 1..Slots, FdiskDelete(d, s) PROVE KeepInv'
  <2>1. [t EXCEPT ![s] = Unused] \in Tables
    BY <1>1, <1>2 DEF Tables
  <2>2. fdisk(d, [t EXCEPT ![s] = Unused])
    BY <1>5 DEF FdiskDelete
  <2> QED BY <1>2, <2>1, <2>2, FdiskKeepInv
<1>6. CASE FdiskWipe(d)
  BY <1>1, <1>2, <1>6, FdiskKeepInv DEF FdiskWipe
<1> QED BY <1>3, <1>4, <1>5, <1>6

\* Every step of Setup, fdisk and the world keeps the kept partitions.
LEMMA NextKeepInv == ASSUME PublishInv, KeepInv, [SetupNext]_setupVars PROVE KeepInv'
<1>1. CASE UNCHANGED setupVars
  <2>1. HereTable' = HereTable
    BY <1>1 DEF setupVars, HereTable, Here
  <2>2. valid_layout(plan)' <=> valid_layout(plan)
    BY <1>1 DEF setupVars, valid_layout
  <2>3. TablesOK'
    BY <1>1 DEF setupVars, KeepInv, TablesOK
  <2>4. PlanOK'
    BY <1>1, <2>1, <2>2 DEF setupVars, KeepInv, PlanOK
  <2> QED BY <1>1, <2>3, <2>4 DEF setupVars, KeepInv, ForeignKept
<1> QED BY <1>1, FdisksKeepInv, AutomaticKeepInv, WizardKeepInv, InstallKeepInv, EraseKeepInv,
           WorldKeepInv, LateKeepInv DEF SetupNext

\* An installation that keeps partitions writes no sector of one, whatever
\* was edited on the pages and whichever drive was in the socket when it was
\* scanned, when its table was read and when the generation was compared
\* (choose_layout(), install_image()).  Nothing is claimed of a drive that
\* came into the socket between that comparison and the transfer.
THEOREM ForeignKeptAlways == SetupSpec => []ForeignKept
<1>1. KeepInv => ForeignKept
  BY DEF KeepInv
<1> QED BY <1>1, InitPublishInv, NextPublishInv, InitKeepInv, NextKeepInv, PTL DEF SetupSpec

---------------------------------------------------------------------------
(* Access records                                                          *)

\* The names in paths, with those that the code uses itself.
Word == STRING \cup Users \cup {"home", "etc", "bin"}
Path == Seq(Word)

\* IsPrefix, element by element.
LEMMA PrefixIs ==
  ASSUME NEW p \in Path, NEW q \in Path
  PROVE  IsPrefix(q, p) <=> Len(q) <= Len(p) /\ \A i \in 1..Len(q) : q[i] = p[i]
<1> USE DEF Path
<1>1. CASE Len(q) <= Len(p)
  <2> DEFINE a == SubSeq(q, 1, Len(q))
             b == SubSeq(p, 1, Len(q))
  <2>1. /\ a \in Seq(Word) /\ Len(a) = Len(q) /\ \A i \in 1..Len(q) : a[i] = q[i]
        /\ b \in Seq(Word) /\ Len(b) = Len(q) /\ \A i \in 1..Len(q) : b[i] = p[i]
    BY <1>1
  <2> HIDE DEF a, b
  <2>2. a = b <=> \A i \in 1..Len(q) : a[i] = b[i]
    BY <2>1, SeqEqual
  <2>3. IsPrefix(q, p) <=> a = b
    BY <1>1 DEF IsPrefix, a, b
  <2> QED BY <1>1, <2>1, <2>2, <2>3
<1>2. CASE ~(Len(q) <= Len(p))
  BY <1>2 DEF IsPrefix
<1> QED BY <1>1, <1>2

\* Two names in one directory, as fs_mv requires of its arguments.
Siblings(from, to) ==
  /\ from \in Path /\ to \in Path /\ from # to /\ Len(from) = Len(to) /\ Len(from) > 0
  /\ \A i \in 1..Len(from) - 1 : from[i] = to[i]

\* The other way they are siblings too, and differ in the last name.
LEMMA SiblingsFacts ==
  ASSUME NEW from, NEW to, Siblings(from, to)
  PROVE  Siblings(to, from) /\ from[Len(from)] # to[Len(from)]
<1>1. Siblings(to, from)
  BY DEF Siblings
<1>2. ASSUME from[Len(from)] = to[Len(from)] PROVE FALSE
  <2>1. \A i \in 1..Len(from) : from[i] = to[i]
    BY <1>2 DEF Siblings, Path
  <2>2. from = to
    BY <2>1, SeqEqual DEF Siblings, Path
  <2> QED BY <2>2 DEF Siblings
<1> QED BY <1>1, <1>2

\* The new name of a path below the one that is renamed.
LEMMA RenamedIs ==
  ASSUME NEW from, NEW to, Siblings(from, to), NEW p \in Path, Beneath(p, from)
  PROVE  /\ Renamed(p, from, to) \in Path /\ Len(Renamed(p, from, to)) = Len(p)
         /\ \A i \in 1..Len(p) : Renamed(p, from, to)[i] = IF i <= Len(from) THEN to[i] ELSE p[i]
<1> USE DEF Path
<1>1. from \in Seq(Word) /\ to \in Seq(Word) /\ Len(from) = Len(to) /\ Len(from) <= Len(p)
  BY PrefixIs DEF Siblings, Beneath
<1> DEFINE m == Len(from)
           t == SubSeq(p, m + 1, Len(p))
<1>2. m \in Nat /\ Len(to) = m /\ m <= Len(p)
  BY <1>1
<1>3. t \in Seq(Word) /\ Len(t) = Len(p) - m /\ \A i \in 1..Len(p) - m : t[i] = p[m + i]
  BY <1>2
<1>4. Renamed(p, from, to) = to \o t
  BY DEF Renamed
<1> HIDE DEF t, m
<1>5. to \o t \in Seq(Word) /\ Len(to \o t) = Len(p)
  BY <1>1, <1>2, <1>3
<1>6. ASSUME NEW i \in 1..Len(p) PROVE (to \o t)[i] = IF i <= m THEN to[i] ELSE p[i]
  <2>1. CASE i <= m
    BY <1>1, <1>2, <1>3, <2>1
  <2>2. CASE ~(i <= m)
    <3>1. (to \o t)[i] = t[i - m]
      BY <1>1, <1>2, <1>3, <2>2
    <3>2. i - m \in 1..Len(p) - m /\ m + (i - m) = i
      BY <1>2, <2>2
    <3> QED BY <1>3, <2>2, <3>1, <3>2
  <2> QED BY <2>1, <2>2
<1> QED BY <1>4, <1>5, <1>6 DEF m

\* A rename moves what lies beneath the old name beneath the new one, leaves
\* the rest, and the rename back undoes it.
LEMMA RenameFacts ==
  ASSUME NEW from, NEW to, Siblings(from, to), NEW p \in Path
  PROVE  /\ Renamed(p, from, to) \in Path
         /\ ~Beneath(p, from) => Renamed(p, from, to) = p
         /\ Beneath(p, from) => /\ Beneath(Renamed(p, from, to), to)
                                /\ Renamed(Renamed(p, from, to), to, from) = p
         /\ ~Beneath(Renamed(p, from, to), from)
         /\ ~(Beneath(p, from) /\ Beneath(p, to))
<1> DEFINE n == Renamed(p, from, to)
<1>1. ~Beneath(p, from) => n = p
  BY DEF Renamed
<1>2. ASSUME NEW q \in Path PROVE ~(Beneath(q, from) /\ Beneath(q, to))
  <2> SUFFICES ASSUME Beneath(q, from), Beneath(q, to) PROVE FALSE
    OBVIOUS
  <2>1. from[Len(from)] = q[Len(from)] /\ to[Len(from)] = q[Len(from)]
    BY PrefixIs DEF Beneath, Siblings, Path
  <2> QED BY <2>1, SiblingsFacts
<1>3. ASSUME Beneath(p, from)
      PROVE  n \in Path /\ Beneath(n, to) /\ Renamed(n, to, from) = p
  <2> USE <1>3
  <2>1. n \in Path /\ Len(n) = Len(p) /\ \A i \in 1..Len(p) : n[i] = IF i <= Len(from) THEN to[i] ELSE p[i]
    BY RenamedIs
  <2> HIDE DEF n
  <2>2. /\ to \in Path /\ Len(to) = Len(from) /\ Len(from) <= Len(p) /\ Len(p) \in Nat
        /\ from \in Path /\ \A i \in 1..Len(from) : from[i] = p[i]
    BY PrefixIs DEF Beneath, Siblings, Path
  <2>3. Beneath(n, to)
    <3>1. Len(to) <= Len(n) /\ \A i \in 1..Len(to) : to[i] = n[i]
      BY <2>1, <2>2 DEF Path
    <3> QED BY <2>1, <2>2, <3>1, PrefixIs DEF Beneath
  <2> DEFINE o == Renamed(n, to, from)
  <2>4. o \in Path /\ Len(o) = Len(n) /\ \A i \in 1..Len(n) : o[i] = IF i <= Len(to) THEN from[i] ELSE n[i]
    BY <2>1, <2>3, RenamedIs, SiblingsFacts
  <2> HIDE DEF o
  <2>5. \A i \in 1..Len(p) : o[i] = p[i]
    BY <2>1, <2>2, <2>4 DEF Path
  <2>6. o = p
    BY <2>1, <2>4, <2>5, SeqEqual DEF Path
  <2> QED BY <2>1, <2>3, <2>6 DEF o
<1>4. n \in Path
  BY <1>1, <1>3
<1>5. ~Beneath(n, from)
  BY <1>1, <1>2, <1>3, <1>4
<1> QED BY <1>1, <1>2, <1>3, <1>4, <1>5

\* Above and below stay what they are.
LEMMA BeneathOrder ==
  /\ \A p \in Path : Beneath(p, p)
  /\ \A p, q, r \in Path : Beneath(p, q) /\ Beneath(q, r) => Beneath(p, r)
  /\ \A p, q, r \in Path : Beneath(p, q) /\ Beneath(p, r) /\ Len(q) <= Len(r) => Beneath(r, q)
<1>1. \A p \in Path : Beneath(p, p)
  BY PrefixIs DEF Beneath, Path
<1>2. ASSUME NEW p \in Path, NEW q \in Path, NEW r \in Path, Beneath(p, q), Beneath(q, r)
      PROVE  Beneath(p, r)
  <2>1. /\ Len(q) <= Len(p) /\ \A i \in 1..Len(q) : q[i] = p[i]
        /\ Len(r) <= Len(q) /\ \A i \in 1..Len(r) : r[i] = q[i]
    BY <1>2, PrefixIs DEF Beneath
  <2>2. Len(r) <= Len(p) /\ \A i \in 1..Len(r) : r[i] = p[i]
    BY <2>1 DEF Path
  <2> QED BY <2>2, PrefixIs DEF Beneath
<1>3. ASSUME NEW p \in Path, NEW q \in Path, NEW r \in Path, Beneath(p, q), Beneath(p, r),
             Len(q) <= Len(r)
      PROVE  Beneath(r, q)
  <2>1. /\ \A i \in 1..Len(q) : q[i] = p[i]
        /\ \A i \in 1..Len(r) : r[i] = p[i]
    BY <1>3, PrefixIs DEF Beneath
  <2>2. Len(q) <= Len(r) /\ \A i \in 1..Len(q) : q[i] = r[i]
    BY <1>3, <2>1 DEF Path
  <2> QED BY <2>2, PrefixIs DEF Beneath
<1> QED BY <1>1, <1>2, <1>3

\* What lies above a path before a rename lies above it afterwards.
LEMMA RenameMonotone ==
  ASSUME NEW from, NEW to, Siblings(from, to), NEW p \in Path, NEW q \in Path, Beneath(p, q)
  PROVE  Beneath(Renamed(p, from, to), Renamed(q, from, to))
<1> DEFINE n == Renamed(p, from, to)
           m == Renamed(q, from, to)
<1>0. from \in Path /\ to \in Path /\ Len(to) = Len(from) /\ Len(from) \in Nat /\ Len(p) \in Nat
      /\ Len(q) \in Nat /\ n \in Path /\ m \in Path
  BY RenameFacts DEF Siblings, Path
<1>1. CASE ~Beneath(p, from)
  <2>1. ~Beneath(q, from)
    BY <1>0, <1>1, BeneathOrder
  <2> QED BY <1>1, <2>1, RenameFacts
<1>2. CASE Beneath(p, from)
  <2>1. Len(n) = Len(p) /\ \A i \in 1..Len(p) : n[i] = IF i <= Len(from) THEN to[i] ELSE p[i]
    BY <1>2, RenamedIs
  <2>2. Len(q) <= Len(p) /\ \A i \in 1..Len(q) : q[i] = p[i]
    BY PrefixIs DEF Beneath
  <2>3. CASE Beneath(q, from)
    <3>1. Len(m) = Len(q) /\ \A i \in 1..Len(q) : m[i] = IF i <= Len(from) THEN to[i] ELSE q[i]
      BY <2>3, RenamedIs
    <3> HIDE DEF n, m
    <3>2. Len(m) <= Len(n) /\ \A i \in 1..Len(m) : m[i] = n[i]
      BY <1>0, <2>1, <2>2, <3>1
    <3> QED BY <1>0, <3>2, PrefixIs DEF Beneath, n, m
  <2>4. CASE ~Beneath(q, from)
    <3>1. m = q
      BY <2>4, RenameFacts
    <3>2. ~(Len(from) <= Len(q))
      BY <1>0, <1>2, <2>4, BeneathOrder
    <3>3. \A i \in 1..Len(q) : from[i] = to[i] /\ from[i] = p[i]
      <4>1. \A i \in 1..Len(from) - 1 : from[i] = to[i]
        BY DEF Siblings
      <4>2. \A i \in 1..Len(from) : from[i] = p[i]
        BY <1>0, <1>2, PrefixIs DEF Beneath
      <4>3. \A i \in 1..Len(q) : i \in 1..Len(from) - 1 /\ i \in 1..Len(from)
        BY <1>0, <3>2
      <4> QED BY <4>1, <4>2, <4>3
    <3> HIDE DEF n, m
    <3>4. Len(q) <= Len(n) /\ \A i \in 1..Len(q) : q[i] = n[i]
      BY <1>0, <2>1, <2>2, <3>2, <3>3
    <3> QED BY <1>0, <3>1, <3>4, PrefixIs DEF Beneath, n, m
  <2> QED BY <2>3, <2>4
<1> QED BY <1>1, <1>2

---------------------------------------------------------------------------
(* The table as a set of records                                           *)

Record == [path : Paths, user : Users, rights : Rights, lock : Passwords \cup {""}]
Recs(a) == {a[i] : i \in DOMAIN a}

Picks(f, a, I, n) == f = [k \in 0..n |-> IF k = 0 THEN << >>
                             ELSE IF k \in I THEN Append(f[k - 1], a[k]) ELSE f[k - 1]]

\* The loop over the lines of the table has a result for every length.
LEMMA PicksExist == ASSUME NEW a, NEW I, NEW n \in Nat PROVE \E f : Picks(f, a, I, n)
<1> DEFINE Bad == {k \in Nat : ~\E f : Picks(f, a, I, k)}
<1>1. SUFFICES ASSUME Bad # {} PROVE FALSE
  OBVIOUS
<1>2. PICK k \in Bad : \A j \in Bad : k <= j
  BY <1>1, LeastNat
<1> DEFINE S(x, i) == IF i \in I THEN Append(x, a[i]) ELSE x
<1>3. \A f, j : Picks(f, a, I, j) <=> f = [m \in 0..j |-> IF m = 0 THEN << >> ELSE S(f[m - 1], m)]
  BY DEF Picks
<1> HIDE DEF S
<1>4. k # 0
  <2> DEFINE h == [m \in 0..0 |-> << >>]
  <2>1. \A m \in 0..0 : h[m] = IF m = 0 THEN << >> ELSE S(h[m - 1], m)
    OBVIOUS
  <2>2. h = [m \in 0..0 |-> IF m = 0 THEN << >> ELSE S(h[m - 1], m)]
    BY <2>1
  <2>3. Picks(h, a, I, 0)
    BY <1>3, <2>2
  <2> QED BY <1>2, <2>3
<1>5. PICK f : Picks(f, a, I, k - 1)
  <2>1. k - 1 \in Nat /\ ~(k <= k - 1)
    BY <1>2, <1>4
  <2>2. k - 1 \notin Bad
    BY <1>2, <2>1
  <2> QED BY <2>1, <2>2
<1> DEFINE g == [m \in 0..k |-> IF m < k THEN f[m] ELSE S(f[k - 1], k)]
<1>6. \A m \in 0..k : g[m] = IF m = 0 THEN << >> ELSE S(g[m - 1], m)
  <2> TAKE m \in 0..k
  <2>1. CASE m = k
    BY <1>2, <1>4, <2>1
  <2>2. CASE m < k
    <3>1. m \in 0..k - 1 /\ (m # 0 => m - 1 \in 0..k - 1 /\ m - 1 < k)
      BY <1>2, <1>4, <2>2
    <3>2. f[m] = IF m = 0 THEN << >> ELSE S(f[m - 1], m)
      BY <1>3, <1>5, <3>1
    <3> QED BY <2>2, <3>1, <3>2
  <2> QED BY <1>2, <2>1, <2>2
<1>7. Picks(g, a, I, k)
  BY <1>3, <1>6
<1> QED BY <1>2, <1>7

\* The records of a table that grows by one.
LEMMA RecsAppend ==
  ASSUME NEW S, NEW a \in Seq(S), NEW r \in S
  PROVE  Append(a, r) \in Seq(S) /\ Recs(Append(a, r)) = Recs(a) \cup {r}
<1> DEFINE b == Append(a, r)
<1>1. /\ b \in Seq(S) /\ Len(b) = Len(a) + 1 /\ DOMAIN b = 1..Len(b) /\ DOMAIN a = 1..Len(a)
      /\ Len(a) \in Nat /\ b[Len(a) + 1] = r /\ \A i \in 1..Len(a) : b[i] = a[i]
  OBVIOUS
<1> HIDE DEF b
<1>2. ASSUME NEW x \in Recs(b) PROVE x \in Recs(a) \cup {r}
  <2>1. PICK i \in 1..Len(a) + 1 : x = b[i]
    BY <1>1 DEF Recs
  <2>2. CASE i = Len(a) + 1
    BY <1>1, <2>1, <2>2
  <2>3. CASE i # Len(a) + 1
    <3>1. i \in 1..Len(a)
      BY <1>1, <2>3
    <3> QED BY <1>1, <2>1, <3>1 DEF Recs
  <2> QED BY <2>2, <2>3
<1>3. ASSUME NEW x \in Recs(a) PROVE x \in Recs(b)
  <2>1. PICK i \in 1..Len(a) : x = a[i]
    BY <1>1 DEF Recs
  <2>2. i \in 1..Len(b)
    BY <1>1
  <2> QED BY <1>1, <2>1, <2>2 DEF Recs
<1>4. r \in Recs(b)
  <2>1. Len(a) + 1 \in DOMAIN b
    BY <1>1
  <2> QED BY <1>1, <2>1 DEF Recs
<1> QED BY <1>1, <1>2, <1>3, <1>4 DEF b

\* Exactly the chosen records are kept.
LEMMA PickedIs ==
  ASSUME NEW S, NEW a \in Seq(S), NEW I \in SUBSET DOMAIN a
  PROVE  Picked(a, I) \in Seq(S) /\ Recs(Picked(a, I)) = {a[i] : i \in I}
<1> DEFINE n == Len(a)
           f == CHOOSE f : Picks(f, a, I, n)
<1>1. n \in Nat /\ Picks(f, a, I, n) /\ DOMAIN a = 1..n /\ \A i \in 1..n : a[i] \in S
  <2>1. n \in Nat /\ DOMAIN a = 1..n /\ \A i \in 1..n : a[i] \in S
    OBVIOUS
  <2>2. \E g : Picks(g, a, I, n)
    BY <2>1, PicksExist, Zenon
  <2> QED BY <2>1, <2>2, Zenon
<1>2. Picked(a, I) = f[n]
  BY DEF Picked, Picks
<1> HIDE DEF f, n
<1>3. \A k \in 0..n : f[k] = IF k = 0 THEN << >>
                             ELSE IF k \in I THEN Append(f[k - 1], a[k]) ELSE f[k - 1]
  BY <1>1 DEF Picks
<1> DEFINE Good(k) == f[k] \in Seq(S) /\ Recs(f[k]) = {a[i] : i \in {j \in I : j <= k}}
           Bad == {k \in 0..n : ~Good(k)}
<1>4. Good(0)
  <2>1. f[0] = << >>
    BY <1>1, <1>3
  <2>2. << >> \in Seq(S) /\ Recs(<< >>) = {}
    BY DEF Recs
  <2>3. {j \in I : j <= 0} = {}
    BY <1>1
  <2> QED BY <2>1, <2>2, <2>3
<1>5. ASSUME NEW k \in 1..n, Good(k - 1) PROVE Good(k)
  <2>1. k \in 0..n /\ k # 0 /\ a[k] \in S
    BY <1>1
  <2>2. CASE k \in I
    <3>1. f[k] = Append(f[k - 1], a[k])
      BY <1>3, <2>1, <2>2
    <3>2. f[k] \in Seq(S) /\ Recs(f[k]) = Recs(f[k - 1]) \cup {a[k]}
      BY <1>5, <2>1, <3>1, RecsAppend
    <3>3. {j \in I : j <= k} = {j \in I : j <= k - 1} \cup {k}
      BY <1>1, <2>2
    <3> QED BY <1>5, <3>2, <3>3
  <2>3. CASE k \notin I
    <3>1. f[k] = f[k - 1]
      BY <1>3, <2>1, <2>3
    <3>2. {j \in I : j <= k} = {j \in I : j <= k - 1}
      BY <1>1, <2>3
    <3> QED BY <1>5, <3>1, <3>2
  <2> QED BY <2>2, <2>3
<1> HIDE DEF Good
<1>6. Bad = {}
  <2> SUFFICES ASSUME Bad # {} PROVE FALSE
    OBVIOUS
  <2>1. PICK k \in Bad : \A j \in Bad : k <= j
    <3>1. Bad \in SUBSET Nat
      BY <1>1
    <3> QED BY <3>1, LeastNat
  <2>2. k \in 1..n /\ k - 1 \in 0..n /\ ~(k <= k - 1)
    BY <1>1, <1>4, <2>1
  <2> QED BY <1>5, <2>1, <2>2
<1>7. Good(n)
  BY <1>1, <1>6
<1>8. {j \in I : j <= n} = I
  BY <1>1
<1> QED BY <1>2, <1>7, <1>8 DEF Good

Copies(R, from, to) == {Carried(r, from, to) : r \in {s \in R : Beneath(s.path, from)}}
AllCarried(R, from, to) == {Carried(r, from, to) : r \in R}
KeepsPaths(from, to) ==
  \A p \in Paths : Renamed(p, from, to) \in Paths /\ Renamed(p, to, from) \in Paths

\* A record that moves keeps everything but its path.
LEMMA CarriedIs ==
  ASSUME NEW from, NEW to, KeepsPaths(from, to), NEW r \in Record
  PROVE  /\ Carried(r, from, to) \in Record
         /\ Carried(r, from, to).path = Renamed(r.path, from, to)
         /\ Carried(r, from, to).user = r.user /\ Carried(r, from, to).rights = r.rights
         /\ Carried(r, from, to).lock = r.lock
         /\ ~Beneath(r.path, from) => Carried(r, from, to) = r
<1> DEFINE n == Renamed(r.path, from, to)
<1>1. n \in Paths
  BY DEF KeepsPaths, Record
<1>2. Carried(r, from, to) = [r EXCEPT !.path = n]
  BY DEF Carried
<1>3. ~Beneath(r.path, from) => n = r.path
  BY DEF Renamed
<1> HIDE DEF n
<1>4. [r EXCEPT !.path = n] \in Record /\ [r EXCEPT !.path = n].path = n
      /\ [r EXCEPT !.path = n].user = r.user /\ [r EXCEPT !.path = n].rights = r.rights
      /\ [r EXCEPT !.path = n].lock = r.lock
  BY <1>1 DEF Record
<1>5. n = r.path => [r EXCEPT !.path = n] = r
  BY DEF Record
<1> QED BY <1>2, <1>3, <1>4, <1>5 DEF n

\* The two tables that permissions_move_prepare makes.
LEMMA GuardedIs ==
  ASSUME acl \in Seq(Record), NEW from, NEW to, KeepsPaths(from, to)
  PROVE  /\ Guarded(from, to) \in Seq(Record)
         /\ Recs(Guarded(from, to)) = Recs(acl) \cup Copies(Recs(acl), from, to)
         /\ Final(from, to) \in Seq(Record)
         /\ Recs(Final(from, to)) = AllCarried(Recs(acl), from, to)
<1> DEFINE I == {i \in DOMAIN acl : Beneath(acl[i].path, from)}
           m == Picked(acl, I)
           c == [i \in DOMAIN m |-> Carried(m[i], from, to)]
           f == [i \in DOMAIN acl |-> Carried(acl[i], from, to)]
<1>1. m \in Seq(Record) /\ Recs(m) = {acl[i] : i \in I}
  BY PickedIs
<1>2. Guarded(from, to) = acl \o c /\ Final(from, to) = f
  BY DEF Guarded, Final
<1>3. Recs(m) = {s \in Recs(acl) : Beneath(s.path, from)}
  BY <1>1 DEF Recs
<1> HIDE DEF m
<1>4. c \in Seq(Record) /\ Recs(c) = {Carried(r, from, to) : r \in Recs(m)} /\ Len(c) = Len(m)
      /\ DOMAIN c = 1..Len(m)
  <2>1. DOMAIN m = 1..Len(m) /\ Len(m) \in Nat /\ \A i \in 1..Len(m) : m[i] \in Record
    BY <1>1
  <2>2. \A i \in 1..Len(m) : Carried(m[i], from, to) \in Record
    BY <2>1, CarriedIs
  <2>3. c \in Seq(Record)
    BY <2>1, <2>2
  <2>4. Recs(c) = {Carried(r, from, to) : r \in Recs(m)}
    BY <2>1 DEF Recs
  <2> QED BY <2>1, <2>3, <2>4
<1>5. f \in Seq(Record) /\ Recs(f) = {Carried(r, from, to) : r \in Recs(acl)}
  <2>1. DOMAIN acl = 1..Len(acl) /\ Len(acl) \in Nat /\ \A i \in 1..Len(acl) : acl[i] \in Record
    OBVIOUS
  <2>2. \A i \in 1..Len(acl) : Carried(acl[i], from, to) \in Record
    BY <2>1, CarriedIs
  <2>3. f \in Seq(Record)
    BY <2>1, <2>2
  <2>4. Recs(f) = {Carried(r, from, to) : r \in Recs(acl)}
    BY <2>1 DEF Recs
  <2> QED BY <2>3, <2>4
<1> HIDE DEF c, f
<1>6. acl \o c \in Seq(Record) /\ Recs(acl \o c) = Recs(acl) \cup Recs(c)
  <2> DEFINE b == acl \o c
             n == Len(acl)
  <2>1. /\ b \in Seq(Record) /\ Len(b) = n + Len(c) /\ n \in Nat /\ Len(c) \in Nat
        /\ \A i \in 1..n : b[i] = acl[i]
        /\ \A i \in n + 1..n + Len(c) : b[i] = c[i - n]
        /\ DOMAIN b = 1..n + Len(c) /\ DOMAIN acl = 1..n /\ DOMAIN c = 1..Len(c)
    BY <1>4
  <2> HIDE DEF b, n
  <2>2. ASSUME NEW x \in Recs(b) PROVE x \in Recs(acl) \cup Recs(c)
    <3>1. PICK i \in 1..n + Len(c) : x = b[i]
      BY <2>1 DEF Recs
    <3>2. CASE i \in 1..n
      BY <2>1, <3>1, <3>2 DEF Recs
    <3>3. CASE i \notin 1..n
      <4>1. i \in n + 1..n + Len(c) /\ i - n \in 1..Len(c)
        BY <2>1, <3>3
      <4> QED BY <2>1, <3>1, <4>1 DEF Recs
    <3> QED BY <3>2, <3>3
  <2>3. ASSUME NEW x \in Recs(acl) PROVE x \in Recs(b)
    <3>1. PICK i \in 1..n : x = acl[i]
      BY <2>1 DEF Recs
    <3>2. i \in 1..n + Len(c)
      BY <2>1
    <3> QED BY <2>1, <3>1, <3>2 DEF Recs
  <2>4. ASSUME NEW x \in Recs(c) PROVE x \in Recs(b)
    <3>1. PICK i \in 1..Len(c) : x = c[i]
      BY <2>1 DEF Recs
    <3>2. n + i \in n + 1..n + Len(c) /\ n + i \in 1..n + Len(c) /\ (n + i) - n = i
      BY <2>1
    <3>3. b[n + i] = c[i]
      BY <2>1, <3>2
    <3> QED BY <2>1, <3>1, <3>2, <3>3 DEF Recs
  <2> QED BY <2>1, <2>2, <2>3, <2>4 DEF b
<1> QED BY <1>2, <1>3, <1>4, <1>5, <1>6 DEF Copies, AllCarried

\* The paths of the model are paths.
LEMMA PathsArePaths == \A p \in Paths : p \in Path /\ Len(p) > 0
<1> TAKE p \in Paths
<1>1. p \in Seq(STRING) /\ Len(p) > 0
  BY AccessAssumption
<1>2. Len(p) \in Nat /\ DOMAIN p = 1..Len(p) /\ \A i \in 1..Len(p) : p[i] \in Word
  BY <1>1 DEF Word
<1>3. p = [i \in 1..Len(p) |-> p[i]]
  BY <1>1
<1>4. [i \in 1..Len(p) |-> p[i]] \in Seq(Word)
  BY <1>2
<1> QED BY <1>1, <1>3, <1>4 DEF Path

\* Of some records above one path there is a last longest one.
LEMMA MostSpecificIs ==
  ASSUME NEW a \in Seq(Record), NEW I \in SUBSET DOMAIN a, I # {}, NEW p \in Path,
         \A i \in I : Beneath(p, a[i].path)
  PROVE  /\ MostSpecific(a, I) \in I
         /\ \A j \in I : Len(a[j].path) <= Len(a[MostSpecific(a, I)].path)
<1> DEFINE len(i) == Len(a[i].path)
           T == {len(i) : i \in I}
<1>1. \A i \in I : i \in Nat /\ i <= Len(a) /\ len(i) \in Nat /\ len(i) <= Len(p)
  <2> TAKE i \in I
  <2>1. i \in 1..Len(a) /\ a[i] \in Record /\ Len(a) \in Nat
    OBVIOUS
  <2>2. a[i].path \in Path
    BY <2>1, PathsArePaths DEF Record
  <2>3. len(i) <= Len(p)
    BY <2>2, PrefixIs DEF Beneath
  <2> QED BY <2>1, <2>2, <2>3 DEF Path
<1>2. T \in SUBSET Nat /\ T # {} /\ Len(p) \in Nat /\ \A x \in T : x <= Len(p)
  <2>1. \A x \in T : x \in Nat /\ x <= Len(p)
    BY <1>1
  <2>2. Len(p) \in Nat
    BY DEF Path
  <2>3. T # {}
    BY Zenon
  <2> QED BY <2>1, <2>2, <2>3
<1>3. PICK x \in T : \A y \in T : y <= x
  BY <1>2, GreatestNat
<1> DEFINE J == {i \in I : len(i) = x}
<1>4. J \in SUBSET Nat /\ J # {} /\ Len(a) \in Nat /\ \A i \in J : i <= Len(a)
  BY <1>1, <1>3
<1>5. PICK k \in J : \A j \in J : j <= k
  BY <1>4, GreatestNat
<1> HIDE DEF len
<1>6. \A j \in I : len(j) < len(k) \/ (len(j) = len(k) /\ j <= k)
  <2> TAKE j \in I
  <2>1. len(j) \in Nat /\ x \in Nat /\ len(j) <= x /\ len(k) = x
    BY <1>1, <1>2, <1>3, <1>5
  <2>2. CASE len(j) = x
    BY <1>5, <2>1, <2>2
  <2>3. CASE len(j) # x
    BY <2>1, <2>3
  <2> QED BY <2>2, <2>3
<1> DEFINE Ok(i) == \A j \in I : len(j) < len(i) \/ (len(j) = len(i) /\ j <= i)
<1>7. MostSpecific(a, I) = CHOOSE i \in I : Ok(i)
  BY Zenon DEF MostSpecific, len
<1>8. k \in I /\ Ok(k)
  BY <1>5, <1>6
<1>9. MostSpecific(a, I) \in I /\ Ok(MostSpecific(a, I))
  <2> HIDE DEF Ok
  <2> QED BY <1>7, <1>8, Zenon
<1>10. \A j \in I : len(j) <= len(MostSpecific(a, I))
  BY <1>1, <1>9, SMTT(30)
<1> QED BY <1>9, <1>10 DEF len

Locked(R, p) == \E r \in R : Beneath(p, r.path) /\ r.lock # ""

\* A path has a lock if a record at or above it has one.
LEMMA LockIs ==
  ASSUME NEW a \in Seq(Record), NEW p \in Path
  PROVE  Lock(a, p) \in Passwords \cup {""} /\ (Lock(a, p) # "" <=> Locked(Recs(a), p))
<1> DEFINE I == {i \in DOMAIN a : Beneath(p, a[i].path) /\ a[i].lock # ""}
<1>0. \A i \in DOMAIN a : a[i] \in Record
  OBVIOUS
<1>1. I # {} <=> Locked(Recs(a), p)
  BY DEF Locked, Recs
<1>2. Lock(a, p) = IF I = {} THEN "" ELSE a[MostSpecific(a, I)].lock
  BY DEF Lock
<1>3. CASE I = {}
  BY <1>1, <1>2, <1>3
<1>4. CASE I # {}
  <2>1. MostSpecific(a, I) \in I
    BY <1>4, MostSpecificIs
  <2> DEFINE i == MostSpecific(a, I)
  <2>2. i \in DOMAIN a /\ a[i] \in Record /\ a[i].lock # ""
    <3>1. i \in I
      BY <2>1
    <3> HIDE DEF i
    <3>2. i \in DOMAIN a /\ a[i].lock # ""
      BY <3>1, Zenon
    <3>3. a[i] \in Record
      BY <1>0, <3>2, Zenon
    <3> QED BY <3>2, <3>3
  <2>3. Lock(a, p) = a[i].lock
    BY <1>2, <1>4
  <2> HIDE DEF i
  <2> QED BY <1>1, <1>4, <2>2, <2>3 DEF Record
<1> QED BY <1>3, <1>4

---------------------------------------------------------------------------
(* What the records say of the objects                                     *)

\* Where no record of another object is left, the records of a path and a
\* user say what chmod gave, and there is one if it gave anything.
Faithful(R, g, left) ==
  \A q \in Paths, u \in Users : <<q, u>> \notin left =>
    /\ \A r \in R : r.path = q /\ r.user = u => r.rights = g[q][u]
    /\ g[q][u] # Ungiven => \E r \in R : r.path = q /\ r.user = u

Grants == [Paths -> [Users -> Rights \cup {Ungiven}]]
Markers == SUBSET (Paths \X Users)

\* The rename is reflected in what was given and left exactly as in the
\* records, in the guarded table and in the final one.
MovedGrants(g, from, to) == [p \in Paths |-> IF Beneath(p, from) THEN [u \in Users |-> Ungiven]
                                             ELSE g[Renamed(p, to, from)]]
RecordPairs(R, q) == {<<r.path, r.user>> : r \in {s \in R : Beneath(s.path, q)}}
MovedMarks(before, R, from, to) ==
  {<<Renamed(x[1], from, to), x[2]>> : x \in before} \cup RecordPairs(R, from)
    \cup {x \in before : Beneath(x[1], to)}
LEMMA MovedFaithful ==
  ASSUME NEW from, NEW to, Siblings(from, to), KeepsPaths(from, to), NEW R0 \in SUBSET Record,
         NEW g \in Grants, NEW before \in Markers, Faithful(R0, g, before),
         \A q \in Paths, u \in Users : Beneath(q, to) => g[q][u] = Ungiven
  PROVE  LET R == R0 \cup Copies(R0, from, to)
             left == MovedMarks(before, R, from, to)
         IN  /\ Faithful(R, MovedGrants(g, from, to), left)
             /\ Faithful(AllCarried(R0, from, to), MovedGrants(g, from, to),
                         {x \in left : ~Beneath(x[1], from)})
             /\ AllCarried(R0, from, to) \subseteq R
<1> DEFINE R == R0 \cup Copies(R0, from, to)
           F == AllCarried(R0, from, to)
           left == MovedMarks(before, R, from, to)
           g2 == MovedGrants(g, from, to)
           new(p) == Renamed(p, from, to)
           old(p) == Renamed(p, to, from)
<1>1. /\ from \in Path /\ to \in Path /\ Siblings(to, from)
      /\ \A r \in R0 : r \in Record /\ r.path \in Paths /\ r.path \in Path /\ r.user \in Users /\ r.rights \in Rights
  BY SiblingsFacts, PathsArePaths DEF Siblings, Record
<1>2. \A r \in R0 : /\ Carried(r, from, to).path = new(r.path)
                    /\ Carried(r, from, to).user = r.user /\ Carried(r, from, to).rights = r.rights
                    /\ ~Beneath(r.path, from) => Carried(r, from, to) = r
  BY <1>1, CarriedIs
<1>3. ASSUME NEW q \in Paths
      PROVE  /\ ~Beneath(new(q), from) /\ (~Beneath(q, from) => new(q) = q)
             /\ (Beneath(q, from) => Beneath(new(q), to) /\ old(new(q)) = q)
             /\ (~Beneath(q, to) => old(q) = q)
             /\ (Beneath(q, to) => Beneath(old(q), from) /\ new(old(q)) = q /\ ~Beneath(q, from))
             /\ old(q) \in Paths /\ new(q) \in Paths
  <2>1. q \in Path
    BY PathsArePaths
  <2> QED BY <1>1, <2>1, RenameFacts DEF KeepsPaths
<1>4. /\ \A p \in Paths : g2[p] = IF Beneath(p, from) THEN [u \in Users |-> Ungiven] ELSE g[old(p)]
      /\ \A x \in R : x \in R0 \/ \E r \in R0 : Beneath(r.path, from) /\ x = Carried(r, from, to)
      /\ \A r \in R0 : r \in R /\ (Beneath(r.path, from) => Carried(r, from, to) \in R)
      /\ \A x \in F : \E r \in R0 : x = Carried(r, from, to)
      /\ \A r \in R0 : Carried(r, from, to) \in F
      /\ \A x \in before : <<new(x[1]), x[2]>> \in left /\ (Beneath(x[1], to) => x \in left)
      /\ \A r \in R : Beneath(r.path, from) => <<r.path, r.user>> \in left
  BY DEF MovedGrants, Copies, AllCarried, MovedMarks, RecordPairs
<1>5. ASSUME NEW q \in Paths, NEW u \in Users, Beneath(q, to), <<q, u>> \notin before
      PROVE  \A r \in R0 : ~(r.path = q /\ r.user = u)
  <2> SUFFICES ASSUME NEW r \in R0, r.path = q, r.user = u PROVE FALSE
    OBVIOUS
  <2>1. r.rights = g[q][u] /\ g[q][u] = Ungiven
    BY <1>5 DEF Faithful
  <2> QED BY <1>1, <2>1, AccessAssumption
<1>6. F \subseteq R
  BY <1>2, <1>4
<1> HIDE DEF F, R, left, g2, new, old
<1>7. ASSUME NEW q \in Paths, NEW u \in Users, Beneath(q, from)
      PROVE  /\ g2[q][u] = Ungiven /\ (\A x \in F : ~(x.path = q))
             /\ (<<q, u>> \notin left => \A x \in R : ~(x.path = q /\ x.user = u))
  <2>1. g2[q][u] = Ungiven
    BY <1>4, <1>7
  <2>2. ASSUME NEW x \in F, x.path = q PROVE FALSE
    <3>1. PICK r \in R0 : x = Carried(r, from, to)
      BY <1>4
    <3>2. q = new(r.path) /\ r.path \in Paths
      BY <1>1, <1>2, <2>2, <3>1
    <3> QED BY <1>3, <1>7, <3>2
  <2>3. <<q, u>> \notin left => \A x \in R : ~(x.path = q /\ x.user = u)
    BY <1>4, <1>7
  <2> QED BY <2>1, <2>2, <2>3
<1>8. ASSUME NEW q \in Paths, NEW u \in Users, ~Beneath(q, from), <<q, u>> \notin left
      PROVE  /\ \A x \in R : x.path = q /\ x.user = u => x.rights = g2[q][u]
             /\ g2[q][u] # Ungiven => \E x \in F : x.path = q /\ x.user = u
  <2>1. CASE ~Beneath(q, to)
    <3>1. old(q) = q /\ g2[q] = g[q] /\ new(q) = q
      BY <1>3, <1>4, <1>8, <2>1
    <3>2. <<q, u>> \notin before
      <4>1. <<q, u>>[1] = q /\ <<q, u>>[2] = u
        OBVIOUS
      <4> QED BY <1>4, <1>8, <3>1, <4>1
    <3>3. /\ \A r \in R0 : r.path = q /\ r.user = u => r.rights = g[q][u]
          /\ g[q][u] # Ungiven => \E r \in R0 : r.path = q /\ r.user = u
      BY <3>2 DEF Faithful
    <3>4. ASSUME NEW x \in R, x.path = q PROVE x \in R0
      <4> SUFFICES ASSUME NEW r \in R0, Beneath(r.path, from), x = Carried(r, from, to) PROVE FALSE
        BY <1>4
      <4>1. q = new(r.path) /\ r.path \in Paths
        BY <1>1, <1>2, <3>4
      <4> QED BY <1>3, <2>1, <4>1
    <3>5. ASSUME NEW r \in R0, r.path = q, r.user = u PROVE \E x \in F : x.path = q /\ x.user = u
      <4>1. Carried(r, from, to) \in F /\ Carried(r, from, to).path = q /\ Carried(r, from, to).user = u
        BY <1>2, <1>4, <3>1, <3>5
      <4> QED BY <4>1
    <3> QED BY <3>1, <3>3, <3>4, <3>5
  <2>2. CASE Beneath(q, to)
    <3> DEFINE o == old(q)
    <3>1. o \in Paths /\ g2[q] = g[o] /\ new(o) = q /\ Beneath(o, from)
      BY <1>3, <1>4, <1>8, <2>2
    <3> HIDE DEF o
    <3>2. <<o, u>> \notin before /\ <<q, u>> \notin before
      <4>1. <<o, u>>[1] = o /\ <<o, u>>[2] = u /\ <<q, u>>[1] = q
        OBVIOUS
      <4> QED BY <1>4, <1>8, <2>2, <3>1, <4>1
    <3>3. /\ \A r \in R0 : r.path = o /\ r.user = u => r.rights = g[o][u]
          /\ g[o][u] # Ungiven => \E r \in R0 : r.path = o /\ r.user = u
      BY <3>1, <3>2 DEF Faithful
    <3>4. ASSUME NEW x \in R, x.path = q, x.user = u PROVE x.rights = g[o][u]
      <4>1. x \notin R0
        BY <1>5, <2>2, <3>2, <3>4
      <4>2. PICK r \in R0 : Beneath(r.path, from) /\ x = Carried(r, from, to)
        BY <1>4, <4>1
      <4>3. new(r.path) = q /\ r.path \in Paths /\ r.user = u /\ x.rights = r.rights
        BY <1>1, <1>2, <3>4, <4>2
      <4>4. r.path = old(q)
        BY <1>3, <4>2, <4>3
      <4> QED BY <3>3, <4>3, <4>4 DEF o
    <3>5. ASSUME NEW r \in R0, r.path = o, r.user = u PROVE \E x \in F : x.path = q /\ x.user = u
      <4>1. Carried(r, from, to) \in F /\ Carried(r, from, to).path = q /\ Carried(r, from, to).user = u
        BY <1>2, <1>4, <3>1, <3>5
      <4> QED BY <4>1
    <3> QED BY <3>1, <3>3, <3>4, <3>5
  <2> QED BY <2>1, <2>2
<1>9. Faithful(R, g2, left)
  BY <1>6, <1>7, <1>8 DEF Faithful
<1>10. Faithful(F, g2, {x \in left : ~Beneath(x[1], from)})
  <2> SUFFICES ASSUME NEW q \in Paths, NEW u \in Users,
                      <<q, u>> \notin {x \in left : ~Beneath(x[1], from)}
               PROVE  /\ \A x \in F : x.path = q /\ x.user = u => x.rights = g2[q][u]
                      /\ g2[q][u] # Ungiven => \E x \in F : x.path = q /\ x.user = u
    BY DEF Faithful
  <2>1. <<q, u>>[1] = q
    OBVIOUS
  <2>2. CASE Beneath(q, from)
    BY <1>7, <2>2
  <2>3. CASE ~Beneath(q, from)
    <3>1. <<q, u>> \notin left
      BY <2>1, <2>3
    <3> QED BY <1>6, <1>8, <2>3, <3>1
  <2> QED BY <2>2, <2>3
<1> QED BY <1>6, <1>9, <1>10 DEF R, F, left, g2

---------------------------------------------------------------------------
(* The invariant of the access records                                     *)

Moves == [phase : {"entry", "finish"}, from : Paths, to : Paths, final : Seq(Record),
          before : Markers]
AccessTypeOK ==
  /\ acl \in Seq(Record) /\ tree \in SUBSET Path /\ given \in Grants
  /\ secured \in SUBSET Path /\ leftover \in Markers /\ (mv = Resting \/ mv \in Moves)

\* The directories above an object exist, and only objects were given rights.
Closed(t) == \A p \in t, q \in Path : Beneath(p, q) => q \in t
Bare(t, g) == \A p \in Paths, u \in Users : p \notin t => g[p][u] = Ungiven

\* Between the two writes: the table has the old records and copies of those
\* that move, and the table to come is right for the names to come.
EntryOK ==
  mv.phase = "entry" =>
    /\ Siblings(mv.from, mv.to) /\ KeepsPaths(mv.from, mv.to)
    /\ \E R \in SUBSET Record : /\ Faithful(R, given, mv.before)
                                /\ Recs(acl) = R \cup Copies(R, mv.from, mv.to)
                                /\ Recs(mv.final) = AllCarried(R, mv.from, mv.to)
    /\ \A p \in secured : Locked(Recs(mv.final), Renamed(p, mv.from, mv.to))

\* After the entry has moved: the final table is right for the names there are.
FinishOK ==
  mv.phase = "finish" =>
    /\ Faithful(Recs(mv.final), given, {x \in leftover : ~Beneath(x[1], mv.from)})
    /\ \A p \in secured : Locked(Recs(mv.final), p)

AllLocked == \A p \in secured : Locked(Recs(acl), p)
AccessInv == /\ AccessTypeOK /\ Closed(tree) /\ Bare(tree, given) /\ EntryOK /\ FinishOK
             /\ AllLocked /\ Faithful(Recs(acl), given, leftover)

\* A path and the directories above it.
LEMMA AboveIs ==
  ASSUME NEW p \in Path, NEW q \in Path, Len(p) > 0, Beneath(p, q)
  PROVE  q = p \/ Beneath(Front(p), q)
<1> USE DEF Path
<1> DEFINE f == SubSeq(p, 1, Len(p) - 1)
<1>1. f \in Seq(Word) /\ Len(f) = Len(p) - 1 /\ \A i \in 1..Len(p) - 1 : f[i] = p[i]
  <2> DEFINE n == Len(p) - 1
  <2>1. n \in Nat /\ n <= Len(p) /\ Len(p) \in Nat
    OBVIOUS
  <2> HIDE DEF n
  <2>2. SubSeq(p, 1, n) \in Seq(Word) /\ Len(SubSeq(p, 1, n)) = n
        /\ \A i \in 1..n : SubSeq(p, 1, n)[i] = p[i]
    BY <2>1
  <2> QED BY <2>2 DEF n
<1>2. Front(p) = f
  BY DEF Front
<1> HIDE DEF f
<1>3. Len(q) <= Len(p) /\ \A i \in 1..Len(q) : q[i] = p[i]
  BY PrefixIs DEF Beneath
<1>4. CASE Len(q) = Len(p)
  BY <1>3, <1>4, SeqEqual
<1>5. CASE Len(q) # Len(p)
  <2>1. Len(q) <= Len(f) /\ \A i \in 1..Len(q) : q[i] = f[i]
    BY <1>1, <1>3, <1>5
  <2> QED BY <1>1, <1>2, <2>1, PrefixIs DEF Beneath
<1> QED BY <1>4, <1>5

\* A freshly installed system: no records, and the homes of the users.
LEMMA InitAccessInv == AccessInit => AccessInv
<1> SUFFICES ASSUME AccessInit PROVE AccessInv
  OBVIOUS
<1> DEFINE h == <<"home">>
<1>1. /\ << >> \in Path /\ h \in Path /\ Len(h) = 1 /\ h[1] = "home" /\ Len(<< >>) = 0
      /\ \A u \in Users : Home(u) \in Path /\ Len(Home(u)) = 2 /\ Home(u)[1] = "home"
  BY DEF Path, Word, Home
<1>2. tree = {<< >>, h} \cup {Home(u) : u \in Users}
  BY DEF AccessInit
<1>3. Recs(acl) = {}
  BY DEF AccessInit, Recs
<1>4. AccessTypeOK
  <2>1. tree \in SUBSET Path
    BY <1>1, <1>2
  <2>2. given \in Grants
    BY DEF AccessInit, Grants
  <2> QED BY <2>1, <2>2 DEF AccessInit, AccessTypeOK, Markers
<1>5. Closed(tree)
  <2> SUFFICES ASSUME NEW p \in tree, NEW q \in Path, Beneath(p, q) PROVE q \in tree
    BY DEF Closed
  <2>0. p \in Path
    BY <1>4 DEF AccessTypeOK
  <2>1. Len(q) \in Nat /\ Len(q) <= Len(p) /\ \A i \in 1..Len(q) : q[i] = p[i]
    BY <2>0, PrefixIs DEF Beneath, Path
  <2> HIDE DEF h
  <2>2. Len(p) = 0 \/ Len(p) = 1 \/ Len(p) = 2
    BY <1>1, <1>2
  <2>3. CASE Len(q) = Len(p)
    BY <2>0, <2>1, <2>3, SeqEqual DEF Path
  <2>4. CASE Len(q) = 0
    BY <1>1, <1>2, <2>4, SeqEqual DEF Path
  <2>5. CASE Len(q) = 1 /\ Len(p) = 2
    <3>1. p[1] = "home"
      BY <1>1, <1>2, <2>5
    <3>2. q[1] = h[1] /\ Len(q) = Len(h)
      BY <1>1, <2>1, <2>5, <3>1
    <3>3. q = h
      BY <1>1, <2>5, <3>2, SeqEqual DEF Path
    <3> QED BY <1>2, <3>3
  <2>6. Len(q) = 0 \/ Len(q) = Len(p) \/ (Len(q) = 1 /\ Len(p) = 2)
    <3>1. \A a \in Nat, b \in 0..2 : a <= b => a = 0 \/ a = b \/ (a = 1 /\ b = 2)
      OBVIOUS
    <3>2. Len(p) \in 0..2
      BY <2>2
    <3> QED BY <2>1, <3>1, <3>2, Zenon
  <2> QED BY <2>3, <2>4, <2>5, <2>6
<1>6. EntryOK /\ FinishOK
  BY DEF AccessInit, Resting, EntryOK, FinishOK
<1>7. Bare(tree, given) /\ AllLocked /\ Faithful(Recs(acl), given, leftover)
  BY <1>3 DEF AccessInit, Bare, AllLocked, Faithful
<1> QED BY <1>4, <1>5, <1>6, <1>7 DEF AccessInv

\* chmod replaces one record; a lock above or at the path is copied into it.
LEMMA SetAccessInv ==
  ASSUME AccessInv, NEW u \in Anyone, NEW p \in Paths, NEW v \in Users, NEW rights \in Rights,
         NEW pw \in Passwords, set_file_permissions(u, p, v, rights, pw)
  PROVE  AccessInv'
<1> DEFINE I == {i \in DOMAIN acl : acl[i].path # p \/ acl[i].user # v}
           rest == Picked(acl, I)
           lock == Encoded(u, p, pw)
           rec == [path |-> p, user |-> v, rights |-> rights, lock |-> lock]
           R == Recs(acl)
<1>1. /\ mv = Resting /\ mv' = mv /\ p \in tree /\ tree' = tree /\ acl' = Append(rest, rec)
      /\ given' = [given EXCEPT ![p][v] = rights]
      /\ secured' = IF lock # "" THEN secured \cup {p} ELSE secured
      /\ leftover' = leftover \ {<<p, v>>}
  BY DEF set_file_permissions
<1>2. acl \in Seq(Record) /\ p \in Path
  BY PathsArePaths DEF AccessInv, AccessTypeOK
<1>3. lock \in Passwords \cup {""} /\ (Locked(R, p) => lock # "")
  BY <1>2, LockIs DEF Encoded
<1> HIDE DEF lock
<1>4. rec \in Record /\ rec.path = p /\ rec.user = v /\ rec.rights = rights /\ rec.lock = lock
  BY <1>3 DEF Record
<1>5. rest \in Seq(Record) /\ Recs(rest) = {acl[i] : i \in I}
  BY <1>2, PickedIs
<1>6. Recs(rest) = {r \in R : r.path # p \/ r.user # v}
  BY <1>5 DEF Recs
<1> HIDE DEF rest, rec, R
<1>7. acl' \in Seq(Record) /\ Recs(acl') = {r \in R : r.path # p \/ r.user # v} \cup {rec}
  <2>1. Append(rest, rec) \in Seq(Record) /\ Recs(Append(rest, rec)) = Recs(rest) \cup {rec}
    BY <1>4, <1>5, RecsAppend
  <2> QED BY <1>1, <1>6, <2>1
<1>8. given' \in Grants /\ given'[p][v] = rights
      /\ \A q \in Paths, w \in Users : <<q, w>> # <<p, v>> => given'[q][w] = given[q][w]
  BY <1>1 DEF AccessInv, AccessTypeOK, Grants
<1>9. AccessTypeOK'
  <2>1. secured' \in SUBSET Path /\ leftover' \in Markers
    BY <1>1, <1>2 DEF AccessInv, AccessTypeOK, Markers
  <2> QED BY <1>1, <1>7, <1>8, <2>1 DEF AccessInv, AccessTypeOK
<1>10. Closed(tree)' /\ Bare(tree, given)'
  <2>1. Closed(tree')
    BY <1>1 DEF AccessInv
  <2>2. ASSUME NEW q \in Paths, NEW w \in Users, q \notin tree' PROVE given'[q][w] = Ungiven
    BY <1>1, <1>8, <2>2 DEF AccessInv, Bare
  <2> QED BY <2>1, <2>2 DEF Bare
<1>11. EntryOK' /\ FinishOK'
  BY <1>1 DEF EntryOK, FinishOK, Resting
<1>12. AllLocked'
  <2> SUFFICES ASSUME NEW s \in secured' PROVE Locked(Recs(acl'), s)
    BY DEF AllLocked
  <2>1. ASSUME lock # "", Beneath(s, p) PROVE Locked(Recs(acl'), s)
    BY <1>4, <1>7, <2>1 DEF Locked
  <2>2. CASE s \in secured
    <3>1. PICK r \in R : Beneath(s, r.path) /\ r.lock # ""
      BY <2>2 DEF AccessInv, AllLocked, Locked, R
    <3>2. CASE r.path = p
      <4>1. Locked(R, p)
        BY <1>2, <3>1, <3>2, BeneathOrder DEF Locked
      <4> QED BY <1>3, <2>1, <3>1, <3>2, <4>1
    <3>3. CASE r.path # p
      BY <1>7, <3>1, <3>3 DEF Locked
    <3> QED BY <3>2, <3>3
  <2>3. CASE s \notin secured
    <3>1. s = p /\ lock # ""
      BY <1>1, <2>3
    <3> QED BY <1>2, <2>1, <3>1, BeneathOrder
  <2> QED BY <2>2, <2>3
<1>13. Faithful(Recs(acl), given, leftover)'
  <2> SUFFICES ASSUME NEW q \in Paths, NEW w \in Users, <<q, w>> \notin leftover'
               PROVE  /\ \A r \in Recs(acl') : r.path = q /\ r.user = w => r.rights = given'[q][w]
                      /\ given'[q][w] # Ungiven => \E r \in Recs(acl') : r.path = q /\ r.user = w
    BY DEF Faithful
  <2>1. CASE q = p /\ w = v
    BY <1>4, <1>7, <1>8, <2>1
  <2>2. CASE ~(q = p /\ w = v)
    <3>1. <<q, w>> # <<p, v>> /\ <<q, w>> \notin leftover
      BY <1>1, <2>2
    <3>2. given'[q][w] = given[q][w]
      BY <1>8, <3>1
    <3>3. /\ \A r \in R : r.path = q /\ r.user = w => r.rights = given[q][w]
          /\ given[q][w] # Ungiven => \E r \in R : r.path = q /\ r.user = w
      BY <3>1 DEF AccessInv, Faithful, R
    <3>4. ASSUME NEW r \in Recs(acl'), r.path = q, r.user = w PROVE r \in R
      BY <1>4, <1>7, <2>2, <3>4
    <3>5. ASSUME NEW r \in R, r.path = q, r.user = w PROVE r \in Recs(acl')
      BY <1>7, <2>2, <3>5
    <3> QED BY <3>2, <3>3, <3>4, <3>5
  <2> QED BY <2>1, <2>2
<1> QED BY <1>9, <1>10, <1>11, <1>12, <1>13 DEF AccessInv

\* An object appears below a directory, or disappears when nothing is below
\* it; its records stay and are marked.
LEMMA ObjectAccessInv ==
  ASSUME AccessInv, NEW u \in Anyone, NEW p \in Paths, CreateObject(u, p) \/ RemoveObject(u, p)
  PROVE  AccessInv'
<1>0. /\ p \in Path /\ Len(p) > 0 /\ mv = Resting /\ mv' = mv /\ acl' = acl
      /\ tree \in SUBSET Path /\ Closed(tree)
  BY PathsArePaths DEF CreateObject, RemoveObject, AccessInv, AccessTypeOK
<1>1. EntryOK' /\ FinishOK'
  BY <1>0 DEF EntryOK, FinishOK, Resting
<1>2. CASE CreateObject(u, p)
  <2>1. /\ Front(p) \in tree /\ tree' = tree \cup {p}
        /\ UNCHANGED <<given, secured, leftover>>
    BY <1>2 DEF CreateObject
  <2>2. Closed(tree')
    <3> SUFFICES ASSUME NEW s \in tree', NEW q \in Path, Beneath(s, q), s \notin tree PROVE q \in tree'
      BY <1>0, <2>1 DEF Closed
    <3>1. s = p
      BY <2>1
    <3>2. q = p \/ Beneath(Front(p), q)
      BY <1>0, <3>1, AboveIs
    <3> QED BY <1>0, <2>1, <3>2 DEF Closed
  <2>3. AccessTypeOK' /\ Bare(tree', given')
    BY <1>0, <2>1 DEF AccessInv, AccessTypeOK, Bare
  <2>4. AllLocked' /\ Faithful(Recs(acl'), given', leftover')
    BY <1>0, <2>1 DEF AccessInv, AllLocked
  <2> QED BY <1>1, <2>2, <2>3, <2>4 DEF AccessInv
<1>3. CASE RemoveObject(u, p)
  <2>1. /\ ~\E q \in tree \ {p} : Beneath(q, p)
        /\ tree' = tree \ {p} /\ secured' = secured \ {p}
        /\ given' = [given EXCEPT ![p] = [u2 \in Users |-> Ungiven]]
        /\ leftover' = leftover \cup {<<acl[i].path, acl[i].user>> :
                                        i \in {j \in DOMAIN acl : acl[j].path = p}}
    BY <1>3 DEF RemoveObject
  <2>2. Closed(tree')
    BY <1>0, <2>1 DEF Closed
  <2>3. /\ given' \in Grants /\ \A w \in Users : given'[p][w] = Ungiven
        /\ \A q \in Paths : q # p => given'[q] = given[q]
    BY <2>1 DEF AccessInv, AccessTypeOK, Grants
  <2>4. AccessTypeOK'
    <3>1. \A i \in DOMAIN acl : acl[i] \in Record
      BY DEF AccessInv, AccessTypeOK
    <3>2. \A i \in DOMAIN acl : acl[i].path \in Paths /\ acl[i].user \in Users
      BY <3>1 DEF Record
    <3>3. leftover' \in Markers
      BY <2>1, <3>2 DEF AccessInv, AccessTypeOK, Markers
    <3> QED BY <1>0, <2>1, <2>3, <3>3 DEF AccessInv, AccessTypeOK
  <2>5. Bare(tree', given')
    BY <2>1, <2>3 DEF AccessInv, Bare
  <2>6. AllLocked'
    BY <1>0, <2>1 DEF AccessInv, AllLocked
  <2>7. Faithful(Recs(acl'), given', leftover')
    <3> SUFFICES ASSUME NEW q \in Paths, NEW w \in Users, <<q, w>> \notin leftover'
                 PROVE  /\ \A r \in Recs(acl) : r.path = q /\ r.user = w => r.rights = given'[q][w]
                        /\ given'[q][w] # Ungiven => \E r \in Recs(acl) : r.path = q /\ r.user = w
      BY <1>0 DEF Faithful
    <3>1. <<q, w>> \notin leftover
      BY <2>1
    <3>2. CASE q = p
      <4>1. ASSUME NEW r \in Recs(acl), r.path = p, r.user = w PROVE FALSE
        BY <2>1, <3>2, <4>1 DEF Recs
      <4> QED BY <2>3, <3>2, <4>1
    <3>3. CASE q # p
      <4>1. given'[q][w] = given[q][w]
        BY <2>3, <3>3
      <4> QED BY <3>1, <4>1 DEF AccessInv, Faithful
    <3> QED BY <3>2, <3>3
  <2> QED BY <1>1, <2>2, <2>4, <2>5, <2>6, <2>7 DEF AccessInv
<1> QED BY <1>2, <1>3

\* Arguments of fs_mv are siblings.
LEMMA MvSiblings ==
  ASSUME NEW from \in Paths, NEW to \in Paths, from # to, Len(from) = Len(to),
         Front(from) = Front(to)
  PROVE  Siblings(from, to)
<1>1. from \in Path /\ to \in Path /\ Len(from) > 0
  BY PathsArePaths
<1> DEFINE n == Len(from) - 1
<1>2. n \in Nat /\ n <= Len(from) /\ n <= Len(to) /\ Len(from) \in Nat
  BY <1>1 DEF Path
<1>3. SubSeq(from, 1, n) = SubSeq(to, 1, n)
  BY DEF Front
<1> HIDE DEF n
<1>4. \A i \in 1..n : SubSeq(from, 1, n)[i] = from[i] /\ SubSeq(to, 1, n)[i] = to[i]
  BY <1>1, <1>2 DEF Path
<1>5. \A i \in 1..n : from[i] = to[i]
  BY <1>3, <1>4
<1> QED BY <1>1, <1>5 DEF Siblings, n

\* The pairs of a table are those of its records.
LEMMA PairsIs == ASSUME NEW a, NEW q PROVE Pairs(a, q) = RecordPairs(Recs(a), q)
BY DEF Pairs, RecordPairs, Recs

\* The first write of a rename: copies of what moves, all of them marked.
LEMMA CommitAccessInv ==
  ASSUME AccessInv, NEW u \in Anyone, NEW from \in Paths, NEW to \in Paths, MvCommit(u, from, to)
  PROVE  AccessInv'
<1> DEFINE R == Recs(acl)
           m == [phase |-> "entry", from |-> from, to |-> to, final |-> Final(from, to),
                 before |-> leftover]
<1>1. /\ mv = Resting /\ from # to /\ Len(from) = Len(to) /\ Front(from) = Front(to)
      /\ KeepsPaths(from, to) /\ acl' = Guarded(from, to) /\ mv' = m
      /\ leftover' = leftover \cup Pairs(Guarded(from, to), to)
      /\ UNCHANGED <<tree, given, secured>>
  BY DEF MvCommit, KeepsPaths
<1>2. Siblings(from, to)
  BY <1>1, MvSiblings
<1>3. acl \in Seq(Record) /\ leftover \in Markers /\ secured \in SUBSET Path
  BY DEF AccessInv, AccessTypeOK
<1>4. /\ acl' \in Seq(Record) /\ Recs(acl') = R \cup Copies(R, from, to)
      /\ Final(from, to) \in Seq(Record) /\ Recs(Final(from, to)) = AllCarried(R, from, to)
  BY <1>1, <1>3, GuardedIs
<1>5. m \in Moves /\ m.phase = "entry" /\ m.from = from /\ m.to = to /\ m.before = leftover
      /\ m.final = Final(from, to)
  BY <1>3, <1>4 DEF Moves
<1> HIDE DEF m
<1>6. R \in SUBSET Record /\ (\A r \in R : r \in Record /\ r.path \in Path)
  <2>1. \A i \in DOMAIN acl : acl[i] \in Record
    BY <1>3
  <2>2. R \in SUBSET Record
    BY <2>1 DEF Recs
  <2> QED BY <2>2, PathsArePaths DEF Record
<1> HIDE DEF R
<1>7. \A x \in Recs(acl') : x \in Record
  BY <1>1, <1>4, <1>6, CarriedIs DEF Copies
<1>8. leftover' = leftover \cup RecordPairs(Recs(acl'), to)
  BY <1>1, PairsIs
<1>9. AccessTypeOK'
  <2>1. RecordPairs(Recs(acl'), to) \subseteq Paths \X Users
    <3>1. \A x \in Recs(acl') : x.path \in Paths /\ x.user \in Users
      BY <1>7 DEF Record
    <3> QED BY <3>1 DEF RecordPairs
  <2>2. leftover' \in Markers
    BY <1>3, <1>8, <2>1 DEF Markers
  <2> QED BY <1>1, <1>4, <1>5, <2>2 DEF AccessInv, AccessTypeOK
<1>10. Closed(tree)' /\ Bare(tree, given)'
  BY <1>1 DEF AccessInv
<1>11. \A s \in secured : Locked(AllCarried(R, from, to), Renamed(s, from, to))
  <2> TAKE s \in secured
  <2>1. PICK r \in R : Beneath(s, r.path) /\ r.lock # ""
    BY DEF AccessInv, AllLocked, Locked, R
  <2>2. Beneath(Renamed(s, from, to), Renamed(r.path, from, to))
    BY <1>2, <1>3, <1>6, <2>1, RenameMonotone
  <2>3. Carried(r, from, to) \in AllCarried(R, from, to)
    BY DEF AllCarried
  <2>4. /\ Carried(r, from, to).path = Renamed(r.path, from, to)
        /\ Carried(r, from, to).lock # ""
    <3>1. r \in Record
      BY <1>6
    <3>2. Carried(r, from, to).path = Renamed(r.path, from, to) /\ Carried(r, from, to).lock = r.lock
      BY <1>1, <3>1, CarriedIs
    <3> QED BY <2>1, <3>2
  <2> QED BY <2>2, <2>3, <2>4 DEF Locked
<1>12. EntryOK'
  <2>1. Faithful(R, given, leftover)
    BY DEF AccessInv, R
  <2> QED BY <1>1, <1>2, <1>4, <1>5, <1>6, <1>11, <2>1 DEF EntryOK
<1>13. FinishOK'
  BY <1>1, <1>5 DEF FinishOK
<1>14. AllLocked'
  BY <1>1, <1>4 DEF AccessInv, AllLocked, Locked, R
<1>15. Faithful(Recs(acl'), given', leftover')
  <2> SUFFICES ASSUME NEW q \in Paths, NEW w \in Users, <<q, w>> \notin leftover'
               PROVE  /\ \A r \in Recs(acl') : r.path = q /\ r.user = w => r.rights = given[q][w]
                      /\ given[q][w] # Ungiven => \E r \in Recs(acl') : r.path = q /\ r.user = w
    BY <1>1 DEF Faithful
  <2>1. /\ \A r \in R : r.path = q /\ r.user = w => r.rights = given[q][w]
        /\ given[q][w] # Ungiven => \E r \in R : r.path = q /\ r.user = w
    BY <1>8 DEF AccessInv, Faithful, R
  <2>2. ASSUME NEW x \in Recs(acl'), x.path = q, x.user = w PROVE x \in R
    <3> SUFFICES ASSUME NEW r \in R, Beneath(r.path, from), x = Carried(r, from, to) PROVE FALSE
      BY <1>4 DEF Copies
    <3>1. Beneath(x.path, to)
      BY <1>1, <1>2, <1>6, CarriedIs, RenameFacts
    <3> QED BY <1>8, <2>2, <3>1 DEF RecordPairs
  <2> QED BY <1>4, <2>1, <2>2
<1> QED BY <1>9, <1>10, <1>12, <1>13, <1>14, <1>15 DEF AccessInv

\* The directory entry moves: rights, locks and marks move with the objects.
LEMMA EntryAccessInv == ASSUME AccessInv, MvEntry PROVE AccessInv'
<1> DEFINE from == mv.from
           to == mv.to
           new(p) == Renamed(p, from, to)
<1>1. /\ mv.phase = "entry" /\ from \in tree /\ to \notin tree /\ acl' = acl
      /\ tree' = {new(p) : p \in tree} /\ secured' = {new(p) : p \in secured}
      /\ mv' = [mv EXCEPT !.phase = "finish"]
  BY DEF MvEntry
<1>2. given' = MovedGrants(given, from, to)
  BY DEF MvEntry, MovedGrants
<1>3. leftover' = MovedMarks(mv.before, Recs(acl), from, to)
  BY PairsIs DEF MvEntry, MovedMarks
<1>4. /\ mv \in Moves /\ from \in Paths /\ to \in Paths /\ mv.final \in Seq(Record)
      /\ mv.before \in Markers
  BY <1>1 DEF AccessInv, AccessTypeOK, Moves, Resting
<1>5. /\ mv' \in Moves /\ mv'.phase = "finish" /\ mv'.final = mv.final /\ mv'.from = from
  BY <1>1, <1>4 DEF Moves
<1> HIDE DEF from, to
<1>6. Siblings(from, to) /\ Siblings(to, from) /\ KeepsPaths(from, to)
  BY <1>1, SiblingsFacts DEF AccessInv, EntryOK, from, to
<1>7. PICK R \in SUBSET Record : /\ Faithful(R, given, mv.before)
                                 /\ Recs(acl) = R \cup Copies(R, from, to)
                                 /\ Recs(mv.final) = AllCarried(R, from, to)
  BY <1>1 DEF AccessInv, EntryOK, from, to
<1>8. /\ from \in Path /\ to \in Path /\ tree \in SUBSET Path /\ secured \in SUBSET Path
      /\ given \in Grants /\ Closed(tree) /\ Bare(tree, given)
  BY <1>4, PathsArePaths DEF AccessInv, AccessTypeOK
<1>9. \A q \in Path : Beneath(q, to) => q \notin tree
  BY <1>1, <1>8 DEF Closed
<1>10. \A q \in Paths, u \in Users : Beneath(q, to) => given[q][u] = Ungiven
  BY <1>8, <1>9, PathsArePaths DEF Bare
<1>11. /\ Faithful(Recs(acl'), given', leftover')
       /\ Faithful(Recs(mv.final), given', {x \in leftover' : ~Beneath(x[1], from)})
       /\ Recs(mv.final) \subseteq Recs(acl')
  <2>1. /\ Faithful(R \cup Copies(R, from, to), MovedGrants(given, from, to),
                    MovedMarks(mv.before, R \cup Copies(R, from, to), from, to))
        /\ Faithful(AllCarried(R, from, to), MovedGrants(given, from, to),
                    {x \in MovedMarks(mv.before, R \cup Copies(R, from, to), from, to) : ~Beneath(x[1], from)})
        /\ AllCarried(R, from, to) \subseteq R \cup Copies(R, from, to)
    BY <1>4, <1>6, <1>7, <1>8, <1>10, MovedFaithful
  <2> QED BY <1>1, <1>2, <1>3, <1>7, <2>1
<1>12. \A p \in Path : new(p) \in Path
  BY <1>6, RenameFacts
<1>13. \A s \in secured' : Locked(Recs(mv.final), s)
  <2>1. \A p \in secured : Locked(Recs(mv.final), new(p))
    BY <1>1 DEF AccessInv, EntryOK, from, to
  <2> QED BY <1>1, <2>1
<1>14. AllLocked' /\ FinishOK'
  <2>1. AllLocked'
    BY <1>11, <1>13 DEF AllLocked, Locked
  <2> QED BY <1>5, <1>11, <1>13, <2>1 DEF FinishOK
<1>15. EntryOK'
  BY <1>5 DEF EntryOK
<1>16. AccessTypeOK'
  <2>1. \A q \in Paths : Renamed(q, from, to) \in Paths /\ Renamed(q, to, from) \in Paths
    BY <1>6 DEF KeepsPaths
  <2>2. given' \in Grants
    BY <1>2, <1>8, <2>1 DEF Grants, MovedGrants
  <2>3. leftover' \in Markers
    <3>1. \A x \in mv.before : x[1] \in Paths /\ x[2] \in Users /\ x \in Paths \X Users
      BY <1>4 DEF Markers
    <3>2. \A r \in Recs(acl) : r.path \in Paths /\ r.user \in Users
      <4>1. \A i \in DOMAIN acl : acl[i] \in Record
        BY DEF AccessInv, AccessTypeOK
      <4>2. \A r \in Recs(acl) : r \in Record
        BY <4>1 DEF Recs
      <4> QED BY <4>2 DEF Record
    <3>3. RecordPairs(Recs(acl), from) \subseteq Paths \X Users
      BY <3>2 DEF RecordPairs
    <3>4. {<<Renamed(x[1], from, to), x[2]>> : x \in mv.before} \subseteq Paths \X Users
      BY <2>1, <3>1
    <3> QED BY <1>3, <3>1, <3>3, <3>4 DEF Markers, MovedMarks
  <2>4. tree' \in SUBSET Path /\ secured' \in SUBSET Path
    BY <1>1, <1>8, <1>12
  <2>5. acl' \in Seq(Record)
    BY <1>1 DEF AccessInv, AccessTypeOK
  <2> QED BY <1>5, <2>2, <2>3, <2>4, <2>5 DEF AccessTypeOK
<1>17. Closed(tree')
  <2> SUFFICES ASSUME NEW p \in tree, NEW r \in Path, Beneath(new(p), r) PROVE r \in tree'
    BY <1>1 DEF Closed
  <2>1. p \in Path
    BY <1>8
  <2>2. CASE Beneath(r, to)
    <3> DEFINE q == Renamed(r, to, from)
    <3>1. q \in Path /\ new(q) = r
      BY <1>6, <2>2, RenameFacts
    <3>2. Beneath(p, from)
      <4> SUFFICES ASSUME ~Beneath(p, from) PROVE FALSE
        OBVIOUS
      <4>1. Beneath(p, r)
        BY <1>6, <2>1, RenameFacts
      <4>2. Beneath(p, to)
        BY <1>8, <2>1, <2>2, <4>1, BeneathOrder
      <4> QED BY <1>9, <2>1, <4>2
    <3>3. Renamed(new(p), to, from) = p
      BY <1>6, <2>1, <3>2, RenameFacts
    <3>4. Beneath(p, q)
      BY <1>6, <1>12, <2>1, <3>3, RenameMonotone
    <3>5. q \in tree
      BY <1>8, <3>1, <3>4 DEF Closed
    <3> QED BY <1>1, <3>1, <3>5
  <2>3. CASE ~Beneath(r, to)
    <3>1. Beneath(p, r) /\ ~Beneath(r, from)
      <4>1. CASE ~Beneath(p, from)
        <5>1. Beneath(p, r)
          BY <1>6, <2>1, <4>1, RenameFacts
        <5> QED BY <1>8, <2>1, <4>1, <5>1, BeneathOrder
      <4>2. CASE Beneath(p, from)
        <5> DEFINE m == Len(from)
                   n == new(p)
        <5>1. /\ n \in Path /\ Len(n) = Len(p) /\ Beneath(n, to) /\ m \in Nat /\ Len(to) = m
              /\ \A i \in 1..Len(p) : n[i] = IF i <= m THEN to[i] ELSE p[i]
          BY <1>6, <2>1, <4>2, RenamedIs, RenameFacts DEF Siblings, Path
        <5> HIDE DEF n
        <5>2. ~(m <= Len(r))
          BY <1>8, <2>3, <5>1, BeneathOrder DEF n
        <5>3. Len(r) <= Len(p) /\ Len(r) \in Nat /\ Len(p) \in Nat /\ \A i \in 1..Len(r) : r[i] = n[i]
          BY <2>1, <5>1, PrefixIs DEF Beneath, Path, n
        <5>4. /\ \A i \in 1..m : from[i] = p[i]
              /\ \A i \in 1..m - 1 : from[i] = to[i]
          BY <1>6, <1>8, <2>1, <4>2, PrefixIs DEF Beneath, Siblings
        <5> HIDE DEF m
        <5>5. \A i \in 1..Len(r) : i \in 1..Len(p) /\ i <= m /\ i \in 1..m /\ i \in 1..m - 1
          BY <5>1, <5>2, <5>3
        <5>6. \A i \in 1..Len(r) : r[i] = p[i]
          BY <5>1, <5>3, <5>4, <5>5
        <5>7. Beneath(p, r)
          BY <2>1, <5>3, <5>6, PrefixIs DEF Beneath
        <5>8. ~Beneath(r, from)
          BY <1>8, <5>2, PrefixIs DEF Beneath, m
        <5> QED BY <5>7, <5>8
      <4> QED BY <4>1, <4>2
    <3>2. r \in tree /\ new(r) = r
      BY <1>6, <1>8, <3>1, RenameFacts DEF Closed
    <3> QED BY <1>1, <3>2
  <2> QED BY <2>2, <2>3
<1>18. Bare(tree', given')
  <2> SUFFICES ASSUME NEW q \in Paths, NEW u \in Users, q \notin tree', ~Beneath(q, from)
               PROVE  given'[q][u] = Ungiven
    BY <1>2 DEF Bare, MovedGrants
  <2> DEFINE o == Renamed(q, to, from)
  <2>1. given'[q] = given[o] /\ o \in Paths /\ q \in Path
    BY <1>2, <1>6, PathsArePaths DEF MovedGrants, KeepsPaths
  <2>2. new(o) = q
    BY <1>6, <2>1, RenameFacts
  <2>3. o \notin tree
    BY <1>1, <2>2
  <2> QED BY <1>8, <2>1, <2>3 DEF Bare
<1> QED BY <1>11, <1>14, <1>15, <1>16, <1>17, <1>18 DEF AccessInv

\* A rename that ends, in whatever way, leaves a table that is right.
LEMMA EndAccessInv ==
  ASSUME AccessInv, MvFails \/ MvFinish \/ PowerLoss PROVE AccessInv'
<1>1. mv' = Resting /\ UNCHANGED <<tree, given, secured>>
  BY DEF MvFails, MvFinish, PowerLoss
<1>2. EntryOK' /\ FinishOK'
  BY <1>1 DEF EntryOK, FinishOK, Resting
<1>3. CASE UNCHANGED <<acl, leftover>>
  BY <1>1, <1>2, <1>3 DEF AccessInv, AccessTypeOK, AllLocked
<1>4. CASE mv.phase = "finish" /\ acl' = mv.final
           /\ leftover' = {x \in leftover : ~Beneath(x[1], mv.from)}
  <2>1. acl' \in Seq(Record)
    BY <1>4 DEF AccessInv, AccessTypeOK, Resting, Moves
  <2>2. leftover' \in Markers
    BY <1>4 DEF AccessInv, AccessTypeOK, Markers
  <2>3. AllLocked' /\ Faithful(Recs(acl'), given', leftover')
    BY <1>1, <1>4 DEF AccessInv, FinishOK, AllLocked
  <2> QED BY <1>1, <1>2, <2>1, <2>2, <2>3 DEF AccessInv, AccessTypeOK
<1> QED BY <1>3, <1>4 DEF MvFails, MvFinish, PowerLoss

\* Every step keeps the invariant.
LEMMA NextAccessInv == ASSUME AccessInv, [AccessNext]_accessVars PROVE AccessInv'
<1>1. CASE \E u \in Anyone, p \in Paths, v \in Users, r \in Rights, pw \in Passwords :
             set_file_permissions(u, p, v, r, pw)
  BY <1>1, SetAccessInv
<1>2. CASE \E u \in Anyone, p \in Paths : CreateObject(u, p) \/ RemoveObject(u, p)
  BY <1>2, ObjectAccessInv
<1>3. CASE \E u \in Anyone, p, q \in Paths : MvCommit(u, p, q)
  BY <1>3, CommitAccessInv
<1>4. CASE MvEntry
  BY <1>4, EntryAccessInv
<1>5. CASE MvFails \/ MvFinish \/ PowerLoss
  BY <1>5, EndAccessInv
<1>6. CASE UNCHANGED accessVars
  BY <1>6 DEF accessVars, AccessInv, AccessTypeOK, EntryOK, FinishOK, AllLocked
<1> QED BY <1>1, <1>2, <1>3, <1>4, <1>5, <1>6 DEF AccessNext

\* An object that was locked stays locked (chmod, and fs_mv with its two
\* writes of the table): a record with a lock is only replaced by one with a
\* lock, and there is one for the old and for the new name until the end.
THEOREM LocksStayAlways == AccessSpec => []LocksStay
<1>1. AccessInv => LocksStay
  BY LockIs DEF AccessInv, AccessTypeOK, AllLocked, LocksStay
<1>2. AccessInit => AccessInv
  BY InitAccessInv
<1>3. AccessInv /\ [AccessNext]_accessVars => AccessInv'
  BY NextAccessInv
<1> QED BY <1>1, <1>2, <1>3, PTL DEF AccessSpec

\* What the records say in a sound table is what check_permission grants.
LEMMA FaithfulGrants == ASSUME AccessInv PROVE RightsFollowObjects
<1> SUFFICES ASSUME NEW p \in tree \cap Paths, NEW u \in Users, Without(leftover, u, p),
                    NEW m \in Modes
             PROVE  check_permission(acl, u, p, m) <=> m \in Intended(u, p)
  <2>1. \A v, q : Intended(v, q) \subseteq Modes
    BY Zenon DEF Intended
  <2> QED BY <2>1, Zenon DEF RightsFollowObjects
<1> DEFINE own == {q \in Paths : IsPrefix(q, p) /\ given[q][u] # Ungiven}
           near == CHOOSE q \in own : \A x \in own : Len(x) <= Len(q)
           I == {i \in DOMAIN acl : Beneath(p, acl[i].path) /\ acl[i].user = u}
<1>1. u # "root" /\ p \in Path /\ acl \in Seq(Record)
  BY AccessAssumption DEF AccessInv, AccessTypeOK
<1>2. check_permission(acl, u, p, m) <=>
        ~Beneath(p, Etc) /\ IF I = {} THEN ByDefault(u, p, m)
                            ELSE m \in acl[MostSpecific(acl, I)].rights
  BY <1>1, Zenon DEF check_permission
<1>3. \A i \in DOMAIN acl : acl[i] \in Record /\ acl[i] \in Recs(acl)
  BY <1>1 DEF Recs
<1>4. ASSUME NEW i \in I
      PROVE  acl[i].path \in own /\ acl[i].rights = given[acl[i].path][u]
  <2>1. /\ i \in DOMAIN acl /\ acl[i] \in Record /\ acl[i] \in Recs(acl)
        /\ IsPrefix(acl[i].path, p) /\ acl[i].user = u
    BY <1>3 DEF Beneath
  <2>2. acl[i].path \in Paths /\ acl[i].rights \in Rights
    BY <2>1 DEF Record
  <2>3. acl[i].rights = given[acl[i].path][u]
    <3> DEFINE q == acl[i].path
    <3>1. q \in Paths /\ <<q, u>> \notin leftover
      BY <2>1, <2>2, Zenon DEF Without
    <3>2. \A r \in Recs(acl) : r.path = q /\ r.user = u => r.rights = given[q][u]
      <4> HIDE DEF q
      <4> QED BY <3>1 DEF AccessInv, Faithful
    <3> QED BY <2>1, <3>2
  <2> QED BY <2>1, <2>2, <2>3, AccessAssumption
<1>5. ASSUME NEW q \in own PROVE \E i \in I : acl[i].path = q
  <2>1. q \in Paths /\ IsPrefix(q, p) /\ given[q][u] # Ungiven
    OBVIOUS
  <2>3. <<q, u>> \notin leftover
    BY <2>1, Zenon DEF Without
  <2>2. PICK r \in Recs(acl) : r.path = q /\ r.user = u
    BY <2>1, <2>3 DEF AccessInv, Faithful
  <2> QED BY <2>1, <2>2 DEF Recs, Beneath
<1>6. own = {} <=> I = {}
  BY <1>4, <1>5
<1>9. m \in Intended(u, p) <=>
        ~Beneath(p, Etc) /\ IF own = {} THEN ByDefault(u, p, m) ELSE m \in given[near][u]
  BY Zenon DEF Intended
<1>7. CASE I = {}
  BY <1>2, <1>6, <1>7, <1>9
<1>8. CASE I # {}
  <2> DEFINE k == MostSpecific(acl, I)
             q == acl[k].path
             Far(x) == \A y \in own : Len(y) <= Len(x)
  <2>1. k \in I /\ \A j \in I : Len(acl[j].path) <= Len(q)
    BY <1>1, <1>8, MostSpecificIs
  <2> HIDE DEF k
  <2>2. q \in own /\ acl[k].rights = given[q][u]
    BY <1>4, <2>1
  <2>3. Far(q)
    BY <1>5, <2>1
  <2>4. near \in own /\ Far(near)
    <3>1. near = CHOOSE x \in own : Far(x)
      OBVIOUS
    <3> HIDE DEF near, Far, own
    <3> QED BY <2>2, <2>3, <3>1, Zenon
  <2>5. near = q
    <3> HIDE DEF near
    <3>1. near \in Path /\ q \in Path /\ IsPrefix(near, p) /\ IsPrefix(q, p)
      BY <2>2, <2>4, PathsArePaths
    <3>2. Len(near) \in Nat /\ Len(q) \in Nat /\ Len(near) = Len(q)
      BY <2>2, <2>3, <2>4, <3>1 DEF Path
    <3> HIDE DEF q
    <3>3. \A i \in 1..Len(q) : near[i] = q[i]
      BY <1>1, <3>1, <3>2, PrefixIs
    <3> QED BY <3>1, <3>2, <3>3, SeqEqual DEF Path
  <2>6. I # {} /\ own # {}
    BY <1>6, <1>8
  <2>7. MostSpecific(acl, I) = k
    BY DEF k
  <2> HIDE DEF I, own, near, q
  <2>8. check_permission(acl, u, p, m) <=> ~Beneath(p, Etc) /\ m \in given[near][u]
    BY <1>2, <2>2, <2>5, <2>6, <2>7
  <2> QED BY <1>9, <2>6, <2>8
<1> QED BY <1>7, <1>8

\* The rights chmod gave follow the object through renames, failed renames
\* and power losses (check_permission and fs_mv), as long as no record on its
\* name or above was meant for another object: one that was removed or moved
\* away, or the source of a rename onto this name that did not succeed.
THEOREM RightsFollowAlways == AccessSpec => []RightsFollowObjects
<1>1. AccessInv => RightsFollowObjects
  BY FaithfulGrants
<1>2. AccessInit => AccessInv
  BY InitAccessInv
<1>3. AccessInv /\ [AccessNext]_accessVars => AccessInv'
  BY NextAccessInv
<1> QED BY <1>1, <1>2, <1>3, PTL DEF AccessSpec
=============================================================================
