-------------------------------- MODULE Access --------------------------------
(***************************************************************************)
(* The access records of /etc/access.cfg (permissions.c) and the rename of *)
(* vfs.inc that has to keep them with the objects they were given to.      *)
(* A record is [path, user, rights, lock]; the most specific record of a   *)
(* user decides, and of two on the same path the later one.  Nothing ties  *)
(* a record to an object but the path, so fs_mv writes the table twice:    *)
(* copies for the new names before the directory entry moves, and the old  *)
(* names away after it.  A failure or a power loss may come in between.    *)
(* Paths are sequences of names.  A password and its salted digest are one *)
(* value: password_matches is equality.  The execute bit that chmod sets   *)
(* in the inode afterwards is a second transaction, which Ext2Commit has.  *)
(***************************************************************************)
EXTENDS Naturals, Sequences, SequencesExt

CONSTANTS Users,      \* ordinary accounts
          Paths,      \* the paths that are used, without "/"
          Rights,     \* the sets of rights chmod is called with
          Passwords,  \* passwords of chmod; "" is none
          AclMax      \* records that fit into the 8192 bytes of the table

Ungiven == {"none"}   \* no rights were given

ASSUME AccessAssumption ==
  /\ "root" \notin Users /\ AclMax \in Nat /\ Ungiven \notin Rights
  /\ Paths \subseteq Seq(STRING) /\ \A p \in Paths : Len(p) > 0

VARIABLES
  acl,      \* the records of /etc/access.cfg
  tree,     \* the paths at which an object exists
  mv,       \* fs_mv in progress: phase, names, table to publish
  given,    \* history: rights chmod gave to the object at a path
  secured,  \* history: paths of the objects that were given a lock
  leftover, \* history: <<path, user>> with a record meant for another object
  struck    \* history: those of them that a rename put on an object there

accessVars == <<acl, tree, mv, given, secured, leftover, struck>>

Anyone == Users \cup {"root"}
Beneath(p, q) == IsPrefix(q, p)
Etc == <<"etc">>
Bin == <<"bin">>
Home(u) == <<"home", u>>
Resting == [phase |-> "idle"]

AccessInit ==
  /\ acl = << >>
  /\ tree = {<< >>, <<"home">>} \cup {Home(u) : u \in Users}
  /\ mv = Resting
  /\ given = [p \in Paths |-> [u \in Users |-> Ungiven]]
  /\ secured = {}
  /\ leftover = {} /\ struck = {}

---------------------------------------------------------------------------
(* What the records say.                                                   *)

\* The last of the longest among the records I, in the order of the file.
MostSpecific(a, I) ==
  CHOOSE i \in I : \A j \in I : \/ Len(a[j].path) < Len(a[i].path)
                                \/ Len(a[j].path) = Len(a[i].path) /\ j <= i

ByDefault(u, p, m) ==
  IsPrefix(Home(u), p) \/ (m = "x" /\ (Beneath(p, Bin) \/ p \in {<< >>, <<"home">>}))

check_permission(a, u, p, m) ==
  \/ u = "root"
  \/ /\ ~Beneath(p, Etc)
     /\ LET I == {i \in DOMAIN a : Beneath(p, a[i].path) /\ a[i].user = u}
        IN  IF I = {} THEN ByDefault(u, p, m) ELSE m \in a[MostSpecific(a, I)].rights

\* The lock belongs to the path, whichever user the record is for.
Lock(a, p) ==
  LET I == {i \in DOMAIN a : Beneath(p, a[i].path) /\ a[i].lock # ""}
  IN  IF I = {} THEN "" ELSE a[MostSpecific(a, I)].lock

---------------------------------------------------------------------------
(* chmod, and the operations that make and remove objects.                 *)

MayChange(u, p, pw) ==
  LET lock == Lock(acl, p)
  IN  u = "root" \/ (~Beneath(p, Etc) /\ IF lock # "" THEN pw = lock ELSE Beneath(p, Home(u)))

\* Mutant of Encoded: an absent passwd argument takes the lock away.
EncodedPlain(u, p, pw) == IF u = "root" THEN pw ELSE Lock(acl, p)

\* The lock of the new record: root may set one, otherwise it stays.
Encoded(u, p, pw) == IF u = "root" /\ pw # "" THEN pw ELSE Lock(acl, p)

\* The records I of a table, in the order of the file.
Picked(a, I) ==
  LET f[k \in 0..Len(a)] == IF k = 0 THEN << >>
                            ELSE IF k \in I THEN Append(f[k - 1], a[k]) ELSE f[k - 1]
  IN  f[Len(a)]

set_file_permissions(u, p, v, rights, pw) ==
  LET rest == Picked(acl, {i \in DOMAIN acl : acl[i].path # p \/ acl[i].user # v})
      lock == Encoded(u, p, pw)
  IN  /\ mv = Resting /\ p \in tree /\ MayChange(u, p, pw) /\ Len(rest) < AclMax
      /\ acl' = Append(rest, [path |-> p, user |-> v, rights |-> rights, lock |-> lock])
      /\ given' = [given EXCEPT ![p][v] = rights]
      /\ secured' = IF lock # "" THEN secured \cup {p} ELSE secured
      /\ leftover' = leftover \ {<<p, v>>} /\ struck' = struck \ {<<p, v>>}
      /\ UNCHANGED <<tree, mv>>

CreateObject(u, p) ==
  /\ mv = Resting /\ p \notin tree /\ Front(p) \in tree
  /\ check_permission(acl, u, p, "w")
  /\ tree' = tree \cup {p}
  /\ UNCHANGED <<acl, mv, given, secured, leftover, struck>>

\* The records stay when their object goes.
RemoveObject(u, p) ==
  /\ mv = Resting /\ p \in tree /\ ~\E q \in tree \ {p} : Beneath(q, p)
  /\ check_permission(acl, u, p, "w")
  /\ tree' = tree \ {p}
  /\ given' = [given EXCEPT ![p] = [u2 \in Users |-> Ungiven]]
  /\ secured' = secured \ {p}
  /\ leftover' = leftover \cup {<<acl[i].path, acl[i].user>> :
                                  i \in {j \in DOMAIN acl : acl[j].path = p}}
  /\ struck' = {x \in struck : x[1] # p}
  /\ UNCHANGED <<acl, mv>>

---------------------------------------------------------------------------
(* fs_mv.  Both names must lie in the same directory.                      *)

Renamed(p, from, to) ==
  IF Beneath(p, from) THEN to \o SubSeq(p, Len(from) + 1, Len(p)) ELSE p
Carried(rec, from, to) == [rec EXCEPT !.path = Renamed(@, from, to)]

\* Mutant of Guarded: no copies.
GuardedNot(from, to) == acl

\* The table with copies for the new names, and the one without the old.
Guarded(from, to) ==
  LET moved == Picked(acl, {i \in DOMAIN acl : Beneath(acl[i].path, from)})
  IN  acl \o [i \in DOMAIN moved |-> Carried(moved[i], from, to)]
Final(from, to) == [i \in DOMAIN acl |-> Carried(acl[i], from, to)]

Pairs(a, q) == {<<a[i].path, a[i].user>> : i \in {j \in DOMAIN a : Beneath(a[j].path, q)}}

\* permissions_move_prepare and permissions_move_commit: the checks, then
\* the guarded table unless no record is concerned.  Nobody has looked yet
\* whether the new name is taken.  Names stay within Paths.
MvCommit(u, from, to) ==
  /\ mv = Resting /\ from # to /\ Len(from) = Len(to) /\ Front(from) = Front(to)
  /\ \A p \in Paths : Renamed(p, from, to) \in Paths /\ Renamed(p, to, from) \in Paths
  /\ check_permission(acl, u, from, "w") /\ check_permission(acl, u, to, "w")
  /\ \A i \in DOMAIN acl : Beneath(acl[i].path, from)
                              => check_permission(acl, u, acl[i].path, "w")
  /\ Len(Guarded(from, to)) <= AclMax
  /\ acl' = Guarded(from, to)
  /\ mv' = [phase |-> "entry", from |-> from, to |-> to,
            final |-> Final(from, to), before |-> leftover]
  /\ leftover' = leftover \cup Pairs(Guarded(from, to), to)
  /\ struck' = struck \cup {x \in Pairs(Guarded(from, to), to) \ leftover : x[1] \in tree}
  /\ UNCHANGED <<tree, given, secured>>

\* ext_mv succeeds: one commit of the filesystem.
MvEntry ==
  LET new(p) == Renamed(p, mv.from, mv.to)
      old(p) == Renamed(p, mv.to, mv.from)
  IN  /\ mv.phase = "entry" /\ mv.from \in tree /\ mv.to \notin tree
      /\ tree' = {new(p) : p \in tree}
      /\ given' = [p \in Paths |-> IF Beneath(p, mv.from) THEN [u \in Users |-> Ungiven]
                                   ELSE given[old(p)]]
      /\ secured' = {new(p) : p \in secured}
      /\ leftover' = {<<new(x[1]), x[2]>> : x \in mv.before} \cup Pairs(acl, mv.from)
                        \cup {x \in mv.before : Beneath(x[1], mv.to)}
      /\ struck' = {<<new(x[1]), x[2]>> : x \in struck}
      /\ mv' = [mv EXCEPT !.phase = "finish"]
      /\ UNCHANGED acl

\* ext_mv refuses, because the new name is taken or the old one is not there,
\* or fails: the copies stay in the table.
MvFails == mv.phase = "entry" /\ mv' = Resting
           /\ UNCHANGED <<acl, tree, given, secured, leftover, struck>>

\* permissions_move_finish does not look at the result of its write.
MvFinish ==
  /\ mv.phase = "finish" /\ mv' = Resting
  /\ \/ acl' = mv.final /\ leftover' = {x \in leftover : ~Beneath(x[1], mv.from)}
     \/ UNCHANGED <<acl, leftover>>
  /\ UNCHANGED <<tree, given, secured, struck>>

PowerLoss == mv # Resting /\ mv' = Resting
             /\ UNCHANGED <<acl, tree, given, secured, leftover, struck>>

---------------------------------------------------------------------------
AccessNext ==
  \/ \E u \in Anyone, p \in Paths, v \in Users, r \in Rights, pw \in Passwords :
       set_file_permissions(u, p, v, r, pw)
  \/ \E u \in Anyone, p \in Paths : CreateObject(u, p) \/ RemoveObject(u, p)
  \/ \E u \in Anyone, p, q \in Paths : MvCommit(u, p, q)
  \/ MvEntry \/ MvFails \/ MvFinish \/ PowerLoss

AccessSpec == AccessInit /\ [][AccessNext]_accessVars

---------------------------------------------------------------------------
(* Properties.                                                             *)

Modes == {"r", "w", "x"}

\* What u was given on p: by chmod on p itself or on the closest directory
\* above it that was given any rights, else by default.
Intended(u, p) ==
  LET own  == {q \in Paths : IsPrefix(q, p) /\ given[q][u] # Ungiven}
      near == CHOOSE q \in own : \A x \in own : Len(x) <= Len(q)
  IN  {m \in Modes : ~Beneath(p, Etc) /\ IF own = {} THEN ByDefault(u, p, m)
                                        ELSE m \in given[near][u]}

\* No record of u on p or above it is one of S.
Without(S, u, p) == \A q \in Paths : IsPrefix(q, p) => <<q, u>> \notin S

\* The rights chmod gave to an object, or to the closest directory above it
\* that was given any, are the ones check_permission grants, wherever
\* renames have taken the object, also while a rename is under way, after it
\* failed half way and after a power loss between its writes.  Set aside are
\* the names with a record meant for another object: one that was removed or
\* moved away, or the source of a rename that did not come to its end; of the
\* last, FailedRenameRestricts says more.
RightsFollowObjects ==
  \A p \in tree \cap Paths, u \in Users :
    Without(leftover, u, p) =>
      {m \in Modes : check_permission(acl, u, p, m)} = Intended(u, p)

\* "If the rename fails, the extra ACL is restrictive rather than a bypass"
\* (permissions.c:255-256): what a failed rename onto an object's name leaves
\* in the table takes rights on that object away, it never adds any.
FailedRenameRestricts ==
  mv = Resting =>
    \A p \in tree \cap Paths, u \in Users :
      Without(leftover \ struck, u, p) =>
        {m \in Modes : check_permission(acl, u, p, m)} \subseteq Intended(u, p)

\* An object that root put a lock on stays locked: no later chmod without
\* the passwd argument, by root or by a user who knows the password, and no
\* rename, failed rename or power loss leaves it without one.  It need not be
\* the same one: a rename onto its name replaces it by that of the source.
LocksStay == \A p \in secured : Lock(acl, p) # ""
===============================================================================
