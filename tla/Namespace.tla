------------------------------ MODULE Namespace ------------------------------
(***************************************************************************)
(* What the user of the mount table sees: one tree of directories, with    *)
(* volumes attached at some of them.  A command adds, removes or renames   *)
(* one directory, or attaches or detaches a volume at one, and nothing     *)
(* outside the place it names changes.                                     *)
(***************************************************************************)
EXTENDS Integers, Sequences

CONSTANT Paths      \* sequences of names, closed under prefixes

VARIABLES
  tree,             \* the directories there are
  attached          \* [path of a mount point -> volume]

Root == <<>>
Parent(p) == SubSeq(p, 1, Len(p) - 1)
Beneath(p, q) == Len(p) >= Len(q) /\ SubSeq(p, 1, Len(q)) = q
Replant(r, p, q) == q \o SubSeq(r, Len(p) + 1, Len(r))

Free(p) == \A m \in DOMAIN attached : ~Beneath(m, p)
(* A volume attached below p covers r. *)
Covered(r, p) == \E m \in DOMAIN attached \ {p} : Beneath(m, p) /\ Beneath(r, m)

NamespaceInit == tree \in SUBSET Paths /\ DOMAIN attached \subseteq {Root}

Add(p) ==
  /\ p # Root /\ p \notin tree /\ Parent(p) \in tree
  /\ tree' = tree \cup {p}

Remove(p) ==
  /\ p # Root /\ p \in tree /\ Free(p)
  /\ {r \in tree : Beneath(r, p)} = {p}
  /\ tree' = tree \ {p}

Rename(p, q) ==
  /\ p # Root /\ q # Root
  /\ Parent(p) = Parent(q)
  /\ p \in tree /\ q \notin tree /\ Free(p)
  /\ tree' = {r \in tree : ~Beneath(r, p)}
             \cup {s \in {Replant(r, p, q) : r \in {o \in tree : Beneath(o, p)}} : ~Covered(s, q)}

(* A volume comes to the directory p; a volume leaves it. *)
Attach(p) ==
  /\ IF p = Root THEN DOMAIN attached \subseteq {Root} ELSE p \in tree \ DOMAIN attached
  /\ DOMAIN attached' = DOMAIN attached \cup {p}
  /\ p \in tree'

Detach(p) ==
  /\ p \in tree /\ p \in DOMAIN attached
  /\ \A m \in DOMAIN attached \ {p} : ~Beneath(m, p)
  /\ DOMAIN attached' = DOMAIN attached \ {p}

(* Neither what is elsewhere nor what volumes below p hold changes. *)
Graft(p) ==
  /\ Attach(p) \/ Detach(p)
  /\ \A m \in DOMAIN attached \ {p} : attached'[m] = attached[m]
  /\ \A r \in Paths : ~Beneath(r, p) \/ Covered(r, p) => (r \in tree' <=> r \in tree)

NamespaceNext ==
  \/ /\ tree' # tree
     /\ UNCHANGED attached
     /\ \/ \E p \in Paths : Add(p) \/ Remove(p)
        \/ \E p, q \in Paths : Rename(p, q)
  \/ /\ attached' # attached
     /\ \E p \in Paths : Graft(p)

NamespaceSpec == NamespaceInit /\ [][NamespaceNext]_<<tree, attached>>

=============================================================================
