------------------------------ MODULE FileTree ------------------------------
(***************************************************************************)
(* What the ext2 engine promises to its callers: a tree of directories     *)
(* whose entries name files and directories.  A call changes what its name *)
(* says and nothing else, or changes nothing at all.                       *)
(***************************************************************************)
EXTENDS Integers, Sequences

CONSTANTS Nodes, Names, Texts, Root

VARIABLES
  dirs,     \* nodes that are directories
  entries,  \* <<directory, name, node>>
  text      \* [node that is a file -> its bytes]

vars == <<dirs, entries, text>>

Live == dirs \cup DOMAIN text
Named(d, a) == \E e \in entries : e[1] = d /\ e[2] = a
With(n, t) == [m \in DOMAIN text \cup {n} |-> IF m = n THEN t ELSE text[m]]
Without(n) == [m \in DOMAIN text \ {n} |-> text[m]]

(* A volume may come from elsewhere with anything in it. *)
Init ==
  /\ Root \in dirs /\ dirs \cap DOMAIN text = {}
  /\ entries \subseteq dirs \X Names \X (Live \ {Root})

(* What a file is given: a text, or what some file holds *)
Given == Texts \cup {<<>>} \cup {text[f] : f \in DOMAIN text}

(* Files: a new one, new contents, contents with a text behind them *)
Fill ==
  /\ dirs' = dirs
  /\ \/ entries' = entries /\ \E n \in DOMAIN text, t \in Texts :
          text' = With(n, t) \/ text' = With(n, text[n] \o t)
     \/ \E d \in dirs, a \in Names, n \in Nodes \ Live :
          /\ ~Named(d, a)
          /\ entries' = entries \cup {<<d, a, n>>}
          /\ \E t \in Given : text' = With(n, t)

Mkdir ==
  /\ text' = text
  /\ \E d \in dirs, a \in Names, n \in Nodes \ Live :
       /\ ~Named(d, a)
       /\ dirs' = dirs \cup {n}
       /\ entries' = entries \cup {<<d, a, n>>}

Rename ==
  /\ dirs' = dirs /\ text' = text
  /\ \E e \in entries, b \in Names :
       /\ ~Named(e[1], b)
       /\ entries' = (entries \ {e}) \cup {<<e[1], b, e[3]>>}

(* The file goes with its last name; a directory must be empty. *)
Remove ==
  \E e \in entries :
    /\ entries' = entries \ {e}
    /\ \/ /\ e[3] \in dirs
          /\ \A f \in entries : f[1] # e[3]
          /\ dirs' = dirs \ {e[3]} /\ text' = text
       \/ /\ e[3] \in DOMAIN text
          /\ dirs' = dirs
          /\ text' = IF \E f \in entries \ {e} : f[3] = e[3] THEN text ELSE Without(e[3])

Next == vars' # vars /\ (Fill \/ Mkdir \/ Rename \/ Remove)

Spec == Init /\ [][Next]_vars

=============================================================================
