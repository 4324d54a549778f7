-------------------------------- MODULE MCExt2 --------------------------------
(* The ext2 engine for TLC at both levels: the tree in blocks and inodes, and  *)
(* the sectors of a commit.  They share no state; one of the two is chosen.    *)
(*                                                                             *)
(* The tree: two groups, of which the second is shorter and has all the inodes *)
(* that are not reserved; four blocks to allocate; one short and one long      *)
(* name.  The text ends in the middle of its second block; appended to itself  *)
(* it needs the indirect block, and once more it is longer than a file may be. *)
(* The commit: a volume of one descriptor sector and one other sector.         *)
EXTENDS Ext2Tree, Ext2Commit

CONSTANTS x, y

VARIABLE engine   \* the level that runs

ShortAndLong == [a |-> 1, b |-> 2]
TwoNames == {"a", "b"}
OneText == {<<y, x, y>>}
TwoLevels == {<<>>, <<"a">>}

EngineInit ==
  /\ engine \in {"tree", "commit"} /\ TreeInit /\ Init
  /\ engine = "commit" => vol = Formatted

EngineNext == \/ engine = "tree" /\ TreeNext /\ UNCHANGED vars
              \/ engine = "commit" /\ Next /\ UNCHANGED treeVars

EngineSpec == EngineInit /\ [][UNCHANGED engine /\ EngineNext]_<<engine, treeVars, vars>>
===============================================================================
