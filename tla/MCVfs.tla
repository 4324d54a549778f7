-------------------------------- MODULE MCVfs --------------------------------
(* Two or three disks with few directories; the .cfg files choose. *)
EXTENDS Vfs, TLC

(* Two levels, and the directory of the ACL file *)
TreePaths == {<<>>, <<"a">>, <<"etc">>, <<"a", "a">>, <<"etc", "a">>}
FlatPaths == {<<>>, <<"a">>}
NestPaths == {<<>>, <<"a">>, <<"a", "a">>}

WholeNames == Devices \X {0}
AllNames == Devices \X {0, 1}

(* Disks that are only mounted below the root are alike. *)
OtherDisks == (Devices \ {BootDevice}) \X {0}
Alike == Permutations(Devices \ {BootDevice})

(* Two volumes with all paths, while the third disk is as it came; or three *)
(* volumes, above and below one another, with the nested paths only.        *)
TwoOrNested ==
  \/ \E d \in Devices : <<d, 0>> \notin ext2 /\ d \notin mbr /\ eng.selected.id # d
  \/ /\ unclean = {} /\ mbr = {} /\ working = Root
     /\ \A v \in Volumes : dirs[v] \subseteq NestPaths

=============================================================================
