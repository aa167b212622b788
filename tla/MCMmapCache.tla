---------------------------- MODULE MCMmapCache ----------------------------
(* Instances of MmapCache for TLC: files whose inodes collide, wrap round   *)
(* the table, and differ in size only.                                      *)
EXTENDS MmapCache

MCFiles == {<<0, 1>>, <<0, 2>>, <<3, 1>>, <<4, 1>>}
=============================================================================
