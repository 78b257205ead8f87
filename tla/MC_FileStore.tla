---------------------------- MODULE MC_FileStore ----------------------------
(***************************************************************************)
(* Small volumes: a FAT16 one with a full root at three entries or six, a  *)
(* FAT32 one, and one of two sectors to a cluster.                         *)
(***************************************************************************)
EXTENDS FileStore

Volumes ==
  {[fs_type |-> "FAT16", csize |-> 1, max_clust |-> 8, n_fats |-> 2, n_rootdir |-> 3],
   [fs_type |-> "FAT32", csize |-> 1, max_clust |-> 9, n_fats |-> 2, n_rootdir |-> 0],
   [fs_type |-> "FAT32", csize |-> 2, max_clust |-> 7, n_fats |-> 1, n_rootdir |-> 0]}
=============================================================================
