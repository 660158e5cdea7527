---------------------------- MODULE MCShardLock ----------------------------
(* Instantiates ShardLock for TLC; the goroutine sets are model values in  *)
(* the .cfg files.                                                         *)
EXTENDS ShardLock
=============================================================================
