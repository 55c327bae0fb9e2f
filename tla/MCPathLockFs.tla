---------------------------- MODULE MCPathLockFs ----------------------------
(* Small instances of PathLockFs for TLC. *)
EXTENDS PathLockFsInductive, MCPathLock
=============================================================================
