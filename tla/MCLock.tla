------------------------------- MODULE MCLock -------------------------------
(***************************************************************************)
(* The lock of a database: two threads of one process and one of another   *)
(* call LockFile and UnlockFile; the background thread of the Env rests.   *)
(***************************************************************************)
EXTENDS PosixEnv

LockRun == LockInit /\ BgInit /\ [][LockNext /\ UNCHANGED bgVars]_envVars

MCThreads == {<<"p", 1>>, <<"p", 2>>, <<"q", 1>>}
=============================================================================
