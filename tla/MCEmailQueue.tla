---------------------------- MODULE MCEmailQueue ----------------------------
(***************************************************************************)
(* Three environments: the default lock, one whose renewal time is longer  *)
(* than the lock, and one whose lock is shorter than any renewal time.     *)
(***************************************************************************)
EXTENDS EmailQueue

MCLockSettings == {<<120000, 30000>>, <<8000, 60000>>, <<2000, 1000>>}
=============================================================================
