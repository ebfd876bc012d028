----------------------------- MODULE MCLockSet -----------------------------
(* LockSet on three callers and two records, with memory for two locks: as *)
(* many as two records can have, so that one is used again.                *)
EXTENDS LockSet
=============================================================================
