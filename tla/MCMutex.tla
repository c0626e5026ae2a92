------------------------------ MODULE MCMutex ------------------------------
(* Three threads: an owner, a thread that is handed the mutex, and one that *)
(* goes on waiting or gets in between.                                     *)
EXTENDS Mutex

CONSTANTS t1, t2, t3

MCThreads == {t1, t2, t3}

(* A mutex that is free, and one that t1 has locked and others wait for. *)
MCOtherWords == {Free, [owner |-> t1, waiters |-> TRUE]}
=============================================================================
