---------------------------- MODULE StaticGuard ----------------------------
(***************************************************************************)
(* The guard of a function-local static and of initialize_guard            *)
(* (hk/os/Libcxx.cpp): a flag and a Mutex.  hk_guard_acquire reads the     *)
(* flag and locks the mutex; whoever gets true runs the initializer and    *)
(* calls hk_guard_release, which sets the flag and unlocks.                *)
(***************************************************************************)
EXTENDS Mutex

VARIABLES
  initialized,   (* Guard::initialized                                     *)
  at             (* how far each thread is with the guarded block          *)

guardVars == <<vars, initialized, at>>

(* The flag is read before the mutex is locked, and only then. *)
GuardAcquire(t) ==
  /\ at[t] = "outside"
  /\ IF initialized
     THEN at' = [at EXCEPT ![t] = "past"] /\ UNCHANGED <<pc, assigning, overwritten>>
     ELSE at' = [at EXCEPT ![t] = "acquire"] /\ Goto(t, "idle", "lock")
  /\ UNCHANGED <<word, monitor, seen, queue, initialized>>

GuardAcquired(t) ==
  /\ at[t] = "acquire" /\ pc[t] = "locked"
  /\ at' = [at EXCEPT ![t] = "initializer"]
  /\ UNCHANGED <<vars, initialized>>

GuardRelease(t) ==
  /\ at[t] = "initializer"
  /\ initialized' = TRUE
  /\ Goto(t, "locked", "unlock")
  /\ at' = [at EXCEPT ![t] = "past"]
  /\ UNCHANGED <<word, monitor, seen, queue>>

GuardMutex(t) ==
  /\ Lock(t) \/ Unlock(t) \/ Interrupt(t)
  /\ UNCHANGED <<initialized, at>>

GuardInit ==
  /\ Init
  /\ initialized = FALSE
  /\ at = [t \in Threads |-> "outside"]

GuardNext ==
  \/ \E t \in Threads :
       GuardAcquire(t) \/ GuardAcquired(t) \/ GuardRelease(t) \/ GuardMutex(t)
  \/ /\ \A t \in Threads : at[t] = "past" /\ pc[t] = "idle"
     /\ UNCHANGED guardVars

GuardSpec == GuardInit /\ [][GuardNext]_guardVars

-----------------------------------------------------------------------------
(* What InitializeGuard.h says of initialize_guard, and C++ of a local      *)
(* static: the block runs only while the guard is uninitialized.           *)
OnlyUninitialized == \A t \in Threads : at[t] = "initializer" => ~initialized
=============================================================================
