---------------------------- MODULE SwitchFutex ----------------------------
(***************************************************************************)
(* The lock of the Rust addon (addons/Rust/src/mutex.rs): an atomic word   *)
(* that is taken by compare-and-exchange.  A thread that finds it taken    *)
(* calls svcWaitForAddress(WaitIfEqual, Idle, timeout 0).  That never      *)
(* sleeps: it fails with InvalidState (0xFA01) if the word is not Idle,    *)
(* and times out if it is.  panic_on_bad_result lets the first pass; the   *)
(* second ends the process.                                                *)
(***************************************************************************)
EXTENDS Naturals

CONSTANT Threads

VARIABLES
  value,     (* the atomic word: Idle or Taken                              *)
  pc,        (* where each thread is                                       *)
  panicked   (* the process is gone                                        *)

Idle == 0
Taken == 1

vars == <<value, pc, panicked>>

(* A thread is outside, about to try (in with_lock or try_with_lock), in    *)
(* the caller's closure, about to store, to signal, or to wait.            *)
Places == {"outside", "lock", "try", "closure", "release", "signal", "wait"}

Goto(t, from, to) == pc[t] = from /\ pc' = [pc EXCEPT ![t] = to]

Call(t) ==
  /\ \E entry \in {"lock", "try"} : Goto(t, "outside", entry)
  /\ UNCHANGED <<value, panicked>>

(* A defect: the word counts the threads that wanted the lock. *)
AcquireCounting(t) ==
  /\ \E entry \in {"lock", "try"} : Goto(t, entry, "closure")
  /\ value' = value + 1
  /\ UNCHANGED panicked

(* A defect: the word is read and written in two steps, so it may have      *)
(* been taken since it was read.                                           *)
AcquireBlindly(t) ==
  /\ \E entry \in {"lock", "try"} : Goto(t, entry, "closure")
  /\ value' = Taken
  /\ UNCHANGED panicked

(* compare_exchange(Idle, Taken) succeeds ... *)
Acquire(t) ==
  /\ \E entry \in {"lock", "try"} : Goto(t, entry, "closure")
  /\ value = Idle
  /\ value' = Taken
  /\ UNCHANGED panicked

(* ... or fails: with_lock will wait, try_with_lock gives up. *)
AcquireFails(t) ==
  /\ value = Taken
  /\ Goto(t, "lock", "wait") \/ Goto(t, "try", "outside")
  /\ UNCHANGED <<value, panicked>>

(* A defect: who waits sleeps until somebody wakes it. *)
WaitForSignal(t) ==
  /\ FALSE
  /\ UNCHANGED <<value, pc, panicked>>

(* wait_for_address with a timeout of 0 and panic_on_bad_result. *)
Wait(t) ==
  \/ /\ value = Taken
     /\ Goto(t, "wait", "lock")
     /\ UNCHANGED <<value, panicked>>
  \/ /\ value = Idle
     /\ pc[t] = "wait"
     /\ panicked' = TRUE
     /\ UNCHANGED <<value, pc>>

ClosureEnds(t) == Goto(t, "closure", "release") /\ UNCHANGED <<value, panicked>>

(* A defect: the word is not given back. *)
ReleaseKeeping(t) == Goto(t, "release", "signal") /\ UNCHANGED <<value, panicked>>

Release(t) ==
  /\ Goto(t, "release", "signal")
  /\ value' = Idle
  /\ UNCHANGED panicked

(* Nobody ever sleeps on the address: signal_to_address wakes no one. *)
Signal(t) == Goto(t, "signal", "outside") /\ UNCHANGED <<value, panicked>>

-----------------------------------------------------------------------------
Init ==
  /\ value = Idle
  /\ pc = [t \in Threads |-> "outside"]
  /\ panicked = FALSE

(* What a thread does once it has called. *)
Proceed(t) ==
  \/ Acquire(t)
  \/ AcquireFails(t)
  \/ Wait(t)
  \/ ClosureEnds(t)
  \/ Release(t)
  \/ Signal(t)

Next == ~panicked /\ \E t \in Threads : Call(t) \/ Proceed(t)

Spec == Init /\ [][Next]_vars

(* Threads run, on several cores or in turns, and closures end. *)
FairSpec == Spec /\ \A t \in Threads : WF_vars(~panicked /\ Proceed(t))

-----------------------------------------------------------------------------
(* The word is one of the two states of the enum State, whatever the        *)
(* threads do to it.                                                       *)
TypeOK ==
  /\ value \in {Idle, Taken}
  /\ pc \in [Threads -> Places]
  /\ panicked \in BOOLEAN

Holds(t) == pc[t] \in {"closure", "release"}

(* No two closures given to with_lock or try_with_lock overlap. *)
MutualExclusion == \A t, u \in Threads : Holds(t) /\ Holds(u) => t = u

(* is_locked tells the truth: the word is taken while somebody holds the    *)
(* lock and at no other time, so no release is lost and none comes twice.  *)
TakenIffHeld == value = Taken <=> \E t \in Threads : Holds(t)

(* The lock is never abandoned: once taken it becomes free again, unless    *)
(* the process ends.                                                       *)
EventuallyFree == (value = Taken) ~> (value = Idle \/ panicked)

(* As long as anybody wants the lock somebody gets it, or the process ends. *)
SomebodyGetsIt ==
  (\E t \in Threads : pc[t] \in {"lock", "wait"}) ~> (panicked \/ \E t \in Threads : Holds(t))

(* with_lock, panic_on_bad_result: waiting for the word gives either result *)
(* 0 or 0xFA01, so a thread that only waits for its turn does not end the  *)
(* process.                                                                *)
WaitingIsHarmless == ~panicked
=============================================================================
