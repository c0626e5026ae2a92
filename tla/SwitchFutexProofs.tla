------------------------- MODULE SwitchFutexProofs -------------------------
(***************************************************************************)
(* Mutual exclusion of SwitchFutex for any set of threads.  The word and   *)
(* the holders are tied to each other by TakenIffHeld, which makes the     *)
(* three invariants inductive together.                                    *)
(***************************************************************************)
EXTENDS SwitchFutex, TLAPS

IInv == TypeOK /\ MutualExclusion /\ TakenIffHeld

LEMMA InitIInv == Init => IInv
<1> SUFFICES ASSUME Init PROVE IInv
  OBVIOUS
<1> USE DEF Init
<1>1. TypeOK
  BY DEF TypeOK, Places
<1>2. \A t \in Threads : ~Holds(t)
  BY DEF Holds
<1>3. value # Taken
  BY DEF Idle, Taken
<1>4. QED
  BY <1>1, <1>2, <1>3 DEF IInv, MutualExclusion, TakenIffHeld

LEMMA NextIInv ==
  ASSUME IInv, [Next]_vars
  PROVE  IInv'
<1> USE DEF IInv, TypeOK, MutualExclusion, TakenIffHeld, Holds, Goto
<1>1. ASSUME NEW t \in Threads, Call(t) PROVE IInv'
  BY <1>1 DEF Call, Places
<1>2. ASSUME NEW t \in Threads, Acquire(t) PROVE IInv'
  BY <1>2 DEF Acquire, Places, Idle, Taken
<1>3. ASSUME NEW t \in Threads, AcquireFails(t) PROVE IInv'
  BY <1>3 DEF AcquireFails, Places
<1>4. ASSUME NEW t \in Threads, Wait(t) PROVE IInv'
  BY <1>4 DEF Wait, Places
<1>5. ASSUME NEW t \in Threads, ClosureEnds(t) PROVE IInv'
  BY <1>5 DEF ClosureEnds, Places
<1>6. ASSUME NEW t \in Threads, Release(t) PROVE IInv'
  BY <1>6 DEF Release, Places, Idle, Taken
<1>7. ASSUME NEW t \in Threads, Signal(t) PROVE IInv'
  BY <1>7 DEF Signal, Places
<1>8. CASE UNCHANGED vars
  BY <1>8 DEF vars
<1>9. QED
  BY <1>1, <1>2, <1>3, <1>4, <1>5, <1>6, <1>7, <1>8 DEF Next, Proceed

(* Closures passed to with_lock and try_with_lock never overlap, for any   *)
(* number of threads.                                                      *)
THEOREM FutexMutualExclusion == Spec => []MutualExclusion
<1>1. IInv => MutualExclusion
  BY DEF IInv
<1>2. QED
  BY <1>1, InitIInv, NextIInv, PTL DEF Spec

(* The word is never anything but the two values of the enum, for any      *)
(* number of threads.                                                      *)
THEOREM FutexTypeCorrect == Spec => []TypeOK
<1>1. IInv => TypeOK
  BY DEF IInv
<1>2. QED
  BY <1>1, InitIInv, NextIInv, PTL DEF Spec

(* is_locked is true exactly while a closure runs or its end is stored.    *)
THEOREM FutexWordIsTrue == Spec => []TakenIffHeld
<1>1. IInv => TakenIffHeld
  BY DEF IInv
<1>2. QED
  BY <1>1, InitIInv, NextIInv, PTL DEF Spec
=============================================================================
