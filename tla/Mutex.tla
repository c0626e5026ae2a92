------------------------------- MODULE Mutex -------------------------------
(***************************************************************************)
(* hk::os::Mutex (hk/os/Mutex.h): a word that holds the handle of the      *)
(* owner and a bit that says that threads wait for it in the kernel.  Lock *)
(* and unlock change it by load-exclusive and store-exclusive and call     *)
(* svcArbitrateLock and svcArbitrateUnlock.  Threads of any core and any   *)
(* priority interleave at every one of these steps.                        *)
(*                                                                         *)
(* Two writes go past the exclusive accesses: svcArbitrateUnlock's, which  *)
(* comes after unlock() has cleared the word, so that another thread may   *)
(* have taken it meanwhile, and the copy in Lock's move assignment.        *)
(* overwritten remembers whether such a write has replaced a word that     *)
(* somebody relied on; no step reads it.                                   *)
(***************************************************************************)
EXTENDS Naturals, Sequences

CONSTANTS
  Threads,
  Nobody,     (* cInvalidHandle                                            *)
  OtherWords  (* words of mutexes that are assigned to this one            *)

Values == [owner : Threads \union {Nobody}, waiters : BOOLEAN]
Words == {w \in Values : w.waiters => w.owner # Nobody}

ASSUME MutexAssumption == Nobody \notin Threads /\ OtherWords \subseteq Words

VARIABLES
  word,      (* mValue: [owner, waiters]                                   *)
  monitor,   (* threads whose exclusive monitor is set for the word        *)
  seen,      (* what each thread loaded last                               *)
  pc,
  queue,     (* kernel: [thread, owner] of the sleepers, first come first  *)
  assigning, (* threads in the unlock of Lock's move assignment            *)
  overwritten

vars == <<word, monitor, seen, pc, queue, assigning, overwritten>>

Free == [owner |-> Nobody, waiters |-> FALSE]
Owned(t) == [owner |-> t, waiters |-> FALSE]

Places == {"idle", "locked", "lock", "decide", "arbitrate", "asleep",
           "try", "tryDecide", "unlock", "unlockDecide", "wake"}

Goto(t, from, to) ==
  /\ pc[t] = from
  /\ pc' = [pc EXCEPT ![t] = to]
  /\ UNCHANGED <<assigning, overwritten>>

LoadExclusive(t) ==
  /\ seen' = [seen EXCEPT ![t] = word]
  /\ monitor' = monitor \union {t}
  /\ UNCHANGED <<word, queue>>

ClearExclusive(t) == monitor' = monitor \ {t} /\ UNCHANGED <<word, queue>>

(* Any write to the word clears every monitor. *)
StoreExclusive(t, value) ==
  /\ t \in monitor
  /\ word' = value
  /\ monitor' = {}
  /\ UNCHANGED queue

StoreFails(t) == t \notin monitor /\ UNCHANGED <<word, monitor, queue>>

(* The loaded value is a local variable: it goes out of scope. *)
Forget(t) == seen' = [seen EXCEPT ![t] = Free]

(* An interrupt leaves the monitor clear. *)
Interrupt(t) ==
  /\ t \in monitor
  /\ monitor' = monitor \ {t}
  /\ UNCHANGED <<word, seen, pc, queue, assigning, overwritten>>

-----------------------------------------------------------------------------
(* lock() *)
LockLoad(t) == Goto(t, "lock", "decide") /\ LoadExclusive(t)

LockFree(t) ==
  /\ seen[t] = Free
  /\ Goto(t, "decide", "locked")
  /\ StoreExclusive(t, Owned(t))
  /\ Forget(t)

LockOwned(t) ==
  /\ seen[t].owner = t
  /\ Goto(t, "decide", "locked")
  /\ ClearExclusive(t)
  /\ Forget(t)

(* A defect: the bit of the waiters is stored without the owner's handle. *)
LockAnnounceBitOnly(t) ==
  /\ seen[t].owner \notin {t, Nobody}
  /\ Goto(t, "decide", "arbitrate")
  /\ IF seen[t].waiters THEN ClearExclusive(t)
     ELSE StoreExclusive(t, [owner |-> Nobody, waiters |-> TRUE])
  /\ UNCHANGED seen

LockAnnounce(t) ==
  /\ seen[t].owner \notin {t, Nobody}
  /\ Goto(t, "decide", "arbitrate")
  /\ IF seen[t].waiters THEN ClearExclusive(t)
     ELSE StoreExclusive(t, [seen[t] EXCEPT !.waiters = TRUE])
  /\ UNCHANGED seen

Stores(t) == seen[t].owner # t /\ ~seen[t].waiters

LockRetry(t) ==
  /\ Stores(t)
  /\ Goto(t, "decide", "lock")
  /\ StoreFails(t)
  /\ Forget(t)

(* svcArbitrateLock: sleep if the word still names the owner and waiters. *)
ArbitrateLock(t) ==
  /\ IF word = [seen[t] EXCEPT !.waiters = TRUE]
     THEN /\ Goto(t, "arbitrate", "asleep")
          /\ queue' = Append(queue, [thread |-> t, owner |-> seen[t].owner])
     ELSE Goto(t, "arbitrate", "lock") /\ UNCHANGED queue
  /\ Forget(t)
  /\ UNCHANGED <<word, monitor>>

(* tryLock() *)
TryLoad(t) == Goto(t, "try", "tryDecide") /\ LoadExclusive(t)

TryRefused(t) ==
  /\ seen[t] # Free
  /\ Goto(t, "tryDecide", "idle")
  /\ ClearExclusive(t)
  /\ Forget(t)

TryFree(t) ==
  /\ seen[t] = Free
  /\ Goto(t, "tryDecide", "locked")
  /\ StoreExclusive(t, Owned(t))
  /\ Forget(t)

TryRetry(t) ==
  /\ seen[t] = Free
  /\ Goto(t, "tryDecide", "try")
  /\ StoreFails(t)
  /\ Forget(t)

(* unlock() *)
UnlockLoad(t) == Goto(t, "unlock", "unlockDecide") /\ LoadExclusive(t)

UnlockOthers(t) ==
  /\ seen[t].owner # t
  /\ Goto(t, "unlockDecide", "idle")
  /\ ClearExclusive(t)
  /\ Forget(t)

(* A defect: whoever owns the word, it is cleared. *)
UnlockAnyone(t) ==
  /\ Goto(t, "unlockDecide", IF seen[t].waiters THEN "wake" ELSE "idle")
  /\ StoreExclusive(t, Free)
  /\ Forget(t)

(* A defect: nobody is woken. *)
UnlockQuietly(t) ==
  /\ seen[t].owner = t
  /\ Goto(t, "unlockDecide", "idle")
  /\ StoreExclusive(t, Free)
  /\ Forget(t)

UnlockOwned(t) ==
  /\ seen[t].owner = t
  /\ Goto(t, "unlockDecide", IF seen[t].waiters THEN "wake" ELSE "idle")
  /\ StoreExclusive(t, Free)
  /\ Forget(t)

UnlockRetry(t) ==
  /\ seen[t].owner = t
  /\ Goto(t, "unlockDecide", "unlock")
  /\ StoreFails(t)
  /\ Forget(t)

(***************************************************************************)
(* svcArbitrateUnlock: a thread that sleeps on the caller gets the word,   *)
(* and the others now sleep on it; without one the word is cleared.  The   *)
(* kernel takes the sleeper of the highest priority: here it is any.       *)
(***************************************************************************)
SleepsOn(i, t) == queue[i].owner = t

Inherit(w, t, next) == IF w.owner = t THEN [w EXCEPT !.owner = next] ELSE w

Without(i, t) ==
  [j \in 1 .. Len(queue) - 1 |->
     Inherit(queue[IF j < i THEN j ELSE j + 1], t, queue[i].thread)]

HandOver(t) ==
  \E i \in DOMAIN queue :
    /\ SleepsOn(i, t)
    /\ word' = [owner |-> queue[i].thread,
                waiters |-> \E j \in DOMAIN queue \ {i} : SleepsOn(j, t)]
    /\ queue' = Without(i, t)
    /\ pc' = [pc EXCEPT ![t] = "idle", ![queue[i].thread] = "lock"]

ArbitrateUnlock(t) ==
  /\ pc[t] = "wake"
  /\ \/ HandOver(t)
     \/ /\ \A i \in DOMAIN queue : ~SleepsOn(i, t)
        /\ word' = Free
        /\ pc' = [pc EXCEPT ![t] = "idle"]
        /\ UNCHANGED queue
  /\ monitor' = {}
  /\ overwritten' = (overwritten \/ word # Free)
  /\ UNCHANGED <<seen, assigning>>

-----------------------------------------------------------------------------
(* A client locks or tries to, and unlocks.  A Lock that was moved from      *)
(* unlocks as well, when its thread no longer holds the mutex.              *)
Call(t) ==
  /\ \/ t \notin assigning /\ (Goto(t, "idle", "lock") \/ Goto(t, "idle", "try"))
     \/ t \notin assigning /\ Goto(t, "idle", "unlock")
     \/ Goto(t, "locked", "unlock")
  /\ UNCHANGED <<word, monitor, seen, queue>>

(* Move assignment of a Lock unlocks its mutex and then copies the other     *)
(* Lock's mutex over it, whatever that is at the time: mMutex is a reference. *)
Assign(t) ==
  /\ pc[t] = "locked" \/ (pc[t] = "idle" /\ t \notin assigning)
  /\ pc' = [pc EXCEPT ![t] = "unlock"]
  /\ assigning' = assigning \union {t}
  /\ UNCHANGED <<word, monitor, seen, queue, overwritten>>

AssignCopy(t) ==
  /\ pc[t] = "idle" /\ t \in assigning
  /\ \E other \in OtherWords : word' = other
  /\ monitor' = {}
  /\ assigning' = assigning \ {t}
  /\ overwritten' = (overwritten \/ word' # word)
  /\ UNCHANGED <<seen, pc, queue>>

Lock(t) ==
  \/ LockLoad(t) \/ LockFree(t) \/ LockOwned(t) \/ LockAnnounce(t) \/ LockRetry(t)
  \/ ArbitrateLock(t)

TryLock(t) == TryLoad(t) \/ TryRefused(t) \/ TryFree(t) \/ TryRetry(t)

Unlock(t) ==
  UnlockLoad(t) \/ UnlockOthers(t) \/ UnlockOwned(t) \/ UnlockRetry(t) \/ ArbitrateUnlock(t)

Init ==
  /\ word = Free
  /\ monitor = {}
  /\ seen = [t \in Threads |-> Free]
  /\ pc = [t \in Threads |-> "idle"]
  /\ queue = <<>>
  /\ assigning = {}
  /\ overwritten = FALSE

(* Clients that never assign one Lock to another. *)
ScopedNext ==
  \E t \in Threads : Call(t) \/ Lock(t) \/ TryLock(t) \/ Unlock(t) \/ Interrupt(t)

ScopedSpec == Init /\ [][ScopedNext]_vars

Next == ScopedNext \/ \E t \in Threads : Assign(t) \/ AssignCopy(t)

Spec == Init /\ [][Next]_vars

(***************************************************************************)
(* The kernel runs every thread again, and who holds the mutex releases    *)
(* it.  Interrupts do not clear every monitor between load and store: if   *)
(* threads keep trying, one of them stores.                                *)
(***************************************************************************)
Progress(t) ==
  \/ Lock(t) \/ TryLock(t) \/ Unlock(t) \/ AssignCopy(t)
  \/ pc[t] = "locked" /\ (Call(t) \/ Assign(t))

Store(t) == LockFree(t) \/ LockAnnounce(t) \/ TryFree(t) \/ UnlockOwned(t)

FairSpec ==
  /\ Spec
  /\ \A t \in Threads : WF_vars(Progress(t))
  /\ SF_vars(\E t \in Threads : Store(t))

-----------------------------------------------------------------------------
(* The word is zero or names an owner, to which alone the bit of the waiters *)
(* may be added; the monitors and the kernel's queue name threads.         *)
TypeOK ==
  /\ word \in Words
  /\ monitor \subseteq Threads
  /\ seen \in [Threads -> Values]
  /\ pc \in [Threads -> Places]
  /\ queue \in Seq([thread : Threads, owner : Threads])
  /\ assigning \subseteq Threads
  /\ overwritten \in BOOLEAN

(* A thread from its return from lock, or successful tryLock, to the store   *)
(* of its unlock.                                                          *)
Holds(t) == pc[t] = "locked" \/ (pc[t] \in {"unlock", "unlockDecide"} /\ word.owner = t)

(* What lock() and tryLock() are for: no two threads hold the mutex. *)
OneHolder == \A t, u \in Threads : Holds(t) /\ Holds(u) => t = u

(* As long as no write has gone past the exclusive accesses of Mutex.h, no   *)
(* two threads hold the mutex and isLockedByCurrentThread is true for the   *)
(* one that does: neither stores that fail, nor sleepers, nor locks in the  *)
(* window of another's unlock, nor unlocks too many get a second one in.    *)
ExclusiveUntilOverwritten ==
  ~overwritten => OneHolder /\ \A t \in Threads : pc[t] = "locked" => word.owner = t

(* As long as no such write has happened, nobody sleeps in the kernel without *)
(* someone due to wake him: he waits for the owner of the word, and the word *)
(* says so, or for a thread that is about to call svcArbitrateUnlock.      *)
SleepersAreExpected ==
  ~overwritten =>
    \A t \in Threads : pc[t] = "asleep" =>
      \E i \in DOMAIN queue :
        /\ queue[i].thread = t
        /\ \/ word = [owner |-> queue[i].owner, waiters |-> TRUE]
           \/ pc[queue[i].owner] = "wake"

(* As long as no such write has happened: if somebody sleeps the kernel hands *)
(* the mutex to a sleeper, and if somebody waits and nobody holds the mutex *)
(* somebody gets it.                                                       *)
WaitersAreServed ==
  /\ (\E t \in Threads : pc[t] = "asleep")
     ~> (overwritten \/ \E t \in Threads : pc[t] = "lock" /\ word.owner = t)
  /\ ((\E t \in Threads : pc[t] \in {"lock", "asleep"}) /\ \A t \in Threads : ~Holds(t))
     ~> (overwritten \/ \E t \in Threads : pc[t] = "locked")
=============================================================================
