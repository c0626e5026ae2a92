---------------------------- MODULE MutexProofs ----------------------------
(***************************************************************************)
(* Proofs about Mutex, for any threads and all their interleavings.  What  *)
(* the algorithm rests on is that a monitor still set vouches for the      *)
(* value loaded, so that every exclusive store sees the word it replaces.  *)
(* The kernel's write after an unlock has no monitor: everything about the *)
(* owner of the word is stated up to the first write that goes past them.  *)
(***************************************************************************)
EXTENDS Mutex, TLAPS

(* A thread whose monitor is set has the word's value in its hands. *)
MonitorsFresh ==
  \A t \in monitor : pc[t] \in {"decide", "tryDecide", "unlockDecide"} /\ seen[t] = word

WordInv == TypeOK /\ MonitorsFresh

(***************************************************************************)
(* The kernel's queue lists exactly the sleepers, each once.               *)
(***************************************************************************)
Listed == \A t \in Threads : pc[t] = "asleep" => \E i \in DOMAIN queue : queue[i].thread = t

ListedSleep == \A i \in DOMAIN queue : pc[queue[i].thread] = "asleep"

ListedOnce ==
  \A i, j \in DOMAIN queue : queue[i].thread = queue[j].thread => i = j

QueueInv == Listed /\ ListedSleep /\ ListedOnce

(***************************************************************************)
(* Who the word names.  Nobody calls svcArbitrateUnlock for a mutex he     *)
(* owns, and who has seen himself as the owner still is.                   *)
(***************************************************************************)
HoldersOwn == \A t \in Threads : pc[t] = "locked" => word.owner = t

WakersLeft == \A t \in Threads : pc[t] = "wake" => word.owner # t

OwnsSeen == \A t \in Threads : pc[t] = "decide" /\ seen[t].owner = t => word.owner = t

OwnerInv == HoldersOwn /\ WakersLeft /\ OwnsSeen

(* All sleepers sleep on the owner the word names, or on a thread that is    *)
(* about to hand the word over.                                            *)
Names(v, t) == v.owner = t /\ v.waiters

Due ==
  \A i \in DOMAIN queue : Names(word, queue[i].owner) \/ pc[queue[i].owner] = "wake"

MutexInv ==
  /\ WordInv
  /\ QueueInv
  /\ ~overwritten => OwnerInv /\ Due

-----------------------------------------------------------------------------
LEMMA WordFacts ==
  /\ Free \in Words
  /\ \A t \in Threads : Owned(t) \in Words
  /\ \A v \in Values : v.owner # Nobody => [v EXCEPT !.waiters = TRUE] \in Words
  /\ \A v \in Words : v \in Values /\ v.owner \in Threads \union {Nobody}
BY MutexAssumption DEF Free, Owned, Values, Words

Entries == [thread : Threads, owner : Threads]

LEMMA EntryOfQueue ==
  ASSUME queue \in Seq(Entries), NEW i \in DOMAIN queue
  PROVE  queue[i] \in Entries /\ queue[i].thread \in Threads /\ queue[i].owner \in Threads
<1>1. queue[i] \in Entries
  OBVIOUS
<1>2. QED
  BY <1>1 DEF Entries

LEMMA WithoutIsQueue ==
  ASSUME queue \in Seq(Entries), NEW t \in Threads, NEW i \in DOMAIN queue
  PROVE  Without(i, t) \in Seq(Entries)
<1>1. Len(queue) \in Nat /\ i \in 1 .. Len(queue)
  OBVIOUS
<1>2. ASSUME NEW j \in 1 .. Len(queue) - 1
      PROVE  Inherit(queue[IF j < i THEN j ELSE j + 1], t, queue[i].thread) \in Entries
  <2>1. (IF j < i THEN j ELSE j + 1) \in DOMAIN queue
    BY <1>1
  <2>2. ASSUME NEW w \in Entries PROVE Inherit(w, t, queue[i].thread) \in Entries
    BY EntryOfQueue DEF Inherit, Entries
  <2>3. QED
    BY <2>1, <2>2
<1>3. Len(queue) - 1 \in Nat
  BY <1>1
<1>4. QED
  BY <1>2, <1>3 DEF Without

LEMMA InitMutexInv == Init => MutexInv
<1> SUFFICES ASSUME Init PROVE MutexInv
  OBVIOUS
<1>1. TypeOK
  <2>1. word \in Words /\ seen \in [Threads -> Values]
    BY WordFacts DEF Init
  <2>2. pc \in [Threads -> Places]
    BY DEF Init, Places
  <2>3. queue \in Seq([thread : Threads, owner : Threads])
    BY DEF Init
  <2>4. QED
    BY <2>1, <2>2, <2>3 DEF Init, TypeOK
<1>2. MonitorsFresh /\ QueueInv
  BY DEF Init, MonitorsFresh, QueueInv, Listed, ListedSleep, ListedOnce
<1>3. OwnerInv /\ Due
  BY DEF Init, OwnerInv, HoldersOwn, WakersLeft, OwnsSeen, Due
<1>4. QED
  BY <1>1, <1>2, <1>3 DEF MutexInv, WordInv

-----------------------------------------------------------------------------
(***************************************************************************)
(* The word, the monitors and the places, at every step.                   *)
(***************************************************************************)
LEMMA LockWordInv ==
  ASSUME WordInv, NEW t \in Threads, Lock(t)
  PROVE  WordInv'
<1> USE WordFacts, MutexAssumption
    DEF WordInv, TypeOK, MonitorsFresh, Goto, Forget, Places
<1>1. CASE LockLoad(t)
  BY <1>1 DEF LockLoad, LoadExclusive
<1>2. CASE LockFree(t)
  BY <1>2 DEF LockFree, StoreExclusive
<1>3. CASE LockOwned(t)
  BY <1>3 DEF LockOwned, ClearExclusive
<1>4. CASE LockAnnounce(t)
  BY <1>4 DEF LockAnnounce, ClearExclusive, StoreExclusive
<1>5. CASE LockRetry(t)
  BY <1>5 DEF LockRetry, StoreFails
<1>6. CASE ArbitrateLock(t)
  <2> DEFINE entry == [thread |-> t, owner |-> seen[t].owner]
  <2>1. CASE word = [seen[t] EXCEPT !.waiters = TRUE]
    <3>1. seen[t] \in Values
      OBVIOUS
    <3>2. word.waiters /\ word.owner = seen[t].owner
      BY <2>1, <3>1 DEF Values
    <3>3. word.owner \in Threads
      BY <3>2 DEF Words, Values
    <3>4. entry \in [thread : Threads, owner : Threads]
      BY <3>2, <3>3
    <3>5. queue' = Append(queue, entry)
      BY <1>6, <2>1 DEF ArbitrateLock
    <3>6. queue' \in Seq([thread : Threads, owner : Threads])
      BY <3>4, <3>5
    <3>7. QED
      BY <1>6, <2>1, <3>6 DEF ArbitrateLock
  <2>2. CASE word # [seen[t] EXCEPT !.waiters = TRUE]
    BY <1>6, <2>2 DEF ArbitrateLock
  <2>3. QED
    BY <2>1, <2>2
<1>7. QED
  BY <1>1, <1>2, <1>3, <1>4, <1>5, <1>6 DEF Lock

LEMMA TryLockWordInv ==
  ASSUME WordInv, NEW t \in Threads, TryLock(t)
  PROVE  WordInv'
<1> USE WordFacts, MutexAssumption
    DEF WordInv, TypeOK, MonitorsFresh, Goto, Forget, Places
<1>1. CASE TryLoad(t)
  BY <1>1 DEF TryLoad, LoadExclusive
<1>2. CASE TryRefused(t)
  BY <1>2 DEF TryRefused, ClearExclusive
<1>3. CASE TryFree(t)
  BY <1>3 DEF TryFree, StoreExclusive
<1>4. CASE TryRetry(t)
  BY <1>4 DEF TryRetry, StoreFails
<1>5. QED
  BY <1>1, <1>2, <1>3, <1>4 DEF TryLock

LEMMA UnlockWordInv ==
  ASSUME WordInv, NEW t \in Threads, Unlock(t)
  PROVE  WordInv'
<1> USE WordFacts, MutexAssumption
    DEF WordInv, TypeOK, MonitorsFresh, Goto, Forget, Places
<1>1. CASE UnlockLoad(t)
  BY <1>1 DEF UnlockLoad, LoadExclusive
<1>2. CASE UnlockOthers(t)
  BY <1>2 DEF UnlockOthers, ClearExclusive
<1>3. CASE UnlockOwned(t)
  BY <1>3 DEF UnlockOwned, StoreExclusive
<1>4. CASE UnlockRetry(t)
  BY <1>4 DEF UnlockRetry, StoreFails
<1>5. CASE ArbitrateUnlock(t)
  <2>1. CASE HandOver(t)
    <3>1. PICK i \in DOMAIN queue :
            /\ word' = [owner |-> queue[i].thread,
                        waiters |-> \E j \in DOMAIN queue \ {i} : SleepsOn(j, t)]
            /\ queue' = Without(i, t)
            /\ pc' = [pc EXCEPT ![t] = "idle", ![queue[i].thread] = "lock"]
      BY <2>1 DEF HandOver
    <3>2. queue[i].thread \in Threads
      BY EntryOfQueue DEF Entries
    <3>3. word' \in Words
      BY <3>1, <3>2 DEF Words, Values
    <3>4. queue' \in Seq([thread : Threads, owner : Threads])
      BY <3>1, WithoutIsQueue DEF Entries
    <3>5. QED
      BY <1>5, <3>1, <3>2, <3>3, <3>4 DEF ArbitrateUnlock
  <2>2. CASE ~HandOver(t)
    BY <1>5, <2>2 DEF ArbitrateUnlock
  <2>3. QED
    BY <2>1, <2>2
<1>6. QED
  BY <1>1, <1>2, <1>3, <1>4, <1>5 DEF Unlock

LEMMA NextWordInv ==
  ASSUME WordInv, [Next]_vars
  PROVE  WordInv'
<1> USE DEF WordInv, TypeOK, MonitorsFresh, Places
<1>1. ASSUME NEW t \in Threads, Call(t) PROVE WordInv'
  BY <1>1 DEF Call, Goto
<1>2. ASSUME NEW t \in Threads, Interrupt(t) PROVE WordInv'
  BY <1>2 DEF Interrupt
<1>3. ASSUME NEW t \in Threads, Assign(t) PROVE WordInv'
  BY <1>3 DEF Assign
<1>4. ASSUME NEW t \in Threads, AssignCopy(t) PROVE WordInv'
  BY <1>4, MutexAssumption DEF AssignCopy
<1>5. CASE UNCHANGED vars
  BY <1>5 DEF vars
<1>6. QED
  BY <1>1, <1>2, <1>3, <1>4, <1>5, LockWordInv, TryLockWordInv, UnlockWordInv
  DEF Next, ScopedNext

-----------------------------------------------------------------------------
(***************************************************************************)
(* The kernel's queue.                                                     *)
(***************************************************************************)
(* A step of a thread that neither falls asleep nor wakes anybody. *)
LEMMA QuietStep ==
  ASSUME WordInv, QueueInv, NEW t \in Threads, NEW to,
         pc[t] # "asleep", to # "asleep", pc' = [pc EXCEPT ![t] = to], UNCHANGED queue
  PROVE  QueueInv'
<1>1. \A i \in DOMAIN queue : queue[i].thread \in Threads
  BY EntryOfQueue DEF WordInv, TypeOK, Entries
<1>2. pc \in [Threads -> Places]
  BY DEF WordInv, TypeOK
<1>3. Listed'
  BY <1>2 DEF QueueInv, Listed
<1>4. ListedSleep'
  BY <1>1, <1>2 DEF QueueInv, ListedSleep
<1>5. ListedOnce'
  BY DEF QueueInv, ListedOnce
<1>6. QED
  BY <1>3, <1>4, <1>5 DEF QueueInv

(* What svcArbitrateLock adds to the queue. *)
LEMMA AppendFacts ==
  ASSUME queue \in Seq(Entries), NEW entry, queue' = Append(queue, entry)
  PROVE  /\ Len(queue) \in Nat /\ DOMAIN queue = 1 .. Len(queue)
         /\ DOMAIN queue' = 1 .. Len(queue) + 1
         /\ \A i \in DOMAIN queue : queue'[i] = queue[i]
         /\ queue'[Len(queue) + 1] = entry
OBVIOUS

LEMMA SleepQueueInv ==
  ASSUME WordInv, QueueInv, NEW t \in Threads, NEW entry, entry.thread = t,
         pc[t] # "asleep", pc' = [pc EXCEPT ![t] = "asleep"], queue' = Append(queue, entry)
  PROVE  QueueInv'
<1>1. queue \in Seq(Entries) /\ pc \in [Threads -> Places]
  BY DEF WordInv, TypeOK, Entries
<1>2. /\ Len(queue) \in Nat /\ DOMAIN queue = 1 .. Len(queue)
      /\ DOMAIN queue' = 1 .. Len(queue) + 1
      /\ \A i \in DOMAIN queue : queue'[i] = queue[i]
      /\ queue'[Len(queue) + 1] = entry
  BY <1>1, AppendFacts
<1>3. \A i \in DOMAIN queue : queue[i].thread \in Threads
  BY <1>1, EntryOfQueue
<1>4. \A i \in DOMAIN queue : queue[i].thread # t
  BY <1>3 DEF QueueInv, ListedSleep
<1>5. Listed'
  BY <1>1, <1>2 DEF QueueInv, Listed
<1>6. ListedSleep'
  BY <1>1, <1>2, <1>3, <1>4 DEF QueueInv, ListedSleep
<1>7. ListedOnce'
  BY <1>2, <1>4 DEF QueueInv, ListedOnce
<1>8. QED
  BY <1>5, <1>6, <1>7 DEF QueueInv

(* What the kernel leaves of the queue when its i-th sleeper is woken. *)
LEMMA WithoutFacts ==
  ASSUME queue \in Seq(Entries), NEW t \in Threads, NEW i \in DOMAIN queue
  PROVE  /\ DOMAIN Without(i, t) = 1 .. Len(queue) - 1
         /\ \A j \in DOMAIN Without(i, t) :
              \E k \in DOMAIN queue \ {i} :
                /\ k = (IF j < i THEN j ELSE j + 1)
                /\ Without(i, t)[j].thread = queue[k].thread
                /\ Without(i, t)[j].owner =
                     (IF queue[k].owner = t THEN queue[i].thread ELSE queue[k].owner)
         /\ \A k \in DOMAIN queue \ {i} :
              \E j \in DOMAIN Without(i, t) : Without(i, t)[j].thread = queue[k].thread
<1>1. Len(queue) \in Nat /\ DOMAIN queue = 1 .. Len(queue)
  OBVIOUS
<1>2. DOMAIN Without(i, t) = 1 .. Len(queue) - 1
  BY DEF Without
<1>3. ASSUME NEW w \in Entries, NEW n
      PROVE  /\ Inherit(w, t, n).thread = w.thread
             /\ Inherit(w, t, n).owner = (IF w.owner = t THEN n ELSE w.owner)
  BY DEF Inherit, Entries
<1>4. ASSUME NEW j \in DOMAIN Without(i, t), NEW k, k = (IF j < i THEN j ELSE j + 1)
      PROVE  /\ k \in DOMAIN queue \ {i}
             /\ Without(i, t)[j].thread = queue[k].thread
             /\ Without(i, t)[j].owner =
                  (IF queue[k].owner = t THEN queue[i].thread ELSE queue[k].owner)
  <2>1. k \in DOMAIN queue \ {i}
    BY <1>1, <1>2, <1>4
  <2>2. Without(i, t)[j] = Inherit(queue[k], t, queue[i].thread)
    BY <1>2, <1>4 DEF Without
  <2>3. queue[k] \in Entries
    BY <2>1, EntryOfQueue
  <2>4. QED
    BY <1>3, <2>1, <2>2, <2>3
<1>5. ASSUME NEW k \in DOMAIN queue \ {i}
      PROVE  \E j \in DOMAIN Without(i, t) : Without(i, t)[j].thread = queue[k].thread
  <2> DEFINE j == IF k < i THEN k ELSE k - 1
  <2>1. j \in DOMAIN Without(i, t) /\ k = (IF j < i THEN j ELSE j + 1)
    BY <1>1, <1>2
  <2>2. QED
    BY <1>4, <2>1
<1>6. QED
  BY <1>2, <1>4, <1>5

(* What a sleeper is handed: the word and, for the others, his place. *)
LEMMA HandOverFacts ==
  ASSUME WordInv, QueueInv, NEW t \in Threads, pc[t] = "wake", HandOver(t)
  PROVE  \E i \in DOMAIN queue :
           /\ queue[i].thread \in Threads /\ queue[i].thread # t
           /\ pc[queue[i].thread] = "asleep"
           /\ word' = [owner |-> queue[i].thread,
                       waiters |-> \E j \in DOMAIN queue \ {i} : SleepsOn(j, t)]
           /\ queue' = Without(i, t)
           /\ pc' = [pc EXCEPT ![t] = "idle", ![queue[i].thread] = "lock"]
<1>1. PICK i \in DOMAIN queue :
        /\ word' = [owner |-> queue[i].thread,
                    waiters |-> \E j \in DOMAIN queue \ {i} : SleepsOn(j, t)]
        /\ queue' = Without(i, t)
        /\ pc' = [pc EXCEPT ![t] = "idle", ![queue[i].thread] = "lock"]
  BY DEF HandOver
<1>2. queue[i].thread \in Threads
  BY EntryOfQueue DEF WordInv, TypeOK, Entries
<1>3. pc[queue[i].thread] = "asleep"
  BY DEF QueueInv, ListedSleep
<1>4. QED
  BY <1>1, <1>2, <1>3

LEMMA HandOverQueueInv ==
  ASSUME WordInv, QueueInv, NEW t \in Threads, pc[t] = "wake", HandOver(t)
  PROVE  QueueInv'
<1>1. pc \in [Threads -> Places] /\ queue \in Seq(Entries)
  BY DEF WordInv, TypeOK, Entries
<1>2. PICK i \in DOMAIN queue :
        /\ queue[i].thread \in Threads /\ queue[i].thread # t
        /\ pc[queue[i].thread] = "asleep"
        /\ queue' = Without(i, t)
        /\ pc' = [pc EXCEPT ![t] = "idle", ![queue[i].thread] = "lock"]
  BY HandOverFacts
<1> DEFINE next == queue[i].thread
<1>3. \A k \in DOMAIN queue : queue[k].thread \in Threads
  BY <1>1, EntryOfQueue
<1>4. \A k \in DOMAIN queue \ {i} : queue[k].thread # next
  BY DEF QueueInv, ListedOnce
<1>5. /\ DOMAIN queue' = 1 .. Len(queue) - 1
      /\ \A j \in DOMAIN queue' :
           \E k \in DOMAIN queue \ {i} :
             k = (IF j < i THEN j ELSE j + 1) /\ queue'[j].thread = queue[k].thread
      /\ \A k \in DOMAIN queue \ {i} :
           \E j \in DOMAIN queue' : queue'[j].thread = queue[k].thread
  <2>1. /\ DOMAIN Without(i, t) = 1 .. Len(queue) - 1
        /\ \A j \in DOMAIN Without(i, t) :
             \E k \in DOMAIN queue \ {i} :
               /\ k = (IF j < i THEN j ELSE j + 1)
               /\ Without(i, t)[j].thread = queue[k].thread
               /\ Without(i, t)[j].owner =
                    (IF queue[k].owner = t THEN queue[i].thread ELSE queue[k].owner)
        /\ \A k \in DOMAIN queue \ {i} :
             \E j \in DOMAIN Without(i, t) : Without(i, t)[j].thread = queue[k].thread
    BY <1>1, WithoutFacts
  <2>2. \A j \in DOMAIN Without(i, t) :
          \E k \in DOMAIN queue \ {i} :
            k = (IF j < i THEN j ELSE j + 1) /\ Without(i, t)[j].thread = queue[k].thread
    BY <2>1
  <2>3. QED
    BY <1>2, <2>1, <2>2
<1>6. Listed'
  <2> SUFFICES ASSUME NEW u \in Threads, pc'[u] = "asleep"
               PROVE  \E j \in DOMAIN queue' : queue'[j].thread = u
    BY DEF Listed
  <2>1. pc[u] = "asleep" /\ u # next
    BY <1>1, <1>2
  <2>2. PICK k \in DOMAIN queue : queue[k].thread = u
    BY <2>1 DEF QueueInv, Listed
  <2>3. QED
    BY <1>5, <2>1, <2>2
<1>7. ListedSleep'
  <2> SUFFICES ASSUME NEW j \in DOMAIN queue' PROVE pc'[queue'[j].thread] = "asleep"
    BY DEF ListedSleep
  <2>1. PICK k \in DOMAIN queue \ {i} : queue'[j].thread = queue[k].thread
    BY <1>5
  <2>2. pc[queue[k].thread] = "asleep" /\ queue[k].thread \in Threads
    BY <1>3 DEF QueueInv, ListedSleep
  <2>3. QED
    BY <1>1, <1>2, <1>4, <2>1, <2>2
<1>8. ListedOnce'
  <2> SUFFICES ASSUME NEW a \in DOMAIN queue', NEW b \in DOMAIN queue',
                      queue'[a].thread = queue'[b].thread
               PROVE  a = b
    BY DEF ListedOnce
  <2>1. a \in Nat /\ b \in Nat /\ i \in Nat
    <3>1. Len(queue) \in Nat /\ DOMAIN queue = 1 .. Len(queue)
      BY <1>1
    <3>2. DOMAIN queue' = 1 .. Len(queue) - 1
      BY <1>5
    <3>3. QED
      BY <3>1, <3>2
  <2>2. PICK k \in DOMAIN queue \ {i} :
          k = (IF a < i THEN a ELSE a + 1) /\ queue'[a].thread = queue[k].thread
    BY <1>5
  <2>3. PICK l \in DOMAIN queue \ {i} :
          l = (IF b < i THEN b ELSE b + 1) /\ queue'[b].thread = queue[l].thread
    BY <1>5
  <2>4. k = l
    BY <2>2, <2>3 DEF QueueInv, ListedOnce
  <2>5. QED
    BY <2>1, <2>2, <2>3, <2>4
<1>9. QED
  BY <1>6, <1>7, <1>8 DEF QueueInv

LEMMA LockQueueInv ==
  ASSUME WordInv, QueueInv, NEW t \in Threads, Lock(t)
  PROVE  QueueInv'
<1>1. CASE ArbitrateLock(t) /\ word = [seen[t] EXCEPT !.waiters = TRUE]
  <2> DEFINE entry == [thread |-> t, owner |-> seen[t].owner]
  <2>1. /\ pc[t] # "asleep" /\ pc' = [pc EXCEPT ![t] = "asleep"]
        /\ queue' = Append(queue, entry)
    BY <1>1 DEF ArbitrateLock, Goto
  <2>2. entry.thread = t
    OBVIOUS
  <2>3. QED
    BY <2>1, <2>2, SleepQueueInv
<1>2. CASE ArbitrateLock(t) /\ word # [seen[t] EXCEPT !.waiters = TRUE]
  BY <1>2, QuietStep DEF ArbitrateLock, Goto
<1>3. CASE LockLoad(t) \/ LockOwned(t) \/ LockRetry(t)
  BY <1>3, QuietStep
  DEF LockLoad, LockOwned, LockRetry, LoadExclusive, ClearExclusive, StoreFails, Goto
<1>4. CASE LockFree(t) \/ LockAnnounce(t)
  BY <1>4, QuietStep DEF LockFree, LockAnnounce, ClearExclusive, StoreExclusive, Goto
<1>5. QED
  BY <1>1, <1>2, <1>3, <1>4 DEF Lock

LEMMA TryLockQueueInv ==
  ASSUME WordInv, QueueInv, NEW t \in Threads, TryLock(t)
  PROVE  QueueInv'
<1>1. CASE TryLoad(t)
  BY <1>1, QuietStep DEF TryLoad, LoadExclusive, Goto
<1>2. CASE TryRefused(t)
  BY <1>2, QuietStep DEF TryRefused, ClearExclusive, Goto
<1>3. CASE TryFree(t)
  BY <1>3, QuietStep DEF TryFree, StoreExclusive, Goto
<1>4. CASE TryRetry(t)
  BY <1>4, QuietStep DEF TryRetry, StoreFails, Goto
<1>5. QED
  BY <1>1, <1>2, <1>3, <1>4 DEF TryLock

LEMMA UnlockQueueInv ==
  ASSUME WordInv, QueueInv, NEW t \in Threads, Unlock(t)
  PROVE  QueueInv'
<1>1. CASE UnlockLoad(t)
  BY <1>1, QuietStep DEF UnlockLoad, LoadExclusive, Goto
<1>2. CASE UnlockOthers(t)
  BY <1>2, QuietStep DEF UnlockOthers, ClearExclusive, Goto
<1>3. CASE UnlockOwned(t)
  BY <1>3, QuietStep DEF UnlockOwned, StoreExclusive, Goto
<1>4. CASE UnlockRetry(t)
  BY <1>4, QuietStep DEF UnlockRetry, StoreFails, Goto
<1>5. CASE ArbitrateUnlock(t) /\ HandOver(t)
  BY <1>5, HandOverQueueInv DEF ArbitrateUnlock
<1>6. CASE ArbitrateUnlock(t) /\ ~HandOver(t)
  BY <1>6, QuietStep DEF ArbitrateUnlock
<1>7. QED
  BY <1>1, <1>2, <1>3, <1>4, <1>5, <1>6 DEF Unlock

LEMMA NextQueueInv ==
  ASSUME WordInv, QueueInv, [Next]_vars
  PROVE  QueueInv'
<1>1. ASSUME NEW t \in Threads, Call(t) PROVE QueueInv'
  BY <1>1, QuietStep DEF Call, Goto
<1>2. ASSUME NEW t \in Threads, Assign(t) PROVE QueueInv'
  BY <1>2, QuietStep DEF Assign
<1>3. CASE UNCHANGED <<pc, queue>>
  BY <1>3 DEF QueueInv, Listed, ListedSleep, ListedOnce
<1>4. ASSUME NEW t \in Threads, Interrupt(t) \/ AssignCopy(t) PROVE QueueInv'
  BY <1>3, <1>4 DEF Interrupt, AssignCopy
<1>5. CASE UNCHANGED vars
  BY <1>3, <1>5 DEF vars
<1>6. QED
  BY <1>1, <1>2, <1>4, <1>5, LockQueueInv, TryLockQueueInv, UnlockQueueInv
  DEF Next, ScopedNext

-----------------------------------------------------------------------------
(***************************************************************************)
(* The owner of the word and those who sleep on him, up to the first write *)
(* past the exclusive accesses.                                            *)
(***************************************************************************)
LEMMA FreeFacts == Free.owner = Nobody /\ ~Free.waiters
BY DEF Free

(* Who takes a word through a store that succeeds takes a free one: nobody   *)
(* holds it and everybody who sleeps is about to be served.                *)
LEMMA TakeInv ==
  ASSUME WordInv, OwnerInv, Due, NEW t \in Threads,
         word = Free, word' = Owned(t), pc[t] # "wake", pc' = [pc EXCEPT ![t] = "locked"],
         seen' = [seen EXCEPT ![t] = Free], UNCHANGED queue
  PROVE  OwnerInv' /\ Due'
<1>1. pc \in [Threads -> Places] /\ seen \in [Threads -> Values]
  BY DEF WordInv, TypeOK
<1>2. \A u \in Threads : word.owner # u
  BY FreeFacts, MutexAssumption
<1>3. word'.owner = t
  BY DEF Owned
<1>4. HoldersOwn'
  BY <1>1, <1>2, <1>3 DEF OwnerInv, HoldersOwn
<1>5. WakersLeft'
  BY <1>1, <1>3 DEF WakersLeft
<1>6. OwnsSeen'
  BY <1>1, <1>2 DEF OwnerInv, OwnsSeen
<1>7. \A i \in DOMAIN queue : queue[i].owner \in Threads
  BY EntryOfQueue DEF WordInv, TypeOK, Entries
<1>8. \A i \in DOMAIN queue : pc[queue[i].owner] = "wake"
  BY FreeFacts DEF Due, Names
<1>9. Due'
  BY <1>1, <1>7, <1>8 DEF Due
<1>10. QED
  BY <1>4, <1>5, <1>6, <1>9 DEF OwnerInv

(* A step that leaves the word's owner alone, neither takes the mutex nor    *)
(* calls the kernel, and puts no one to sleep.                             *)
LEMMA QuietOwner ==
  ASSUME WordInv, OwnerInv, Due, NEW t \in Threads, NEW to, NEW v \in Values,
         pc[t] # "wake", to \notin {"locked", "wake"},
         to = "decide" => v = word, seen' = [seen EXCEPT ![t] = v],
         pc' = [pc EXCEPT ![t] = to], UNCHANGED queue,
         word' = word \/ word' = [word EXCEPT !.waiters = TRUE]
  PROVE  OwnerInv' /\ Due'
<1>1. pc \in [Threads -> Places] /\ seen \in [Threads -> Values] /\ word \in Values
  BY WordFacts DEF WordInv, TypeOK
<1>2. word'.owner = word.owner /\ \A u : Names(word, u) => Names(word', u)
  BY <1>1 DEF Names, Values
<1>3. HoldersOwn'
  BY <1>1, <1>2 DEF OwnerInv, HoldersOwn
<1>4. WakersLeft'
  BY <1>1, <1>2 DEF OwnerInv, WakersLeft
<1>5. OwnsSeen'
  BY <1>1, <1>2 DEF OwnerInv, OwnsSeen
<1>6. \A i \in DOMAIN queue : queue[i].owner \in Threads
  BY EntryOfQueue DEF WordInv, TypeOK, Entries
<1>7. \A u \in Threads : pc[u] = "wake" => pc'[u] = "wake"
  BY <1>1
<1>8. Due'
  BY <1>2, <1>6, <1>7 DEF Due
<1>9. QED
  BY <1>3, <1>4, <1>5, <1>8 DEF OwnerInv

LEMMA SleepOwner ==
  ASSUME WordInv, OwnerInv, Due, NEW t \in Threads, ArbitrateLock(t),
         word = [seen[t] EXCEPT !.waiters = TRUE]
  PROVE  OwnerInv' /\ Due'
<1> DEFINE entry == [thread |-> t, owner |-> seen[t].owner]
<1>1. /\ queue' = Append(queue, entry)
      /\ pc[t] = "arbitrate" /\ pc' = [pc EXCEPT ![t] = "asleep"]
      /\ seen' = [seen EXCEPT ![t] = Free]
      /\ UNCHANGED word
  BY DEF ArbitrateLock, Goto, Forget
<1>2. /\ queue \in Seq(Entries) /\ pc \in [Threads -> Places]
      /\ seen \in [Threads -> Values]
  BY DEF WordInv, TypeOK, Entries
<1>3. /\ Len(queue) \in Nat /\ DOMAIN queue = 1 .. Len(queue)
      /\ DOMAIN queue' = 1 .. Len(queue) + 1
      /\ \A i \in DOMAIN queue : queue'[i] = queue[i]
      /\ queue'[Len(queue) + 1] = entry
  BY <1>1, <1>2, AppendFacts
<1>4. OwnerInv'
  BY <1>1, <1>2 DEF OwnerInv, HoldersOwn, WakersLeft, OwnsSeen
<1>5. Names(word', seen[t].owner)
  BY <1>1, <1>2 DEF Names, Values
<1>6. \A i \in DOMAIN queue : queue[i].owner \in Threads
  BY <1>2, EntryOfQueue
<1>7. \A u \in Threads : pc[u] = "wake" => pc'[u] = "wake"
  BY <1>1, <1>2
<1>8. Due'
  <2> SUFFICES ASSUME NEW i \in DOMAIN queue'
               PROVE  Names(word', queue'[i].owner) \/ pc'[queue'[i].owner] = "wake"
    BY DEF Due
  <2>1. CASE i \in DOMAIN queue
    BY <1>1, <1>3, <1>6, <1>7, <2>1 DEF Due
  <2>2. CASE i = Len(queue) + 1
    BY <1>3, <1>5, <2>2
  <2>3. QED
    BY <1>3, <2>1, <2>2
<1>9. QED
  BY <1>4, <1>8

LEMMA LockOwner ==
  ASSUME WordInv, OwnerInv, Due, NEW t \in Threads, Lock(t)
  PROVE  OwnerInv' /\ Due'
<1>0. /\ pc \in [Threads -> Places] /\ seen \in [Threads -> Values] /\ word \in Values
      /\ Free \in Values
  BY WordFacts DEF WordInv, TypeOK
<1>1. CASE LockLoad(t)
  BY <1>0, <1>1, QuietOwner DEF LockLoad, LoadExclusive, Goto
<1>2. CASE LockFree(t)
  <2>1. word = Free
    BY <1>2 DEF LockFree, StoreExclusive, WordInv, MonitorsFresh
  <2>2. QED
    BY <1>2, <2>1, TakeInv DEF LockFree, StoreExclusive, Goto, Forget
<1>3. CASE LockOwned(t)
  <2>1. /\ pc[t] = "decide" /\ seen[t].owner = t /\ pc' = [pc EXCEPT ![t] = "locked"]
        /\ seen' = [seen EXCEPT ![t] = Free] /\ UNCHANGED <<word, queue>>
    BY <1>3 DEF LockOwned, ClearExclusive, Goto, Forget
  <2>2. word.owner = t
    BY <2>1 DEF OwnerInv, OwnsSeen
  <2>3. OwnerInv'
    BY <1>0, <2>1, <2>2 DEF OwnerInv, HoldersOwn, WakersLeft, OwnsSeen
  <2>4. \A i \in DOMAIN queue : queue[i].owner \in Threads
    BY EntryOfQueue DEF WordInv, TypeOK, Entries
  <2>5. Due'
    BY <1>0, <2>1, <2>4 DEF Due
  <2>6. QED
    BY <2>3, <2>5
<1>4. CASE LockAnnounce(t)
  <2>1. word' = word \/ word' = [word EXCEPT !.waiters = TRUE]
    BY <1>4 DEF LockAnnounce, ClearExclusive, StoreExclusive, WordInv, MonitorsFresh
  <2>2. /\ pc[t] = "decide" /\ pc' = [pc EXCEPT ![t] = "arbitrate"]
        /\ UNCHANGED <<seen, queue>>
    BY <1>4 DEF LockAnnounce, ClearExclusive, StoreExclusive, Goto
  <2>3. seen[t] \in Values /\ seen' = [seen EXCEPT ![t] = seen[t]]
    BY <1>0, <2>2
  <2>4. QED
    BY <2>1, <2>2, <2>3, QuietOwner
<1>5. CASE LockRetry(t)
  BY <1>0, <1>5, QuietOwner DEF LockRetry, StoreFails, Goto, Forget
<1>6. CASE ArbitrateLock(t) /\ word = [seen[t] EXCEPT !.waiters = TRUE]
  BY <1>6, SleepOwner
<1>7. CASE ArbitrateLock(t) /\ word # [seen[t] EXCEPT !.waiters = TRUE]
  BY <1>0, <1>7, QuietOwner DEF ArbitrateLock, Goto, Forget
<1>8. QED
  BY <1>1, <1>2, <1>3, <1>4, <1>5, <1>6, <1>7 DEF Lock

LEMMA TryLockOwner ==
  ASSUME WordInv, OwnerInv, Due, NEW t \in Threads, TryLock(t)
  PROVE  OwnerInv' /\ Due'
<1>0. word \in Values /\ Free \in Values
  BY WordFacts DEF WordInv, TypeOK
<1>1. CASE TryLoad(t)
  BY <1>0, <1>1, QuietOwner DEF TryLoad, LoadExclusive, Goto
<1>2. CASE TryRefused(t)
  BY <1>0, <1>2, QuietOwner DEF TryRefused, ClearExclusive, Goto, Forget
<1>3. CASE TryFree(t)
  <2>1. word = Free
    BY <1>3 DEF TryFree, StoreExclusive, WordInv, MonitorsFresh
  <2>2. QED
    BY <1>3, <2>1, TakeInv DEF TryFree, StoreExclusive, Goto, Forget
<1>4. CASE TryRetry(t)
  BY <1>0, <1>4, QuietOwner DEF TryRetry, StoreFails, Goto, Forget
<1>5. QED
  BY <1>1, <1>2, <1>3, <1>4 DEF TryLock

(* Who hands the mutex over had cleared the word, and nobody has taken it    *)
(* since: then the one who is woken finds himself the owner, and the others *)
(* sleep on him.                                                           *)
LEMMA HandOverOwner ==
  ASSUME WordInv, QueueInv, OwnerInv, Due, NEW t \in Threads,
         pc[t] = "wake", HandOver(t), UNCHANGED seen, word = Free
  PROVE  OwnerInv' /\ Due'
<1>1. pc \in [Threads -> Places] /\ queue \in Seq(Entries)
  BY DEF WordInv, TypeOK, Entries
<1>2. PICK i \in DOMAIN queue :
        /\ queue[i].thread \in Threads /\ queue[i].thread # t
        /\ pc[queue[i].thread] = "asleep"
        /\ word' = [owner |-> queue[i].thread,
                    waiters |-> \E j \in DOMAIN queue \ {i} : SleepsOn(j, t)]
        /\ queue' = Without(i, t)
        /\ pc' = [pc EXCEPT ![t] = "idle", ![queue[i].thread] = "lock"]
  BY HandOverFacts
<1> DEFINE next == queue[i].thread
<1>3. \A u \in Threads : word.owner # u
  BY FreeFacts, MutexAssumption
<1>4. \A u \in Threads : pc[u] # "locked"
  BY <1>3 DEF OwnerInv, HoldersOwn
<1>5. OwnerInv'
  BY <1>1, <1>2, <1>3, <1>4 DEF OwnerInv, HoldersOwn, WakersLeft, OwnsSeen
<1>6. \A k \in DOMAIN queue : queue[k].owner \in Threads /\ pc[queue[k].owner] = "wake"
  BY <1>1, EntryOfQueue, FreeFacts DEF Due, Names
<1>7. \A j \in DOMAIN queue' :
        \E k \in DOMAIN queue \ {i} :
          queue'[j].owner = IF queue[k].owner = t THEN next ELSE queue[k].owner
  <2>1. /\ DOMAIN Without(i, t) = 1 .. Len(queue) - 1
        /\ \A j \in DOMAIN Without(i, t) :
             \E k \in DOMAIN queue \ {i} :
               /\ k = (IF j < i THEN j ELSE j + 1)
               /\ Without(i, t)[j].thread = queue[k].thread
               /\ Without(i, t)[j].owner =
                    (IF queue[k].owner = t THEN queue[i].thread ELSE queue[k].owner)
        /\ \A k \in DOMAIN queue \ {i} :
             \E j \in DOMAIN Without(i, t) : Without(i, t)[j].thread = queue[k].thread
    BY <1>1, WithoutFacts
  <2>2. \A j \in DOMAIN Without(i, t) :
          \E k \in DOMAIN queue \ {i} :
            Without(i, t)[j].owner = IF queue[k].owner = t THEN next ELSE queue[k].owner
    BY <2>1
  <2>3. QED
    BY <1>2, <2>2
<1>8. Due'
  <2> SUFFICES ASSUME NEW j \in DOMAIN queue'
               PROVE  Names(word', queue'[j].owner) \/ pc'[queue'[j].owner] = "wake"
    BY DEF Due
  <2>1. PICK k \in DOMAIN queue \ {i} :
          queue'[j].owner = IF queue[k].owner = t THEN next ELSE queue[k].owner
    BY <1>7
  <2>2. CASE queue[k].owner = t
    <3>1. SleepsOn(k, t)
      BY <2>2 DEF SleepsOn
    <3>2. QED
      BY <1>2, <2>1, <2>2, <3>1 DEF Names
  <2>3. CASE queue[k].owner # t
    BY <1>1, <1>2, <1>6, <2>1, <2>3
  <2>4. QED
    BY <2>2, <2>3
<1>9. QED
  BY <1>5, <1>8

LEMMA UnlockOwner ==
  ASSUME WordInv, QueueInv, OwnerInv, Due, NEW t \in Threads, Unlock(t), ~overwritten'
  PROVE  OwnerInv' /\ Due'
<1>0. /\ pc \in [Threads -> Places] /\ seen \in [Threads -> Values] /\ word \in Values
      /\ Free \in Values
  BY WordFacts DEF WordInv, TypeOK
<1>1. CASE UnlockLoad(t)
  BY <1>0, <1>1, QuietOwner DEF UnlockLoad, LoadExclusive, Goto
<1>2. CASE UnlockOthers(t)
  BY <1>0, <1>2, QuietOwner DEF UnlockOthers, ClearExclusive, Goto, Forget
<1>3. CASE UnlockOwned(t)
  <2>1. word.owner = t /\ seen[t] = word
    BY <1>3 DEF UnlockOwned, StoreExclusive, WordInv, MonitorsFresh
  <2>2. /\ pc[t] = "unlockDecide"
        /\ pc' = [pc EXCEPT ![t] = IF word.waiters THEN "wake" ELSE "idle"]
        /\ seen' = [seen EXCEPT ![t] = Free] /\ word' = Free /\ UNCHANGED queue
    BY <1>3, <2>1 DEF UnlockOwned, StoreExclusive, Goto, Forget
  <2>3. \A u \in Threads : word'.owner # u
    BY <2>2, FreeFacts, MutexAssumption
  <2>4. \A u \in Threads : u # t => word.owner # u
    BY <2>1
  <2>5. OwnerInv'
    BY <1>0, <2>2, <2>3, <2>4 DEF OwnerInv, HoldersOwn, WakersLeft, OwnsSeen
  <2>6. \A i \in DOMAIN queue : queue[i].owner \in Threads
    BY EntryOfQueue DEF WordInv, TypeOK, Entries
  <2>7. ASSUME NEW i \in DOMAIN queue PROVE pc'[queue[i].owner] = "wake"
    BY <1>0, <2>1, <2>2, <2>6 DEF Due, Names
  <2>8. Due'
    BY <2>2, <2>7 DEF Due
  <2>9. QED
    BY <2>5, <2>8
<1>4. CASE UnlockRetry(t)
  BY <1>0, <1>4, QuietOwner DEF UnlockRetry, StoreFails, Goto, Forget
<1>5. CASE ArbitrateUnlock(t)
  <2>1. word = Free /\ pc[t] = "wake" /\ UNCHANGED seen
    BY <1>5 DEF ArbitrateUnlock
  <2>2. CASE HandOver(t)
    BY <2>1, <2>2, HandOverOwner
  <2>3. CASE ~HandOver(t)
    <3>1. /\ \A i \in DOMAIN queue : ~SleepsOn(i, t)
          /\ pc' = [pc EXCEPT ![t] = "idle"]
          /\ word' = word /\ UNCHANGED queue
      BY <1>5, <2>1, <2>3 DEF ArbitrateUnlock
    <3>2. OwnerInv'
      BY <1>0, <2>1, <3>1 DEF OwnerInv, HoldersOwn, WakersLeft, OwnsSeen
    <3>3. \A i \in DOMAIN queue : queue[i].owner \in Threads
      BY EntryOfQueue DEF WordInv, TypeOK, Entries
    <3>4. Due'
      BY <1>0, <3>1, <3>3 DEF Due, SleepsOn
    <3>5. QED
      BY <3>2, <3>4
  <2>4. QED
    BY <2>2, <2>3
<1>6. QED
  BY <1>1, <1>2, <1>3, <1>4, <1>5 DEF Unlock

LEMMA NextOwner ==
  ASSUME WordInv, QueueInv, OwnerInv, Due, [Next]_vars, ~overwritten'
  PROVE  OwnerInv' /\ Due'
<1>0. pc \in [Threads -> Places] /\ seen \in [Threads -> Values] /\ word \in Values
  BY WordFacts DEF WordInv, TypeOK
<1>1. CASE UNCHANGED <<word, seen, pc, queue>>
  BY <1>1 DEF OwnerInv, HoldersOwn, WakersLeft, OwnsSeen, Due, Names
<1>2. ASSUME NEW t \in Threads, Call(t) PROVE OwnerInv' /\ Due'
  <2>1. seen[t] \in Values /\ seen' = [seen EXCEPT ![t] = seen[t]]
    BY <1>0, <1>2 DEF Call
  <2>2. PICK to \in {"lock", "try", "unlock"} : pc' = [pc EXCEPT ![t] = to]
    BY <1>2 DEF Call, Goto
  <2>3. pc[t] # "wake" /\ UNCHANGED <<word, queue>>
    BY <1>2 DEF Call, Goto
  <2>4. QED
    BY <2>1, <2>2, <2>3, QuietOwner
<1>3. ASSUME NEW t \in Threads, Assign(t) PROVE OwnerInv' /\ Due'
  <2>1. seen[t] \in Values /\ seen' = [seen EXCEPT ![t] = seen[t]]
    BY <1>0, <1>3 DEF Assign
  <2>2. pc' = [pc EXCEPT ![t] = "unlock"] /\ pc[t] # "wake" /\ UNCHANGED <<word, queue>>
    BY <1>3 DEF Assign
  <2>3. QED
    BY <2>1, <2>2, QuietOwner
<1>4. ASSUME NEW t \in Threads, Interrupt(t) \/ AssignCopy(t) PROVE OwnerInv' /\ Due'
  BY <1>1, <1>4 DEF Interrupt, AssignCopy
<1>5. CASE UNCHANGED vars
  BY <1>1, <1>5 DEF vars
<1>6. QED
  BY <1>2, <1>3, <1>4, <1>5, LockOwner, TryLockOwner, UnlockOwner DEF Next, ScopedNext

-----------------------------------------------------------------------------
(* What has been overwritten stays so. *)
LEMMA NextRemembers ==
  ASSUME overwritten, overwritten \in BOOLEAN, [Next]_vars
  PROVE  overwritten'
<1>1. ASSUME NEW t \in Threads, Lock(t) \/ TryLock(t) PROVE overwritten'
  BY <1>1 DEF Lock, LockLoad, LockFree, LockOwned, LockAnnounce, LockRetry, ArbitrateLock,
              TryLock, TryLoad, TryRefused, TryFree, TryRetry, Goto
<1>2. ASSUME NEW t \in Threads, Unlock(t) PROVE overwritten'
  BY <1>2 DEF Unlock, UnlockLoad, UnlockOthers, UnlockOwned, UnlockRetry, ArbitrateUnlock,
              Goto
<1>3. ASSUME NEW t \in Threads, Call(t) \/ Interrupt(t) \/ Assign(t) \/ AssignCopy(t)
      PROVE  overwritten'
  BY <1>3 DEF Call, Interrupt, Assign, AssignCopy, Goto
<1>4. CASE UNCHANGED vars
  BY <1>4 DEF vars
<1>5. QED
  BY <1>1, <1>2, <1>3, <1>4 DEF Next, ScopedNext

LEMMA NextMutexInv ==
  ASSUME MutexInv, [Next]_vars
  PROVE  MutexInv'
<1>1. WordInv' /\ QueueInv'
  BY NextWordInv, NextQueueInv DEF MutexInv
<1>2. ASSUME ~overwritten' PROVE OwnerInv' /\ Due'
  <2>1. ~overwritten
    BY <1>2, NextRemembers DEF MutexInv, WordInv, TypeOK
  <2>2. QED
    BY <1>2, <2>1, NextOwner DEF MutexInv
<1>3. QED
  BY <1>1, <1>2 DEF MutexInv

LEMMA MutexInvAlways == Spec => []MutexInv
<1>1. MutexInv /\ [Next]_vars => MutexInv'
  BY NextMutexInv
<1>2. QED
  BY <1>1, InitMutexInv, PTL DEF Spec

(* The word of a mutex is zero or names an owner, to which alone the bit of  *)
(* the waiters is added, and the kernel's queue names threads, whatever     *)
(* lock, tryLock, unlock and move assignments do (hk/os/Mutex.h).          *)
THEOREM MutexTypeCorrect == Spec => []TypeOK
<1>1. MutexInv => TypeOK
  BY DEF MutexInv, WordInv
<1>2. QED
  BY <1>1, MutexInvAlways, PTL

(* No two threads ever hold the mutex, and the word names the one that does, *)
(* on any cores and in any interleaving, until svcArbitrateUnlock replaces  *)
(* a word taken after Mutex.h:100 cleared it or a Lock's move assignment    *)
(* replaces one: these two writes are all that can go wrong.               *)
THEOREM MutexExcludes == Spec => []ExclusiveUntilOverwritten
<1>1. MutexInv => ExclusiveUntilOverwritten
  BY DEF MutexInv, OwnerInv, HoldersOwn, ExclusiveUntilOverwritten, OneHolder, Holds
<1>2. QED
  BY <1>1, MutexInvAlways, PTL

(* No thread sleeps in svcArbitrateLock without the owner of the word        *)
(* knowing of it, or somebody being about to wake it, on any cores and in   *)
(* any interleaving, until one of these two writes.                        *)
THEOREM MutexLosesNoWaiter == Spec => []SleepersAreExpected
<1>1. MutexInv => SleepersAreExpected
  <2> SUFFICES ASSUME MutexInv, ~overwritten, NEW t \in Threads, pc[t] = "asleep"
               PROVE  \E i \in DOMAIN queue :
                        /\ queue[i].thread = t
                        /\ \/ word = [owner |-> queue[i].owner, waiters |-> TRUE]
                           \/ pc[queue[i].owner] = "wake"
    BY DEF SleepersAreExpected
  <2>1. PICK i \in DOMAIN queue : queue[i].thread = t
    BY DEF MutexInv, QueueInv, Listed
  <2>2. word \in Values
    BY WordFacts DEF MutexInv, WordInv, TypeOK
  <2>3. Names(word, queue[i].owner) => word = [owner |-> queue[i].owner, waiters |-> TRUE]
    BY <2>2 DEF Names, Values
  <2>4. QED
    BY <2>1, <2>3 DEF MutexInv, Due
<1>2. QED
  BY <1>1, MutexInvAlways, PTL
=============================================================================
