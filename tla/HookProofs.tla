----------------------------- MODULE HookProofs -----------------------------
(***************************************************************************)
(* Proofs about Hook, for any number of hooks, any sizes of the sections   *)
(* and any N.  The inductive invariant describes the words of memory as a  *)
(* stack of patches: at every offset the live hooks that cover it lie on   *)
(* one another in the order of their installation, each has saved what the *)
(* one directly below it left there, and memory holds what the top one     *)
(* left.  What orig runs is then found by going down such a stack, which   *)
(* ends because the live hooks are finitely many: every step down is to a  *)
(* hook with fewer older ones (Latest, OlderHasFewer).                     *)
(***************************************************************************)
EXTENDS Hook, FiniteSetTheorems, WellFoundedInduction, TLAPS

Order ==
  /\ \A h \in Hooks : older[h] \subseteq live \ {h}
  /\ \A g, h \in live : g # h => (g \in older[h] <=> h \notin older[g])

(* What hook g left at offset o when it was installed. *)
Left(g, o) ==
  IF o - site[g] < NumInstrs[g] THEN Patch(g, o - site[g]) ELSE saved[g][o - site[g]]

TopOf(S, g, o) ==
  /\ g \in S
  /\ Covers(g, o)
  /\ \A k \in S : Covers(k, o) => g \notin older[k]

Uncovered(S, o) == \A k \in S : ~Covers(k, o)

MemoryIsTop ==
  \A o \in Offsets :
    /\ Uncovered(live, o) => mem[o] = Pristine[o]
    /\ \A g \in live : TopOf(live, g, o) => mem[o] = Left(g, o)

SavedIsBelow ==
  \A h \in live : \A o \in Offsets : Covers(h, o) =>
    /\ Uncovered(older[h], o) => saved[h][o - site[h]] = Pristine[o]
    /\ \A g \in older[h] : TopOf(older[h], g, o) => saved[h][o - site[h]] = Left(g, o)

InsideModule == \A h \in live : site[h] + Window(h) <= Size

IInv == TypeOK /\ InstalledIffLive /\ Order /\ InsideModule /\ MemoryIsTop /\ SavedIsBelow

-----------------------------------------------------------------------------
LEMMA WindowBounds ==
  ASSUME NEW h \in Hooks
  PROVE  /\ Window(h) \in 1 .. N
         /\ NumInstrs[h] \in 1 .. Window(h)
BY HookAssumption DEF Window

LEMMA WordFacts ==
  /\ Zero \in Words
  /\ \A o \in Offsets : Code(o) \in Words /\ Code(o) # Zero
  /\ \A h \in Hooks : \A i \in 0 .. N - 1 : Patch(h, i) \in Words
  /\ \A h, i : Patch(h, i) # Zero
  /\ Pristine \in [Offsets -> Words]
<1>1. Zero \in Words
  BY DEF Words
<1>2. ASSUME NEW o \in Offsets PROVE Code(o) \in Words
  BY DEF Words
<1>3. ASSUME NEW h \in Hooks, NEW i \in 0 .. N - 1 PROVE Patch(h, i) \in Words
  BY DEF Words
<1>4. ASSUME NEW o PROVE Code(o) # Zero
  <2>1. Code(o).op = "code" /\ Zero.op = "zero"
    BY DEF Code, Zero
  <2> QED
    BY <2>1
<1>5. ASSUME NEW h, NEW i PROVE Patch(h, i) # Zero
  <2>1. Patch(h, i).op = "patch" /\ Zero.op = "zero"
    BY DEF Patch, Zero
  <2> QED
    BY <2>1
<1>6. Pristine \in [Offsets -> Words]
  BY <1>1, <1>2 DEF Pristine
<1> QED
  BY <1>1, <1>2, <1>3, <1>4, <1>5, <1>6

LEMMA WrittenType ==
  ASSUME TypeOK, NEW o \in Nat, NEW n \in 0 .. N, NEW words \in [0 .. N - 1 -> Words]
  PROVE  Written(o, n, words) \in [Offsets -> Words]
<1> SUFFICES ASSUME NEW a \in Offsets, o <= a, a < o + n
             PROVE  words[a - o] \in Words
  BY DEF Written, TypeOK
<1>1. a - o \in 0 .. N - 1
  BY HookAssumption DEF Offsets, Size
<1> QED
  BY <1>1

LEMMA SnapshotType ==
  ASSUME TypeOK, NEW h \in Hooks, NEW o \in Nat
  PROVE  Snapshot(h, o) \in [0 .. N - 1 -> Words]
BY WordFacts DEF Snapshot, At, TypeOK

LEMMA UnsavedType == Unsaved \in [0 .. N - 1 -> Words]
BY WordFacts DEF Unsaved

LEMMA PatchWordsType ==
  ASSUME NEW h \in Hooks
  PROVE  PatchWords(h) \in [0 .. N - 1 -> Words]
BY WordFacts DEF PatchWords

-----------------------------------------------------------------------------
LEMMA BackupType ==
  ASSUME TypeOK, NEW h \in Hooks, NEW o \in Nat
  PROVE  MakeBackup(h, o) \in Backups
<1> DEFINE w == [i \in 0 .. NumInstrs[h] - 1 |-> At(o + i)]
<1>1. w \in [0 .. NumInstrs[h] - 1 -> Words]
  BY WordFacts DEF At, TypeOK
<1>2. NumInstrs[h] \in 0 .. N
  BY HookAssumption
<1>3. w \in UNION {[0 .. n - 1 -> Words] : n \in 0 .. N}
  BY <1>1, <1>2
<1> QED
  BY <1>3 DEF MakeBackup, Backups

LEMMA HookInstallType ==
  ASSUME TypeOK, NEW h \in Hooks, NEW o \in Nat, HookInstall(h, o)
  PROVE  /\ mem' \in [Offsets -> Words]
         /\ site' \in [Hooks -> Nat]
         /\ saved' \in [Hooks -> [0 .. N - 1 -> Words]]
         /\ result' \in Results
         /\ halted' \in BOOLEAN
         /\ live' \subseteq Hooks
         /\ older' \in [Hooks -> SUBSET Hooks]
<1> USE DEF TypeOK, Results
<1>1. CASE AlreadyInstalled(h)
  BY <1>1 DEF AlreadyInstalled, Return, objects, history
<1>2. CASE InstallFaults(h, o)
  BY <1>2 DEF InstallFaults, Halt, objects, history
<1>3. CASE WriteRefused(h, o)
  BY <1>3, SnapshotType, UnsavedType DEF WriteRefused, Return, history
<1>4. CASE Installs(h, o)
  <2>1. NumInstrs[h] \in 0 .. N
    BY HookAssumption
  <2>2. mem' \in [Offsets -> Words]
    BY <1>4, <2>1, WrittenType, PatchWordsType DEF Installs
  <2>3. saved' \in [Hooks -> [0 .. N - 1 -> Words]]
    BY <1>4, SnapshotType DEF Installs
  <2> QED
    BY <1>4, <2>2, <2>3 DEF Installs, Return
<1> QED
  BY <1>1, <1>2, <1>3, <1>4 DEF HookInstall

LEMMA InstallType ==
  ASSUME TypeOK, NEW h \in Hooks, NEW p \in Nat, InstallAtPtr(h, p)
  PROVE  TypeOK'
<1>1. CASE ~Contains(p)
  BY <1>1 DEF InstallAtPtr, Return, TypeOK, Results, objects, history
<1>2. CASE Contains(p)
  <2> DEFINE o == p - Base
  <2>1. o \in Nat
    BY <1>2, HookAssumption DEF Contains
  <2>2. InstallAtOffset(h, o)
    BY <1>2 DEF InstallAtPtr
  <2> HIDE DEF o
  <2>3. CASE HookInstall(h, o) /\ UNCHANGED backup
    BY <2>1, <2>3, HookInstallType DEF TypeOK
  <2>4. CASE ~Relocatable(o, NumInstrs[h]) /\ Halt /\ UNCHANGED backup
    BY <2>4 DEF Halt, TypeOK, objects, history
  <2>5. CASE backup' = [backup EXCEPT ![h] = MakeBackup(h, o)] /\ HookInstall(h, o)
    BY <2>1, <2>5, HookInstallType, BackupType DEF TypeOK
  <2> QED
    BY <2>2, <2>3, <2>4, <2>5 DEF InstallAtOffset, TrampolineInstall
<1> QED
  BY <1>1, <1>2

LEMMA UninstallType ==
  ASSUME TypeOK, NEW h \in Hooks, Uninstall(h)
  PROVE  TypeOK'
<1> USE DEF TypeOK, Results
<1>1. CASE NotInstalled(h)
  BY <1>1 DEF NotInstalled, Return, Uninstall, objects, history
<1>2. CASE RestoreRefused(h)
  BY <1>2 DEF RestoreRefused, Return, Uninstall, objects, history
<1>3. CASE RestoreFaults(h)
  BY <1>3 DEF RestoreFaults, Halt, Uninstall, objects, history
<1>4. CASE Restores(h)
  <2>1. Window(h) \in 0 .. N
    BY WindowBounds, HookAssumption
  <2>2. mem' \in [Offsets -> Words]
    BY <1>4, <2>1, WrittenType DEF Restores
  <2>3. saved' \in [Hooks -> [0 .. N - 1 -> Words]]
    BY <1>4, UnsavedType DEF Restores
  <2> QED
    BY <1>4, <2>2, <2>3 DEF Restores, Return, Uninstall
<1> QED
  BY <1>1, <1>2, <1>3, <1>4 DEF Uninstall

LEMMA InitType == Init => TypeOK
<1> SUFFICES ASSUME Init PROVE TypeOK
  OBVIOUS
<1>1. [i \in {} |-> Zero] \in UNION {[0 .. n - 1 -> Words] : n \in 0 .. N}
  <2>1. 0 .. 0 - 1 = {} /\ 0 \in 0 .. N
    BY HookAssumption
  <2>2. [i \in {} |-> Zero] \in [0 .. 0 - 1 -> Words]
    BY <2>1
  <2> QED
    BY <2>1, <2>2
<1>2. mem \in [Offsets -> Words]
  BY WordFacts DEF Init
<1>3. backup \in [Hooks -> Backups]
  BY <1>1 DEF Init, Backups
<1> QED
  BY <1>2, <1>3, UnsavedType DEF Init, TypeOK, Results

LEMMA NextType == TypeOK /\ [Next]_vars => TypeOK'
<1> SUFFICES ASSUME TypeOK, [Next]_vars PROVE TypeOK'
  OBVIOUS
<1>1. CASE UNCHANGED vars
  BY <1>1 DEF vars, TypeOK
<1>2. ASSUME NEW h \in Hooks, NEW p \in Pointers, InstallAtPtr(h, p) PROVE TypeOK'
  <2>1. p \in Nat
    BY DEF Pointers
  <2> QED
    BY <1>2, <2>1, InstallType
<1>3. ASSUME NEW h \in Hooks, Uninstall(h) PROVE TypeOK'
  BY <1>3, UninstallType
<1> QED
  BY <1>1, <1>2, <1>3 DEF Next

LEMMA DisciplinedIsNext == [DisciplinedNext]_vars => [Next]_vars
BY DEF DisciplinedNext, Next

(* Every variable keeps its type, whatever calls the mod makes. *)
THEOREM TypeCorrect == Spec => []TypeOK
<1> QED
  BY InitType, NextType, PTL DEF Spec

-----------------------------------------------------------------------------
(* An install puts h on top of everything at its window. *)
LEMMA InstallsKeepsInv ==
  ASSUME IInv, TypeOK', NEW h \in Hooks, NEW o \in Nat, Installs(h, o),
         mem[o] # Zero, Kind[h] = "asm" => o # 0
  PROVE  IInv'
<1>1. /\ h \notin live
      /\ live' = live \union {h}
      /\ older'[h] = live
      /\ site'[h] = o
      /\ saved'[h] = Snapshot(h, o)
  BY DEF IInv, InstalledIffLive, Installs, TypeOK
<1>2. ASSUME NEW g \in Hooks, g # h
      PROVE  older'[g] = older[g] /\ site'[g] = site[g] /\ saved'[g] = saved[g]
  BY <1>1, <1>2 DEF IInv, Order, Installs, TypeOK
<1>3. /\ Window(h) \in 1 .. N
      /\ NumInstrs[h] \in 1 .. Window(h)
      /\ o + Window(h) <= Size
  BY WindowBounds DEF Installs
<1>4. live \subseteq Hooks /\ live' \subseteq Hooks
  BY DEF IInv, TypeOK
<1>5. ASSUME NEW g \in live, NEW a \in Offsets
      PROVE  /\ Covers(g, a)' <=> Covers(g, a)
             /\ Left(g, a)' = Left(g, a)
  BY <1>1, <1>2, <1>4 DEF Covers, Left, Window
<1>6. ASSUME NEW a \in Offsets
      PROVE  Covers(h, a)' <=> o <= a /\ a < o + Window(h)
  BY <1>1 DEF Covers, Window
<1>7. ASSUME NEW a \in Offsets, Covers(h, a)'
      PROVE  saved'[h][a - o] = mem[a]
  <2>1. a - o \in 0 .. N - 1 /\ a - o < Window(h) /\ o + (a - o) = a
    BY <1>3, <1>6, <1>7, HookAssumption DEF Offsets, Size
  <2> QED
    BY <1>1, <2>1 DEF Snapshot, At
<1>8. ASSUME NEW a \in Offsets
      PROVE  mem'[a] = IF o <= a /\ a < o + NumInstrs[h] THEN Patch(h, a - o) ELSE mem[a]
  <2>1. mem'[a] = IF o <= a /\ a < o + NumInstrs[h] THEN PatchWords(h)[a - o] ELSE mem[a]
    BY DEF Installs, Written
  <2>2. ASSUME o <= a, a < o + NumInstrs[h] PROVE a - o \in 0 .. N - 1
    BY <1>3, <2>2, HookAssumption DEF Offsets, Size
  <2> QED
    BY <2>1, <2>2 DEF PatchWords
<1>9. InstalledIffLive'
  <2>1. ASSUME NEW g \in Hooks, g # h PROVE (IsInstalled(g) <=> g \in live)'
    BY <1>1, <1>2, <2>1 DEF IInv, InstalledIffLive, IsInstalled
  <2>2. IsInstalled(h)'
    <3>1. CASE Kind[h] = "asm"
      BY <1>1, <3>1 DEF IsInstalled
    <3>2. CASE Kind[h] # "asm"
      <4>1. o \in Offsets
        BY <1>3, HookAssumption DEF Offsets, Size
      <4>2. saved'[h][0] = mem[o]
        BY <1>1, <1>3, <4>1, HookAssumption DEF Snapshot, At
      <4> QED
        BY <3>2, <4>2 DEF IsInstalled
    <3> QED
      BY <3>1, <3>2
  <2> QED
    BY <1>1, <2>1, <2>2 DEF InstalledIffLive
<1>10. Order'
  <2>1. ASSUME NEW g \in Hooks PROVE older'[g] \subseteq live' \ {g}
    BY <1>1, <1>2, <2>1 DEF IInv, Order
  <2>2. ASSUME NEW g \in live', NEW k \in live', g # k
        PROVE  g \in older'[k] <=> k \notin older'[g]
    <3>1. CASE g # h /\ k # h
      BY <1>1, <1>2, <1>4, <2>2, <3>1 DEF IInv, Order
    <3>2. CASE g = h \/ k = h
      BY <1>1, <1>2, <1>4, <2>2, <3>2 DEF IInv, Order
    <3> QED
      BY <3>1, <3>2
  <2> QED
    BY <2>1, <2>2 DEF Order
<1>11. InsideModule'
  BY <1>1, <1>2, <1>3, <1>4 DEF IInv, InsideModule, Window
<1>12. MemoryIsTop'
  <2> SUFFICES ASSUME NEW a \in Offsets
               PROVE  /\ Uncovered(live, a)' => mem'[a] = Pristine[a]
                      /\ \A g \in live' : TopOf(live, g, a)' => mem'[a] = Left(g, a)'
    BY DEF MemoryIsTop, Offsets, Size, Uncovered, TopOf, Covers, Left, Pristine, Window
  <2>1. CASE Covers(h, a)'
    <3>1. ASSUME NEW g \in live', TopOf(live, g, a)' PROVE g = h
      <4> SUFFICES ASSUME g # h PROVE FALSE
        OBVIOUS
      <4>1. g \in older'[h]
        BY <1>1
      <4> QED
        BY <1>1, <2>1, <3>1, <4>1 DEF TopOf
    <3>2. mem'[a] = Left(h, a)'
      <4>1. o <= a
        BY <1>6, <2>1
      <4>2. o <= a /\ a < o + NumInstrs[h] <=> a - o < NumInstrs[h]
        BY <1>3, <4>1, HookAssumption DEF Offsets, Size
      <4> QED
        BY <1>1, <1>7, <1>8, <2>1, <4>2 DEF Left
    <3> QED
      BY <1>1, <2>1, <3>1, <3>2 DEF Uncovered
  <2>2. CASE ~Covers(h, a)'
    <3>1. mem'[a] = mem[a]
      BY <1>3, <1>6, <1>8, <2>2, HookAssumption DEF Offsets, Size
    <3>2. Uncovered(live, a)' => Uncovered(live, a)
      BY <1>1, <1>5 DEF Uncovered
    <3>3. ASSUME NEW g \in live', TopOf(live, g, a)'
          PROVE  g \in live /\ TopOf(live, g, a)
      BY <1>1, <1>2, <1>4, <1>5, <2>2, <3>3 DEF TopOf
    <3> QED
      BY <1>5, <3>1, <3>2, <3>3 DEF IInv, MemoryIsTop
  <2> QED
    BY <2>1, <2>2
<1>13. SavedIsBelow'
  <2> SUFFICES ASSUME NEW k \in live', NEW a \in Offsets, Covers(k, a)'
               PROVE  /\ Uncovered(older[k], a)' => saved'[k][a - site'[k]] = Pristine[a]
                      /\ \A g \in older'[k] :
                           TopOf(older[k], g, a)' => saved'[k][a - site'[k]] = Left(g, a)'
    BY DEF SavedIsBelow, Offsets, Size, Uncovered, TopOf, Covers, Left, Pristine, Window
  <2>1. CASE k = h
    <3>1. saved'[k][a - site'[k]] = mem[a]
      BY <1>1, <1>7, <2>1
    <3>3. Uncovered(older[k], a)' => Uncovered(live, a)
      BY <1>1, <1>5, <2>1 DEF Uncovered
    <3>4. ASSUME NEW g \in older'[k], TopOf(older[k], g, a)'
          PROVE  g \in live /\ TopOf(live, g, a)
      BY <1>1, <1>2, <1>4, <1>5, <2>1, <3>4 DEF TopOf
    <3> QED
      BY <1>1, <1>5, <2>1, <3>1, <3>3, <3>4 DEF IInv, MemoryIsTop
  <2>2. CASE k # h
    <3>1. k \in live /\ older'[k] = older[k] /\ older[k] \subseteq live \ {k}
      BY <1>1, <1>2, <1>4, <2>2 DEF IInv, Order
    <3>2. Covers(k, a) /\ saved'[k][a - site'[k]] = saved[k][a - site[k]]
      BY <1>2, <1>4, <1>5, <2>2, <3>1
    <3>3. Uncovered(older[k], a)' => Uncovered(older[k], a)
      BY <1>5, <3>1 DEF Uncovered
    <3>4. ASSUME NEW g \in older'[k], TopOf(older[k], g, a)'
          PROVE  g \in older[k] /\ TopOf(older[k], g, a)
      BY <1>1, <1>2, <1>4, <1>5, <3>1, <3>4 DEF TopOf
    <3> QED
      BY <1>5, <3>1, <3>2, <3>3, <3>4 DEF IInv, SavedIsBelow
  <2> QED
    BY <2>1, <2>2
<1> QED
  BY <1>9, <1>10, <1>11, <1>12, <1>13 DEF IInv

-----------------------------------------------------------------------------
(* Uninstalling takes the patch of an outermost h out of the stack: what it *)
(* uncovers is what it had saved.                                          *)
LEMMA RestoresKeepsInv ==
  ASSUME IInv, TypeOK', NEW h \in Hooks, Restores(h), Outermost(h)
  PROVE  IInv'
<1> DEFINE s == site[h]
<1>1. /\ h \in live
      /\ live' = live \ {h}
      /\ s \in Nat
  BY DEF IInv, InstalledIffLive, Restores, TypeOK
<1>2. ASSUME NEW g \in Hooks, g # h
      PROVE  /\ older'[g] = older[g] \ {h}
             /\ site'[g] = site[g]
             /\ saved'[g] = saved[g]
  BY <1>2 DEF Restores, IInv, TypeOK
<1>3. older'[h] = {} /\ site'[h] = 0
  BY DEF Restores, IInv, TypeOK
<1>4. live \subseteq Hooks /\ h \notin older[h]
  BY DEF IInv, TypeOK, Order
<1>5. ASSUME NEW g \in live', NEW a \in Offsets
      PROVE  /\ Covers(g, a)' <=> Covers(g, a)
             /\ Left(g, a)' = Left(g, a)
  BY <1>1, <1>2, <1>4 DEF Covers, Left, Window
<1>6. ASSUME NEW a \in Offsets
      PROVE  mem'[a] = IF Covers(h, a) THEN saved[h][a - s] ELSE mem[a]
  BY DEF Restores, Written, Covers
<1>7. ASSUME NEW g \in live, h \in older[g], NEW a \in Offsets
      PROVE  ~(Covers(h, a) /\ Covers(g, a))
  BY <1>7 DEF Outermost
<1>8. InstalledIffLive'
  <2>1. ASSUME NEW g \in Hooks, g # h PROVE (IsInstalled(g) <=> g \in live)'
    BY <1>1, <1>2, <2>1 DEF IInv, InstalledIffLive, IsInstalled
  <2>2. ~IsInstalled(h)'
    <3>1. CASE Kind[h] = "asm"
      BY <1>3, <3>1 DEF IsInstalled
    <3>2. CASE Kind[h] # "asm"
      <4>1. saved'[h] = Unsaved
        BY <3>2 DEF Restores, IInv, TypeOK
      <4> QED
        BY <3>2, <4>1, HookAssumption DEF IsInstalled, Unsaved
    <3> QED
      BY <3>1, <3>2
  <2> QED
    BY <1>1, <2>1, <2>2 DEF InstalledIffLive
<1>9. Order'
  <2>1. ASSUME NEW g \in Hooks PROVE older'[g] \subseteq live' \ {g}
    BY <1>1, <1>2, <1>3, <2>1 DEF IInv, Order
  <2>2. ASSUME NEW g \in live', NEW k \in live', g # k
        PROVE  g \in older'[k] <=> k \notin older'[g]
    BY <1>1, <1>2, <1>4, <2>2 DEF IInv, Order
  <2> QED
    BY <2>1, <2>2 DEF Order
<1>10. InsideModule'
  BY <1>1, <1>2, <1>4 DEF IInv, InsideModule, Window
<1>11. MemoryIsTop'
  <2> SUFFICES ASSUME NEW a \in Offsets
               PROVE  /\ Uncovered(live, a)' => mem'[a] = Pristine[a]
                      /\ \A g \in live' : TopOf(live, g, a)' => mem'[a] = Left(g, a)'
    BY DEF MemoryIsTop, Offsets, Size, Uncovered, TopOf, Covers, Left, Pristine, Window
  <2>1. CASE Covers(h, a)
    <3>1. mem'[a] = saved[h][a - s]
      BY <1>6, <2>1
    <3>2. ASSUME NEW g \in live', Covers(g, a) PROVE g \in older[h]
      BY <1>1, <1>4, <1>7, <2>1, <3>2 DEF IInv, Order
    <3>3. Uncovered(live, a)' => Uncovered(older[h], a)
      <4>1. older[h] \subseteq live'
        BY <1>1 DEF IInv, Order
      <4> QED
        BY <1>5, <4>1 DEF Uncovered
    <3>4. ASSUME NEW g \in live', TopOf(live, g, a)'
          PROVE  g \in older[h] /\ TopOf(older[h], g, a)
      <4>1. g \in older[h]
        BY <1>5, <3>2, <3>4 DEF TopOf
      <4>2. ASSUME NEW k \in older[h], Covers(k, a) PROVE g \notin older[k]
        <5>1. k \in live' /\ k \in Hooks /\ k # h /\ g # h
          BY <1>1, <1>4, <3>4 DEF IInv, Order
        <5>2. g \notin older'[k]
          BY <1>5, <3>4, <4>2, <5>1 DEF TopOf
        <5> QED
          BY <1>2, <5>1, <5>2
      <4> QED
        BY <1>5, <3>4, <4>1, <4>2 DEF TopOf
    <3> QED
      BY <1>1, <1>5, <2>1, <3>1, <3>3, <3>4 DEF IInv, SavedIsBelow
  <2>2. CASE ~Covers(h, a)
    <3>1. mem'[a] = mem[a]
      BY <1>6, <2>2
    <3>2. Uncovered(live, a)' => Uncovered(live, a)
      BY <1>1, <1>5, <2>2 DEF Uncovered
    <3>3. ASSUME NEW g \in live', TopOf(live, g, a)'
          PROVE  g \in live /\ TopOf(live, g, a)
      <4>1. g \in live /\ g # h /\ Covers(g, a)
        BY <1>1, <1>5, <3>3 DEF TopOf
      <4>2. ASSUME NEW k \in live, Covers(k, a) PROVE g \notin older[k]
        <5>1. k \in live' /\ k \in Hooks /\ k # h
          BY <1>1, <1>4, <2>2, <4>2
        <5>2. g \notin older'[k]
          BY <1>5, <3>3, <4>2, <5>1 DEF TopOf
        <5> QED
          BY <1>2, <4>1, <5>1, <5>2
      <4> QED
        BY <4>1, <4>2 DEF TopOf
    <3> QED
      BY <1>5, <3>1, <3>2, <3>3 DEF IInv, MemoryIsTop
  <2> QED
    BY <2>1, <2>2
<1>12. SavedIsBelow'
  <2> SUFFICES ASSUME NEW k \in live', NEW a \in Offsets, Covers(k, a)'
               PROVE  /\ Uncovered(older[k], a)' => saved'[k][a - site'[k]] = Pristine[a]
                      /\ \A g \in older'[k] :
                           TopOf(older[k], g, a)' => saved'[k][a - site'[k]] = Left(g, a)'
    BY DEF SavedIsBelow, Offsets, Size, Uncovered, TopOf, Covers, Left, Pristine, Window
  <2>1. /\ k \in live /\ k \in Hooks /\ k # h
        /\ older'[k] = older[k] \ {h}
        /\ older[k] \subseteq live
        /\ Covers(k, a)
        /\ saved'[k][a - site'[k]] = saved[k][a - site[k]]
    BY <1>1, <1>2, <1>4, <1>5 DEF IInv, Order
  <2>2. h \in older[k] => ~Covers(h, a)
    BY <1>7, <2>1
  <2>3. Uncovered(older[k], a)' => Uncovered(older[k], a)
    BY <1>1, <1>5, <2>1, <2>2 DEF Uncovered
  <2>4. ASSUME NEW g \in older'[k], TopOf(older[k], g, a)'
        PROVE  g \in older[k] /\ g \in live' /\ TopOf(older[k], g, a)
    <3>1. g \in older[k] /\ g # h /\ g \in live'
      BY <1>1, <2>1
    <3>2. Covers(g, a)
      BY <1>5, <2>4, <3>1 DEF TopOf
    <3>3. ASSUME NEW m \in older[k], Covers(m, a) PROVE g \notin older[m]
      <4>1. m # h /\ m \in live' /\ m \in Hooks /\ m \in older'[k]
        BY <1>1, <1>4, <2>1, <2>2, <3>3
      <4>2. g \notin older'[m]
        BY <1>5, <2>4, <3>3, <4>1 DEF TopOf
      <4> QED
        BY <1>2, <3>1, <4>1, <4>2
    <3> QED
      BY <3>1, <3>2, <3>3 DEF TopOf
  <2>5. /\ Uncovered(older[k], a) => saved[k][a - site[k]] = Pristine[a]
        /\ \A g \in older[k] :
             TopOf(older[k], g, a) => saved[k][a - site[k]] = Left(g, a)
    BY <2>1 DEF IInv, SavedIsBelow
  <2>6. ASSUME NEW g \in older'[k], TopOf(older[k], g, a)'
        PROVE  saved'[k][a - site'[k]] = Left(g, a)'
    <3>1. g \in older[k] /\ g \in live' /\ TopOf(older[k], g, a)
      BY <2>4, <2>6
    <3>2. saved[k][a - site[k]] = Left(g, a)
      BY <2>5, <3>1
    <3> QED
      BY <1>5, <2>1, <3>1, <3>2
  <2> QED
    BY <2>1, <2>3, <2>5, <2>6
<1> QED
  BY <1>8, <1>9, <1>10, <1>11, <1>12 DEF IInv

-----------------------------------------------------------------------------
(* Everything else leaves the code, the installed hooks and the history     *)
(* alone; a refused write may at most change what an AsmBlock has saved.    *)
LEMMA OthersKeepInv ==
  ASSUME IInv, TypeOK',
         UNCHANGED <<mem, history>>,
         \A g \in Hooks : IsInstalled(g)' <=> IsInstalled(g),
         \A g \in Hooks : IsInstalled(g) => site'[g] = site[g] /\ saved'[g] = saved[g]
  PROVE  IInv'
<1>1. live' = live /\ older' = older /\ mem' = mem
  BY DEF history
<1>2. live \subseteq Hooks
  BY DEF IInv, TypeOK
<1>3. ASSUME NEW g \in live
      PROVE  site'[g] = site[g] /\ saved'[g] = saved[g]
  BY <1>2 DEF IInv, InstalledIffLive
<1>4. ASSUME NEW g \in live, NEW a \in Offsets
      PROVE  /\ Covers(g, a)' <=> Covers(g, a)
             /\ Left(g, a)' = Left(g, a)
  BY <1>3 DEF Covers, Left, Window
<1>5. ASSUME NEW k \in live, NEW a \in Offsets, NEW g \in older[k]
      PROVE  /\ g \in live
             /\ TopOf(older[k], g, a)' => TopOf(older[k], g, a)
  <2>1. older[k] \subseteq live
    BY <1>2 DEF IInv, Order
  <2> QED
    BY <1>1, <1>4, <2>1 DEF TopOf
<1>6. InstalledIffLive'
  BY <1>1 DEF IInv, InstalledIffLive
<1>7. Order'
  BY <1>1 DEF IInv, Order
<1>8. InsideModule'
  BY <1>1, <1>3 DEF IInv, InsideModule, Window
<1>9. MemoryIsTop'
  <2> SUFFICES ASSUME NEW a \in Offsets
               PROVE  /\ Uncovered(live, a)' => mem'[a] = Pristine[a]
                      /\ \A g \in live' : TopOf(live, g, a)' => mem'[a] = Left(g, a)'
    BY DEF MemoryIsTop, Offsets, Size, Uncovered, TopOf, Covers, Left, Pristine, Window
  <2>1. Uncovered(live, a)' => Uncovered(live, a)
    BY <1>1, <1>4 DEF Uncovered
  <2>2. ASSUME NEW g \in live, TopOf(live, g, a)' PROVE TopOf(live, g, a)
    BY <1>1, <1>4, <2>2 DEF TopOf
  <2> QED
    BY <1>1, <1>4, <2>1, <2>2 DEF IInv, MemoryIsTop
<1>10. SavedIsBelow'
  <2> SUFFICES ASSUME NEW k \in live', NEW a \in Offsets, Covers(k, a)'
               PROVE  /\ Uncovered(older[k], a)' => saved'[k][a - site'[k]] = Pristine[a]
                      /\ \A g \in older'[k] :
                           TopOf(older[k], g, a)' => saved'[k][a - site'[k]] = Left(g, a)'
    BY DEF SavedIsBelow, Offsets, Size, Uncovered, TopOf, Covers, Left, Pristine, Window
  <2>1. k \in live /\ Covers(k, a)
    BY <1>1, <1>4
  <2>2. Uncovered(older[k], a)' => Uncovered(older[k], a)
    BY <1>1, <1>4, <1>5, <2>1 DEF Uncovered
  <2>3. /\ Uncovered(older[k], a) => saved[k][a - site[k]] = Pristine[a]
        /\ \A g \in older[k] :
             TopOf(older[k], g, a) => saved[k][a - site[k]] = Left(g, a)
    BY <2>1 DEF IInv, SavedIsBelow
  <2>4. ASSUME NEW g \in older'[k], TopOf(older[k], g, a)'
        PROVE  saved'[k][a - site'[k]] = Left(g, a)'
    BY <1>1, <1>3, <1>4, <1>5, <2>1, <2>3, <2>4
  <2> QED
    BY <1>3, <2>1, <2>2, <2>3, <2>4
<1> QED
  BY <1>6, <1>7, <1>8, <1>9, <1>10 DEF IInv

LEMMA HookInstallKeepsInv ==
  ASSUME IInv, TypeOK', NEW h \in Hooks, NEW o \in Nat, HookInstall(h, o),
         o \in Offsets => mem[o] # Zero, Kind[h] = "asm" => o # 0
  PROVE  IInv'
<1>1. CASE AlreadyInstalled(h) \/ InstallFaults(h, o)
  BY <1>1, OthersKeepInv
     DEF AlreadyInstalled, InstallFaults, Halt, objects, history, IsInstalled
<1>2. CASE WriteRefused(h, o)
  <2>1. ~IsInstalled(h)'
    <3>1. CASE Kind[h] = "asm"
      BY <1>2, <3>1 DEF WriteRefused, IsInstalled, IInv, TypeOK
    <3>2. CASE Kind[h] # "asm"
      BY <1>2, <3>2, HookAssumption DEF WriteRefused, IsInstalled, Unsaved, IInv, TypeOK
    <3> QED
      BY <3>1, <3>2
  <2>2. ASSUME NEW g \in Hooks, g # h
        PROVE  /\ site'[g] = site[g] /\ saved'[g] = saved[g]
               /\ IsInstalled(g)' <=> IsInstalled(g)
    BY <1>2, <2>2 DEF WriteRefused, IsInstalled, IInv, TypeOK
  <2>3. ~IsInstalled(h) /\ UNCHANGED <<mem, history>>
    BY <1>2 DEF WriteRefused
  <2> QED
    BY <2>1, <2>2, <2>3, OthersKeepInv
<1>3. CASE Installs(h, o)
  <2>1. o \in Offsets
    BY <1>3, WindowBounds, HookAssumption DEF Installs, Offsets, Size
  <2> QED
    BY <1>3, <2>1, InstallsKeepsInv
<1> QED
  BY <1>1, <1>2, <1>3 DEF HookInstall

LEMMA InstallKeepsInv ==
  ASSUME IInv, TypeOK', NEW h \in Hooks, NEW p \in Nat, InstallAtPtr(h, p), GoodSite(h, p)
  PROVE  IInv'
<1>1. CASE ~Contains(p)
  BY <1>1, OthersKeepInv DEF InstallAtPtr, objects, history, IsInstalled
<1>2. CASE Contains(p)
  <2> DEFINE o == p - Base
  <2>1. o \in Nat /\ (o = 0 => p = Base)
    BY <1>2, HookAssumption DEF Contains
  <2>2. InstallAtOffset(h, o)
    BY <1>2 DEF InstallAtPtr
  <2>3. /\ o \in Offsets => mem[o] # Zero
        /\ Kind[h] = "asm" => o # 0
    BY <2>1 DEF GoodSite
  <2> HIDE DEF o
  <2>4. CASE HookInstall(h, o)
    BY <2>1, <2>3, <2>4, HookInstallKeepsInv
  <2>5. CASE Halt
    BY <2>5, OthersKeepInv DEF Halt, objects, history, IsInstalled
  <2> QED
    BY <2>2, <2>4, <2>5 DEF InstallAtOffset, TrampolineInstall
<1> QED
  BY <1>1, <1>2

LEMMA UninstallKeepsInv ==
  ASSUME IInv, TypeOK', NEW h \in Hooks, Uninstall(h), Outermost(h)
  PROVE  IInv'
<1>1. CASE NotInstalled(h) \/ RestoreRefused(h) \/ RestoreFaults(h)
  BY <1>1, OthersKeepInv
     DEF NotInstalled, RestoreRefused, RestoreFaults, Halt, objects, history, IsInstalled
<1>2. CASE Restores(h)
  BY <1>2, RestoresKeepsInv
<1> QED
  BY <1>1, <1>2 DEF Uninstall

LEMMA Initially == Init => IInv
<1> SUFFICES ASSUME Init PROVE IInv
  OBVIOUS
<1>1. InstalledIffLive
  <2>1. Unsaved[0] = Zero
    BY HookAssumption DEF Unsaved
  <2> QED
    BY <2>1 DEF Init, InstalledIffLive, IsInstalled
<1>2. Order /\ InsideModule /\ SavedIsBelow
  BY DEF Init, Order, InsideModule, SavedIsBelow
<1>3. MemoryIsTop
  BY DEF Init, MemoryIsTop
<1> QED
  BY <1>1, <1>2, <1>3, InitType DEF IInv

LEMMA DisciplinedStep == IInv /\ [DisciplinedNext]_vars => IInv'
<1> SUFFICES ASSUME IInv, [DisciplinedNext]_vars PROVE IInv'
  OBVIOUS
<1>1. TypeOK'
  BY NextType, DisciplinedIsNext DEF IInv
<1>2. CASE UNCHANGED vars
  BY <1>1, <1>2, OthersKeepInv DEF vars, history, IsInstalled
<1>3. ASSUME NEW h \in Hooks, NEW p \in Pointers, GoodSite(h, p), InstallAtPtr(h, p)
      PROVE  IInv'
  BY <1>1, <1>3, InstallKeepsInv DEF Pointers
<1>4. ASSUME NEW h \in Hooks, Outermost(h), Uninstall(h) PROVE IInv'
  BY <1>1, <1>4, UninstallKeepsInv
<1> QED
  BY <1>2, <1>3, <1>4 DEF DisciplinedNext

LEMMA InvHolds == DisciplinedSpec => []IInv
<1> QED
  BY Initially, DisciplinedStep, PTL DEF DisciplinedSpec

-----------------------------------------------------------------------------
(* The install state a hook reports is the one its history gives: neither a *)
(* refused write nor a failed uninstall confuses it.                       *)
THEOREM InstallStateIsTrue == DisciplinedSpec => []InstalledIffLive
<1>1. IInv => InstalledIffLive
  BY DEF IInv
<1> QED
  BY <1>1, InvHolds, PTL

(* Uninstalling undoes installing, whatever was installed over, under or    *)
(* next to the hook meanwhile, for any number of hooks and any N.          *)
THEOREM CodeIsRestored == DisciplinedSpec => []RestoreExact
<1>1. IInv => RestoreExact
  BY DEF IInv, MemoryIsTop, RestoreExact, Uncovered
<1> QED
  BY <1>1, InvHolds, PTL

(* A live hook that no later hook overlaps has its whole branch in memory.  *)
THEOREM HooksTakeEffect == DisciplinedSpec => []InEffect
<1>1. ASSUME IInv, NEW h \in live, Outermost(h), NEW i \in 0 .. NumInstrs[h] - 1
      PROVE  mem[site[h] + i] = Patch(h, i)
  <2> DEFINE a == site[h] + i
  <2>1. h \in Hooks /\ site[h] \in Nat /\ i \in Nat
    BY <1>1, HookAssumption DEF IInv, TypeOK
  <2>2. a \in Offsets /\ Covers(h, a) /\ a - site[h] = i /\ i < NumInstrs[h]
    BY <1>1, <2>1, WindowBounds, HookAssumption DEF IInv, InsideModule, Covers, Offsets, Size
  <2>3. TopOf(live, h, a)
    BY <1>1, <2>2 DEF TopOf, Outermost
  <2> QED
    BY <1>1, <2>2, <2>3 DEF IInv, MemoryIsTop, Left
<1>2. IInv => InEffect
  BY <1>1 DEF InEffect
<1> QED
  BY <1>2, InvHolds, PTL

-----------------------------------------------------------------------------
(* "Installed before" is transitive, and the live hooks are finitely many.  *)
Chained ==
  /\ IsFiniteSet(live)
  /\ \A g, h, k \in live : k \in older[g] /\ g \in older[h] => k \in older[h]

(* The backup of an installed trampoline has the words that it saved. *)
BackupIsSaved ==
  \A h \in live : Kind[h] = "trampoline" =>
    /\ backup[h].at = site[h]
    /\ \A i \in 0 .. NumInstrs[h] - 1 : backup[h].words[i] = saved[h][i]

OrigInv == IInv /\ Chained /\ BackupIsSaved

LEMMA LeastNat ==
  ASSUME NEW T, T \subseteq Nat, T # {}
  PROVE  \E x \in T : \A y \in T : x <= y
<1> DEFINE R == OpToRel(<, Nat)
<1>1. PICK x \in T : \A y \in T : ~(<<y, x>> \in R)
  <2> HIDE DEF R
  <2>1. IsWellFoundedOn(R, Nat)
    BY NatLessThanWellFounded DEF R
  <2> QED BY <2>1, WFMin, Zenon
<1>2. \A y \in T : ~(y < x)
  BY <1>1 DEF OpToRel
<1> HIDE DEF R
<1>3. \A y \in T : x <= y
  BY <1>1, <1>2
<1> QED BY <1>3, <1>1

(* A proper part of a finite set has fewer elements. *)
LEMMA FewerInPart ==
  ASSUME NEW S, IsFiniteSet(S), NEW T \in SUBSET S, NEW x \in S, x \notin T
  PROVE  Cardinality(T) \in Nat /\ Cardinality(S) \in Nat /\ Cardinality(T) < Cardinality(S)
<1>1. IsFiniteSet(T) /\ Cardinality(T) <= Cardinality(S) /\ (Cardinality(S) = Cardinality(T) => S = T)
  BY FS_Subset
<1>2. Cardinality(T) \in Nat /\ Cardinality(S) \in Nat
  BY <1>1, FS_CardinalityType
<1>3. S # T
  OBVIOUS
<1> QED BY <1>1, <1>2, <1>3

(* Among any live hooks there is one that was installed last. *)
LEMMA Latest ==
  ASSUME IInv, Chained, NEW S \in SUBSET live, S # {}
  PROVE  \E g \in S : \A k \in S \ {g} : k \in older[g]
<1> DEFINE Later(g) == {k \in S : k # g /\ g \in older[k]}
           T == {Cardinality(Later(g)) : g \in S}
<1>1. IsFiniteSet(S)
  BY FS_Subset DEF Chained
<1>2. ASSUME NEW g \in S PROVE Cardinality(Later(g)) \in Nat /\ IsFiniteSet(Later(g))
  <2>1. Later(g) \in SUBSET S
    OBVIOUS
  <2> HIDE DEF Later
  <2> QED BY <1>1, <2>1, FS_Subset, FS_CardinalityType
<1>3. PICK x \in T : \A y \in T : x <= y
  <2>1. T \subseteq Nat /\ T # {}
    BY <1>2
  <2> HIDE DEF T
  <2> QED BY <2>1, LeastNat
<1>4. PICK g \in S : x = Cardinality(Later(g))
  OBVIOUS
<1>5. ASSUME NEW k \in S \ {g}, k \notin older[g] PROVE FALSE
  <2>1. g \in older[k] /\ g \in live /\ k \in live /\ k # g
    BY <1>5 DEF IInv, Order
  <2>2. Later(k) \in SUBSET Later(g)
    <3> SUFFICES ASSUME NEW m \in S, m # k, k \in older[m] PROVE m # g /\ g \in older[m]
      OBVIOUS
    <3> QED BY <1>5, <2>1 DEF Chained
  <2>3. k \in Later(g) /\ k \notin Later(k)
    BY <2>1
  <2>4. Cardinality(Later(k)) \in T
    OBVIOUS
  <2>5. x <= Cardinality(Later(k)) /\ IsFiniteSet(Later(g))
    BY <1>2, <1>3, <2>4
  <2> HIDE DEF Later
  <2>6. Cardinality(Later(k)) < Cardinality(Later(g)) /\ Cardinality(Later(k)) \in Nat /\ Cardinality(Later(g)) \in Nat
    BY <2>2, <2>3, <2>5, FewerInPart
  <2> QED BY <1>4, <2>5, <2>6
<1> QED BY <1>5

LEMMA OlderHasFewer ==
  ASSUME IInv, Chained, NEW k \in live, NEW t \in older[k]
  PROVE  /\ t \in live /\ older[t] \in SUBSET older[k]
         /\ Cardinality(older[t]) \in Nat /\ Cardinality(older[k]) \in Nat
         /\ Cardinality(older[t]) < Cardinality(older[k])
<1>1. live \subseteq Hooks /\ older[k] \subseteq live \ {k}
  BY DEF IInv, TypeOK, Order
<1>2. t \in live /\ older[t] \subseteq live \ {t}
  BY <1>1 DEF IInv, Order
<1>3. older[t] \in SUBSET older[k]
  BY <1>1, <1>2 DEF Chained
<1>4. IsFiniteSet(older[k])
  BY <1>1, FS_Subset DEF Chained
<1> QED BY <1>2, <1>3, <1>4, FewerInPart

(* Where something covers an offset, one hook is on top. *)
LEMMA SomethingIsOnTop ==
  ASSUME IInv, Chained, NEW S \in SUBSET live, NEW o, NEW g \in S, Covers(g, o)
  PROVE  \E t \in S : TopOf(S, t, o)
<1> DEFINE C == {k \in S : Covers(k, o)}
<1>1. C \in SUBSET live /\ C # {}
  OBVIOUS
<1>2. PICK t \in C : \A k \in C \ {t} : k \in older[t]
  <2> HIDE DEF C
  <2> QED BY <1>1, Latest
<1>3. ASSUME NEW k \in S, Covers(k, o) PROVE t \notin older[k]
  <2>1. k \in live /\ t \in live /\ live \subseteq Hooks
    BY DEF IInv, TypeOK
  <2>2. CASE k = t
    BY <2>1, <2>2 DEF IInv, Order
  <2>3. CASE k # t
    BY <1>2, <1>3, <2>1, <2>3 DEF IInv, Order
  <2> QED BY <2>2, <2>3
<1> QED BY <1>3 DEF TopOf

-----------------------------------------------------------------------------
(* The branch of g at its site shows through what was installed over it: a  *)
(* hook elsewhere covers it only behind its own branch, with words it has   *)
(* saved, and so does a hook at the same site that is not as long.          *)
Shorter(S, g, i) == \A m \in S : site[m] = site[g] /\ g \in older[m] => NumInstrs[m] <= i

LEMMA TopShowsThrough ==
  ASSUME IInv, NEW S \in SUBSET live, NEW g \in S, NEW i \in 0 .. NumInstrs[g] - 1,
         Apart(site[g]), Shorter(S, g, i),
         NEW o, o = site[g] + i, NEW t \in S, TopOf(S, t, o), t # g
  PROVE  g \in older[t] /\ Covers(t, o) /\ Left(t, o) = saved[t][o - site[t]]
<1>1. g \in Hooks /\ t \in Hooks /\ t \in live /\ g \in live
  BY DEF IInv, TypeOK
<1>2. /\ site[g] \in Nat /\ site[t] \in Nat /\ NumInstrs[g] \in Nat /\ NumInstrs[t] \in Nat
      /\ i \in Nat /\ i < NumInstrs[g] /\ NumInstrs[g] <= Window(g) /\ Window(g) \in Nat
  BY <1>1, WindowBounds, HookAssumption DEF IInv, TypeOK
<1>3. Covers(g, o) /\ Covers(t, o)
  BY <1>2 DEF Covers, TopOf
<1>4. g \in older[t]
  BY <1>1, <1>3 DEF TopOf, IInv, Order
<1>5. o - site[t] >= NumInstrs[t]
  <2>1. CASE site[t] = site[g]
    BY <1>2, <1>4, <2>1 DEF Shorter
  <2>2. CASE site[t] # site[g]
    <3>1. \/ site[t] + NumInstrs[t] <= site[g]
          \/ site[g] + NumInstrs[g] <= site[t]
      BY <1>1, <2>2 DEF Apart
    <3>2. site[t] <= o
      BY <1>3 DEF Covers
    <3> QED BY <1>2, <3>1, <3>2
  <2> QED BY <2>1, <2>2
<1>6. ~(o - site[t] < NumInstrs[t])
  BY <1>2, <1>5
<1>7. Left(t, o) = saved[t][o - site[t]]
  BY <1>6 DEF Left
<1> QED BY <1>3, <1>4, <1>7

LEMMA SavedShowsThrough ==
  ASSUME IInv, Chained, NEW g \in live, NEW i \in 0 .. NumInstrs[g] - 1, Apart(site[g]),
         NEW o, o = site[g] + i,
         NEW h \in live, g \in older[h], Covers(h, o), Shorter(older[h], g, i)
  PROVE  saved[h][o - site[h]] = Patch(g, i)
<1> DEFINE Over(k) == g \in older[k] /\ Covers(k, o) /\ Shorter(older[k], g, i)
           Bad == {k \in live : Over(k) /\ saved[k][o - site[k]] # Patch(g, i)}
           T == {Cardinality(older[k]) : k \in Bad}
<1> SUFFICES ASSUME Bad # {} PROVE FALSE
  <2>1. Over(h)
    OBVIOUS
  <2> HIDE DEF Over
  <2> QED BY <2>1
<1>0. /\ site[g] \in Nat /\ i \in Nat /\ i < NumInstrs[g]
      /\ NumInstrs[g] \in Nat /\ Window(g) \in Nat /\ NumInstrs[g] <= Window(g)
  <2>1. g \in Hooks
    BY DEF IInv, TypeOK
  <2> QED BY <2>1, WindowBounds, HookAssumption, SMTT(30) DEF IInv, TypeOK
<1>1. ASSUME NEW k \in live, g \in older[k] PROVE Cardinality(older[k]) \in Nat
  BY <1>1, OlderHasFewer
<1>2. PICK x \in T : \A y \in T : x <= y
  <2>1. T \subseteq Nat /\ T # {}
    BY <1>1
  <2> HIDE DEF T
  <2> QED BY <2>1, LeastNat
<1>3. PICK k \in Bad : x = Cardinality(older[k])
  OBVIOUS
<1>4. k \in live /\ Over(k) /\ older[k] \in SUBSET live /\ o \in Offsets
  <2>1. k \in live /\ k \in Hooks /\ Over(k)
    BY DEF IInv, TypeOK
  <2>2. older[k] \in SUBSET live
    BY <2>1 DEF IInv, Order
  <2>3. o < site[k] + Window(k) /\ site[k] + Window(k) <= Size /\ site[k] \in Nat /\ Window(k) \in Nat
    BY <2>1, WindowBounds DEF Covers, IInv, InsideModule, TypeOK
  <2>4. o \in Nat
    BY <1>0
  <2>5. Size \in Nat
    BY HookAssumption DEF Size
  <2>6. o \in Offsets
    BY <2>3, <2>4, <2>5 DEF Offsets
  <2> QED BY <2>1, <2>2, <2>6
<1>5. Covers(g, o)
  BY <1>0 DEF Covers
<1>6. PICK t \in older[k] : TopOf(older[k], t, o)
  <2> QED BY <1>4, <1>5, SomethingIsOnTop
<1>7. saved[k][o - site[k]] = Left(t, o)
  <2> QED BY <1>4, <1>6 DEF IInv, SavedIsBelow
<1>8. CASE t = g
  <2>1. o - site[g] = i /\ i < NumInstrs[g]
    BY <1>0
  <2> QED BY <1>3, <1>7, <1>8, <2>1 DEF Left
<1>9. CASE t # g
  <2>1. g \in older[t] /\ Covers(t, o) /\ Left(t, o) = saved[t][o - site[t]]
    <3>1. g \in older[k] /\ Shorter(older[k], g, i) /\ older[k] \in SUBSET live
      BY <1>4
    <3>2. t \in older[k] /\ TopOf(older[k], t, o) /\ t # g
      BY <1>6, <1>9
    <3> QED BY <3>1, <3>2, TopShowsThrough
  <2>2. /\ t \in live /\ older[t] \in SUBSET older[k]
        /\ Cardinality(older[t]) \in Nat /\ Cardinality(older[k]) \in Nat
        /\ Cardinality(older[t]) < Cardinality(older[k])
    BY <1>4, OlderHasFewer
  <2>3. Over(t)
    BY <1>4, <2>1, <2>2 DEF Shorter
  <2>4. t \notin Bad
    <3>1. t \in Bad => Cardinality(older[t]) \in T
      OBVIOUS
    <3> HIDE DEF T, Bad
    <3> QED BY <1>2, <1>3, <2>2, <3>1
  <2>5. saved[t][o - site[t]] = Patch(g, i)
    BY <2>2, <2>3, <2>4
  <2> QED BY <1>3, <1>7, <2>1, <2>5
<1> QED BY <1>8, <1>9

LEMMA MemoryShowsThrough ==
  ASSUME IInv, Chained, NEW g \in live, NEW i \in 0 .. NumInstrs[g] - 1, Apart(site[g]),
         Shorter(live, g, i), NEW o, o = site[g] + i
  PROVE  o \in Offsets /\ mem[o] = Patch(g, i)
<1>1. /\ g \in Hooks /\ site[g] \in Nat /\ i \in Nat /\ i < NumInstrs[g]
      /\ NumInstrs[g] \in Nat /\ Window(g) \in Nat /\ NumInstrs[g] <= Window(g)
  BY WindowBounds, HookAssumption DEF IInv, TypeOK
<1>2. Covers(g, o) /\ o - site[g] = i
  BY <1>1 DEF Covers
<1>3. o \in Offsets
  <2>1. site[g] + Window(g) <= Size /\ Size \in Nat
    BY HookAssumption DEF IInv, InsideModule, Size
  <2> QED BY <1>1, <2>1 DEF Offsets
<1>4. PICK t \in live : TopOf(live, t, o)
  <2>1. live \in SUBSET live
    OBVIOUS
  <2> QED BY <1>2, <2>1, SomethingIsOnTop
<1>5. mem[o] = Left(t, o)
  BY <1>3, <1>4 DEF IInv, MemoryIsTop
<1>6. CASE t = g
  BY <1>1, <1>2, <1>3, <1>5, <1>6 DEF Left
<1>7. CASE t # g
  <2>1. g \in older[t] /\ Covers(t, o) /\ Left(t, o) = saved[t][o - site[t]]
    <3>1. live \in SUBSET live /\ TopOf(live, t, o) /\ t # g
      BY <1>4, <1>7
    <3> QED BY <3>1, TopShowsThrough
  <2>2. Shorter(older[t], g, i)
    <3>1. older[t] \subseteq live
      BY <1>4 DEF IInv, TypeOK, Order
    <3> QED BY <3>1 DEF Shorter
  <2>3. saved[t][o - site[t]] = Patch(g, i)
    BY <2>1, <2>2, SavedShowsThrough
  <2> QED BY <1>3, <1>5, <2>1, <2>3
<1> QED BY <1>6, <1>7

(* Where nothing is installed under h, its site shows what was linked.      *)
LEMMA SavedIsOriginal ==
  ASSUME IInv, Chained, NEW h \in live, NEW i \in 0 .. NumInstrs[h] - 1, Apart(site[h]),
         \A g \in older[h] : site[g] # site[h],
         NEW o, o = site[h] + i
  PROVE  saved[h][o - site[h]] = Pristine[o]
<1> DEFINE Bad == {k \in older[h] \union {h} : Covers(k, o) /\ saved[k][o - site[k]] # Pristine[o]}
           T == {Cardinality(older[k]) : k \in Bad}
<1>0. /\ h \in Hooks /\ site[h] \in Nat /\ i \in Nat /\ i < NumInstrs[h]
      /\ NumInstrs[h] \in Nat /\ Window(h) \in Nat /\ NumInstrs[h] <= Window(h)
  <2>1. h \in Hooks
    BY DEF IInv, TypeOK
  <2> QED BY <2>1, WindowBounds, HookAssumption DEF IInv, TypeOK
<1>1. Covers(h, o)
  BY <1>0 DEF Covers
<1>2. o \in Offsets
  <2>1. site[h] + Window(h) <= Size /\ Size \in Nat
    BY HookAssumption DEF IInv, InsideModule, Size
  <2> QED BY <1>0, <2>1 DEF Offsets
<1> SUFFICES ASSUME Bad # {} PROVE FALSE
  BY <1>1
<1>3. ASSUME NEW k \in older[h] \union {h}
      PROVE  k \in live /\ k \in Hooks /\ Cardinality(older[k]) \in Nat /\ older[k] \in SUBSET older[h]
  <2>1. older[h] \in SUBSET live /\ live \subseteq Hooks
    BY <1>0 DEF IInv, Order, TypeOK
  <2>2. IsFiniteSet(older[h])
    BY <2>1, FS_Subset DEF Chained
  <2>3. older[k] \in SUBSET older[h]
    BY OlderHasFewer
  <2> QED BY <2>1, <2>2, <2>3, FS_Subset, FS_CardinalityType
<1>4. PICK x \in T : \A y \in T : x <= y
  <2>1. T \subseteq Nat /\ T # {}
    BY <1>3
  <2> HIDE DEF T
  <2> QED BY <2>1, LeastNat
<1>5. PICK k \in Bad : x = Cardinality(older[k])
  OBVIOUS
<1>6. k \in live /\ k \in Hooks /\ older[k] \in SUBSET older[h] /\ Covers(k, o)
  BY <1>3
<1>7. CASE Uncovered(older[k], o)
  BY <1>2, <1>5, <1>6, <1>7 DEF IInv, SavedIsBelow
<1>8. CASE ~Uncovered(older[k], o)
  <2>1. PICK t \in older[k] : TopOf(older[k], t, o)
    <3>1. older[k] \in SUBSET live
      BY <1>3, <1>6
    <3> QED BY <1>8, <3>1, SomethingIsOnTop DEF Uncovered
  <2>2. t \in older[h] /\ t \in live /\ t \in Hooks /\ Covers(t, o)
    BY <1>3, <1>6, <2>1 DEF TopOf
  <2>3. saved[k][o - site[k]] = Left(t, o)
    BY <1>2, <1>6, <2>1 DEF IInv, SavedIsBelow
  <2>4. ~(o - site[t] < NumInstrs[t])
    <3>1. \/ site[t] + NumInstrs[t] <= site[h]
          \/ site[h] + NumInstrs[h] <= site[t]
      BY <2>2 DEF Apart
    <3>2. site[t] <= o /\ site[t] \in Nat /\ NumInstrs[t] \in Nat
      BY <2>2, HookAssumption DEF Covers, IInv, TypeOK
    <3> QED BY <1>0, <3>1, <3>2
  <2>5. Left(t, o) = saved[t][o - site[t]]
    BY <2>4 DEF Left
  <2>6. /\ Cardinality(older[t]) \in Nat /\ Cardinality(older[k]) \in Nat
        /\ Cardinality(older[t]) < Cardinality(older[k])
    BY <1>6, <2>1, OlderHasFewer
  <2>7. t \in Bad
    BY <1>5, <2>2, <2>3, <2>5
  <2>8. Cardinality(older[t]) \in T
    BY <2>7
  <2>9. x <= Cardinality(older[t])
    <3> HIDE DEF T
    <3> QED BY <1>4, <2>8
  <2> QED BY <1>5, <2>6, <2>9
<1> QED BY <1>7, <1>8

-----------------------------------------------------------------------------
LEMMA OrigFromInvariant == OrigInv => OrigRunsWhatWasThere
<1> SUFFICES ASSUME IInv, Chained, BackupIsSaved, NEW h \in live,
                    Kind[h] = "trampoline", Apart(site[h]), ReturnsBehind(h)
             PROVE  \/ \E g \in older[h] : DirectlyBelow(h, g) /\ StreamEnters(OrigStream(h), g)
                    \/ /\ \A g \in older[h] : site[g] # site[h]
                       /\ \A i \in 0 .. NumInstrs[h] - 1 : OrigStream(h)[i] = Pristine[site[h] + i]
  BY DEF OrigInv, OrigRunsWhatWasThere
<1>0. /\ h \in Hooks /\ site[h] \in Nat /\ NumInstrs[h] \in Nat \ {0} /\ NumInstrs[h] <= N
      /\ N \in Nat /\ Window(h) \in Nat /\ NumInstrs[h] <= Window(h)
  <2>1. h \in Hooks
    BY DEF IInv, TypeOK
  <2> QED BY <2>1, WindowBounds, HookAssumption DEF IInv, TypeOK
<1>1. older[h] \in SUBSET live /\ live \subseteq Hooks /\ h \notin older[h]
  BY <1>0 DEF IInv, Order, TypeOK
<1>2. ASSUME NEW i \in 0 .. NumInstrs[h] - 1 PROVE OrigStream(h)[i] = saved[h][i]
  <2>1. i \in 0 .. N - 1 /\ i < NumInstrs[h]
    BY <1>0
  <2> QED BY <2>1 DEF OrigStream, BackupIsSaved
<1>3. CASE \A g \in older[h] : site[g] # site[h]
  <2>1. ASSUME NEW i \in 0 .. NumInstrs[h] - 1 PROVE OrigStream(h)[i] = Pristine[site[h] + i]
    <3>1. saved[h][(site[h] + i) - site[h]] = Pristine[site[h] + i]
      BY <1>3, SavedIsOriginal
    <3>2. (site[h] + i) - site[h] = i
      BY <1>0
    <3> QED BY <1>2, <3>1, <3>2
  <2> QED BY <1>3, <2>1
<1>4. CASE \E g \in older[h] : site[g] = site[h]
  <2> DEFINE below == {k \in older[h] : site[k] = site[h]}
  <2>1. PICK g \in below : \A k \in below \ {g} : k \in older[g]
    <3>1. below \in SUBSET live /\ below # {}
      BY <1>1, <1>4
    <3> HIDE DEF below
    <3> QED BY <3>1, Latest
  <2>2. DirectlyBelow(h, g)
    BY <2>1 DEF DirectlyBelow
  <2>3. g \in live /\ g \in Hooks /\ g \in older[h] /\ site[g] = site[h] /\ g # h /\ g \notin older[g]
    BY <1>1, <2>1 DEF IInv, Order
  <2>4. NumInstrs[g] \in Nat /\ NumInstrs[g] <= N
    BY <1>0, <2>3, HookAssumption
  <2>5. ASSUME NEW i \in 0 .. NumInstrs[g] - 1 PROVE OrigStream(h)[i] = Patch(g, i)
    <3>1. /\ i \in 0 .. N - 1 /\ i \in Nat /\ i < NumInstrs[g]
          /\ (site[h] + i) - site[h] = i
      BY <1>0, <2>4
    <3>2. CASE i < NumInstrs[h]
      <4>1. Shorter(older[h], g, i)
        <5> SUFFICES ASSUME NEW m \in older[h], site[m] = site[g], g \in older[m] PROVE FALSE
          BY DEF Shorter
        <5>1. m \in below /\ m \in Hooks /\ m \in live
          BY <1>1, <2>3
        <5>2. m # g
          BY <2>3
        <5>3. m \in older[g]
          BY <2>1, <5>1, <5>2
        <5> QED BY <2>3, <5>1, <5>2, <5>3 DEF IInv, Order
      <4>2. Covers(h, site[h] + i)
        BY <1>0, <3>1, <3>2 DEF Covers
      <4>3. saved[h][(site[h] + i) - site[h]] = Patch(g, i)
        <5> DEFINE o == site[h] + i
        <5>1. o = site[g] + i /\ Covers(h, o)
          BY <2>3, <4>2
        <5> HIDE DEF o
        <5>2. saved[h][o - site[h]] = Patch(g, i)
          BY <2>3, <4>1, <5>1, SavedShowsThrough
        <5> QED BY <5>2 DEF o
      <4>4. i \in 0 .. NumInstrs[h] - 1
        BY <1>0, <3>1, <3>2
      <4>5. OrigStream(h)[i] = saved[h][i]
        BY <1>2, <4>4
      <4> QED BY <3>1, <4>3, <4>5
    <3>3. CASE ~(i < NumInstrs[h])
      <4>1. Shorter(live, g, i)
        <5> SUFFICES ASSUME NEW m \in live, site[m] = site[g], g \in older[m] PROVE NumInstrs[m] <= i
          BY DEF Shorter
        <5>0. NumInstrs[m] \in Nat /\ m \in Hooks
          BY <1>1, HookAssumption
        <5>1. CASE m = h
          BY <1>0, <3>1, <3>3, <5>1
        <5>2. CASE h \in older[m]
          <6>1. NumInstrs[m] <= NumInstrs[h]
            BY <2>3, <5>2 DEF ReturnsBehind
          <6> QED BY <1>0, <3>1, <3>3, <5>0, <6>1
        <5>3. CASE m # h /\ h \notin older[m]
          <6>1. m \in older[h]
            BY <1>0, <5>0, <5>3 DEF IInv, Order
          <6>2. m \in below /\ m # g
            BY <2>3, <6>1
          <6>3. m \in older[g]
            BY <2>1, <6>2
          <6> QED BY <2>3, <5>0, <6>2, <6>3 DEF IInv, Order
        <5> QED BY <5>1, <5>2, <5>3
      <4>2. site[h] + i \in Offsets /\ mem[site[h] + i] = Patch(g, i)
        <5> DEFINE o == site[h] + i
        <5>1. o = site[g] + i /\ Apart(site[g])
          BY <2>3
        <5> HIDE DEF o
        <5>2. o \in Offsets /\ mem[o] = Patch(g, i)
          BY <2>3, <4>1, <5>1, MemoryShowsThrough
        <5> QED BY <5>2 DEF o
      <4>3. OrigStream(h)[i] = At(backup[h].at + i)
        BY <3>1, <3>3 DEF OrigStream
      <4>4. backup[h].at = site[h]
        BY DEF BackupIsSaved
      <4> QED BY <4>2, <4>3, <4>4 DEF At
    <3> QED BY <3>2, <3>3
  <2>6. StreamEnters(OrigStream(h), g)
    BY <2>5 DEF StreamEnters
  <2> QED BY <2>2, <2>3, <2>6
<1> QED BY <1>3, <1>4

-----------------------------------------------------------------------------
(* Installing and uninstalling keep the order and the backups. *)
LEMMA KeepsChain ==
  ASSUME OrigInv, NEW h \in Hooks,
         \/ UNCHANGED history
         \/ live' = live \union {h} /\ h \notin live
              /\ older' = [g \in Hooks |-> IF g = h THEN live \ {h} ELSE older[g] \ {h}]
         \/ live' = live \ {h}
              /\ older' = [g \in Hooks |-> IF g = h THEN {} ELSE older[g] \ {h}]
  PROVE  Chained'
<1>1. live \subseteq Hooks /\ IsFiniteSet(live)
  BY DEF OrigInv, IInv, TypeOK, Chained
<1>2. \A g \in live : older[g] \subseteq live \ {g}
  BY <1>1 DEF OrigInv, IInv, Order
<1>3. CASE UNCHANGED history
  BY <1>3 DEF OrigInv, Chained, history
<1>4. CASE /\ live' = live \union {h} /\ h \notin live
           /\ older' = [g \in Hooks |-> IF g = h THEN live \ {h} ELSE older[g] \ {h}]
  <2>1. IsFiniteSet(live')
    BY <1>1, <1>4, FS_AddElement
  <2>2. older'[h] = live /\ \A g \in live : older'[g] = older[g]
    BY <1>1, <1>2, <1>4
  <2>3. \A g, m, k \in live' : k \in older'[g] /\ g \in older'[m] => k \in older'[m]
    BY <1>2, <1>4, <2>2, ZenonT(30) DEF OrigInv, Chained
  <2> QED BY <2>1, <2>3 DEF Chained
<1>5. CASE /\ live' = live \ {h}
           /\ older' = [g \in Hooks |-> IF g = h THEN {} ELSE older[g] \ {h}]
  <2>1. IsFiniteSet(live')
    BY <1>1, <1>5, FS_RemoveElement
  <2>2. \A g \in live' : older'[g] = older[g] \ {h}
    BY <1>1, <1>5
  <2>3. \A g, m, k \in live' : k \in older'[g] /\ g \in older'[m] => k \in older'[m]
    BY <1>5, <2>2 DEF OrigInv, Chained
  <2> QED BY <2>1, <2>3 DEF Chained
<1> QED BY <1>3, <1>4, <1>5

LEMMA KeepsBackups ==
  ASSUME OrigInv,
         \A g \in live' : Kind[g] = "trampoline" =>
           g \in live /\ backup'[g] = backup[g] /\ site'[g] = site[g] /\ saved'[g] = saved[g]
  PROVE  BackupIsSaved'
BY DEF OrigInv, BackupIsSaved

LEMMA HookInstallChanges ==
  ASSUME OrigInv, NEW h \in Hooks, NEW o \in Nat, HookInstall(h, o)
  PROVE  /\ Chained'
         /\ \A g \in live' \ {h} : g \in live /\ site'[g] = site[g] /\ saved'[g] = saved[g]
         /\ h \in live' /\ h \notin live => Installs(h, o)
         /\ h \in live => UNCHANGED <<live, objects>>
<1>1. live \subseteq Hooks /\ (IsInstalled(h) <=> h \in live) /\ site \in [Hooks -> Nat]
      /\ saved \in [Hooks -> [0 .. N - 1 -> Words]]
  BY DEF OrigInv, IInv, TypeOK, InstalledIffLive
<1>2. CASE AlreadyInstalled(h) \/ InstallFaults(h, o)
  <2>1. UNCHANGED <<objects, history>>
    BY <1>2 DEF AlreadyInstalled, InstallFaults, Halt
  <2>2. Chained'
    BY <2>1, KeepsChain
  <2> QED BY <2>1, <2>2 DEF objects, history
<1>3. CASE WriteRefused(h, o)
  <2>1. UNCHANGED history /\ h \notin live
    BY <1>1, <1>3 DEF WriteRefused
  <2>2. Chained'
    BY <2>1, KeepsChain
  <2>3. \A g \in live \ {h} : site'[g] = site[g] /\ saved'[g] = saved[g]
    BY <1>1, <1>3 DEF WriteRefused
  <2> QED BY <2>1, <2>2, <2>3 DEF history
<1>4. CASE Installs(h, o)
  <2>1. /\ live' = live \union {h} /\ h \notin live
        /\ older' = [g \in Hooks |-> IF g = h THEN live \ {h} ELSE older[g] \ {h}]
    BY <1>1, <1>4 DEF Installs
  <2>2. Chained'
    BY <2>1, KeepsChain
  <2>3. \A g \in live \ {h} : site'[g] = site[g] /\ saved'[g] = saved[g]
    BY <1>1, <1>4 DEF Installs
  <2> QED BY <1>4, <2>1, <2>2, <2>3
<1> QED BY <1>2, <1>3, <1>4 DEF HookInstall

LEMMA InstallKeepsOrig ==
  ASSUME OrigInv, NEW h \in Hooks, NEW p \in Nat, InstallAtPtr(h, p), GoodSite(h, p)
  PROVE  Chained' /\ BackupIsSaved'
<1>0. backup \in [Hooks -> Backups] /\ (IsInstalled(h) <=> h \in live) /\ live \subseteq Hooks
  BY DEF OrigInv, IInv, TypeOK, InstalledIffLive
<1>1. CASE ~Contains(p)
  <2>1. UNCHANGED <<objects, backup, history>>
    BY <1>1 DEF InstallAtPtr
  <2> QED BY <2>1, KeepsChain, KeepsBackups DEF objects, history
<1>2. CASE Contains(p)
  <2> DEFINE o == p - Base
  <2>1. o \in Nat
    BY <1>2, HookAssumption DEF Contains
  <2>2. InstallAtOffset(h, o)
    BY <1>2 DEF InstallAtPtr
  <2>3. Kind[h] = "trampoline" => h \notin live
    BY <1>0 DEF GoodSite
  <2> HIDE DEF o
  <2>4. CASE Kind[h] # "trampoline" /\ HookInstall(h, o) /\ UNCHANGED backup
    <3>1. /\ Chained'
          /\ \A g \in live' \ {h} : g \in live /\ site'[g] = site[g] /\ saved'[g] = saved[g]
      BY <2>1, <2>4, HookInstallChanges
    <3> QED BY <2>4, <3>1, KeepsBackups
  <2>5. CASE Halt /\ UNCHANGED backup
    <3>1. UNCHANGED <<objects, history, backup>>
      BY <2>5 DEF Halt
    <3> QED BY <3>1, KeepsChain, KeepsBackups DEF objects, history
  <2>6. CASE /\ Kind[h] = "trampoline" /\ HookInstall(h, o)
             /\ backup' = [backup EXCEPT ![h] = MakeBackup(h, o)]
    <3>1. /\ Chained'
          /\ \A g \in live' \ {h} : g \in live /\ site'[g] = site[g] /\ saved'[g] = saved[g]
          /\ h \in live' /\ h \notin live => Installs(h, o)
      BY <2>1, <2>6, HookInstallChanges
    <3>2. backup'[h] = MakeBackup(h, o) /\ \A g \in live \ {h} : backup'[g] = backup[g]
      BY <1>0, <2>6
    <3>3. CASE h \notin live'
      <4>1. \A g \in live' : g \in live /\ backup'[g] = backup[g] /\ site'[g] = site[g] /\ saved'[g] = saved[g]
        BY <3>1, <3>2, <3>3
      <4> QED BY <3>1, <4>1, KeepsBackups
    <3>4. CASE h \in live'
      <4>1. Installs(h, o)
        BY <2>3, <2>6, <3>1, <3>4
      <4>2. site'[h] = o /\ saved'[h] = Snapshot(h, o)
        BY <4>1 DEF Installs, OrigInv, IInv, TypeOK
      <4>3. ASSUME NEW i \in 0 .. NumInstrs[h] - 1 PROVE backup'[h].words[i] = saved'[h][i]
        <5>1. i \in 0 .. N - 1 /\ i < Window(h)
          BY WindowBounds, HookAssumption
        <5>2. Snapshot(h, o)[i] = At(o + i)
          BY <5>1 DEF Snapshot
        <5>3. MakeBackup(h, o).words[i] = At(o + i)
          BY DEF MakeBackup
        <5> QED BY <3>2, <4>2, <5>2, <5>3
      <4>4. backup'[h].at = site'[h]
        BY <3>2, <4>2 DEF MakeBackup
      <4>5. \A g \in live' \ {h} : g \in live /\ backup'[g] = backup[g] /\ site'[g] = site[g] /\ saved'[g] = saved[g]
        BY <3>1, <3>2
      <4>6. ASSUME NEW g \in live', Kind[g] = "trampoline"
            PROVE  /\ backup'[g].at = site'[g]
                   /\ \A i \in 0 .. NumInstrs[g] - 1 : backup'[g].words[i] = saved'[g][i]
        <5>1. CASE g = h
          BY <4>3, <4>4, <5>1
        <5>2. CASE g # h
          BY <4>5, <4>6, <5>2 DEF OrigInv, BackupIsSaved
        <5> QED BY <5>1, <5>2
      <4> QED BY <3>1, <4>6 DEF BackupIsSaved
    <3> QED BY <3>3, <3>4
  <2> QED BY <2>2, <2>4, <2>5, <2>6 DEF InstallAtOffset, TrampolineInstall
<1> QED BY <1>1, <1>2

LEMMA UninstallKeepsOrig ==
  ASSUME OrigInv, NEW h \in Hooks, Uninstall(h)
  PROVE  Chained' /\ BackupIsSaved'
<1>1. UNCHANGED backup
  BY DEF Uninstall
<1>2. CASE NotInstalled(h) \/ RestoreRefused(h) \/ RestoreFaults(h)
  <2>1. UNCHANGED <<objects, history>>
    BY <1>2 DEF NotInstalled, RestoreRefused, RestoreFaults, Halt
  <2> QED BY <1>1, <2>1, KeepsChain, KeepsBackups DEF objects, history
<1>3. CASE Restores(h)
  <2>1. /\ live' = live \ {h}
        /\ older' = [g \in Hooks |-> IF g = h THEN {} ELSE older[g] \ {h}]
    BY <1>3 DEF Restores
  <2>2. Chained'
    BY <2>1, KeepsChain
  <2>3. \A g \in live' : g \in live /\ site'[g] = site[g] /\ saved'[g] = saved[g]
    BY <1>3 DEF Restores, OrigInv, IInv, TypeOK
  <2> QED BY <1>1, <2>2, <2>3, KeepsBackups
<1> QED BY <1>2, <1>3 DEF Uninstall

LEMMA OrigInitially == Init => OrigInv
<1> SUFFICES ASSUME Init PROVE Chained /\ BackupIsSaved
  BY Initially DEF OrigInv
<1>1. live = {}
  BY DEF Init
<1> QED BY <1>1, FS_EmptySet DEF Chained, BackupIsSaved

LEMMA OrigStep == OrigInv /\ [DisciplinedNext]_vars => OrigInv'
<1> SUFFICES ASSUME OrigInv, [DisciplinedNext]_vars PROVE Chained' /\ BackupIsSaved'
  BY DisciplinedStep DEF OrigInv
<1>1. CASE UNCHANGED vars
  <2>1. UNCHANGED <<objects, history, backup>>
    BY <1>1 DEF vars, objects, history
  <2> QED BY <1>1 DEF vars, OrigInv, Chained, BackupIsSaved
<1>2. ASSUME NEW h \in Hooks, NEW p \in Pointers, GoodSite(h, p), InstallAtPtr(h, p)
      PROVE  Chained' /\ BackupIsSaved'
  BY <1>2, InstallKeepsOrig DEF Pointers
<1>3. ASSUME NEW h \in Hooks, Uninstall(h) PROVE Chained' /\ BackupIsSaved'
  BY <1>3, UninstallKeepsOrig
<1> QED BY <1>1, <1>2, <1>3 DEF DisciplinedNext

(* The orig of a trampoline runs the hook under it, or else what its branch *)
(* displaced, however many hooks came over it, went, and lie around it, as  *)
(* long as none of them tears its branch or is longer at the same site.     *)
THEOREM OrigRunsTheRight == DisciplinedSpec => []OrigRunsWhatWasThere
<1>1. DisciplinedSpec => []OrigInv
  BY OrigInitially, OrigStep, PTL DEF DisciplinedSpec
<1> QED
  BY <1>1, OrigFromInvariant, PTL
=============================================================================
