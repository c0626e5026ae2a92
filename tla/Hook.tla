-------------------------------- MODULE Hook --------------------------------
(***************************************************************************)
(* Run-time patching of code memory: HookNInstr with its users Replace and *)
(* Trampoline (hk/hook/Hook.h, Replace.h, Trampoline.h, Trampoline.cpp),   *)
(* the uninstallable AsmBlock (hk/hook/a64/Assembler.h) and RoModule's     *)
(* writeRo (hk/ro/RoModule.cpp), over the code of one module.              *)
(*                                                                         *)
(* Memory is a function from the word offsets of the module to words.  A   *)
(* word is an instruction the module was linked with, a word of a hook's   *)
(* branch sequence (or of an AsmBlock), or zero.                           *)
(*                                                                         *)
(* Installing saves the N words at the site and then writes the branch     *)
(* sequence, which may be shorter; uninstalling writes all N words back.   *)
(* "live" and "older" are history variables: the hooks whose last install  *)
(* succeeded and that were not uninstalled since, and for each of them the *)
(* live hooks that were installed before it.                               *)
(***************************************************************************)
EXTENDS Naturals

CONSTANTS
  Hooks,      (* the hook objects of the mod                              *)
  Kind,       (* [Hooks -> {"replace", "trampoline", "one", "asm"}]       *)
  NumInstrs,  (* [Hooks -> 1..N], words the hook writes at its site       *)
  N,          (* cHookMaxOverwriteSize                                    *)
  Base,       (* address of the module                                    *)
  TextSize, RodataSize, DataSize,   (* its sections, in words             *)
  ZeroWords,  (* offsets whose original word is zero                      *)
  Literals    (* offsets of instructions that cannot be relocated         *)

ASSUME HookAssumption ==
  /\ N \in Nat \ {0}
  /\ Kind \in [Hooks -> {"replace", "trampoline", "one", "asm"}]
  /\ NumInstrs \in [Hooks -> 1..N]
  /\ Base \in Nat \ {0}
  /\ TextSize \in Nat \ {0} /\ RodataSize \in Nat /\ DataSize \in Nat

VARIABLES
  mem,     (* the words of the module                                     *)
  site,    (* mOffset of each hook                                        *)
  saved,   (* mOrigInstrs of each hook                                    *)
  backup,  (* TrampolineStaticBackup of each trampoline                   *)
  result,  (* what the last call returned                                 *)
  halted,  (* the process aborted                                         *)
  live, older

objects == <<site, saved>>
history == <<live, older>>
vars == <<mem, site, saved, backup, result, halted, live, older>>

-----------------------------------------------------------------------------
Size == TextSize + RodataSize + DataSize
Offsets == 0 .. Size - 1

Zero == [op |-> "zero"]
Code(o) == [op |-> "code", at |-> o]
Patch(h, i) == [op |-> "patch", of |-> h, word |-> i]

Words == {Zero} \union {Code(o) : o \in Offsets}
           \union {Patch(h, i) : h \in Hooks, i \in 0 .. N - 1}

(* What the linker put into the module. *)
Pristine == [o \in Offsets |-> IF o \in ZeroWords THEN Zero ELSE Code(o)]

(* How many words the hook saves, and later restores. *)
Window(h) == IF Kind[h] \in {"asm", "one"} THEN NumInstrs[h] ELSE N

(* The single-instruction branch "b": after it a backup cannot return. *)
IsBranch(w) ==
  /\ w.op = "patch"
  /\ Kind[w.of] # "asm"
  /\ NumInstrs[w.of] = 1

(* HookNInstr looks at the first saved word, AsmBlock at its offset. *)
IsInstalled(h) ==
  IF Kind[h] = "asm" THEN site[h] # 0 ELSE saved[h][0] # Zero

(***************************************************************************)
(* RoModule::writeRo.  A write is refused beyond .rodata.  Its first word  *)
(* alone picks the read-write mapping, so one that starts in .text and     *)
(* ends behind it runs off the end of the mapping of .text.                *)
(***************************************************************************)
InRange(o, n) == o + n <= TextSize + RodataSize
Overruns(o, n) == o < TextSize /\ o + n > TextSize

Written(o, n, words) ==
  [a \in Offsets |-> IF o <= a /\ a < o + n THEN words[a - o] ELSE mem[a]]

(* A defect: one word too many is cleared. *)
UnsavedTooLong == [i \in 0 .. N |-> Zero]

Unsaved == [i \in 0 .. N - 1 |-> Zero]

(* Behind the module there may be another one, or nothing. *)
At(o) == IF o \in Offsets THEN mem[o] ELSE Zero

Snapshot(h, o) ==
  [i \in 0 .. N - 1 |-> IF i < Window(h) THEN At(o + i) ELSE Zero]

PatchWords(h) == [i \in 0 .. N - 1 |-> Patch(h, i)]

-----------------------------------------------------------------------------
Return(r) == result' = r /\ UNCHANGED halted

(* HK_ABORT or a data abort: the process is gone, and what it left in its  *)
(* memory no longer matters.                                               *)
Halt == halted' = TRUE /\ UNCHANGED <<mem, objects, result, history>>

(* HookNInstr::installAtOffset, AsmBlock::tryInstallAtOffset. *)
AlreadyInstalled(h) ==
  /\ IsInstalled(h)
  /\ Return("AlreadyInstalled")
  /\ UNCHANGED <<mem, objects, history>>

InstallFaults(h, o) ==
  /\ ~IsInstalled(h)
  /\ \/ o + Window(h) > Size
     \/ InRange(o, NumInstrs[h]) /\ Overruns(o, NumInstrs[h])
  /\ Halt

(* A defect: the saved words are not cleared when the write is refused. *)
WriteRefusedUncleared(h, o) ==
  /\ ~IsInstalled(h)
  /\ ~InRange(o, NumInstrs[h])
  /\ Return("OutOfRange")
  /\ saved' = [saved EXCEPT ![h] = Snapshot(h, o)]
  /\ site' = [site EXCEPT ![h] = o]
  /\ UNCHANGED <<mem, history>>

(* HookNInstr clears itself; AsmBlock keeps the words it has just saved. *)
WriteRefused(h, o) ==
  /\ ~IsInstalled(h)
  /\ ~InRange(o, NumInstrs[h])
  /\ Return("OutOfRange")
  /\ saved' = [saved EXCEPT ![h] =
                 IF Kind[h] = "asm" THEN Snapshot(h, o) ELSE Unsaved]
  /\ site' = [site EXCEPT ![h] = 0]
  /\ UNCHANGED <<mem, history>>

(* A defect: the words are saved after the branch has been written. *)
InstallsSavingLate(h, o) ==
  /\ ~IsInstalled(h)
  /\ o + Window(h) <= Size
  /\ InRange(o, NumInstrs[h])
  /\ ~Overruns(o, NumInstrs[h])
  /\ Return("Success")
  /\ mem' = Written(o, NumInstrs[h], PatchWords(h))
  /\ saved' = [saved EXCEPT ![h] = [i \in 0 .. N - 1 |-> mem'[o + i]]]
  /\ site' = [site EXCEPT ![h] = o]
  /\ live' = live \union {h}
  /\ older' = [g \in Hooks |-> IF g = h THEN live \ {h} ELSE older[g] \ {h}]

Installs(h, o) ==
  /\ ~IsInstalled(h)
  /\ o + Window(h) <= Size
  /\ InRange(o, NumInstrs[h])
  /\ ~Overruns(o, NumInstrs[h])
  /\ Return("Success")
  /\ saved' = [saved EXCEPT ![h] = Snapshot(h, o)]
  /\ site' = [site EXCEPT ![h] = o]
  /\ mem' = Written(o, NumInstrs[h], PatchWords(h))
  /\ live' = live \union {h}
  /\ older' = [g \in Hooks |-> IF g = h THEN live \ {h} ELSE older[g] \ {h}]

HookInstall(h, o) ==
  \/ AlreadyInstalled(h)
  \/ InstallFaults(h, o)
  \/ WriteRefused(h, o)
  \/ Installs(h, o)

(***************************************************************************)
(* TrampolineStaticBase::installAtOffset: the backup is made before        *)
(* HookNInstr looks whether it is installed already.  Relocation is kept   *)
(* abstract: a relocated word behaves as the word did at its own address,  *)
(* and after the last one the backup returns behind the site.  It aborts   *)
(* on a branch that is not the last word, and on ldr (literal).            *)
(***************************************************************************)
Relocatable(o, n) ==
  \A i \in 0 .. n - 1 :
    /\ IsBranch(At(o + i)) => i = n - 1
    /\ At(o + i) = Code(o + i) => o + i \notin Literals

(* A defect: the backup is made once the branch has been written. *)
MakeBackupLate(h, o) ==
  [at |-> o, words |-> [i \in 0 .. NumInstrs[h] - 1 |-> Patch(h, i)]]

MakeBackup(h, o) == [at |-> o, words |-> [i \in 0 .. NumInstrs[h] - 1 |-> At(o + i)]]

TrampolineInstall(h, o) ==
  \/ /\ Relocatable(o, NumInstrs[h])
     /\ backup' = [backup EXCEPT ![h] = MakeBackup(h, o)]
     /\ HookInstall(h, o)
  \/ /\ ~Relocatable(o, NumInstrs[h])
     /\ Halt
     /\ UNCHANGED backup

InstallAtOffset(h, o) ==
  IF Kind[h] = "trampoline" THEN TrampolineInstall(h, o)
                            ELSE HookInstall(h, o) /\ UNCHANGED backup

(* HookOperations::installAtPtr; the range test of getModuleContaining     *)
(* takes the end of the module for a part of it.                           *)
Contains(p) == Base <= p /\ p <= Base + Size

InstallAtPtr(h, p) ==
  /\ ~halted
  /\ \/ /\ ~Contains(p)
        /\ Kind[h] # "one"   (* HookOneInstr takes offsets only *)
        /\ Return(IF p = 0 /\ Kind[h] # "asm" THEN "InvalidAddress" ELSE "OutOfBounds")
        /\ UNCHANGED <<mem, objects, backup, history>>
     \/ /\ Contains(p)
        /\ InstallAtOffset(h, p - Base)

-----------------------------------------------------------------------------
(* HookNInstr::uninstall and AsmBlock::uninstall. *)
NotInstalled(h) ==
  /\ ~IsInstalled(h)
  /\ Return("NotInstalled")
  /\ UNCHANGED <<mem, objects, history>>

RestoreRefused(h) ==
  /\ IsInstalled(h)
  /\ ~InRange(site[h], Window(h))
  /\ Return("OutOfRange")
  /\ UNCHANGED <<mem, objects, history>>

RestoreFaults(h) ==
  /\ IsInstalled(h)
  /\ InRange(site[h], Window(h))
  /\ Overruns(site[h], Window(h))
  /\ Halt

(* A defect: the hook is cleared before the words are written back. *)
RestoresCleared(h) ==
  /\ IsInstalled(h)
  /\ Return("Success")
  /\ mem' = Written(0, Window(h), saved[h])
  /\ saved' = IF Kind[h] = "asm" THEN saved ELSE [saved EXCEPT ![h] = Unsaved]
  /\ site' = [site EXCEPT ![h] = 0]
  /\ live' = live \ {h}
  /\ older' = [g \in Hooks |-> IF g = h THEN {} ELSE older[g] \ {h}]

Restores(h) ==
  /\ IsInstalled(h)
  /\ InRange(site[h], Window(h))
  /\ ~Overruns(site[h], Window(h))
  /\ Return("Success")
  /\ mem' = Written(site[h], Window(h), saved[h])
  /\ saved' = IF Kind[h] = "asm" THEN saved ELSE [saved EXCEPT ![h] = Unsaved]
  /\ site' = [site EXCEPT ![h] = 0]
  /\ live' = live \ {h}
  /\ older' = [g \in Hooks |-> IF g = h THEN {} ELSE older[g] \ {h}]

Uninstall(h) ==
  /\ ~halted
  /\ \/ NotInstalled(h)
     \/ RestoreRefused(h)
     \/ RestoreFaults(h)
     \/ Restores(h)
  /\ UNCHANGED backup

-----------------------------------------------------------------------------
Init ==
  /\ mem = Pristine
  /\ site = [h \in Hooks |-> 0]
  /\ saved = [h \in Hooks |-> Unsaved]
  /\ backup = [h \in Hooks |-> [at |-> 0, words |-> [i \in {} |-> Zero]]]
  /\ result = "Success"
  /\ halted = FALSE
  /\ live = {}
  /\ older = [h \in Hooks |-> {}]

Pointers == 0 .. Base + Size + 1

Next ==
  \E h \in Hooks :
    \/ \E p \in Pointers : InstallAtPtr(h, p)
    \/ Uninstall(h)

Spec == Init /\ [][Next]_vars

(***************************************************************************)
(* The mods the guarantees below are about.  They uninstall hooks whose    *)
(* windows overlap in the reverse order of installing them, they do not    *)
(* hook a word that is zero nor, with an AsmBlock, the first word of the   *)
(* module (neither would count as installed), and they do not install a    *)
(* trampoline that is installed.                                           *)
(***************************************************************************)
Covers(h, o) == site[h] <= o /\ o < site[h] + Window(h)

Outermost(h) ==
  \A g \in live : h \in older[g] => \A o \in Offsets : ~(Covers(h, o) /\ Covers(g, o))

GoodSite(h, p) ==
  /\ p - Base \in Offsets => mem[p - Base] # Zero
  /\ Kind[h] = "asm" => p # Base
  /\ Kind[h] = "trampoline" => ~IsInstalled(h)

DisciplinedNext ==
  \E h \in Hooks :
    \/ \E p \in Pointers : GoodSite(h, p) /\ InstallAtPtr(h, p)
    \/ Outermost(h) /\ Uninstall(h)

DisciplinedSpec == Init /\ [][DisciplinedNext]_vars

-----------------------------------------------------------------------------
Backups == [at : Nat, words : UNION {[0 .. n - 1 -> Words] : n \in 0 .. N}]

Results == {"Success", "InvalidAddress", "OutOfBounds", "OutOfRange",
            "AlreadyInstalled", "NotInstalled"}

(* Every variable keeps to the values its C++ type and the checks of the    *)
(* install and uninstall functions allow.                                  *)
TypeOK ==
  /\ mem \in [Offsets -> Words]
  /\ site \in [Hooks -> Nat]
  /\ saved \in [Hooks -> [0 .. N - 1 -> Words]]
  /\ backup \in [Hooks -> Backups]
  /\ result \in Results
  /\ halted \in BOOLEAN
  /\ live \subseteq Hooks
  /\ older \in [Hooks -> SUBSET Hooks]

(* The install state a hook object reports (HookNInstr::isInstalled by its  *)
(* first saved word, AsmBlock::isInstalled by its offset) is the one its    *)
(* history gives: neither a refused write nor a failed uninstall may        *)
(* confuse it.                                                             *)
InstalledIffLive == \A h \in Hooks : IsInstalled(h) <=> h \in live

(* Uninstalling undoes installing, whatever was installed over, under and   *)
(* next to it meanwhile: a word in the window of no live hook is the word   *)
(* the module was linked with.  In particular the code is back as it was    *)
(* once every hook is uninstalled.                                         *)
RestoreExact ==
  \A o \in Offsets : (\A h \in live : ~Covers(h, o)) => mem[o] = Pristine[o]

(* A live hook that no later hook overlaps is in effect: its whole branch    *)
(* sequence is in memory, also after neighbours inside its window came and  *)
(* went.                                                                   *)
InEffect ==
  \A h \in live :
    Outermost(h) => \A i \in 0 .. NumInstrs[h] - 1 : mem[site[h] + i] = Patch(h, i)

(***************************************************************************)
(* What a call of a trampoline's "orig" runs.  The backup is followed by   *)
(* the words behind the site.                                              *)
(***************************************************************************)
OrigStream(h) ==
  [i \in 0 .. N - 1 |->
     IF i < NumInstrs[h] THEN backup[h].words[i] ELSE At(backup[h].at + i)]

StreamEnters(s, g) == \A i \in 0 .. NumInstrs[g] - 1 : s[i] = Patch(g, i)

(* The live hooks under h at the same site, the last one installed first. *)
DirectlyBelow(h, g) ==
  LET below == {k \in older[h] : site[k] = site[h]}
  IN  g \in below /\ below = (older[g] \intersect below) \union {g}

(* No hook elsewhere tears the branch sequence of a hook at site s, nor is  *)
(* torn by one.                                                            *)
Apart(s) ==
  \A g, k \in live :
    site[g] # s /\ site[k] = s =>
      \/ site[g] + NumInstrs[g] <= s
      \/ s + NumInstrs[k] <= site[g]

(* No hook that was installed over h at its site is longer than h: the      *)
(* backup of h would return into the middle of its branch sequence.        *)
ReturnsBehind(h) ==
  \A k \in live : site[k] = site[h] /\ h \in older[k] => NumInstrs[k] <= NumInstrs[h]

(* "call original function" (README.md): the orig of a live trampoline      *)
(* runs the hook installed under it at the same site, if there is one, and  *)
(* otherwise the instructions of the hooked function that its branch has   *)
(* displaced.  It never runs a hook above it, itself, an uninstalled one,  *)
(* or another function.                                                    *)
OrigRunsWhatWasThere ==
  \A h \in live :
    Kind[h] = "trampoline" /\ Apart(site[h]) /\ ReturnsBehind(h) =>
      \/ \E g \in older[h] : DirectlyBelow(h, g) /\ StreamEnters(OrigStream(h), g)
      \/ /\ \A g \in older[h] : site[g] # site[h]
         /\ \A i \in 0 .. NumInstrs[h] - 1 : OrigStream(h)[i] = Pristine[site[h] + i]
=============================================================================
