------------------------------- MODULE Backup -------------------------------
(***************************************************************************)
(* What TrampolineStaticBase::installAtOffset writes (Trampoline.cpp): the *)
(* branch to the hook that goes over the site, and the backup, a copy of   *)
(* the instructions the branch displaces that does the same elsewhere,     *)
(* with a branch back.  Both are put together by PseudoInstructionEmitter  *)
(* (Assembler.h), which chooses among sequences by distance.               *)
(*                                                                         *)
(* A buffer of instructions is filled from the front.  In the backup,      *)
(* literals are put at the end, where each takes two words off what is     *)
(* left (cap).  lits is a history variable: the literals put so far.       *)
(***************************************************************************)
EXTENDS A64, FiniteSets

CONSTANTS
  N,          (* cHookMaxOverwriteSize                                    *)
  Capacity,   (* words of a TrampolineBackup                              *)
  Places,     (* [at, rx, to]: the site, the backup and the hook          *)
  Originals,  (* instructions that may be at a site                       *)
  Valuations  (* contents of the registers on entering                    *)

ASSUME BackupAssumption ==
  /\ N \in Nat \ {0} /\ Capacity \in Nat \ {0}
  /\ Originals \subseteq [op : {"plain", "ldr", "adr", "adrp"} \union Unconditional \union Conditional,
                          rd : Registers, wide : BOOLEAN, imm : Nat, aux : Nat]

(* Where everything is: instructions are aligned, the hook is not at the   *)
(* site and the backup is neither there nor goes a displaced branch into   *)
(* it.                                                                     *)
Words(a, n) == {a + 4 * k : k \in 0 .. n - 1}

ASSUME LayoutAssumption ==
  \A p \in Places :
    /\ \A a \in {p.at, p.rx, p.to} : a \in 0 .. Modulus - 1 /\ a % 4 = 0
    /\ p.at + 4 * N < Modulus /\ p.rx + 4 * Capacity < Modulus
    /\ p.to \notin Words(p.at, N)
    /\ Words(p.at, N + 1) \intersect Words(p.rx, Capacity) = {}
    /\ \A i \in Originals, pc \in Words(p.at, N) :
         /\ i.op = "b" => BBLAddr(i, pc) \notin Words(p.rx, Capacity)
         /\ i.op \in Conditional => CondAddr(i, pc) \notin Words(p.rx, Capacity)

(* Fields of instructions and registers hold what fits in them; a literal  *)
(* of the backup is near.                                                  *)
ASSUME ContentsAssumption ==
  /\ Valuations \subseteq [Registers -> 0 .. Modulus - 1]
  /\ \A i \in Originals :
       /\ i.op \in {"adr", "adrp"} => i.imm < 2^AdrBits
       /\ i.op \in Unconditional => i.imm < 2^BranchBits
       /\ i.op \in {"bcond", "cbz", "cbnz"} => i.imm < 2^CondBits
       /\ i.op \in {"tbz", "tbnz"} => i.imm < 2^TestBits
  /\ Capacity <= 2^(CondBits - 1) /\ 6 <= 2^(TestBits - 1)

VARIABLES
  place,   (* where everything is                                         *)
  branch,  (* the buffer of what is written at the site                   *)
  orig,    (* the displaced instructions, as far as they were copied      *)
  backup,  (* the buffer of the backup                                    *)
  skipReturn,
  phase    (* "hook", "copy", "made", or "halted": the process aborted    *)

vars == <<place, branch, orig, backup, skipReturn, phase>>

-----------------------------------------------------------------------------
(* VecSpan over an array of zeros, and its add. *)
Empty(n) == [words |-> [k \in 0 .. n - 1 |-> Zero], size |-> 0, cap |-> n, lits |-> {}, ok |-> TRUE]

Emit(b, word) ==
  IF b.ok /\ word # Refused /\ b.size < b.cap
    THEN [b EXCEPT !.words[b.size] = word, !.size = @ + 1]
    ELSE [b EXCEPT !.ok = FALSE]

Rx(b, base) == base + 4 * b.size

(* A defect: the next literal may begin where this one ends, a word too far. *)
EmitLiteralTight(b, base, rd, value) ==
  LET k == b.cap - 2
      loaded == Emit(b, AssembleRelative("ldr", rd, TRUE, 0, Rx(b, base), base + 4 * k))
  IN IF b.cap - b.size < 3 \/ ~loaded.ok THEN [b EXCEPT !.ok = FALSE]
     ELSE [loaded EXCEPT !.words[k] = Data(value % HalfWord), !.words[k + 1] = Data(value \div HalfWord),
                         !.cap = @ - 1, !.lits = @ \union {[at |-> k, value |-> value]}]

(* A defect: the literal's second word lies beyond the buffer. *)
EmitLiteralAtEnd(b, base, rd, value) ==
  LET k == b.cap - 1
      loaded == Emit(b, AssembleRelative("ldr", rd, TRUE, 0, Rx(b, base), base + 4 * k))
  IN IF b.cap - b.size < 3 \/ ~loaded.ok THEN [b EXCEPT !.ok = FALSE]
     ELSE [loaded EXCEPT !.words[k] = Data(value % HalfWord), !.words[k + 1] = Data(value \div HalfWord),
                         !.cap = @ - 2, !.lits = @ \union {[at |-> k, value |-> value]}]

EmitLiteral(b, base, rd, value) ==
  LET k == b.cap - 3
      loaded == Emit(b, AssembleRelative("ldr", rd, TRUE, 0, Rx(b, base), base + 4 * k))
  IN IF b.cap - b.size < 3 \/ ~loaded.ok THEN [b EXCEPT !.ok = FALSE]
     ELSE [loaded EXCEPT !.words[k] = Data(value % HalfWord), !.words[k + 1] = Data(value \div HalfWord),
                         !.cap = @ - 2, !.lits = @ \union {[at |-> k, value |-> value]}]

(* Quarters that differ from the pc's; the others come with adr. *)
EmitQuarters(b, base, rd, value) ==
  LET pc == Rx(b, base)
      other == {i \in 0 .. 3 : QuarterOf(value, i) # QuarterOf(pc, i)}
      movk(x, i) == IF i \in other THEN Emit(x, AssembleMovk(rd, QuarterOf(value, i), i)) ELSE x
      start == IF other # 0 .. 3 THEN Emit(b, AssembleAdr("adr", rd, pc, pc)) ELSE b
  IN movk(movk(movk(movk(start, 0), 1), 2), 3)

EmitPaged(b, base, rd, value) ==
  LET paged == Emit(b, AssembleAdr("adrp", rd, Rx(b, base), PageOf(value)))
  IN IF PageOf(value) = value THEN paged ELSE Emit(paged, AssembleAdd(rd, value % PageSize))

EmitMovImmediate64(b, base, rd, value, canUseInstrAsData) ==
  LET pc == Rx(b, base)
  IN CASE Abs(Minus(pc, value)) <= MaxAdrDistance -> Emit(b, AssembleAdr("adr", rd, pc, value))
       [] /\ Abs(Minus(pc, value)) > MaxAdrDistance
          /\ Abs(Minus(PageOf(pc), PageOf(value))) \div PageSize <= MaxAdrDistance
            -> EmitPaged(b, base, rd, value)
       [] OTHER -> IF canUseInstrAsData THEN EmitLiteral(b, base, rd, value)
                                        ELSE EmitQuarters(b, base, rd, value)

EmitBranch(b, base, to, link, canUseInstrAsData) ==
  LET from == Rx(b, base)
  IN IF Abs(Minus(to, from)) <= MaxBranchDistance THEN Emit(b, MakeB(link, from, to))
     ELSE Emit(EmitMovImmediate64(b, base, IP0, to, canUseInstrAsData),
               Ins(IF link THEN "blr" ELSE "br", IP0, TRUE, 0, 0))

-----------------------------------------------------------------------------
Opposite(op) == CASE op = "bcond" -> "bcond" [] op = "cbz" -> "cbnz" [] op = "cbnz" -> "cbz"
                  [] op = "tbz" -> "tbnz" [] op = "tbnz" -> "tbz"

(* A defect: it jumps over one word, as if every branch were short. *)
RelocateConditionalShort(b, base, i, to) ==
  LET held == Emit(b, Zero)
      done == EmitBranch(held, base, to, FALSE, TRUE)
      over == AssembleRelative(Opposite(i.op), i.rd, TRUE,
                               IF i.op # "bcond" THEN i.aux ELSE IF i.aux % 2 = 0 THEN i.aux + 1 ELSE i.aux - 1,
                               Rx(b, base), Rx(b, base) + 8)
  IN IF done.ok /\ over # Refused THEN [done EXCEPT !.words[b.size] = over]
                                  ELSE [done EXCEPT !.ok = FALSE]

(* A conditional branch becomes its opposite, around a branch that may be  *)
(* long.  The register comes from grabRd, which is always an X register.   *)
RelocateConditional(b, base, i, to) ==
  LET held == Emit(b, Zero)
      done == EmitBranch(held, base, to, FALSE, TRUE)
      over == AssembleRelative(Opposite(i.op), i.rd, TRUE,
                               IF i.op # "bcond" THEN i.aux ELSE IF i.aux % 2 = 0 THEN i.aux + 1 ELSE i.aux - 1,
                               Rx(b, base), Rx(done, base))
  IN IF done.ok /\ over # Refused THEN [done EXCEPT !.words[b.size] = over]
                                  ELSE [done EXCEPT !.ok = FALSE]

(* The lambda relocate for the instruction i of address pc. *)
Relocated(b, base, i, pc) ==
  CASE i.op \in {"adr", "adrp"} -> EmitMovImmediate64(b, base, i.rd, AdrAddr(i, pc), TRUE)
    [] i.op \in Unconditional -> EmitBranch(b, base, BBLAddr(i, pc), i.op = "bl", TRUE)
    [] i.op \in Conditional -> RelocateConditional(b, base, i, CondAddr(i, pc))
    [] OTHER -> Emit(b, i)

-----------------------------------------------------------------------------
NumInstrs == branch.size
OrigAddr(k) == place.at + 4 * k
ReturnAddr == OrigAddr(NumInstrs)

Init ==
  /\ place \in Places
  /\ branch = Empty(N)
  /\ orig = <<>>
  /\ backup = Empty(Capacity)
  /\ skipReturn = FALSE
  /\ phase = "hook"

(* The branch to the hook; how many words it has says how many are copied. *)
MakeBranch ==
  /\ phase = "hook"
  /\ branch' = EmitBranch(branch, place.at, place.to, FALSE, FALSE)
  /\ phase' = IF branch'.ok THEN "copy" ELSE "halted"
  /\ UNCHANGED <<place, orig, backup, skipReturn>>

(* Nothing can follow a branch that does not come back, and a literal that *)
(* is loaded cannot be moved: both abort.                                  *)
CannotRelocate(i) ==
  \/ i.op = "ldr"
  \/ i.op \in Conditional \union {"b"} /\ Len(orig) + 1 # NumInstrs

Relocate(i) ==
  /\ phase = "copy" /\ Len(orig) < NumInstrs
  /\ ~CannotRelocate(i)
  /\ backup' = Relocated(backup, place.rx, i, OrigAddr(Len(orig)))
  /\ skipReturn' = (skipReturn \/ i.op = "b")
  /\ orig' = Append(orig, i)
  /\ phase' = IF backup'.ok THEN "copy" ELSE "halted"
  /\ UNCHANGED <<place, branch>>

Abort(i) ==
  /\ phase = "copy" /\ Len(orig) < NumInstrs
  /\ CannotRelocate(i)
  /\ phase' = "halted"
  /\ UNCHANGED <<place, branch, orig, backup, skipReturn>>

EmitReturn ==
  /\ phase = "copy" /\ Len(orig) = NumInstrs
  /\ backup' = IF skipReturn THEN backup ELSE EmitBranch(backup, place.rx, ReturnAddr, FALSE, TRUE)
  /\ phase' = IF backup'.ok THEN "made" ELSE "halted"
  /\ UNCHANGED <<place, branch, orig, skipReturn>>

Next ==
  \/ MakeBranch
  \/ \E i \in Originals : Relocate(i) \/ Abort(i)
  \/ EmitReturn

Spec == Init /\ [][Next]_vars

-----------------------------------------------------------------------------
(* What the hooked code has to be like for the backup to do the same.      *)

(* No displaced branch goes into the displaced words themselves. *)
Target(i, pc) ==
  CASE i.op \in Unconditional -> BBLAddr(i, pc)
    [] i.op \in Conditional -> CondAddr(i, pc)
    [] OTHER -> pc + 4
LeavesWindow(i, pc) ==
  i.op \in Unconditional \union Conditional =>
    Target(i, pc) \notin {OrigAddr(k) : k \in 0 .. NumInstrs - 1}

(* A compare-and-branch is about an X register. *)
ComparesWide(i) == i.op \in {"cbz", "cbnz"} => i.wide

(* It is not about the register that calls may change. *)
ComparesKept(i) == i.op \in Conditional \ {"bcond"} => i.rd # IP0

(* Not all of the words that a backup is meant for are calls or branches:  *)
(* if each needs a literal, the last instruction falls on a literal.       *)
LeavesRoom(i) ==
  Len(orig) = N - 1 =>
    \E k \in 1 .. N : Append(orig, i)[k].op \notin Unconditional \union Conditional

Suits(i) ==
  LeavesWindow(i, OrigAddr(Len(orig))) /\ ComparesWide(i) /\ ComparesKept(i) /\ LeavesRoom(i)

SuitedNext ==
  \/ MakeBranch
  \/ \E i \in Originals : Suits(i) /\ Relocate(i)
  \/ \E i \in Originals : Abort(i)
  \/ EmitReturn

SuitedSpec == Init /\ [][SuitedNext]_vars

-----------------------------------------------------------------------------
(* Properties *)

(* Buffers are filled within their capacity, and a literal is never put    *)
(* outside of the backup.                                                  *)
TypeOK ==
  /\ \A b \in {branch, backup} :
       /\ b.size \in 0 .. b.cap
       /\ \A l \in b.lits : l.at >= 0 /\ l.at + 1 < Capacity
  /\ Len(orig) <= N

(* The processor's state at an address, with given registers. *)
Entering(a, regs) == [pc |-> a, regs |-> regs, trace |-> <<>>, mode |-> "runs"]
Visible(s) == [s EXCEPT !.regs = [r \in Registers \ {IP0} |-> s.regs[r]]]

(* The displaced instructions, as words from 0. *)
Displaced == [k \in 0 .. NumInstrs - 1 |-> orig[k + 1]]

(* Entered with whatever registers and flags, the backup does what the     *)
(* displaced instructions did at their own place, calls the same functions *)
(* and goes on where they went on; only IP0, which calls may change, may   *)
(* differ.                                                                 *)
BackupRunsOriginal ==
  phase = "made" =>
    \A regs \in Valuations, flag \in BOOLEAN :
      Visible(Run(backup.words, Capacity, place.rx, Entering(place.rx, regs), flag))
        = Visible(Run(Displaced, NumInstrs, place.at, Entering(place.at, regs), flag))

(* Control that reaches the site goes to the hook, with all registers as   *)
(* they were but IP0.                                                      *)
BranchReachesHook ==
  phase = "made" =>
    \A regs \in Valuations :
      Visible(Run(branch.words, NumInstrs, place.at, Entering(place.at, regs), TRUE))
        = Visible(Entering(place.to, regs))

(* No instruction is written over a literal that an earlier one loads. *)
LiteralsSurvive ==
  phase # "halted" =>
    \A l \in backup.lits :
      /\ backup.words[l.at] = Data(l.value % HalfWord)
      /\ backup.words[l.at + 1] = Data(l.value \div HalfWord)
=============================================================================
