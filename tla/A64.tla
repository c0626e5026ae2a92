-------------------------------- MODULE A64 --------------------------------
(***************************************************************************)
(* The AArch64 instructions that LibHakkun takes apart and puts together:  *)
(* the fields of pc-relative instructions (hk/hook/a64/Instrs.h), their    *)
(* assembly from an address (hk/hook/a64/Assembler.h, hk/hook/InstrUtil.h) *)
(* and, as the reference, what the processor does with them.               *)
(*                                                                         *)
(* An instruction is a record of its fields; an immediate is the unsigned  *)
(* content of its field.  The widths are parameters, so that an instance   *)
(* with a small address space has every relation of reaches that 64-bit    *)
(* addresses have: 4 * Quarter stands for 64, PageBits for 12, AdrBits for *)
(* 21, BranchBits for 26, CondBits for 19 and TestBits for 14.             *)
(***************************************************************************)
EXTENDS Integers, Sequences

CONSTANTS Quarter, PageBits, AdrBits, BranchBits, CondBits, TestBits,
          Registers, IP0

ASSUME A64Assumption ==
  /\ {Quarter, PageBits, AdrBits, BranchBits, CondBits, TestBits} \subseteq Nat \ {0}
  /\ IP0 \in Registers

(* Two bits of an address count the bytes of an instruction; every field   *)
(* is narrower than the addresses it helps to find.                        *)
ASSUME WidthsAssumption ==
  /\ PageBits >= 2
  /\ PageBits + AdrBits <= 4 * Quarter
  /\ \A w \in {BranchBits, CondBits, TestBits} : w + 2 <= 4 * Quarter

(* What proofs need to know of powers of two.                              *)
ASSUME PowersAssumption ==
  /\ 2^1 = 2
  /\ \A m \in 0 .. 4 * Quarter :
       /\ 2^m \in Nat \ {0}
       /\ \A n \in 0 .. 4 * Quarter - m : 2^(m + n) = 2^m * 2^n

-----------------------------------------------------------------------------
(* Unsigned numbers of 64 bits.  Signed reads one as s64, Abs is the code's *)
(* abs of one that is passed as s64.                                        *)
Modulus == 2^(4 * Quarter)
HalfWord == 2^(2 * Quarter)
Plus(a, b) == (a + b) % Modulus
Minus(a, b) == (a - b) % Modulus
Signed(d) == IF d < Modulus \div 2 THEN d ELSE d - Modulus
Abs(d) == IF Signed(d) < 0 THEN -Signed(d) ELSE Signed(d)

PageSize == 2^PageBits
PageOf(a) == a - (a % PageSize)
QuarterOf(v, i) == (v \div 2^(i * Quarter)) % 2^Quarter

(* Sign extension by exclusive or with the sign bit and subtraction. *)
SignExtend(v, w) ==
  LET mask == 2^(w - 1) IN (IF v < mask THEN v + mask ELSE v - mask) - mask

(* What IntBuilder::set leaves of a value in a field of w bits. *)
Field(v, w) == v % 2^w

(* canBeImm<true, w, 1>: the value or its complement fits in w bits.  The  *)
(* field is signed, so this is twice the reach of the instruction.         *)
CanBeImmNeg(w, v) == v < 2^w \/ Modulus - 1 - v < 2^w

-----------------------------------------------------------------------------
(* rd: the register the instruction is about; wide: X rather than W; aux:  *)
(* condition, bit number, quarter, or the name of a plain instruction.     *)
Ins(op, rd, wide, imm, aux) ==
  [op |-> op, rd |-> rd, wide |-> wide, imm |-> imm, aux |-> aux]

Zero == Ins("data", IP0, TRUE, 0, 0)
Data(v) == [Zero EXCEPT !.imm = v]

Unconditional == {"b", "bl"}
Conditional == {"bcond", "cbz", "cbnz", "tbz", "tbnz"}

(* Addresses that instructions refer to, as Instrs.h computes them. *)
AdrAddr(i, pc) ==
  IF i.op = "adrp" THEN Plus(PageOf(pc), SignExtend(i.imm, AdrBits) * PageSize)
                   ELSE Plus(pc, SignExtend(i.imm, AdrBits))
BBLAddr(i, pc) == Plus(pc, 4 * SignExtend(i.imm, BranchBits))
RelativeAddr(i, pc) == Plus(pc, 4 * SignExtend(i.imm, CondBits))
TbzAddr(i, pc) == Plus(pc, 4 * SignExtend(i.imm, TestBits))
CondAddr(i, pc) == IF i.op \in {"tbz", "tbnz"} THEN TbzAddr(i, pc) ELSE RelativeAddr(i, pc)

-----------------------------------------------------------------------------
(* Assembly.  Refused stands for an abort. *)
Refused == Ins("refused", IP0, TRUE, 0, 0)

AssembleAdr(op, rd, pc, target) ==
  LET base == IF op = "adrp" THEN PageOf(pc) ELSE pc
      diff == Minus(target, base)
      diffImm == IF op = "adrp" THEN (Signed(diff) \div PageSize) % Modulus ELSE diff
  IN IF (op = "adrp" => PageOf(target) = target) /\ CanBeImmNeg(AdrBits, diffImm)
       THEN Ins(op, rd, TRUE, Field(diffImm, AdrBits), 0)
       ELSE Refused

(* Conditional branches and loads of a literal.  The difference is divided *)
(* as an unsigned number: only a target that lies ahead is accepted.       *)
AssembleRelative(op, rd, wide, aux, pc, target) ==
  LET width == IF op \in {"tbz", "tbnz"} THEN TestBits ELSE CondBits
      diff == Minus(target, pc - (pc % 4)) \div 4
  IN IF CanBeImmNeg(width, diff) THEN Ins(op, rd, wide, Field(diff, width), aux)
                                 ELSE Refused

AssembleAdd(rd, v) == Ins("add", rd, TRUE, v, 0)
AssembleMovk(rd, v, q) == Ins("movk", rd, TRUE, v, q)

MakeB(link, pc, target) ==
  Ins(IF link THEN "bl" ELSE "b", IP0, TRUE, Field(Signed(Minus(target, pc)) \div 4, BranchBits), 0)
(* A defect: the distance that is one too far ahead. *)
MaxBranchDistanceAhead == 2 * 2^BranchBits
MaxBranchDistance == 2 * 2^BranchBits - 1
MaxAdrDistance == 2^(AdrBits - 1) - 1

-----------------------------------------------------------------------------
(* The processor.  A state has the program counter, the registers and what *)
(* was done so far that others can see: plain instructions and calls.  A   *)
(* call comes back to the next instruction.  flag is condition 0; an odd   *)
(* condition is the opposite of the even one before it.  Executing data is *)
(* a fault.                                                                *)
Tested(i, regs, flag) ==
  LET v == regs[i.rd]
      zero == (IF i.wide THEN v ELSE v % HalfWord) = 0
      clear == (v \div 2^i.aux) % 2 = 0
  IN CASE i.op = "bcond" -> flag = (i.aux % 2 = 0)
       [] i.op = "cbz" -> zero
       [] i.op = "cbnz" -> ~zero
       [] i.op = "tbz" -> clear
       [] i.op = "tbnz" -> ~clear

Effect(i, literal, s, flag) ==
  LET next == [s EXCEPT !.pc = Plus(s.pc, 4)]
      sets(v) == [next EXCEPT !.regs[i.rd] = v]
      does(what) == [next EXCEPT !.trace = Append(@, what)]
      old == s.regs[i.rd]
  IN CASE i.op \in {"adr", "adrp"} -> sets(AdrAddr(i, s.pc))
       [] i.op = "add" -> sets(Plus(old, i.imm))
       [] i.op = "movk" -> sets(old + (i.imm - QuarterOf(old, i.aux)) * 2^(i.aux * Quarter))
       [] i.op = "ldr" -> sets(literal[RelativeAddr(i, s.pc)])
       [] i.op = "b" -> [s EXCEPT !.pc = BBLAddr(i, s.pc)]
       [] i.op = "bl" -> does(BBLAddr(i, s.pc))
       [] i.op = "br" -> [s EXCEPT !.pc = old]
       [] i.op = "blr" -> does(old)
       [] i.op \in Conditional ->
            IF Tested(i, s.regs, flag) THEN [s EXCEPT !.pc = CondAddr(i, s.pc)] ELSE next
       [] i.op = "plain" -> does(i.aux)
       [] OTHER -> [s EXCEPT !.mode = "fault"]

(* The words that are run are n words at base.  Literals gives the 64-bit  *)
(* value at an address among them.                                         *)
Literals(words, n, base) ==
  [a \in {base + 4 * k : k \in 0 .. n - 2} |->
     LET k == (a - base) \div 4 IN words[k].imm + HalfWord * words[k + 1].imm]
Inside(n, base, s) == s.mode = "runs" /\ s.pc \in base .. base + 4 * n - 1 /\ (s.pc - base) % 4 = 0
Step(words, n, base, s, flag) ==
  IF Inside(n, base, s)
    THEN Effect(words[(s.pc - base) \div 4], Literals(words, n, base), s, flag)
    ELSE s

(* From state s until control leaves the words. *)
Run(words, n, base, s, flag) ==
  LET run[fuel \in 0 .. n + 1] ==
        IF fuel = 0 THEN s ELSE Step(words, n, base, run[fuel - 1], flag)
  IN run[n + 1]
=============================================================================
