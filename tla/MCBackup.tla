------------------------------ MODULE MCBackup ------------------------------
(***************************************************************************)
(* Addresses of 16 bits: adr reaches 64 bytes, a branch 512, adrp 63 pages *)
(* of 32 bytes.  The places put the site on either side of each of these   *)
(* limits from the backup and from the hook.                               *)
(***************************************************************************)
EXTENDS Backup

Place(at, rx, to) == [at |-> at, rx |-> rx, to |-> to]

MCPlaces == {
  Place(33200, 32768, 32868),   \* all near
  Place(32260, 32768, 32768),   \* the last branch back that is short
  Place(32256, 32768, 32768),   \* one word further
  Place(31000, 32768, 32868),   \* within reach of adrp
  Place(34784, 32768, 32772),   \* at the end of that reach
  Place(34820, 32768, 32768),   \* beyond it
  Place(35396, 32768, 33040),   \* beyond it, one quarter in common
  Place(4660, 32768, 43980)     \* far away in every quarter
}

I(op, rd, wide, imm, aux) == Ins(op, rd, wide, imm, aux)

MCOriginals == {
  I("plain", "x0", TRUE, 0, 7),
  I("adr", "x0", TRUE, 127, 0), I("adrp", "x1", TRUE, 64, 0), I("bl", "x0", TRUE, 5, 0),
  I("bl", "x0", TRUE, 127, 0), I("b", "x0", TRUE, 128, 0),
  I("bcond", "x0", TRUE, 31, 0), I("bcond", "x0", TRUE, 32, 1),
  I("cbz", "x0", TRUE, 40, 0), I("cbnz", "x1", TRUE, 9, 0), I("cbz", "x0", FALSE, 9, 0),
  I("tbz", "x0", TRUE, 16, 8), I("tbnz", "x1", TRUE, 31, 0),
  I("ldr", "x0", TRUE, 4, 0)
}

(* Registers that are zero, that are zero in one half, and that are not. *)
Filled(x0, x1) == [r \in Registers |-> IF r = "x0" THEN x0 ELSE IF r = "x1" THEN x1 ELSE 0]
MCValuations == {Filled(0, 1), Filled(1, 0), Filled(256, 258), Filled(258, 256)}
=============================================================================
