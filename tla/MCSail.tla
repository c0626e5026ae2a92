------------------------------- MODULE MCSail -------------------------------
(***************************************************************************)
(* A game and its SDK in three builds, one of them unknown to the database *)
(* except by name, and entries of every kind that refer to one another.    *)
(* Names are numbers, as their hashes are.                                 *)
(***************************************************************************)
EXTENDS Sail, TLC

NoBlocks == [nop |-> {}, code |-> {}, rare |-> {}]

Rtld == [build |-> "r", name |-> "nnrtld", start |-> 100, text |-> 8, rodata |-> 4, data |-> 4,
         exports |-> [x \in {} |-> 0], blocks |-> NoBlocks, globals |-> [x \in {} |-> 0]]

Game(build, code, globals) ==
  [build |-> build, name |-> "game", start |-> 200, text |-> 16, rodata |-> 8, data |-> 8,
   exports |-> ("_Z1f" :> 5), globals |-> globals,
   blocks |-> [nop |-> {204, 212}, code |-> code, rare |-> {}]]

Sdk(build) ==
  [build |-> build, name |-> "nnSdk", start |-> 300, text |-> 8, rodata |-> 8, data |-> 8,
   exports |-> ("_Z1f" :> 1 @@ "_Z1g" :> 2), globals |-> [x \in {} |-> 0], blocks |-> NoBlocks]

MCPrograms ==
  { <<Rtld, Game("g100", {208}, 208 :> 228), Sdk("s100")>>,
    <<Rtld, Game("g110", {212, 217}, 212 :> 229), Sdk("s110")>>,
    <<Rtld, Game("g999", {212}, 212 :> 230), Sdk("s110")>> }

MCListed == << [builds |-> <<"g100", "g110", "g120">>, name |-> "game"],
               [builds |-> <<"s100", "s110">>, name |-> "nnSdk"] >>

Immediate(versions, offset) ==
  [type |-> "Immediate", name |-> 1, module |-> 1, versions |-> versions, offset |-> offset]

Block(name, block, limit, boundary, v, offset) ==
  [type |-> "DataBlock", name |-> name, module |-> 1, block |-> block, limit |-> limit,
   length |-> 1, boundary |-> boundary, version |-> v, offset |-> offset]

MCSymbols ==
  [cool    |-> [type |-> "MultipleCandidate", name |-> 1,
                candidates |-> <<"coolAny", "cool100", "cool110">>],
   coolAny |-> Block(1, "nop", "text", "None", 1, 0),
   cool100 |-> Immediate({1}, 3),
   cool110 |-> Immediate({2, 3}, 7),
   sdk     |-> [type |-> "Dynamic", name |-> 2, export |-> "_Z1f"],
   newer   |-> Block(3, "nop", "all", "From", 2, -2),
   near    |-> [type |-> "Arithmetic", name |-> 4, source |-> 1, addend |-> 4],
   global  |-> [type |-> "ReadADRPGlobal", name |-> 5, source |-> 6],
   instr   |-> Block(6, "code", "text", "None", 1, 0),
   nearer  |-> [type |-> "Arithmetic", name |-> 7, source |-> 4, addend |-> -1],
   pick    |-> [type |-> "MultipleCandidate", name |-> 9,
                candidates |-> <<"pickRare", "pickOld", "pickNone", "pickNear">>],
   pickRare |-> Block(9, "rare", "data", "None", 1, 0),
   pickOld  |-> Block(9, "nop", "text", "From", 3, 0),
   pickNone |-> [type |-> "Dynamic", name |-> 9, export |-> "_Z1h"],
   pickNear |-> [type |-> "Arithmetic", name |-> 9, source |-> 2, addend |-> 1],
   only120 |-> [Immediate({3}, 9) EXCEPT !.name = 8]]

MCTable == <<"cool", "sdk", "newer", "near", "global", "instr", "nearer", "only120", "pick">>

(* No entry refers to others more than three deep. *)
Round(p, meaning) == [id \in Ids |-> Definition(p, id, meaning)]
MCMeaning ==
  [p \in Programs |-> Round(p, Round(p, Round(p, Round(p, [id \in Ids |-> 0]))))]

Reference(name, weak) == [name |-> name, weak |-> weak]
MCImports == <<Reference(3, FALSE), Reference(10, TRUE), Reference(5, FALSE), Reference(9, FALSE)>>
MCWanted == {7, 8, 10}

(***************************************************************************)
(* A data block for versions before the second, as in the README's example *)
(* of the language.                                                        *)
(***************************************************************************)
OlderSymbols == [older |-> Block(1, "nop", "text", "Older", 2, 0)]
OlderTable == <<"older">>
OlderImports == <<Reference(1, FALSE)>>
OlderWanted == {1}
=============================================================================
