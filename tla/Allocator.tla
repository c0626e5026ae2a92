----------------------------- MODULE Allocator -----------------------------
(***************************************************************************)
(* What a heap over an arena promises: the blocks it has handed out lie    *)
(* inside the arena and apart from each other; every operation touches the *)
(* block it is called for and no other.  Nothing is said about where a     *)
(* block is put, nor when a request is refused.                            *)
(***************************************************************************)
EXTENDS Integers

CONSTANTS
  Requests,     (* sizes a client may ask for                              *)
  Alignments    (* alignments it may ask for, negative ones included       *)

VARIABLES
  arena,   (* [start, stop) the heap may hand out, or NoArena              *)
  blocks   (* the blocks handed out: [ptr, size]                           *)

allocatorVars == <<arena, blocks>>

NoArena == [start |-> 0, stop |-> 0]

Apart(b, c) == b.ptr + b.size <= c.ptr \/ c.ptr + c.size <= b.ptr
Inside(b) == arena.start <= b.ptr /\ b.ptr + b.size <= arena.stop

Magnitude(n) == IF n < 0 THEN -n ELSE n

Init == arena = NoArena /\ blocks = {}

(* A new arena: whatever was handed out is void. *)
Open ==
  /\ blocks' = {}
  /\ arena'.start <= arena'.stop

Obtain(n, al) ==
  /\ \E b \in blocks' :
       /\ b \notin blocks
       /\ blocks' = blocks \union {b}
       /\ b.size >= n
       /\ b.ptr % Magnitude(al) = 0
       /\ Inside(b)
       /\ \A c \in blocks : Apart(b, c)
  /\ UNCHANGED arena

Release(b) == blocks' = blocks \ {b} /\ UNCHANGED arena

(* A block is resized, in place or by moving it. *)
Replace(b, n) ==
  /\ \E c \in blocks' :
       /\ blocks' = (blocks \ {b}) \union {c}
       /\ c.size >= n
       /\ Inside(c)
       /\ \A d \in blocks \ {b} : Apart(c, d)
  /\ UNCHANGED arena

(* The arena gives up its end, none of which was handed out. *)
Trim ==
  /\ arena'.start = arena.start
  /\ arena'.stop <= arena.stop
  /\ \A b \in blocks : b.ptr + b.size <= arena'.stop
  /\ UNCHANGED blocks

Next ==
  \/ Open
  \/ \E n \in Requests, al \in Alignments : Obtain(n, al)
  \/ \E b \in blocks : Release(b)
  \/ \E b \in blocks, n \in Requests : Replace(b, n)
  \/ Trim

Spec == Init /\ [][Next]_allocatorVars
=============================================================================
