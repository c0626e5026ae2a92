------------------------------ MODULE ExpHeap ------------------------------
(***************************************************************************)
(* The arena heap of the ExpHeap addon: hk::mem::ExpHeap over ams::lmem's  *)
(* expanded heap (lmem_impl_exp_heap.cpp), with the sizes of its headers.  *)
(*                                                                         *)
(* Blocks lie behind a header of 32 bytes.  Free blocks form a list sorted *)
(* by address; of used blocks only their set is kept, the list's order     *)
(* being visible to forEachAllocation alone.  Group ids and the fill       *)
(* patterns are left out.  The heap is used by one thread: the wrapper     *)
(* creates it without CreateOption_ThreadSafe, so nothing locks it.        *)
(***************************************************************************)
EXTENDS Integers, Sequences, FiniteSets

CONSTANTS
  Arenas,      (* arguments of initialize: [addr, size]                    *)
  Sizes,       (* sizes asked for                                          *)
  Alignments,  (* alignments asked for                                     *)
  SizeMod      (* 2^64: the width of size_t                                *)

Magnitude(n) == IF n < 0 THEN -n ELSE n

(* An address of an arena, rounded up to an alignment, is still an address: *)
(* alignments are of 32 bits, and the address space ends far below 2^64.    *)
ASSUME ExpHeapAssumption ==
  /\ SizeMod \in Nat /\ SizeMod > 4 /\ SizeMod % 4 = 0
  /\ Sizes \subseteq 0 .. SizeMod - 1
  /\ Alignments \subseteq Int
  /\ Arenas \subseteq [addr : Nat, size : Nat]
  /\ \A a \in Arenas :
       /\ a.addr + a.size < SizeMod
       /\ \A al \in Alignments : a.addr + a.size + Magnitude(al) <= SizeMod

VARIABLES
  heap,     (* the heap behind mHeapHandle                                 *)
  aborted   (* "no", or the failed assertion that ended the process        *)

vars == <<heap, aborted>>

HeapHeadSize == 104          (* sizeof(HeapHead)                           *)
BlockHead == 32              (* sizeof(ExpHeapMemoryBlockHead)             *)
MinimumAlignment == 4
MaximumPaddingalignment == 128
MinimumFreeBlockSize == 4

NoHeap == [start |-> 0, stop |-> 0, free |-> <<>>, used |-> {},
           mode |-> "FirstFit", margins |-> FALSE]

AlignUp(a, n) == ((a + n - 1) \div n) * n
AlignDown(a, n) == (a \div n) * n

(* Rounding a size up to the minimum alignment wraps around. *)
RoundedSize(n) == AlignUp(n, MinimumAlignment) % SizeMod

Pointer(b) == b.at + BlockHead
BlockEnd(b) == Pointer(b) + b.size

Region(start, stop) == [start |-> start, stop |-> stop]
Length(r) == r.stop - r.start

(* A defect: room for a header is enough (Nintendo's test, by the code's    *)
(* own note).                                                              *)
HoldsHeader(r) == Length(r) >= BlockHead

HoldsBlock(r) == Length(r) >= BlockHead + MinimumFreeBlockSize

FreeBlock(r) == [at |-> r.start, size |-> (r.stop - r.start - BlockHead) % SizeMod]

(* GetMemoryBlockRegion of a used block: its padding goes with it. *)
UsedRegion(b) == Region(b.at - b.pad, BlockEnd(b))

-----------------------------------------------------------------------------
(***************************************************************************)
(* CoalesceFreedRegion.  The free blocks below the region come first; the  *)
(* last of them and the first of the others may touch it.                  *)
(***************************************************************************)
Below(list, a) == Cardinality({i \in DOMAIN list : list[i].at < a})

(* A defect: the new block goes to the end of the list. *)
InsertedLast(before, new, after) == before \o after \o <<new>>

Inserted(before, new, after) == before \o <<new>> \o after

(* A defect: a free block that ends at the region is not merged with it. *)
CoalesceForwardOnly(list, region) ==
  LET k == Below(list, region.start)
      joinsNext == k < Len(list) /\ list[k + 1].at = region.stop
      whole == Region(region.start,
                      IF joinsNext THEN BlockEnd(list[k + 1]) ELSE region.stop)
      rest == SubSeq(list, IF joinsNext THEN k + 2 ELSE k + 1, Len(list))
  IN  IF HoldsBlock(whole)
      THEN [ok |-> TRUE, list |-> Inserted(SubSeq(list, 1, k), FreeBlock(whole), rest)]
      ELSE [ok |-> FALSE, list |-> SubSeq(list, 1, k) \o rest]

Coalesce(list, region) ==
  LET k == Below(list, region.start)
      joinsPrev == k > 0 /\ BlockEnd(list[k]) = region.start
      joinsNext == k < Len(list) /\ list[k + 1].at = region.stop
      whole == Region(IF joinsPrev THEN list[k].at ELSE region.start,
                      IF joinsNext THEN BlockEnd(list[k + 1]) ELSE region.stop)
      before == SubSeq(list, 1, IF joinsPrev THEN k - 1 ELSE k)
      after == SubSeq(list, IF joinsNext THEN k + 2 ELSE k + 1, Len(list))
  IN  IF HoldsBlock(whole)
      THEN [ok |-> TRUE, list |-> Inserted(before, FreeBlock(whole), after)]
      ELSE [ok |-> FALSE, list |-> before \o after]

(***************************************************************************)
(* ConvertFreeBlockToUsedBlock: the i-th free block gives "size" bytes at  *)
(* "block".  What is left in front becomes a block or the padding of the   *)
(* new one; what is left behind becomes a block or is lost.                *)
(***************************************************************************)
MayKeep(h, r, direction, side) ==
  /\ HoldsBlock(r)
  /\ direction = side /\ ~h.margins => Length(r) >= MaximumPaddingalignment

KeptBlock(h, r, direction, side) ==
  IF MayKeep(h, r, direction, side) THEN <<FreeBlock(r)>> ELSE <<>>

ConvertFreeBlockToUsedBlock(h, i, block, size, direction) ==
  LET front == Region(h.free[i].at, block - BlockHead)
      back == Region((block + size) % SizeMod, BlockEnd(h.free[i]))
      padding == IF MayKeep(h, front, direction, "Front") THEN 0 ELSE Length(front)
  IN  [h EXCEPT
         !.free = SubSeq(@, 1, i - 1)
                    \o KeptBlock(h, front, direction, "Front")
                    \o KeptBlock(h, back, direction, "Back")
                    \o SubSeq(@, i + 1, Len(@)),
         !.used = @ \union {[at |-> block - BlockHead, size |-> size,
                             pad |-> padding % 128, dir |-> direction]}]

(***************************************************************************)
(* AllocateFromHead and AllocateFromTail: the search runs from either end  *)
(* of the list; the address inside the block is rounded up both times.     *)
(* The size and what rounding up costs are added in size_t: the sum of a   *)
(* size near 2^64 wraps around and fits any block.                         *)
(***************************************************************************)
BlockStart(b, al) == AlignUp(Pointer(b), al)
BlockOffset(b, al) == BlockStart(b, al) - Pointer(b)

Fitting(h, size, al) ==
  {i \in DOMAIN h.free : h.free[i].size >= (size + BlockOffset(h.free[i], al)) % SizeMod}

Earlier(i, j, direction) == IF direction = "Front" THEN i < j ELSE i > j

Chosen(h, S, direction) ==
  CHOOSE i \in S : \A j \in S \ {i} :
    \/ h.mode = "BestFit" /\ h.free[i].size < h.free[j].size
    \/ /\ h.mode = "FirstFit" \/ h.free[i].size = h.free[j].size
       /\ Earlier(i, j, direction)

(* A defect: the alignment is not considered when looking for a block. *)
AllocateFromIgnoringOffset(h, size, al, direction) ==
  LET S == {i \in DOMAIN h.free : h.free[i].size >= size}
      i == Chosen(h, S, direction)
      block == BlockStart(h.free[i], al)
  IN  IF S = {} THEN [heap |-> h, ptr |-> 0]
      ELSE [heap |-> ConvertFreeBlockToUsedBlock(h, i, block, size, direction),
            ptr |-> block]

AllocateFrom(h, size, al, direction) ==
  LET S == Fitting(h, size, al)
      i == Chosen(h, S, direction)
      block == BlockStart(h.free[i], al)
  IN  IF S = {} THEN [heap |-> h, ptr |-> 0]
      ELSE [heap |-> ConvertFreeBlockToUsedBlock(h, i, block, size, direction),
            ptr |-> block]

(* n & (n - 1) is zero: no odd number but 1 divides n. *)
IsPowerOfTwo(n) == n > 0 /\ \A d \in 2 .. n : n % d = 0 => d % 2 = 0

(* AllocateFromExpHeap asserts the alignment it has rounded up to 4. *)
Widened(al) == IF Magnitude(al) \in {1, 2} THEN MinimumAlignment ELSE Magnitude(al)
ValidAlignment(al) == IsPowerOfTwo(Widened(al)) /\ MinimumAlignment <= Widened(al)

(* A defect: nothing is done about a size of zero. *)
AllocateFromExpHeapAsAsked(h, size, al) ==
  AllocateFrom(h, RoundedSize(size), Widened(al), IF al >= 0 THEN "Front" ELSE "Back")

AllocateFromExpHeap(h, size, al) ==
  AllocateFrom(h, RoundedSize(IF size = 0 THEN 1 ELSE size), Widened(al),
               IF al >= 0 THEN "Front" ELSE "Back")

-----------------------------------------------------------------------------
(***************************************************************************)
(* FreeToExpHeap and ResizeExpHeapMemoryBlock, for a block b of the used   *)
(* list.                                                                   *)
(***************************************************************************)
IsValidUsedMemoryBlock(h, b) ==
  /\ h.start <= Pointer(b) /\ Pointer(b) < h.stop
  /\ b \in h.used
  /\ BlockEnd(b) % SizeMod <= h.stop

(* A defect: the padding in front of the block stays behind. *)
FreeWithoutPadding(h, b) ==
  LET c == Coalesce(h.free, Region(b.at, BlockEnd(b)))
  IN  [ok |-> c.ok, heap |-> [h EXCEPT !.used = @ \ {b}, !.free = c.list]]

FreeToExpHeap(h, b) ==
  LET c == Coalesce(h.free, UsedRegion(b))
  IN  [ok |-> c.ok, heap |-> [h EXCEPT !.used = @ \ {b}, !.free = c.list]]

WithSize(h, b, size) == [h EXCEPT !.used = (@ \ {b}) \union {[b EXCEPT !.size = size]}]

(* A defect: the header of the block grown into is not counted. *)
GrowTooFar(h, b, size) ==
  LET next == {i \in DOMAIN h.free : h.free[i].at = BlockEnd(b)}
      i == CHOOSE i \in next : TRUE
  IN  IF next = {} \/ size > b.size + 2 * BlockHead + h.free[i].size
      THEN [heap |-> h, size |-> 0]
      ELSE [heap |-> [WithSize(h, b, size) EXCEPT
                        !.free = SubSeq(@, 1, i - 1) \o SubSeq(@, i + 1, Len(@))],
            size |-> size]

(* The free block behind b is taken over; a rest too small for a block of   *)
(* its own goes to b.                                                      *)
Grow(h, b, size) ==
  LET next == {i \in DOMAIN h.free : h.free[i].at = BlockEnd(b)}
      i == CHOOSE i \in next : TRUE
      rest == Region(Pointer(b) + size, BlockEnd(h.free[i]))
      taken == IF HoldsBlock(rest) THEN size ELSE rest.stop - Pointer(b)
      kept == IF HoldsBlock(rest) THEN <<FreeBlock(rest)>> ELSE <<>>
  IN  IF next = {} \/ size > b.size + BlockHead + h.free[i].size
      THEN [heap |-> h, size |-> 0]
      ELSE [heap |-> [WithSize(h, b, taken) EXCEPT
                        !.free = SubSeq(@, 1, i - 1) \o kept \o SubSeq(@, i + 1, Len(@))],
            size |-> taken]

(* The end of b is freed, unless it is too small for a block. *)
Shrink(h, b, size) ==
  LET c == Coalesce(h.free, Region(Pointer(b) + size, BlockEnd(b)))
      left == IF c.ok THEN size ELSE b.size
  IN  [heap |-> [WithSize(h, b, left) EXCEPT !.free = c.list], size |-> left]

ResizeExpHeapMemoryBlock(h, b, size) ==
  LET n == RoundedSize(size)
  IN  CASE n = b.size -> [heap |-> h, size |-> n]
        [] n > b.size -> Grow(h, b, n)
        [] n < b.size -> Shrink(h, b, n)

-----------------------------------------------------------------------------
(* The operations of hk::mem::ExpHeap. *)
Abort(why) == aborted' = why /\ UNCHANGED heap
Running == aborted = "no"

(* ams::lmem's calls read the options of the heap behind the handle. *)
NoHandle == heap = NoHeap /\ Abort("null handle")

(* CreateExpHeap asks for room for a block, not for the heap's own header. *)
CreateExpHeap(a) ==
  LET from == AlignUp(a.addr, MinimumAlignment)
      to == AlignDown(a.addr + a.size, MinimumAlignment)
      start == from + HeapHeadSize
  IN  IF from > to \/ ~HoldsBlock(Region(from, to))
      THEN NoHeap
      ELSE [NoHeap EXCEPT !.start = start, !.stop = to,
                          !.free = <<FreeBlock(Region(start, to))>>]

Initialize(a) ==
  /\ Running
  /\ heap' = CreateExpHeap(a)
  /\ UNCHANGED aborted

Destroy ==
  /\ Running
  /\ heap' = NoHeap
  /\ UNCHANGED aborted

Adjusted(h) ==
  LET last == h.free[Len(h.free)]
  IN  IF h.free = <<>> \/ BlockEnd(last) # h.stop
      THEN h
      ELSE [h EXCEPT !.free = SubSeq(@, 1, Len(@) - 1),
                     !.stop = @ - (last.size + BlockHead)]

Adjust ==
  /\ Running
  /\ \/ NoHandle
     \/ /\ heap # NoHeap
        /\ heap' = Adjusted(heap)
        /\ UNCHANGED aborted

Allocate(size, al) ==
  /\ Running
  /\ \/ NoHandle
     \/ heap # NoHeap /\ ~ValidAlignment(al) /\ Abort("alignment")
     \/ /\ heap # NoHeap /\ ValidAlignment(al)
        /\ heap' = AllocateFromExpHeap(heap, size, al).heap
        /\ UNCHANGED aborted

FreeIn(h, b) ==
  LET freed == FreeToExpHeap(h, b)
  IN  IF ~IsValidUsedMemoryBlock(h, b) THEN Abort("not a used block")
      ELSE IF ~freed.ok THEN Abort("not coalesced")
      ELSE heap' = freed.heap /\ UNCHANGED aborted

Free(b) ==
  /\ Running
  /\ \/ NoHandle
     \/ heap # NoHeap /\ FreeIn(heap, b)

(***************************************************************************)
(* reallocate.  A resize to nothing succeeds and still counts as failed.   *)
(***************************************************************************)
Reallocate(b, size) ==
  LET resized == ResizeExpHeapMemoryBlock(heap, b, size)
      moved == AllocateFromExpHeap(resized.heap, size, MinimumAlignment)
      old == CHOOSE c \in moved.heap.used : c.at = b.at
  IN  /\ Running
      /\ heap # NoHeap
      /\ IF ~IsValidUsedMemoryBlock(heap, b) THEN Abort("not a used block")
         ELSE IF resized.size > 0 THEN heap' = resized.heap /\ UNCHANGED aborted
         ELSE IF moved.ptr = 0 THEN heap' = moved.heap /\ UNCHANGED aborted
         ELSE FreeIn(moved.heap, old)

SetAllocationMode(mode) ==
  /\ Running
  /\ \/ NoHandle
     \/ heap # NoHeap /\ heap' = [heap EXCEPT !.mode = mode] /\ UNCHANGED aborted

(* ams::lmem only: hk::mem::ExpHeap leaves the margins off. *)
SetUseMarginsOfAlignment(use) ==
  /\ Running
  /\ heap # NoHeap
  /\ heap' = [heap EXCEPT !.margins = use]
  /\ UNCHANGED aborted

(* getFreeSize and getAllocatableSize *)
AllocatableIn(b, al) ==
  IF BlockStart(b, al) < BlockEnd(b) THEN BlockEnd(b) - BlockStart(b, al) ELSE 0

AllocatableSize(h, al) ==
  LET found == {0} \union {AllocatableIn(h.free[i], al) : i \in DOMAIN h.free}
  IN  CHOOSE n \in found : \A m \in found : m <= n

Init == heap = NoHeap /\ aborted = "no"

Modes == {"FirstFit", "BestFit"}

(***************************************************************************)
(* The clients the guarantees are about: they give the heap an arena with  *)
(* room for its headers, use it only then, free blocks of theirs, never    *)
(* resize one to nothing, and never ask for so many bytes that rounding    *)
(* them up, or adding what the alignment may cost, exceeds size_t.         *)
(***************************************************************************)
ProperArena(a) ==
  HoldsBlock(Region(AlignUp(a.addr, MinimumAlignment) + HeapHeadSize,
                    AlignDown(a.addr + a.size, MinimumAlignment)))

ProperRequest(n, al) == n + Widened(al) < SizeMod

DisciplinedNext ==
  \/ \E a \in Arenas : ProperArena(a) /\ Initialize(a)
  \/ /\ heap # NoHeap
     /\ \/ Destroy
        \/ Adjust
        \/ \E n \in Sizes, al \in Alignments :
             ValidAlignment(al) /\ ProperRequest(n, al) /\ Allocate(n, al)
        \/ \E b \in heap.used : Free(b)
        \/ \E b \in heap.used, n \in Sizes \ {0} :
             ProperRequest(n, MinimumAlignment) /\ Reallocate(b, n)
        \/ \E m \in Modes : SetAllocationMode(m)
        \/ \E use \in BOOLEAN : SetUseMarginsOfAlignment(use)

DisciplinedSpec == Init /\ [][DisciplinedNext]_vars

-----------------------------------------------------------------------------
ToRange(s) == {s[i] : i \in DOMAIN s}

FreeRegions == {Region(b.at, BlockEnd(b)) : b \in ToRange(heap.free)}
UsedRegions == {UsedRegion(b) : b \in heap.used}

Word(n) == n % MinimumAlignment = 0

(* Every block is word-aligned, holds at least the minimum, lies inside the *)
(* heap as far as it is used, and its padding fits the seven bits its       *)
(* header has for it (lmem_impl_exp_heap.cpp, SetMemoryBlockAlignmentPadding). *)
TypeOK ==
  /\ heap.start \in Nat /\ heap.stop \in Nat /\ heap.start <= heap.stop
  /\ heap.mode \in Modes /\ heap.margins \in BOOLEAN
  /\ \A b \in heap.used \union ToRange(heap.free) :
       /\ Word(b.at) /\ Word(b.size) /\ b.size >= MinimumFreeBlockSize
       /\ heap.start <= b.at /\ BlockEnd(b) <= heap.stop
  /\ \A b \in heap.used : b.pad \in 0 .. MaximumPaddingalignment - 1 /\ b.dir \in {"Front", "Back"}
  /\ aborted \in {"no", "null handle", "alignment", "not a used block", "not coalesced"}

(* No two blocks, with their headers and paddings, share a byte, and the    *)
(* free list is sorted by address, as CoalesceFreedRegion's search, Adjust's *)
(* look at its last element and the tail allocation rely on.               *)
Layout ==
  /\ \A r, s \in FreeRegions \union UsedRegions : r # s => r.stop <= s.start \/ s.stop <= r.start
  /\ Cardinality(FreeRegions \union UsedRegions) = Len(heap.free) + Cardinality(heap.used)
  /\ \A i \in 1 .. Len(heap.free) - 1 : heap.free[i].at < heap.free[i + 1].at

(* Free neighbours are always merged: whatever was freed, shrunk, grown into *)
(* or split off, no free block ends where another begins.                  *)
NoFreeNeighbours ==
  \A i \in 1 .. Len(heap.free) - 1 : BlockEnd(heap.free[i]) # heap.free[i + 1].at

(* No assertion of the heap fails for a disciplined client; in particular   *)
(* a freed region always has room for a block (HK_ASSERT(coalesced)).      *)
NoAssertionFails == aborted = "no"

(* The answer of GetExpHeapAllocatableSize can be relied on, for every      *)
(* alignment, mode and direction: a request is refused exactly if it asks   *)
(* for more.                                                               *)
AllocatableSizeIsExact ==
  \A n \in Sizes \ {0}, al \in Alignments :
    ValidAlignment(al) /\ ProperRequest(n, al) /\ heap # NoHeap =>
      (AllocateFromExpHeap(heap, n, al).ptr # 0
         <=> RoundedSize(n) <= AllocatableSize(heap, Widened(al)))

(***************************************************************************)
(* The bytes of the heap that belong to no block.                          *)
(* ConvertFreeBlockToUsedBlock drops what is left behind the new block if  *)
(* it may not become a block of its own.                                   *)
(***************************************************************************)
Bytes(r) == r.start .. r.stop - 1

Lost(h) ==
  Bytes(h) \ UNION ({Bytes(Region(b.at, BlockEnd(b))) : b \in ToRange(h.free)}
                       \union {Bytes(UsedRegion(b)) : b \in h.used})

Pointers(h) == {Pointer(b) : b \in h.used}

LosesToNewBlock ==
  IF Pointers(heap') \subseteq Pointers(heap)
  THEN Lost(heap') = Lost(heap)
  ELSE /\ Lost(heap) \subseteq Lost(heap')
       /\ Cardinality(Lost(heap') \ Lost(heap)) < MaximumPaddingalignment

(* Bytes get lost by handing out a block only, fewer than the maximum       *)
(* padding at a time; freeing and resizing in place give back every byte,   *)
(* padding included, and no other.  What is lost is never found again.     *)
OnlyAllocationLoses ==
  [][(\E a \in Arenas : Initialize(a)) \/ Destroy \/ LosesToNewBlock]_vars

(* The heap implements the allocator: blocks handed out lie in the arena,   *)
(* as aligned and as large as asked for, apart from one another, and stay   *)
(* as they are until they are freed or resized themselves.                 *)
Allocated ==
  INSTANCE Allocator WITH
    Requests <- Sizes,
    arena <- [start |-> heap.start, stop |-> heap.stop],
    blocks <- {[ptr |-> Pointer(b), size |-> b.size] : b \in heap.used}

ImplementsAllocator == Allocated!Spec
=============================================================================
