-------------------------------- MODULE Arena --------------------------------
(***************************************************************************)
(* The arena of a memtable: pieces of memory cut off blocks one after the  *)
(* other. Keys come from Allocate, nodes of the skip list from             *)
(* AllocateAligned. An address is <<block, offset>>; blocks are aligned.   *)
(***************************************************************************)
EXTENDS Integers, Sequences

CONSTANTS
    kBlockSize,
    Align,
    Sizes,              \* of pieces
    MaxPieces           \* bound: pieces that are handed out

(* Allocate asserts that a size is not 0, AllocateAligned that the         *)
(* alignment is a power of 2.                                              *)
ASSUME ArenaAssumption ==
    /\ kBlockSize \in Nat /\ MaxPieces \in Nat
    /\ Sizes \subseteq Nat \ {0}
    /\ Align \in {4, 8, 16}

VARIABLES
    blocks_,            \* the size of each block
    block, offset,      \* alloc_ptr_
    alloc_bytes_remaining_,
    blocks_memory_,
    pieces              \* what was handed out

arenaVars == <<blocks_, block, offset, alloc_bytes_remaining_, blocks_memory_, pieces>>

Piece(b, o, n, aligned) == [block |-> b, offset |-> o, bytes |-> n, aligned |-> aligned]
AllocateNewBlock(n) == /\ blocks_' = Append(blocks_, n)
                       /\ blocks_memory_' = blocks_memory_ + n

IsLarge(n) == n > kBlockSize \div 4
AllocateFallback(n, aligned) ==
    /\ pieces' = Append(pieces, Piece(Len(blocks_) + 1, 0, n, aligned))
    /\ IF IsLarge(n)
         THEN AllocateNewBlock(n) /\ UNCHANGED <<block, offset, alloc_bytes_remaining_>>
         ELSE /\ AllocateNewBlock(kBlockSize)
              /\ block' = Len(blocks_) + 1 /\ offset' = n
              /\ alloc_bytes_remaining_' = kBlockSize - n

Cut(n, slop, aligned) ==
    /\ pieces' = Append(pieces, Piece(block, offset + slop, n, aligned))
    /\ offset' = offset + slop + n
    /\ alloc_bytes_remaining_' = alloc_bytes_remaining_ - (slop + n)
    /\ UNCHANGED <<blocks_, block, blocks_memory_>>

Allocate(n) ==
    /\ Len(pieces) < MaxPieces
    /\ IF n <= alloc_bytes_remaining_ THEN Cut(n, 0, FALSE) ELSE AllocateFallback(n, FALSE)
\* [Mutant: only the piece itself has to fit.]
Fits_Mutant(n, slop) == n <= alloc_bytes_remaining_
Fits(n, slop) == n + slop <= alloc_bytes_remaining_
AllocateAligned(n) ==
    LET slop == IF offset % Align = 0 THEN 0 ELSE Align - (offset % Align)
    IN /\ Len(pieces) < MaxPieces
       /\ IF Fits(n, slop) THEN Cut(n, slop, TRUE) ELSE AllocateFallback(n, TRUE)

ArenaInit ==
    /\ blocks_ = <<>> /\ block = 0 /\ offset = 0 /\ alloc_bytes_remaining_ = 0
    /\ blocks_memory_ = 0 /\ pieces = <<>>
ArenaNext == \E n \in Sizes : Allocate(n) \/ AllocateAligned(n)
ArenaSpec == ArenaInit /\ [][ArenaNext]_arenaVars

(* No two pieces share a byte, none goes past the end of its block, and    *)
(* those for nodes are aligned, also the ones behind an odd key.           *)
PiecesApart ==
    \A i \in DOMAIN pieces :
        /\ pieces[i].offset + pieces[i].bytes <= blocks_[pieces[i].block]
        /\ pieces[i].aligned => pieces[i].offset % Align = 0
        /\ \A j \in DOMAIN pieces :
              i < j /\ pieces[i].block = pieces[j].block =>
                  \/ pieces[i].offset + pieces[i].bytes <= pieces[j].offset
                  \/ pieces[j].offset + pieces[j].bytes <= pieces[i].offset

(* When a block is left for a new one, less than a quarter of it and a gap *)
(* for alignment is lost, whatever the sizes are: the memory by which a    *)
(* memtable is judged to be full is not far from what is in it.            *)
LittleWaste ==
    \A b \in DOMAIN blocks_ \ {block} :
        \E i \in DOMAIN pieces :
            /\ pieces[i].block = b
            /\ blocks_[b] - (pieces[i].offset + pieces[i].bytes) < kBlockSize \div 4 + Align

(* What the arena promises a memtable.                                     *)
MemoryIsRight == PiecesApart /\ LittleWaste
=============================================================================
