---------------------------- MODULE DurableChain ----------------------------
(***************************************************************************)
(* What the stored chain promises: it starts empty, only ever grows, by    *)
(* one block at a time, and every block names its predecessor.             *)
(***************************************************************************)
EXTENDS Naturals, Sequences

CONSTANT GenesisHash

VARIABLE chain

DurableInit == chain = <<>>

TopOf(c) == IF c = <<>> THEN GenesisHash ELSE c[Len(c)].id

Grow ==
    /\ Len(chain') = Len(chain) + 1
    /\ SubSeq(chain', 1, Len(chain)) = chain
    /\ chain'[Len(chain')].prev = TopOf(chain)

DurableSpec == DurableInit /\ [][Grow]_chain
=============================================================================
