---------------------------- MODULE MCComposition ----------------------------
(* All declarations, and all hand-built tuples, of at most two components. *)
EXTENDS Composition

SmallSeqs(S) == UNION {[1..n -> S] : n \in 0..2}

SmallManifests == SmallSeqs(Declarations)
SmallTuples == SmallSeqs({c \in Declarations : c.readable})
=============================================================================
