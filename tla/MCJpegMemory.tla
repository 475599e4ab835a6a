---------------------------- MODULE MCJpegMemory ----------------------------
EXTENDS JpegMemory, TLC

CONSTANTS samples, blocks, v1, v2, v3

\* One array of two strips and more, and one that always fits.
MCShape == (samples :> [rows |-> 3, width |-> 4, maxaccess |-> 2, pre_zero |-> TRUE])
        @@ (blocks :> [rows |-> 1, width |-> 4, maxaccess |-> 1, pre_zero |-> FALSE])
MCFirstPoolSlop == [PERMANENT |-> 6, IMAGE |-> 4]
MCExtraPoolSlop == [PERMANENT |-> 0, IMAGE |-> 4]
MCValue == (samples :> {v1, v2}) @@ (blocks :> {v3})
MCHeap == {44, 200}
Symmetric == Permutations({v1, v2})
=============================================================================
