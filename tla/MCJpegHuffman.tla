---------------------------- MODULE MCJpegHuffman ----------------------------
EXTENDS JpegHuffman

\* A block with a run of zeros over sixteen, one that ends in a coefficient,
\* one with large values, whose bits give bytes of ones, and a flat one.
Flat(dc) == [k \in 1..64 |-> IF k = 1 THEN dc ELSE 0]
Sparse == [Flat(5) EXCEPT ![2] = -1, ![21] = 3, ![64] = 1]
Loud == [Flat(-3) EXCEPT ![2] = 1023, ![3] = 1023]

MCMembership == <<1, 2>>
MCImages == {
  <<<<Sparse, Flat(1)>>, <<Loud, Flat(1)>>, <<Flat(5), Sparse>>, <<Flat(0), Flat(7)>>>>,
  <<<<Flat(2), Loud>>, <<Sparse, Sparse>>, <<Flat(2), Flat(2)>>, <<Loud, Flat(-7)>>>>}
=============================================================================
