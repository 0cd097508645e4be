---------------------------- MODULE MCStreamReplay ----------------------------
EXTENDS StreamReplay, TLC

CONSTANTS s1, s2, s3

\* The streams nobody comes back to are interchangeable.
MCSymmetry == Permutations({s2, s3})
=============================================================================
