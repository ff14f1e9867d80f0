\* Any sequence of helper calls with generations 1..2.
CONSTANTS
    NoCond = NoCond
    MaxGeneration = 2

SPECIFICATION Spec

INVARIANT AtMostOneTrue
