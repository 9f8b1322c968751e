\* Blocks of odd and even sizes over SIMD chunks of two; 32-bit counters end at 7.
SPECIFICATION Spec
CONSTANTS
    U32Max = 7
    Lanes = 2
    BlockSizes = {1, 2, 5}
    Lengths = {0, 2, 3}
    Decays = {0, 1, 4, 7}
    MaxKills = 2
    MaxClock = 12
INVARIANTS
    TypeOK
    RendersItsLife
    SamplesInPlace
