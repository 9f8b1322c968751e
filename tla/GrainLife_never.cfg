\* As GrainLife_life; of the decays, 7 is u32::MAX and stands for none.
SPECIFICATION Spec
CONSTANTS
    U32Max = 7
    Lanes = 2
    BlockSizes = {1, 2, 5}
    Lengths = {0, 2, 3}
    Decays = {0, 1, 4, 7}
    MaxKills = 2
    MaxClock = 12
INVARIANTS
    NeverFadesNaturally
