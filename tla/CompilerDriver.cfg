CONSTANTS
    N = 3
    BatchSize = 16
    MaxHiccups = 2
SPECIFICATION FairSpec
INVARIANTS VerdictIsTrue CollateralJudged SilentRanAlone
PROPERTY Returns
