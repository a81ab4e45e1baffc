CONSTANTS
    s1 = s1
    s2 = s2
    s3 = s3
    Server <- MCServer
    MaxChanges = 2
    MaxEnvSteps = 2
SPECIFICATION FairSpec
INVARIANT TypeOK
PROPERTIES
    OneClassPerPass
    Refinement
    PassCompletes
