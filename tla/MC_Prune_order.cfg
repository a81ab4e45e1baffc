CONSTANTS
    s1 = s1
    s2 = s2
    s3 = s3
    s4 = s4
    Server <- MCServer
    PotentialVoterIds <- MCPotentialVoterIds
    MinQuorum = 2
    MaxEnvSteps = 0
SPECIFICATION Spec
PROPERTY
    EnumeratedInIdOrder
