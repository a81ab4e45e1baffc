SPECIFICATION Spec
INVARIANT QuorateMatchesSpec
