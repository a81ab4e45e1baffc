SPECIFICATION Spec
INVARIANT HealthMatchesSpec
