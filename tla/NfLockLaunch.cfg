SPECIFICATION SpecLaunch
CONSTANT N = 2
INVARIANT Exclusion
