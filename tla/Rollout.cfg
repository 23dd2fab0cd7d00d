SPECIFICATION Spec
CONSTANTS
    MaxGeneration = 2
    MaxReplicas = 1
    MaxMishaps = 1
    Slots = {s1, s2}
SYMMETRY Symmetry
INVARIANTS TypeOK QuietReportRight TroubleReachesTop OkMeansDone
