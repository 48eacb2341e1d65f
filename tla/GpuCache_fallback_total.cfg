\* Fallback fetcher with the default sinfo format "Gres:30|".
CONSTANTS
    Procs = {p1, p2, p3}
    NoOne = NoOne
    Nil = Nil
    NoGauges = NoGauges
    Limit = 2
    Fallback = TRUE
    SinfoGresField <- DefaultSinfoGresField
    MaxTime = 4
    MaxGpus = 2
    MaxErrs = 2
    MaxErrorCount = 2
SPECIFICATION Spec
INVARIANT SnapshotConsistent
