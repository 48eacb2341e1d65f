\* CLI-fallback fetcher, two concurrent Collects under the fetch fairness.
CONSTANTS
    Procs = {p1, p2}
    NoOne = NoOne
    Nil = Nil
    NoGauges = NoGauges
    Limit = 2
    Fallback = TRUE
    SinfoGresField <- DefaultSinfoGresField
    MaxTime = 3
    MaxGpus = 2
    MaxErrs = 1
    MaxErrorCount = 1
SPECIFICATION FairSpec
INVARIANTS
    TypeOK
PROPERTIES
    CollectTerminates
