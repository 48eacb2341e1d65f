\* JSON fetcher: does every failed refresh reach the error counter?
CONSTANTS
    Procs = {p1, p2, p3}
    NoOne = NoOne
    Nil = Nil
    NoGauges = NoGauges
    Limit = 2
    Fallback = FALSE
    SinfoGresField = 0
    MaxTime = 4
    MaxGpus = 2
    MaxErrs = 2
    MaxErrorCount = 2
SPECIFICATION Spec
INVARIANT FailuresCounted
