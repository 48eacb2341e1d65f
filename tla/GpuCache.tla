------------------------------- MODULE GpuCache -------------------------------
(***************************************************************************)
(* The GPU domain's throttled fetch, src/exporter/gpus.go: a GpuCollector  *)
(* whose Collect is run concurrently by several gathering goroutines, each *)
(* calling FetchMetrics of one GpuJsonFetcher or GpuCliFallbackFetcher.    *)
(* FetchMetrics holds the gpuCache mutex from the freshness test to the    *)
(* return, so a cache miss runs both scrapes of fetch() (sinfo, then sacct) *)
(* under the lock.  The cluster is an environment that keeps changing      *)
(* between and during the scrapes.                                         *)
(*                                                                         *)
(* Data abstraction: a scrape returns the GPU count the output stands for  *)
(* (what parseGresGpuCount sums to, see GresParse); the snapshot keeps the *)
(* four GpuMetrics fields, Utilization as the exact fraction Alloc/Total.  *)
(* Time is an integer clock in the unit of the TTL (gpuCache.limit).       *)
(***************************************************************************)
EXTENDS Integers

CONSTANTS
    Procs,          \* goroutines that may run GpuCollector.Collect at once
    NoOne,          \* the mutex is free
    Nil,            \* gpuCache.cache == nil
    NoGauges,       \* a Collect that sent no gauge on its channel
    Limit,          \* gpuCache.limit = Config.PollLimit, in clock ticks
    Fallback,       \* CliOpts.fallback: which fetcher NewGpuCollector built
    SinfoGresField, \* 0-based column of GRES in a fallback sinfo row
    MaxTime,        \* bound on the clock
    MaxGpus,        \* bound on the GPUs in the cluster
    MaxErrs,        \* bound on len(Errors) of one JSON response
    MaxErrorCount   \* bound on the error counter

ASSUME ConstantsAssumption ==
    /\ Limit \in Nat
    /\ Fallback \in BOOLEAN
    /\ SinfoGresField \in Nat
    /\ MaxTime \in Nat
    /\ MaxGpus \in Nat \ {0}
    /\ MaxErrs \in Nat \ {0}
    /\ MaxErrorCount \in Nat
    /\ NoOne \notin Procs

VARIABLES
    now,           \* the wall clock
    clusterTotal,  \* GPUs of the nodes the cluster has now
    clusterAlloc,  \* GPUs allocated to running jobs now
    lock,          \* holder of the gpuCache mutex, or NoOne
    pc,            \* where each goroutine is in Collect
    fetchStart,    \* FetchMetrics' local t: time the miss began
    totalGpus,     \* fetch()'s local totalGpus, once the sinfo scrape is done
    cache,         \* gpuCache.cache
    cacheT,        \* gpuCache.t
    cacheDuration, \* gpuCache.duration
    errorCounter,  \* the fetcher's errorCounter (gpu_scrape_errors)
    exposed,       \* the gauges the goroutine's last Collect sent
    refreshFailed  \* history: a refresh failed since the last stored one

vars == <<now, clusterTotal, clusterAlloc, lock, pc, fetchStart, totalGpus,
          cache, cacheT, cacheDuration, errorCounter, exposed, refreshFailed>>
clusterVars == <<clusterTotal, clusterAlloc>>

(* The value of GpuMetrics fields; Utilization is a fraction num/den.      *)
Snapshot ==
    [Alloc: 0..MaxGpus, Idle: -MaxGpus..MaxGpus, Total: 0..MaxGpus,
     Utilization: [num: 0..MaxGpus, den: 1..MaxGpus]]

ASSUME SentinelAssumption ==
    /\ Nil \notin Snapshot
    /\ NoGauges \notin Snapshot

(* fetch(): the derived fields of the snapshot built from the two counts. *)
GpuMetrics(total, alloc) ==
    [Alloc |-> alloc, Idle |-> total - alloc, Total |-> total,
     Utilization |-> IF total > 0 THEN [num |-> alloc, den |-> total]
                                  ELSE [num |-> 0, den |-> 1]]

(* The freshness test of FetchMetrics.                                    *)
Fresh == cache # Nil /\ now - cacheT < Limit

(* The GPU total a successful sinfo scrape yields.  JSON: the gres of     *)
(* every node.  Fallback: record[1] of every row, which is the GRES        *)
(* column only when the configured format prints it second; any other    *)
(* column (the empty field after the "|" suffix of the default format)   *)
(* holds no "gpu" and parses to 0.                                        *)
SinfoGpus ==
    IF Fallback /\ SinfoGresField # 1 THEN 0 ELSE clusterTotal

(* What a failed scrape adds to errorCounter.  JSON: nothing for a        *)
(* transport or decode error, len(Errors) for errors the response reports. *)
(* Fallback sinfo: nothing for a transport error, one for a CSV error;    *)
(* fallback sacct: only transport errors, which add nothing.              *)
SinfoErrorIncrements == IF Fallback THEN {0, 1} ELSE {0} \cup 1..MaxErrs
SacctErrorIncrements == IF Fallback THEN {0} ELSE {0} \cup 1..MaxErrs

-----------------------------------------------------------------------------
(* Faulty variants of the steps below, each a plausible slip in the Go    *)
(* code; they are not part of Spec and serve to show that the properties  *)
(* tell the correct code from the faulty one.                             *)

(* The mutex is released before fetch() instead of deferred to return.   *)
CacheMissUnlocked(p) ==
    /\ pc[p] = "wait"
    /\ lock = NoOne
    /\ ~Fresh
    /\ pc' = [pc EXCEPT ![p] = "sinfo"]
    /\ fetchStart' = [fetchStart EXCEPT ![p] = now]
    /\ UNCHANGED <<now, clusterVars, lock, totalGpus, cache, cacheT,
                   cacheDuration, errorCounter, exposed, refreshFailed>>

(* The hit test checks only that a snapshot exists, not its age.        *)
CacheHitIgnoresTTL(p) ==
    /\ pc[p] = "wait"
    /\ lock = NoOne
    /\ cache # Nil
    /\ pc' = [pc EXCEPT ![p] = "idle"]
    /\ exposed' = [exposed EXCEPT ![p] = cache]
    /\ UNCHANGED <<now, clusterVars, lock, fetchStart, totalGpus, cache,
                   cacheT, cacheDuration, errorCounter, refreshFailed>>

(* Collect ignores err and sends gauges of the nil metrics.               *)
FailFetchSendsNil(p, inc) ==
    /\ errorCounter + inc <= MaxErrorCount
    /\ errorCounter' = errorCounter + inc
    /\ lock' = NoOne
    /\ pc' = [pc EXCEPT ![p] = "idle"]
    /\ fetchStart' = [fetchStart EXCEPT ![p] = 0]
    /\ totalGpus' = [totalGpus EXCEPT ![p] = 0]
    /\ exposed' = [exposed EXCEPT ![p] = Nil]
    /\ refreshFailed' = TRUE
    /\ UNCHANGED <<now, clusterVars, cache, cacheT, cacheDuration>>

(* gpuCache.t is stamped when a refresh is attempted, failed or not.      *)
FailFetchStampsTime(p, inc) ==
    /\ errorCounter + inc <= MaxErrorCount
    /\ errorCounter' = errorCounter + inc
    /\ lock' = NoOne
    /\ pc' = [pc EXCEPT ![p] = "idle"]
    /\ fetchStart' = [fetchStart EXCEPT ![p] = 0]
    /\ totalGpus' = [totalGpus EXCEPT ![p] = 0]
    /\ exposed' = [exposed EXCEPT ![p] = NoGauges]
    /\ refreshFailed' = TRUE
    /\ cacheT' = now
    /\ UNCHANGED <<now, clusterVars, cache, cacheDuration>>

(* An explicit Unlock that the error return skips (no defer).             *)
FailFetchKeepsLock(p, inc) ==
    /\ errorCounter + inc <= MaxErrorCount
    /\ errorCounter' = errorCounter + inc
    /\ pc' = [pc EXCEPT ![p] = "idle"]
    /\ fetchStart' = [fetchStart EXCEPT ![p] = 0]
    /\ totalGpus' = [totalGpus EXCEPT ![p] = 0]
    /\ exposed' = [exposed EXCEPT ![p] = NoGauges]
    /\ refreshFailed' = TRUE
    /\ UNCHANGED <<now, clusterVars, lock, cache, cacheT, cacheDuration>>

-----------------------------------------------------------------------------
Init ==
    /\ now = 0
    /\ clusterTotal \in 0..MaxGpus
    /\ clusterAlloc \in 0..clusterTotal
    /\ lock = NoOne
    /\ pc = [p \in Procs |-> "idle"]
    /\ fetchStart = [p \in Procs |-> 0]
    /\ totalGpus = [p \in Procs |-> 0]
    /\ cache = Nil
    /\ cacheT = 0
    /\ cacheDuration = 0
    /\ errorCounter = 0
    /\ exposed = [p \in Procs |-> NoGauges]
    /\ refreshFailed = FALSE

(* The registry gathers: goroutine p enters Collect and FetchMetrics.     *)
Collect(p) ==
    /\ pc[p] = "idle"
    /\ pc' = [pc EXCEPT ![p] = "wait"]
    /\ UNCHANGED <<now, clusterVars, lock, fetchStart, totalGpus, cache,
                   cacheT, cacheDuration, errorCounter, exposed, refreshFailed>>

(* Lock, cached snapshot still fresh: return it, unlock, send 4 gauges.   *)
CacheHit(p) ==
    /\ pc[p] = "wait"
    /\ lock = NoOne
    /\ Fresh
    /\ pc' = [pc EXCEPT ![p] = "idle"]
    /\ exposed' = [exposed EXCEPT ![p] = cache]
    /\ UNCHANGED <<now, clusterVars, lock, fetchStart, totalGpus, cache,
                   cacheT, cacheDuration, errorCounter, refreshFailed>>

(* Lock, no fresh snapshot: keep the lock, note t, start fetch().         *)
CacheMiss(p) ==
    /\ pc[p] = "wait"
    /\ lock = NoOne
    /\ ~Fresh
    /\ lock' = p
    /\ pc' = [pc EXCEPT ![p] = "sinfo"]
    /\ fetchStart' = [fetchStart EXCEPT ![p] = now]
    /\ UNCHANGED <<now, clusterVars, totalGpus, cache, cacheT, cacheDuration,
                   errorCounter, exposed, refreshFailed>>

(* A scrape of fetch() failed: the error propagates out of FetchMetrics,  *)
(* the deferred Unlock runs, Collect logs it and sends no gauge; the      *)
(* cache and its time stay as they were.                                  *)
FailFetch(p, inc) ==
    /\ errorCounter + inc <= MaxErrorCount
    /\ errorCounter' = errorCounter + inc
    /\ lock' = NoOne
    /\ pc' = [pc EXCEPT ![p] = "idle"]
    /\ fetchStart' = [fetchStart EXCEPT ![p] = 0]
    /\ totalGpus' = [totalGpus EXCEPT ![p] = 0]
    /\ exposed' = [exposed EXCEPT ![p] = NoGauges]
    /\ refreshFailed' = TRUE
    /\ UNCHANGED <<now, clusterVars, cache, cacheT, cacheDuration>>

(* fetchTotalGpus: run sinfo and sum the GPUs of its nodes or rows.       *)
FetchTotalGpus(p) ==
    /\ pc[p] = "sinfo"
    /\ \/ /\ totalGpus' = [totalGpus EXCEPT ![p] = SinfoGpus]
          /\ pc' = [pc EXCEPT ![p] = "sacct"]
          /\ UNCHANGED <<now, clusterVars, lock, fetchStart, cache, cacheT,
                         cacheDuration, errorCounter, exposed, refreshFailed>>
       \/ \E inc \in SinfoErrorIncrements : FailFetch(p, inc)

(* FetchMetrics after a successful fetch(): store the snapshot with its   *)
(* duration and time, unlock, and Collect sends its four gauges.           *)
StoreMetrics(p, m) ==
    /\ cache' = m
    /\ cacheDuration' = now - fetchStart[p]
    /\ cacheT' = now
    /\ lock' = NoOne
    /\ pc' = [pc EXCEPT ![p] = "idle"]
    /\ fetchStart' = [fetchStart EXCEPT ![p] = 0]
    /\ totalGpus' = [totalGpus EXCEPT ![p] = 0]
    /\ exposed' = [exposed EXCEPT ![p] = m]
    /\ refreshFailed' = FALSE
    /\ UNCHANGED <<now, clusterVars, errorCounter>>

(* fetchAllocatedGpus: run sacct and sum the GPUs of the running jobs;    *)
(* fetch() then builds the snapshot from the two counts.                   *)
FetchAllocatedGpus(p) ==
    /\ pc[p] = "sacct"
    /\ \/ StoreMetrics(p, GpuMetrics(totalGpus[p], clusterAlloc))
       \/ \E inc \in SacctErrorIncrements : FailFetch(p, inc)

-----------------------------------------------------------------------------
(* The environment: the clock and the cluster the commands report on.     *)
Tick ==
    /\ now < MaxTime
    /\ now' = now + 1
    /\ UNCHANGED <<clusterVars, lock, pc, fetchStart, totalGpus, cache, cacheT,
                   cacheDuration, errorCounter, exposed, refreshFailed>>

ClusterChange ==
    /\ \/ /\ clusterAlloc < clusterTotal                \* a job starts
          /\ clusterAlloc' = clusterAlloc + 1
          /\ UNCHANGED clusterTotal
       \/ /\ clusterAlloc > 0                           \* a job ends
          /\ clusterAlloc' = clusterAlloc - 1
          /\ UNCHANGED clusterTotal
       \/ /\ clusterTotal < MaxGpus                     \* a GPU node joins
          /\ clusterTotal' = clusterTotal + 1
          /\ UNCHANGED clusterAlloc
       \/ /\ clusterAlloc < clusterTotal                \* an idle one leaves
          /\ clusterTotal' = clusterTotal - 1
          /\ UNCHANGED clusterAlloc
    /\ UNCHANGED <<now, lock, pc, fetchStart, totalGpus, cache, cacheT,
                   cacheDuration, errorCounter, exposed, refreshFailed>>

Proc(p) ==
    \/ Collect(p)
    \/ CacheHit(p)
    \/ CacheMiss(p)
    \/ FetchTotalGpus(p)
    \/ FetchAllocatedGpus(p)

Next ==
    \/ \E p \in Procs : Proc(p)
    \/ Tick
    \/ ClusterChange

Spec == Init /\ [][Next]_vars

(* Fairness: a scrape ends (the command exits or its context times out,  *)
(* spec section 5), so the scraping steps are weakly fair; a goroutine    *)
(* blocked in Lock is woken whenever the mutex is free and Go's mutex     *)
(* hands it over after 1ms of starvation, so acquiring is strongly fair.  *)
(* Nothing forces a gather to start, the clock or the cluster to move.    *)
Fairness ==
    \A p \in Procs :
        /\ SF_vars(CacheHit(p) \/ CacheMiss(p))
        /\ WF_vars(FetchTotalGpus(p))
        /\ WF_vars(FetchAllocatedGpus(p))

FairSpec == Spec /\ Fairness

-----------------------------------------------------------------------------
(* A goroutine that is inside fetch(), between the two scrapes or in one. *)
Scraping(p) == pc[p] \in {"sinfo", "sacct"}

(* Types: the cache holds nil or a GpuMetrics snapshot, the mutex one     *)
(* holder at most, and a Collect sends either all four gauges of a        *)
(* snapshot or none, never gauges of a nil *GpuMetrics.                   *)
TypeOK ==
    /\ now \in 0..MaxTime
    /\ clusterTotal \in 0..MaxGpus
    /\ clusterAlloc \in 0..clusterTotal
    /\ lock \in Procs \cup {NoOne}
    /\ pc \in [Procs -> {"idle", "wait", "sinfo", "sacct"}]
    /\ fetchStart \in [Procs -> 0..MaxTime]
    /\ totalGpus \in [Procs -> 0..MaxGpus]
    /\ cache \in Snapshot \cup {Nil}
    /\ cacheT \in 0..MaxTime
    /\ cacheDuration \in 0..MaxTime
    /\ errorCounter \in 0..MaxErrorCount
    /\ exposed \in [Procs -> Snapshot \cup {NoGauges}]
    /\ refreshFailed \in BOOLEAN

(* Single flight (spec 4.2): the lock held across fetch() lets at most one *)
(* goroutine run the scrapes at a time, and a goroutine that waited behind *)
(* an in-flight refresh does not scrape again: every scrape in flight      *)
(* began when the cached snapshot was missing or at least Limit old.       *)
AtMostOneScrape ==
    \A p, q \in Procs : Scraping(p) /\ Scraping(q) => p = q
ScrapeOnlyWhenExpired ==
    \A p \in Procs : Scraping(p) => cache = Nil \/ fetchStart[p] - cacheT >= Limit
SingleFlight == AtMostOneScrape /\ ScrapeOnlyWhenExpired

(* A failed refresh is not masked: FetchMetrics leaves gpuCache.t alone on *)
(* error, so once a refresh has failed no Collect is served the old        *)
(* snapshot from the cache until a refresh succeeds.                       *)
NoHitAfterFailedRefresh ==
    [][\A p \in Procs :
         (pc[p] = "wait" /\ pc'[p] = "idle" /\ exposed'[p] # NoGauges)
            => ~refreshFailed]_vars

(* Every Collect returns: each goroutine that entered FetchMetrics gets    *)
(* the lock and leaves, with gauges or without.                            *)
CollectTerminates ==
    \A p \in Procs : pc[p] = "wait" ~> pc[p] = "idle"

(* The refinement mapping: a goroutine inside fetch() is, for a caller,  *)
(* still waiting in FetchMetrics; the lock, the locals of the scrapes and *)
(* the cluster are hidden.                                                *)
AbstractPc == [p \in Procs |-> IF Scraping(p) THEN "wait" ELSE pc[p]]

(* The snapshots a fetch can build: GpuMetrics of two counts in range.   *)
FetchResults == {GpuMetrics(t, a) : t, a \in 0..MaxGpus}

TC == INSTANCE ThrottledCache WITH pc <- AbstractPc, Values <- FetchResults

(* FetchMetrics keeps the throttled-cache contract whatever the number of *)
(* goroutines: a hit only on a fresh entry, a store or a failure only on a *)
(* stale one, a stored entry never from a fetch begun before the entry it  *)
(* replaces was stored, and a failure leaves the entry and its time alone. *)
ImplementsThrottledCache ==
    TC!Init /\ [][TC!Next]_TC!vars

(* Spec 3: a snapshot satisfies Total >= Alloc >= 0.                       *)
SnapshotConsistent ==
    cache # Nil => cache.Total >= cache.Alloc

(* Spec 7: transport, decode, upstream-reported and malformed-record      *)
(* errors all increment the domain's error counter.                        *)
FailuresCounted ==
    refreshFailed => errorCounter > 0
=============================================================================
