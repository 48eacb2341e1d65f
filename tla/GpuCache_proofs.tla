--------------------------- MODULE GpuCache_proofs ---------------------------
(***************************************************************************)
(* Proofs about GpuCache for every value of its constants: type            *)
(* correctness, the single-flight guarantee of the gpuCache mutex, the     *)
(* refinement of ThrottledCache, the failure and throttle guarantees, and *)
(* the fallback fetcher's zero total.                                      *)
(***************************************************************************)
EXTENDS GpuCache, TLAPS

(* Every goroutine's fetch start lies in the past: needed to type          *)
(* gpuCache.duration = time.Since(t).                                      *)
StartsInPast == \A p \in Procs : fetchStart[p] <= now

TypeInv == TypeOK /\ StartsInPast

(* The mutex is held exactly by the goroutine that is scraping.            *)
LockHeldByScraper == \A p \in Procs : Scraping(p) <=> lock = p

(* The inductive invariant behind SingleFlight.                           *)
IInv == TypeInv /\ LockHeldByScraper /\ ScrapeOnlyWhenExpired

-----------------------------------------------------------------------------
(* The snapshot fetch() builds from two counts in range is well typed.     *)
LEMMA GpuMetricsType ==
    ASSUME NEW total \in 0..MaxGpus, NEW alloc \in 0..MaxGpus
    PROVE  GpuMetrics(total, alloc) \in Snapshot
BY ConstantsAssumption DEF GpuMetrics, Snapshot

(* A failed scrape keeps the type invariant.                               *)
LEMMA FailFetchTypeInv ==
    ASSUME TypeInv, NEW p \in Procs, NEW inc \in Nat, FailFetch(p, inc)
    PROVE  TypeInv'
BY ConstantsAssumption DEF TypeInv, TypeOK, StartsInPast, FailFetch, clusterVars

LEMMA TypeInvInit == Init => TypeInv
<1> SUFFICES ASSUME Init PROVE TypeInv
    OBVIOUS
<1>1. /\ now \in 0..MaxTime
      /\ clusterTotal \in 0..MaxGpus
      /\ clusterAlloc \in 0..clusterTotal
      /\ lock \in Procs \cup {NoOne}
    BY ConstantsAssumption DEF Init
<1>2. /\ pc \in [Procs -> {"idle", "wait", "sinfo", "sacct"}]
      /\ fetchStart \in [Procs -> 0..MaxTime]
      /\ totalGpus \in [Procs -> 0..MaxGpus]
    BY ConstantsAssumption DEF Init
<1>3. /\ cache \in Snapshot \cup {Nil}
      /\ cacheT \in 0..MaxTime
      /\ cacheDuration \in 0..MaxTime
      /\ errorCounter \in 0..MaxErrorCount
    BY ConstantsAssumption DEF Init
<1>4. exposed \in [Procs -> Snapshot \cup {NoGauges}]
    BY DEF Init
<1>5. refreshFailed \in BOOLEAN
    BY Zenon DEF Init
<1>6. StartsInPast
    <2> SUFFICES ASSUME NEW p \in Procs PROVE fetchStart[p] <= now
        BY DEF StartsInPast
    <2>1. fetchStart[p] = 0 /\ now = 0
        BY DEF Init
    <2>2. QED
        BY <2>1
<1>7. QED
    BY <1>1, <1>2, <1>3, <1>4, <1>5, <1>6 DEF TypeInv, TypeOK

LEMMA TypeInvNext == TypeInv /\ [Next]_vars => TypeInv'
<1> SUFFICES ASSUME TypeInv, [Next]_vars PROVE TypeInv'
    OBVIOUS
<1> USE ConstantsAssumption
<1>1. ASSUME NEW p \in Procs, Collect(p) PROVE TypeInv'
    BY <1>1 DEF Collect, TypeInv, TypeOK, StartsInPast, clusterVars
<1>2. ASSUME NEW p \in Procs, CacheHit(p) PROVE TypeInv'
    BY <1>2 DEF CacheHit, Fresh, TypeInv, TypeOK, StartsInPast, clusterVars
<1>3. ASSUME NEW p \in Procs, CacheMiss(p) PROVE TypeInv'
    BY <1>3 DEF CacheMiss, TypeInv, TypeOK, StartsInPast, clusterVars
<1>4. ASSUME NEW p \in Procs, FetchTotalGpus(p) PROVE TypeInv'
    <2>1. CASE \E inc \in SinfoErrorIncrements : FailFetch(p, inc)
        <3>1. SinfoErrorIncrements \subseteq Nat
            BY DEF SinfoErrorIncrements
        <3>2. QED
            BY <2>1, <3>1, FailFetchTypeInv
    <2>2. CASE /\ totalGpus' = [totalGpus EXCEPT ![p] = SinfoGpus]
               /\ pc' = [pc EXCEPT ![p] = "sacct"]
               /\ UNCHANGED <<now, clusterVars, lock, fetchStart, cache, cacheT,
                              cacheDuration, errorCounter, exposed, refreshFailed>>
        <3>1. SinfoGpus \in 0..MaxGpus
            BY DEF SinfoGpus, TypeInv, TypeOK
        <3>2. QED
            BY <2>2, <3>1, <1>4 DEF FetchTotalGpus, TypeInv, TypeOK,
                                    StartsInPast, clusterVars
    <2>3. QED
        BY <1>4, <2>1, <2>2 DEF FetchTotalGpus
<1>5. ASSUME NEW p \in Procs, FetchAllocatedGpus(p) PROVE TypeInv'
    <2>1. CASE \E inc \in SacctErrorIncrements : FailFetch(p, inc)
        <3>1. SacctErrorIncrements \subseteq Nat
            BY DEF SacctErrorIncrements
        <3>2. QED
            BY <2>1, <3>1, FailFetchTypeInv
    <2>2. CASE ~\E inc \in SacctErrorIncrements : FailFetch(p, inc)
        <3> DEFINE m == GpuMetrics(totalGpus[p], clusterAlloc)
        <3>1. /\ cache' = m
              /\ cacheDuration' = now - fetchStart[p]
              /\ cacheT' = now
              /\ lock' = NoOne
              /\ pc' = [pc EXCEPT ![p] = "idle"]
              /\ fetchStart' = [fetchStart EXCEPT ![p] = 0]
              /\ totalGpus' = [totalGpus EXCEPT ![p] = 0]
              /\ exposed' = [exposed EXCEPT ![p] = m]
              /\ refreshFailed' = FALSE
              /\ UNCHANGED <<now, clusterVars, errorCounter>>
            BY <1>5, <2>2 DEF FetchAllocatedGpus, StoreMetrics
        <3>2. m \in Snapshot
            BY GpuMetricsType DEF TypeInv, TypeOK
        <3>3. refreshFailed' \in BOOLEAN
            BY <3>1, Zenon
        <3>4. QED
            BY <3>1, <3>2, <3>3 DEF TypeInv, TypeOK, StartsInPast, clusterVars
    <2>3. QED
        BY <2>1, <2>2
<1>6. CASE Tick
    BY <1>6 DEF Tick, TypeInv, TypeOK, StartsInPast, clusterVars
<1>7. CASE ClusterChange
    BY <1>7 DEF ClusterChange, TypeInv, TypeOK, StartsInPast, clusterVars
<1>8. CASE UNCHANGED vars
    BY <1>8 DEF vars, TypeInv, TypeOK, StartsInPast, clusterVars
<1>9. QED
    BY <1>1, <1>2, <1>3, <1>4, <1>5, <1>6, <1>7, <1>8 DEF Next, Proc

(* TypeOK holds in every reachable state, for all values of the constants. *)
THEOREM TypeCorrect == Spec => []TypeOK
<1>1. Spec => []TypeInv
    BY TypeInvInit, TypeInvNext, PTL DEF Spec
<1>2. QED
    BY <1>1, PTL DEF TypeInv
-----------------------------------------------------------------------------
(* A goroutine that gives the mutex back leaves nobody scraping.           *)
LEMMA ReleaseLS ==
    ASSUME IInv, NEW p \in Procs, Scraping(p),
           lock' = NoOne, pc' = [pc EXCEPT ![p] = "idle"]
    PROVE  LockHeldByScraper' /\ ScrapeOnlyWhenExpired'
<1>1. \A q \in Procs : Scraping(q) => q = p
    BY ConstantsAssumption DEF IInv, LockHeldByScraper
<1>2. \A q \in Procs : ~Scraping(q)'
    BY <1>1 DEF IInv, TypeInv, TypeOK, Scraping
<1>3. \A q \in Procs : lock' # q
    BY ConstantsAssumption
<1>4. QED
    BY <1>2, <1>3 DEF LockHeldByScraper, ScrapeOnlyWhenExpired

LEMMA IInvInit == Init => IInv
<1> SUFFICES ASSUME Init PROVE IInv
    OBVIOUS
<1>1. TypeInv
    BY TypeInvInit
<1>2. \A q \in Procs : ~Scraping(q) /\ lock # q
    BY ConstantsAssumption DEF Init, Scraping
<1>3. QED
    BY <1>1, <1>2 DEF IInv, LockHeldByScraper, ScrapeOnlyWhenExpired

LEMMA IInvNext == IInv /\ [Next]_vars => IInv'
<1> SUFFICES ASSUME IInv, [Next]_vars
             PROVE  LockHeldByScraper' /\ ScrapeOnlyWhenExpired'
    BY TypeInvNext DEF IInv
<1> USE DEF IInv, TypeInv, TypeOK
(* Steps that move nobody into or out of the scraping phase and touch     *)
(* neither the lock, the cache's time nor any fetch start.                *)
<1>0. ASSUME \A q \in Procs : Scraping(q)' = Scraping(q),
             UNCHANGED <<lock, cache, cacheT, fetchStart>>
      PROVE  LockHeldByScraper' /\ ScrapeOnlyWhenExpired'
    BY <1>0 DEF LockHeldByScraper, ScrapeOnlyWhenExpired
<1>1. ASSUME NEW p \in Procs, Collect(p) PROVE LockHeldByScraper' /\ ScrapeOnlyWhenExpired'
    <2>1. \A q \in Procs : Scraping(q)' = Scraping(q)
        BY <1>1 DEF Collect, Scraping
    <2>2. QED
        BY <1>0, <1>1, <2>1 DEF Collect
<1>2. ASSUME NEW p \in Procs, CacheHit(p) PROVE LockHeldByScraper' /\ ScrapeOnlyWhenExpired'
    <2>1. \A q \in Procs : Scraping(q)' = Scraping(q)
        BY <1>2 DEF CacheHit, Scraping
    <2>2. QED
        BY <1>0, <1>2, <2>1 DEF CacheHit
<1>3. ASSUME NEW p \in Procs, CacheMiss(p) PROVE LockHeldByScraper' /\ ScrapeOnlyWhenExpired'
    <2>1. \A q \in Procs : ~Scraping(q)
        BY <1>3, ConstantsAssumption DEF CacheMiss, LockHeldByScraper
    <2>2. \A q \in Procs : Scraping(q)' <=> q = p
        BY <1>3, <2>1 DEF CacheMiss, Scraping
    <2>3. LockHeldByScraper'
        BY <1>3, <2>2 DEF CacheMiss, LockHeldByScraper
    <2>4. cache' = Nil \/ fetchStart'[p] - cacheT' >= Limit
        BY <1>3, ConstantsAssumption DEF CacheMiss, Fresh
    <2>5. QED
        BY <2>2, <2>3, <2>4 DEF ScrapeOnlyWhenExpired
<1>4. ASSUME NEW p \in Procs, FetchTotalGpus(p) PROVE LockHeldByScraper' /\ ScrapeOnlyWhenExpired'
    <2>1. CASE \E inc \in SinfoErrorIncrements : FailFetch(p, inc)
        BY <1>4, <2>1, ReleaseLS DEF FetchTotalGpus, FailFetch, Scraping
    <2>2. CASE ~\E inc \in SinfoErrorIncrements : FailFetch(p, inc)
        <3>1. \A q \in Procs : Scraping(q)' = Scraping(q)
            BY <1>4, <2>2 DEF FetchTotalGpus, Scraping
        <3>2. QED
            BY <1>0, <1>4, <2>2, <3>1 DEF FetchTotalGpus
    <2>3. QED
        BY <2>1, <2>2
<1>5. ASSUME NEW p \in Procs, FetchAllocatedGpus(p) PROVE LockHeldByScraper' /\ ScrapeOnlyWhenExpired'
    <2>1. Scraping(p)
        BY <1>5 DEF FetchAllocatedGpus, Scraping
    <2>2. lock' = NoOne /\ pc' = [pc EXCEPT ![p] = "idle"]
        BY <1>5 DEF FetchAllocatedGpus, StoreMetrics, FailFetch
    <2>3. QED
        BY <2>1, <2>2, ReleaseLS
<1>6. CASE Tick \/ ClusterChange \/ UNCHANGED vars
    BY <1>6 DEF Tick, ClusterChange, vars, LockHeldByScraper,
                ScrapeOnlyWhenExpired, Scraping
<1>7. QED
    BY <1>1, <1>2, <1>3, <1>4, <1>5, <1>6 DEF Next, Proc

(* Single flight: for all values of the constants, at most one goroutine  *)
(* runs the scrapes of a GpuCollector at a time, and only when the cached  *)
(* snapshot is missing or has outlived the TTL when its refresh begins.    *)
THEOREM SingleFlightHolds == Spec => []SingleFlight
<1>1. IInv => SingleFlight
    BY DEF IInv, LockHeldByScraper, SingleFlight, AtMostOneScrape
<1>2. QED
    BY <1>1, IInvInit, IInvNext, PTL DEF Spec
-----------------------------------------------------------------------------
(* Refinement of ThrottledCache.  A step that moves goroutine p to a      *)
(* phase a caller sees (idle or waiting) moves p there in AbstractPc.     *)
LEMMA AbstractPcMoves ==
    ASSUME NEW p \in Procs, NEW v \in {"idle", "wait"},
           pc \in [Procs -> {"idle", "wait", "sinfo", "sacct"}],
           pc' = [pc EXCEPT ![p] = v]
    PROVE  AbstractPc' = [AbstractPc EXCEPT ![p] = v]
BY DEF AbstractPc, Scraping

(* A step between the phases of a refresh leaves AbstractPc alone.        *)
LEMMA AbstractPcStays ==
    ASSUME NEW p \in Procs, NEW v \in {"sinfo", "sacct"},
           pc \in [Procs -> {"idle", "wait", "sinfo", "sacct"}],
           pc[p] \in {"wait", "sinfo", "sacct"},
           pc' = [pc EXCEPT ![p] = v]
    PROVE  AbstractPc' = AbstractPc
BY DEF AbstractPc, Scraping

(* A scraping goroutine's refresh began at a stale entry, so the entry is *)
(* still stale now, and the fetch began after the entry was stored.       *)
LEMMA ScraperSeesStale ==
    ASSUME IInv, NEW p \in Procs, Scraping(p)
    PROVE  /\ ~TC!Fresh
           /\ cache # Nil => cacheT <= fetchStart[p]
BY ConstantsAssumption DEF IInv, TypeInv, TypeOK, StartsInPast,
                           ScrapeOnlyWhenExpired, TC!Fresh

(* A failed scrape is a Fail of the contract.                              *)
LEMMA FailFetchRefines ==
    ASSUME IInv, NEW p \in Procs, Scraping(p), NEW inc \in Nat,
           FailFetch(p, inc)
    PROVE  TC!Fail(p)
<1>1. ~TC!Fresh
    BY ScraperSeesStale
<1>2. AbstractPc[p] = "wait"
    BY DEF AbstractPc
<1>3. AbstractPc' = [AbstractPc EXCEPT ![p] = "idle"]
    BY AbstractPcMoves DEF FailFetch, IInv, TypeInv, TypeOK
<1>4. errorCounter' \in errorCounter..MaxErrorCount
    BY DEF FailFetch, IInv, TypeInv, TypeOK
<1>5. QED
    BY <1>1, <1>2, <1>3, <1>4 DEF FailFetch, TC!Fail

LEMMA RefinementInit == Init => TC!Init
<1> SUFFICES ASSUME Init PROVE TC!Init
    OBVIOUS
<1>1. AbstractPc = [p \in Procs |-> "idle"]
    BY DEF Init, AbstractPc, Scraping
<1>2. QED
    BY <1>1 DEF Init, TC!Init

LEMMA RefinementNext == IInv /\ [Next]_vars => [TC!Next]_TC!vars
<1> SUFFICES ASSUME IInv, [Next]_vars PROVE [TC!Next]_TC!vars
    OBVIOUS
<1> DEFINE PcType == pc \in [Procs -> {"idle", "wait", "sinfo", "sacct"}]
<1>0. PcType
    BY DEF IInv, TypeInv, TypeOK
<1>1. ASSUME NEW p \in Procs, Collect(p) PROVE TC!Call(p)
    <2>1. AbstractPc[p] = "idle"
        BY <1>1 DEF Collect, AbstractPc, Scraping
    <2>2. AbstractPc' = [AbstractPc EXCEPT ![p] = "wait"]
        BY <1>0, <1>1, AbstractPcMoves DEF Collect
    <2>3. QED
        BY <1>1, <2>1, <2>2 DEF Collect, TC!Call
<1>2. ASSUME NEW p \in Procs, CacheHit(p) PROVE TC!Hit(p)
    <2>1. AbstractPc[p] = "wait"
        BY <1>2 DEF CacheHit, AbstractPc, Scraping
    <2>2. AbstractPc' = [AbstractPc EXCEPT ![p] = "idle"]
        BY <1>0, <1>2, AbstractPcMoves DEF CacheHit
    <2>3. QED
        BY <1>2, <2>1, <2>2 DEF CacheHit, Fresh, TC!Hit, TC!Fresh
<1>3. ASSUME NEW p \in Procs, CacheMiss(p) PROVE UNCHANGED TC!vars
    <2>1. AbstractPc' = AbstractPc
        BY <1>0, <1>3, AbstractPcStays DEF CacheMiss
    <2>2. QED
        BY <1>3, <2>1 DEF CacheMiss, TC!vars
<1>4. ASSUME NEW p \in Procs, FetchTotalGpus(p)
      PROVE  TC!Fail(p) \/ UNCHANGED TC!vars
    <2>1. Scraping(p)
        BY <1>4 DEF FetchTotalGpus, Scraping
    <2>2. CASE \E inc \in SinfoErrorIncrements : FailFetch(p, inc)
        <3>1. SinfoErrorIncrements \subseteq Nat
            BY DEF SinfoErrorIncrements
        <3>2. QED
            BY <2>1, <2>2, <3>1, FailFetchRefines
    <2>3. CASE ~\E inc \in SinfoErrorIncrements : FailFetch(p, inc)
        <3>1. AbstractPc' = AbstractPc
            BY <1>0, <1>4, <2>3, AbstractPcStays DEF FetchTotalGpus
        <3>2. QED
            BY <1>4, <2>3, <3>1 DEF FetchTotalGpus, TC!vars
    <2>4. QED
        BY <2>2, <2>3
<1>5. ASSUME NEW p \in Procs, FetchAllocatedGpus(p)
      PROVE  TC!Fail(p) \/ TC!Refresh(p)
    <2>1. Scraping(p)
        BY <1>5 DEF FetchAllocatedGpus, Scraping
    <2>2. CASE \E inc \in SacctErrorIncrements : FailFetch(p, inc)
        <3>1. SacctErrorIncrements \subseteq Nat
            BY DEF SacctErrorIncrements
        <3>2. QED
            BY <2>1, <2>2, <3>1, FailFetchRefines
    <2>3. CASE StoreMetrics(p, GpuMetrics(totalGpus[p], clusterAlloc))
        <3> DEFINE m == GpuMetrics(totalGpus[p], clusterAlloc)
                   d == now - fetchStart[p]
        <3>1. m \in FetchResults
            <4>1. totalGpus[p] \in 0..MaxGpus /\ clusterAlloc \in 0..MaxGpus
                BY ConstantsAssumption DEF IInv, TypeInv, TypeOK
            <4>2. PICK t \in 0..MaxGpus, a \in 0..MaxGpus : m = GpuMetrics(t, a)
                BY <4>1
            <4>3. QED
                BY <4>2 DEF FetchResults
        <3>2. d \in 0..(IF cache = Nil THEN now ELSE now - cacheT)
            BY <2>1, ScraperSeesStale DEF IInv, TypeInv, TypeOK, StartsInPast
        <3>3. ~TC!Fresh
            BY <2>1, ScraperSeesStale
        <3>4. AbstractPc[p] = "wait"
            BY <2>1 DEF AbstractPc
        <3>5. AbstractPc' = [AbstractPc EXCEPT ![p] = "idle"]
            BY <1>0, <2>3, AbstractPcMoves DEF StoreMetrics
        <3>6. QED
            BY <2>3, <3>1, <3>2, <3>3, <3>4, <3>5 DEF StoreMetrics, TC!Refresh
    <2>4. QED
        BY <1>5, <2>2, <2>3 DEF FetchAllocatedGpus
<1>6. CASE Tick
    <2>1. AbstractPc' = AbstractPc
        BY <1>6 DEF Tick, AbstractPc, Scraping
    <2>2. QED
        BY <1>6, <2>1 DEF Tick, TC!Tick, TC!Next
<1>7. CASE ClusterChange \/ UNCHANGED vars
    <2>1. AbstractPc' = AbstractPc
        BY <1>7 DEF ClusterChange, vars, AbstractPc, Scraping
    <2>2. QED
        BY <1>7, <2>1 DEF ClusterChange, vars, TC!vars
<1>8. QED
    BY <1>1, <1>2, <1>3, <1>4, <1>5, <1>6, <1>7
       DEF Next, Proc, TC!Next, TC!Serve

(* GpuCache implements the throttled-cache contract for every number of   *)
(* goroutines, every TTL and every bound: each step of a FetchMetrics call *)
(* is a step of the contract or invisible to its callers.                  *)
THEOREM Refinement == Spec => ImplementsThrottledCache
<1>1. Spec => []IInv
    BY IInvInit, IInvNext, PTL DEF Spec
<1>2. QED
    BY <1>1, RefinementInit, RefinementNext, PTL
       DEF Spec, ImplementsThrottledCache
-----------------------------------------------------------------------------
(* After a failed refresh the entry is missing or expired: the failing    *)
(* goroutine began its fetch on a stale entry, FetchMetrics returns the   *)
(* error without stamping gpuCache.t, and time only moves forward.        *)
FailedEntryStale == refreshFailed => cache = Nil \/ now - cacheT >= Limit

LEMMA FailedEntryStaleInit == Init => FailedEntryStale
BY DEF Init, FailedEntryStale

(* The steps that leave the history, the entry, its time and the clock.   *)
LEMMA FailedEntryStaleUnchanged ==
    ASSUME FailedEntryStale, UNCHANGED <<refreshFailed, cache, cacheT, now>>
    PROVE  FailedEntryStale'
BY DEF FailedEntryStale

(* A failed scrape leaves the entry as stale as it found it.               *)
LEMMA FailFetchKeepsStale ==
    ASSUME IInv, NEW p \in Procs, Scraping(p), NEW inc \in Nat, FailFetch(p, inc)
    PROVE  FailedEntryStale'
<1>1. ~TC!Fresh
    BY ScraperSeesStale
<1>2. cache = Nil \/ now - cacheT >= Limit
    BY <1>1, ConstantsAssumption DEF TC!Fresh, IInv, TypeInv, TypeOK
<1>3. QED
    BY <1>2 DEF FailFetch, FailedEntryStale

LEMMA FailedEntryStaleNext ==
    IInv /\ FailedEntryStale /\ [Next]_vars => FailedEntryStale'
<1> SUFFICES ASSUME IInv, FailedEntryStale, [Next]_vars PROVE FailedEntryStale'
    OBVIOUS
<1>1. ASSUME NEW p \in Procs, Collect(p) \/ CacheHit(p) \/ CacheMiss(p)
      PROVE  FailedEntryStale'
    BY <1>1, FailedEntryStaleUnchanged DEF Collect, CacheHit, CacheMiss
<1>2. ASSUME NEW p \in Procs, FetchTotalGpus(p) PROVE FailedEntryStale'
    <2>1. Scraping(p)
        BY <1>2 DEF FetchTotalGpus, Scraping
    <2>2. CASE \E inc \in SinfoErrorIncrements : FailFetch(p, inc)
        BY <2>1, <2>2, FailFetchKeepsStale DEF SinfoErrorIncrements
    <2>3. CASE ~\E inc \in SinfoErrorIncrements : FailFetch(p, inc)
        BY <1>2, <2>3, FailedEntryStaleUnchanged DEF FetchTotalGpus
    <2>4. QED
        BY <2>2, <2>3
<1>3. ASSUME NEW p \in Procs, FetchAllocatedGpus(p) PROVE FailedEntryStale'
    <2>1. Scraping(p)
        BY <1>3 DEF FetchAllocatedGpus, Scraping
    <2>2. CASE \E inc \in SacctErrorIncrements : FailFetch(p, inc)
        BY <2>1, <2>2, FailFetchKeepsStale DEF SacctErrorIncrements
    <2>3. CASE StoreMetrics(p, GpuMetrics(totalGpus[p], clusterAlloc))
        BY <2>3 DEF StoreMetrics, FailedEntryStale
    <2>4. QED
        BY <1>3, <2>2, <2>3 DEF FetchAllocatedGpus
<1>4. CASE Tick
    BY <1>4, ConstantsAssumption DEF Tick, FailedEntryStale, IInv, TypeInv, TypeOK
<1>5. CASE ClusterChange \/ UNCHANGED vars
    BY <1>5, FailedEntryStaleUnchanged DEF ClusterChange, vars
<1>6. QED
    BY <1>1, <1>2, <1>3, <1>4, <1>5 DEF Next, Proc

(* The only step that returns gauges to a waiting caller is a cache hit,  *)
(* and a hit needs a fresh entry, which a failed refresh rules out.       *)
LEMMA NoHitStep ==
    ASSUME IInv, FailedEntryStale, [Next]_vars, NEW q \in Procs,
           pc[q] = "wait", pc'[q] = "idle", exposed'[q] # NoGauges
    PROVE  ~refreshFailed
<1> DEFINE PcType == pc \in [Procs -> {"idle", "wait", "sinfo", "sacct"}]
<1>0. PcType
    BY DEF IInv, TypeInv, TypeOK
<1>1. ASSUME NEW p \in Procs, Collect(p) PROVE FALSE
    BY <1>0, <1>1 DEF Collect
<1>2. ASSUME NEW p \in Procs, CacheHit(p) PROVE ~refreshFailed
    <2>1. CASE p = q
        BY <1>2, <2>1, ConstantsAssumption
           DEF CacheHit, Fresh, FailedEntryStale, IInv, TypeInv, TypeOK
    <2>2. CASE p # q
        BY <1>0, <1>2, <2>2 DEF CacheHit
    <2>3. QED
        BY <2>1, <2>2
<1>3. ASSUME NEW p \in Procs, CacheMiss(p) PROVE FALSE
    BY <1>0, <1>3 DEF CacheMiss
<1>4. ASSUME NEW p \in Procs, NEW inc \in Nat, FailFetch(p, inc), pc[p] # "wait"
      PROVE  FALSE
    BY <1>0, <1>4 DEF FailFetch
<1>5. ASSUME NEW p \in Procs, FetchTotalGpus(p) PROVE FALSE
    <2>1. CASE \E inc \in SinfoErrorIncrements : FailFetch(p, inc)
        BY <1>5, <2>1, <1>4 DEF FetchTotalGpus, SinfoErrorIncrements
    <2>2. CASE ~\E inc \in SinfoErrorIncrements : FailFetch(p, inc)
        BY <1>0, <1>5, <2>2 DEF FetchTotalGpus
    <2>3. QED
        BY <2>1, <2>2
<1>6. ASSUME NEW p \in Procs, FetchAllocatedGpus(p) PROVE FALSE
    <2>1. CASE \E inc \in SacctErrorIncrements : FailFetch(p, inc)
        BY <1>6, <2>1, <1>4 DEF FetchAllocatedGpus, SacctErrorIncrements
    <2>2. CASE StoreMetrics(p, GpuMetrics(totalGpus[p], clusterAlloc))
        BY <1>0, <1>6, <2>2 DEF FetchAllocatedGpus, StoreMetrics
    <2>3. QED
        BY <1>6, <2>1, <2>2 DEF FetchAllocatedGpus
<1>7. CASE Tick \/ ClusterChange \/ UNCHANGED vars
    BY <1>7 DEF Tick, ClusterChange, vars
<1>8. QED
    BY <1>1, <1>2, <1>3, <1>5, <1>6, <1>7 DEF Next, Proc

(* A failed refresh is never masked, for every number of goroutines, TTL  *)
(* and bound: because FetchMetrics leaves gpuCache.t alone on error, no   *)
(* Collect is served the cached snapshot between a failed refresh and the *)
(* next successful one.                                                    *)
THEOREM NoHitAfterFailedRefreshHolds == Spec => NoHitAfterFailedRefresh
<1>1. Spec => [](IInv /\ FailedEntryStale)
    BY IInvInit, IInvNext, FailedEntryStaleInit, FailedEntryStaleNext, PTL DEF Spec
<1>2. IInv /\ FailedEntryStale /\ [Next]_vars
        => [\A p \in Procs :
              (pc[p] = "wait" /\ pc'[p] = "idle" /\ exposed'[p] # NoGauges)
                 => ~refreshFailed]_vars
    BY NoHitStep
<1>3. QED
    BY <1>1, <1>2, PTL DEF Spec, NoHitAfterFailedRefresh
-----------------------------------------------------------------------------
(* The snapshots of a cluster with no GPU counted: Total 0, Idle -Alloc,  *)
(* Utilization 0.                                                          *)
ZeroTotalSnapshots == {GpuMetrics(0, a) : a \in 0..MaxGpus}

(* Every sinfo scrape in flight has counted no GPU.                        *)
NoSinfoTotals == \A p \in Procs : totalGpus[p] = 0

(* The cache and every Collect's gauges hold a snapshot with no GPU total. *)
FallbackSnapshots ==
    /\ cache \in ZeroTotalSnapshots \cup {Nil}
    /\ \A p \in Procs : exposed[p] \in ZeroTotalSnapshots \cup {NoGauges}

LEMMA FallbackSnapshotsInit == Init => NoSinfoTotals /\ FallbackSnapshots
BY DEF Init, NoSinfoTotals, FallbackSnapshots

(* A failed scrape resets its goroutine's count and sends no gauge.        *)
LEMMA FailFetchKeepsZero ==
    ASSUME TypeInv, NoSinfoTotals, FallbackSnapshots,
           NEW p \in Procs, NEW inc \in Nat, FailFetch(p, inc)
    PROVE  NoSinfoTotals' /\ FallbackSnapshots'
BY DEF FailFetch, TypeInv, TypeOK, NoSinfoTotals, FallbackSnapshots

LEMMA FallbackSnapshotsNext ==
    ASSUME Fallback, SinfoGresField # 1,
           TypeInv, NoSinfoTotals, FallbackSnapshots, [Next]_vars
    PROVE  NoSinfoTotals' /\ FallbackSnapshots'
<1> USE DEF TypeInv, TypeOK
<1>1. ASSUME NEW p \in Procs, Collect(p) \/ CacheMiss(p)
      PROVE  NoSinfoTotals' /\ FallbackSnapshots'
    BY <1>1 DEF Collect, CacheMiss, NoSinfoTotals, FallbackSnapshots
<1>2. ASSUME NEW p \in Procs, CacheHit(p) PROVE NoSinfoTotals' /\ FallbackSnapshots'
    <2>1. cache \in ZeroTotalSnapshots
        BY <1>2 DEF CacheHit, Fresh, FallbackSnapshots
    <2>2. QED
        BY <1>2, <2>1 DEF CacheHit, NoSinfoTotals, FallbackSnapshots
<1>3. ASSUME NEW p \in Procs, FetchTotalGpus(p) PROVE NoSinfoTotals' /\ FallbackSnapshots'
    <2>1. CASE \E inc \in SinfoErrorIncrements : FailFetch(p, inc)
        BY <2>1, FailFetchKeepsZero DEF SinfoErrorIncrements
    <2>2. CASE ~\E inc \in SinfoErrorIncrements : FailFetch(p, inc)
        <3>1. SinfoGpus = 0
            BY DEF SinfoGpus
        <3>2. QED
            BY <1>3, <2>2, <3>1 DEF FetchTotalGpus, NoSinfoTotals, FallbackSnapshots
    <2>3. QED
        BY <2>1, <2>2
<1>4. ASSUME NEW p \in Procs, FetchAllocatedGpus(p) PROVE NoSinfoTotals' /\ FallbackSnapshots'
    <2>1. CASE \E inc \in SacctErrorIncrements : FailFetch(p, inc)
        BY <2>1, FailFetchKeepsZero DEF SacctErrorIncrements
    <2>2. CASE StoreMetrics(p, GpuMetrics(totalGpus[p], clusterAlloc))
        <3>1. GpuMetrics(totalGpus[p], clusterAlloc) \in ZeroTotalSnapshots
            <4>1. totalGpus[p] = 0 /\ clusterAlloc \in 0..MaxGpus
                BY ConstantsAssumption DEF NoSinfoTotals
            <4>2. QED
                BY <4>1 DEF ZeroTotalSnapshots
        <3>2. QED
            BY <2>2, <3>1 DEF StoreMetrics, NoSinfoTotals, FallbackSnapshots
    <2>3. QED
        BY <1>4, <2>1, <2>2 DEF FetchAllocatedGpus
<1>5. CASE Tick \/ ClusterChange \/ UNCHANGED vars
    BY <1>5 DEF Tick, ClusterChange, vars, NoSinfoTotals, FallbackSnapshots
<1>6. QED
    BY <1>1, <1>2, <1>3, <1>4, <1>5 DEF Next, Proc

(* The fallback fetcher reads the GRES of record[1]; when the sinfo format *)
(* does not print GRES in that column (as with the default format, see    *)
(* Startup_proofs), then for every cluster, number of goroutines, TTL and *)
(* bound every snapshot cached and every set of gauges a Collect sends     *)
(* has Total 0, Idle -Alloc and Utilization 0.                            *)
THEOREM FallbackReportsNoTotal ==
    ASSUME Fallback, SinfoGresField # 1
    PROVE  Spec => []FallbackSnapshots
<1>1. Init => TypeInv /\ NoSinfoTotals /\ FallbackSnapshots
    BY TypeInvInit, FallbackSnapshotsInit
<1>2. TypeInv /\ NoSinfoTotals /\ FallbackSnapshots /\ [Next]_vars
        => (TypeInv /\ NoSinfoTotals /\ FallbackSnapshots)'
    BY TypeInvNext, FallbackSnapshotsNext
<1>3. QED
    BY <1>1, <1>2, PTL DEF Spec
=============================================================================
