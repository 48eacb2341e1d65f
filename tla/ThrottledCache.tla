---------------------------- MODULE ThrottledCache ----------------------------
(***************************************************************************)
(* What FetchMetrics of a GPU fetcher promises its callers, with the lock  *)
(* and the two scrapes of fetch() folded into one atomic step per call:    *)
(* a call that finds a fresh snapshot returns it; a call that finds none   *)
(* either stores a new snapshot, stamped now, whose fetch began no earlier *)
(* than the entry it replaces was stored, or fails and leaves the entry    *)
(* and its time alone, so a failure is never hidden by a later hit.        *)
(* GpuCache refines this module (see ImplementsThrottledCache there).     *)
(***************************************************************************)
EXTENDS Integers

CONSTANTS
    Procs,          \* goroutines that call FetchMetrics
    Nil,            \* no snapshot cached yet
    NoGauges,       \* the call failed and Collect sent nothing
    Values,         \* the snapshots a fetch can produce
    Limit,          \* the TTL
    MaxTime,        \* bound on the clock
    MaxErrorCount   \* bound on the error counter

VARIABLES
    now,           \* the wall clock
    pc,            \* "idle" or "wait" (inside FetchMetrics)
    cache,         \* the cached snapshot or Nil
    cacheT,        \* when it was stored
    cacheDuration, \* how long the fetch that produced it took
    errorCounter,  \* the fetcher's scrape error counter
    exposed        \* what the caller's last Collect sent

vars == <<now, pc, cache, cacheT, cacheDuration, errorCounter, exposed>>

(* The freshness test of FetchMetrics.                                    *)
Fresh == cache # Nil /\ now - cacheT < Limit

Init ==
    /\ now = 0
    /\ pc = [p \in Procs |-> "idle"]
    /\ cache = Nil
    /\ cacheT = 0
    /\ cacheDuration = 0
    /\ errorCounter = 0
    /\ exposed = [p \in Procs |-> NoGauges]

(* Collect calls FetchMetrics.                                            *)
Call(p) ==
    /\ pc[p] = "idle"
    /\ pc' = [pc EXCEPT ![p] = "wait"]
    /\ UNCHANGED <<now, cache, cacheT, cacheDuration, errorCounter, exposed>>

(* A fresh snapshot is returned as it is.                                 *)
Hit(p) ==
    /\ pc[p] = "wait"
    /\ Fresh
    /\ pc' = [pc EXCEPT ![p] = "idle"]
    /\ exposed' = [exposed EXCEPT ![p] = cache]
    /\ UNCHANGED <<now, cache, cacheT, cacheDuration, errorCounter>>

(* No fresh snapshot: a fetch that began at now - d, after the old entry  *)
(* was stored, yields v, which is stored with time now and returned.      *)
Refresh(p) ==
    /\ pc[p] = "wait"
    /\ ~Fresh
    /\ \E v \in Values,
          d \in 0..(IF cache = Nil THEN now ELSE now - cacheT) :
          /\ cache' = v
          /\ cacheT' = now
          /\ cacheDuration' = d
          /\ exposed' = [exposed EXCEPT ![p] = v]
    /\ pc' = [pc EXCEPT ![p] = "idle"]
    /\ UNCHANGED <<now, errorCounter>>

(* No fresh snapshot and the fetch fails: the error counter may grow, the *)
(* entry and its time stay, the caller gets nothing.                      *)
Fail(p) ==
    /\ pc[p] = "wait"
    /\ ~Fresh
    /\ \E c \in errorCounter..MaxErrorCount : errorCounter' = c
    /\ pc' = [pc EXCEPT ![p] = "idle"]
    /\ exposed' = [exposed EXCEPT ![p] = NoGauges]
    /\ UNCHANGED <<now, cache, cacheT, cacheDuration>>

Tick ==
    /\ now < MaxTime
    /\ now' = now + 1
    /\ UNCHANGED <<pc, cache, cacheT, cacheDuration, errorCounter, exposed>>

Serve(p) == Hit(p) \/ Refresh(p) \/ Fail(p)

Next ==
    \/ \E p \in Procs : Call(p) \/ Serve(p)
    \/ Tick

Spec == Init /\ [][Next]_vars
=============================================================================
