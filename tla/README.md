# TLA+ models of the Slurm exporter's GPU domain and start-up

This directory holds TLA+ modules, TLC configurations and TLAPS proofs for
the GPU metrics path of `src/exporter/gpus.go` and for the start-up in
`src/exporter/server.go` (configuration, registration, exclude filter). `PROJECT.json` lists:

- the components;
- the runs;
- the mutants that show each checked property can fail;
- the map from every modelled definition to the Go lines it translates;
- the findings;
- the hazards.

## The system and its parts

| Part | Source | What it does |
|---|---|---|
| `GpuCollector` | gpus.go 385-477 | A Prometheus collector. The registry calls `Collect` from one goroutine per HTTP scrape, so several run at once. `Collect` calls `FetchMetrics`. On error it logs and sends nothing; otherwise it sends four gauges. |
| `gpuCache` + `FetchMetrics` | gpus.go 72-78, 165-182, 287-304 | A mutex-protected cache with a TTL (`limit`, from `Config.PollLimit`). The lock is taken first and released by `defer`, so it is held across the whole refresh. A fresh entry is returned. Otherwise `fetch()` runs. On error it returns with the cache and `t` untouched. On success it stores the snapshot, `duration` and `t = now`. |
| fetchers | gpus.go 80-163, 200-285 | `fetch()` runs `fetchTotalGpus` (sinfo), then `fetchAllocatedGpus` (sacct), and derives Idle and Utilization. The JSON mode adds `len(Errors)` to `errorCounter` on an upstream error list. The fallback mode parses `|`-separated CSV rows and counts one error on a CSV failure. Transport and decode errors count nothing. |
| `parseGresGpuCount` | gpus.go 317-377 | The GPU count of a GRES or TRES string: the TRES first match, the legacy comma recursion, the `(` cut, the `gpu` test, the colon split, and `ParseFloat` of the last field. |
| `NewConfig` | server.go 83-201 | Compiles the exclude regex, resolves PollLimit (default 10, `POLL_LIMIT`, flag if > 0), builds each domain's command vector (defaults, overrides split on spaces, the fallback's legacy forms) and the shared job fetcher. |
| `InitPromServer`, `NewPromHTTPServer` | server.go 203-253 | Register the collectors the Config enables and serve the gathered families minus those the exclude regex matches. |

How they interact: a goroutine of the registry enters `Collect` and takes
the fetcher's mutex. Under the mutex it either serves the cached snapshot or
runs the two commands against a cluster that keeps changing meanwhile, and
each command's output goes through `parseGresGpuCount`. The commands, the
TTL and the fetcher variant all come from `NewConfig`, and what reaches
`/metrics` is decided by `InitPromServer` and the exclude filter.

## Modules

### `GpuCache.tla`: the throttled fetch with concurrent collectors

**State.** The variables are:

- `lock`: the holder of the mutex.
- `pc`: each goroutine's position, one of `idle`, `wait`, `sinfo` or `sacct`. `wait` means the goroutine is in `FetchMetrics` and not yet holding the lock.
- `fetchStart`: FetchMetrics' local `t`.
- `totalGpus`: fetch()'s local.
- `cache`, `cacheT`, `cacheDuration`: the gpuCache fields.
- `errorCounter`.
- `exposed`: the gauges a goroutine's last Collect sent.
- `refreshFailed`: a history variable.
- The environment: the clock `now` and the cluster's `clusterTotal` and `clusterAlloc`.

A snapshot is the record of the four GpuMetrics fields, with Utilization as
an exact fraction.

**Actions.** Each maps to a piece of code:

- `Collect(p)`: the entry to Collect.
- `CacheHit(p)` and `CacheMiss(p)`: `Lock()` followed by the freshness test. Acquisition and test are one step, because nothing else can touch the cache while the lock is held.
- `FetchTotalGpus(p)`: the sinfo scrape. It succeeds or takes `FailFetch` with the increment the failing path adds.
- `FetchAllocatedGpus(p)`: the sacct scrape, followed by `StoreMetrics` or `FailFetch`. A step covers the whole handler: `FailFetch` includes the deferred `Unlock` and Collect's early return, and `StoreMetrics` includes the store, the unlock and the four gauges.
- `Tick` and `ClusterChange`: the environment. A job starts or ends, a GPU node joins, or an idle one leaves.

**Constants.**

- `Fallback` selects the fetcher, as `NewGpuCollector` does.
- `SinfoGresField` is the column the fallback sinfo format puts the GRES in. The fallback runs take it from `Exporter` (`DefaultSinfoGresField` in `MC_GpuCache`): the column of the vector `NewConfig` builds with no override, 0 for `-O "Gres:30|"`. This is where the two models compose.
- `SinfoGpus` models `record[1]`: a non-GRES column parses to 0.

### `ThrottledCache.tla`: what FetchMetrics promises

The abstract cache: each call is one atomic step after `Call(p)`. `Hit(p)`
returns a fresh entry; `Refresh(p)` stores some snapshot stamped `now`, from
a fetch that began no earlier than the old entry was stored; `Fail(p)` may
raise the error counter and leaves the entry and its time alone. It is the
safety contract only: that every caller is served is `CollectTerminates`,
stated on `GpuCache` itself.

`GpuCache` implements it (`ImplementsThrottledCache`) under the refinement mapping `AbstractPc`,
which shows a goroutine that is scraping (`sinfo`, `sacct`) as still
`wait`. So `CacheMiss` and `FetchTotalGpus` are stutters, the step that ends
the refresh (`StoreMetrics` or `FailFetch`) is the abstract `Refresh` or
`Fail`, and `CacheHit` is `Hit`. The lock and `fetchStart` are hidden.

### `Exporter.tla`, `Startup.tla` and `MC_Exporter.tla`: start-up

`Exporter` is pure operators over a flags record (the fields of `CliFlags`)
and an environment record (`POLL_LIMIT`):

- `ParseFloatText` is `strconv.ParseFloat` on the model's texts: signed numerals, `NaN`, and `Inf`/`Infinity` in either case. Go's float specials are the strings `+Inf`, `-Inf` and `NaN`. `IsPositive` is Go's `> 0`, false for NaN.
- `Compiles` and `MatchString` are `regexp.Compile` and the unanchored `MatchString`, over names cut into lexemes with the `.*` wildcard. The matcher is a recursive function over positions in the pattern and the name, not a RECURSIVE operator, so the module can be reasoned about with TLAPS.
- `NewConfig` returns an error record or the Config, following the code's order of assignments: `ResolvePollLimit`, `OverrideArgs`, `FallbackArgs` and `SharedJobFetcher`.
- `Registered` is `InitPromServer`'s registration. `Families` gives what a collector sends; only the GPU collector's are known. `NewPromHTTPServer` is the filter.

`Startup` makes the input of one start the state: `flags` and `env`, drawn
from the constants `FlagValues` and `EnvValues`. `InputAssumption` says
only that these are records of the `CliFlags` fields (booleans, an integer
poll limit, strings as lexeme sequences) and of `POLL_LIMIT`. The Config is
a function of the input, so `Restart` keeps the input. The properties are
stated here, over any input.

`MC_Exporter` gives the constants small sets. `Init` takes every
combination of the six flags, the poll-limit flag in {0, -1, 5}, overrides
for squeue, sinfo, sinfoGpu and sacctGpu, five exclude regexes (including an
empty one, one that matches every GPU family and one that does not compile)
and seven `POLL_LIMIT` texts (unset, 5, 0, -1, NaN, Inf, "5s"). That is
107,520 starts.

### `GresParse.tla` and `MC_GresParse.tla`: the parser

Strings are sequences of lexemes (words, digits, `:`, `,`, `=`, `(`...).
Because of this, `strings.Contains`, `Index` and `Split` become tests and
cuts on the sequence. `ParseFloat` accepts a non-empty digit string.

- `ParseGresGpuCount` follows the code's branches in order.
- The one level of recursion the legacy branch can reach is unfolded as `ParseGresPart`. A comma piece has no comma, so the recursion goes only one level deep.
- `MC_GresParse` renders every legacy field of up to `MaxItems` entries and every TRES field of up to `MaxPairs` pairs from a small grammar. The grammar covers: names gpu, GPU and cpu; an optional type; counts 1, 2 and 10; and no IDX, `(IDX:0)` or `(IDX:0,2)`. The variable `field` ranges over these fields.

### `GpuCache_proofs.tla` and `Startup_proofs.tla`: the TLAPS proofs

Described under "What is proved" below.

## Runs and what they show

| Run | Checks | Result |
|---|---|---|
| `gpu_cache_json` (3 goroutines, TTL 2, clock 0..4, ≤2 GPUs, up to 2 upstream errors per response) | `TypeOK`, `SingleFlight`, `NoHitAfterFailedRefresh`, `ImplementsThrottledCache` | pass, about 1.0M distinct states, symmetry over goroutines |
| `gpu_cache_fallback_live` (2 goroutines, fallback, clock 0..3) under `FairSpec` | `TypeOK`, `CollectTerminates` | pass, 23,040 states |
| `exporter_startup` | `FetchersMatchFormats` | pass, 107,520 starts |
| `gres_parse` | `LegacyCountsGpus`, `TresIgnoresOtherKeys` | pass, 4,854 fields |
| `gpu_snapshot_race` | `SnapshotConsistent` | **violated** |
| `gpu_fallback_total_zero` | `SnapshotConsistent` | **violated** |
| `gpu_errors_uncounted` | `FailuresCounted` | **violated** |
| `poll_limit_unthrottled` | `PollLimitThrottles` | **violated** |
| `gpu_error_counter_unregistered` | `ErrorCounterExposed` | **violated** |
| `fallback_json_domains` | `FallbackEveryDomain` | **violated** |

What the properties say:

- **SingleFlight (spec 4.2)** has two parts. At most one goroutine is inside `fetch()`. Every scrape in flight began when the cache was empty or at least `Limit` old, so a goroutine that queued behind a refresh serves the new entry instead of scraping again. Breaking it takes two goroutines and a refresh in between. Dropping the `defer` (unlocking before `fetch()`) breaks it.
- **NoHitAfterFailedRefresh**: once a refresh has failed, no Collect is served the old entry until a refresh succeeds. This holds because `t` is not stamped on error. Stamping it breaks the property.
- **CollectTerminates**: every goroutine in FetchMetrics gets out. It needs the deferred unlock on the error path.
- **ImplementsThrottledCache**: every step of the lock-based cache is a step of the atomic one. It subsumes the earlier check that an entry never comes from a fetch older than the one it replaces. A hit that ignores the TTL breaks it.
- **FetchersMatchFormats (spec 4.5, 6)**: every command that was not overridden emits the format its fetcher parses. The job fetcher reads squeue; the GPU fetcher reads sinfoGpu and sacctGpu. It needs each fallback replacement to test its own domain's override flag. Testing the sinfo flag for sinfoGpu breaks it.

The violations are the three findings in `PROJECT.json`:

1. **Snapshot race.** A node joins and a job starts between the sinfo and the sacct scrape, so the cache holds Alloc > Total. Spec 3 says every snapshot has Total ≥ Alloc.
2. **Fallback Total is always 0.** The code reads `record[1]`, but the default fallback sinfo format NewConfig builds puts the GRES in column 0.
3. **Uncounted failures.** A transport or decode failure fails the refresh without incrementing `gpu_scrape_errors`. Spec 7 says it counts.
4. **Unthrottled TTL.** `POLL_LIMIT` of 0, -1 or NaN is accepted, and every Collect then scrapes. `Inf` freezes the cache. The spec gives no range (a gap).
5. **The GPU error counter never reaches `/metrics`.** It is built inside the fetcher, but Describe and Collect send only the four gauges and InitPromServer registers only the collector. Spec 6 says it is exposed.
6. **Fallback keeps `--json` for lic and sdiag.** Spec 6 says every domain uses legacy vectors in fallback mode.

**Bounds.** Each bound is the smallest that still lets the interesting case happen:

- Three goroutines give a holder, a waiter and a newcomer.
- A TTL of 2 on a clock of 0..4 gives a hit, an expiry and a second refresh.
- Two GPUs let the cluster change between the scrapes and leave room for Alloc > Total.
- Two upstream errors give increments of 0, 1 and 2.

The liveness run uses two goroutines to keep the fair-cycle search small.
`MC_Exporter`'s inputs have one value per branch of `NewConfig`: each of
ParseFloat's outcomes, an override present and absent for every domain whose
override the properties tell apart, and a regex on each side of the filter.

## Fairness

`FairSpec` assumes the following:

- **WF on each scrape step.** Spec 5 says every command ends or is killed by its timeout.
- **SF on lock acquisition** (`CacheHit \/ CacheMiss`). A goroutine blocked in `sync.Mutex.Lock` is woken each time the mutex is released. Go's starvation mode hands the mutex to a waiter that has waited over 1 ms, so a waiter that sees the mutex free infinitely often gets it.

There is no fairness on starting a gather, on the clock or on the cluster.
The WF on scrape steps is an assumption about the command's timeout, not
code of `src/`: `CollectTerminates` therefore cannot detect a scrape that
hangs forever (the liveness hazard at gpus.go:167); it detects an unlock
skipped on the error path.

## What is proved (TLAPS)

### `GpuCache_proofs.tla`

The proofs hold for every set of goroutines, every TTL and every bound, from
`ConstantsAssumption` and `SentinelAssumption`.

- **`TypeCorrect`: `Spec => []TypeOK`.** `TypeOK` alone is not inductive. A store sets `cacheDuration' = now - fetchStart[p]`, which is in range only if `fetchStart[p] <= now`. The proof therefore uses `TypeInv == TypeOK /\ StartsInPast`. The lemma `GpuMetricsType` shows that a snapshot built from counts in `0..MaxGpus` is in `Snapshot`.
- **`Refinement`: `Spec => ImplementsThrottledCache`.** It rests on `IInv`. The lemma `ScraperSeesStale` shows that a scraping goroutine sees a stale entry stored no later than its `fetchStart`. This is what makes the final step of a refresh an abstract `Refresh` (the `d` of the abstract action is `now - fetchStart[p]`) or `Fail`. `RefinementNext` has one step per action. `AbstractPcMoves` and `AbstractPcStays` say how the mapped `pc` changes.
- **`SingleFlightHolds`: `Spec => []SingleFlight`.** The inductive invariant is `IInv == TypeInv /\ LockHeldByScraper /\ ScrapeOnlyWhenExpired`, where `LockHeldByScraper` says a goroutine is scraping if and only if it holds the lock. That conjunct gives `AtMostOneScrape`. It is needed because the guard of `CacheMiss` tests the lock, not the other goroutines' `pc`. The lemma `ReleaseLS` covers the two release paths (`FailFetch`, `StoreMetrics`). TLC checked `IInv` as an invariant before it was proved.
- **`NoHitAfterFailedRefreshHolds`: `Spec => NoHitAfterFailedRefresh`** (an action property). The property is not a consequence of `IInv` alone. It needs `FailedEntryStale`: while `refreshFailed` holds, the entry is missing or at least `Limit` old. That conjunct is inductive together with `IInv`. `FailFetch` comes from a scraping goroutine, and `ScraperSeesStale` shows the entry was already stale for it. `FailFetch` leaves `cacheT` alone, `Tick` only ages the entry, and `StoreMetrics` clears the history. TLC checked `IInv /\ FailedEntryStale` on the `gpu_cache_json` instance first (1,042,896 states). The lemma `NoHitStep` then goes through the actions. Only `CacheHit` returns gauges to a waiting caller, and its guard `Fresh` contradicts `FailedEntryStale`. Stamping `t` on error (the mutant `FailFetchStampsTime`) is exactly what would break `FailedEntryStale`.

- **`FallbackReportsNoTotal`**: `Fallback /\ SinfoGresField # 1` implies `Spec => []FallbackSnapshots`. This is the finding of `gpu_fallback_total_zero` for every cluster, every number of goroutines, every TTL and every bound. Every cached snapshot and every set of gauges sent is `GpuMetrics(0, a)`: Total 0, Idle -Alloc, Utilization 0. The inductive invariant adds `NoSinfoTotals` (every scraping goroutine's `totalGpus` is 0) to `TypeInv`. `FetchTotalGpus` stores `SinfoGpus`, which is 0 under the premise. `StoreMetrics` builds from that 0, a hit sends the cached snapshot, and `FailFetch` sends nothing. TLC checked the invariant on the fallback instance first (23,040 states).

### `Startup_proofs.tla`

These hold for every flag combination and environment, with any override
and exclude strings, from `InputAssumption`.

- **`FetchersMatchFormatsHolds`: `Spec => []FetchersMatchFormats`.** It holds because the input never changes (`TypeCorrect`) and the property holds of every typed input. `ConfigFields` gives the success branch of `NewConfig`. `NotOverriddenArgs` shows that a domain with an empty override flag ends with its default or, in fallback mode, its legacy vector. `VectorFormats` shows which of those vectors carry `--json`.
- **`ErrorCounterNeverExposed`.** For every input, `gpu_scrape_errors` is not among the served families. This is the finding of `gpu_error_counter_unregistered` for all configurations.
- **`FallbackKeepsJsonVectors`.** For every input, license and sdiag commands that were not overridden keep `--json`. This is the finding of `fallback_json_domains` for all configurations.
- **`FallbackSinfoMissesGres`.** For every input that selects the fallback and leaves `sinfoGpu` alone, `GresColumn(cfg.args["sinfoGpu"]) = 0`. The lemma `FallbackSinfoColumn` evaluates `GresColumn` on `sinfo -h -O Gres:30|`. Together with `FallbackReportsNoTotal`, this proves for every cluster that the default fallback exporter reports 0 total GPUs. The two theorems meet at the constant `SinfoGresField`: `MC_GpuCache` binds it to this column, while each proof module takes its own side of the premise.

## Only model-checked

- **Liveness and ENABLED.** `CollectTerminates` is out of TLAPS's reach.
- **The parser's properties** (`LegacyCountsGpus`, `TresIgnoresOtherKeys`). They quantify over fields of any number of entries. These are rendered by `Join` and summed by `GpusOfItems` and `ParseGresGpuCount`, which are all folds (`FoldLeft`) over the entries. Proving them needs induction over the length of the field. The library's induction theorems take an operator parameter, which the installed provers cannot instantiate. So the parser is checked on fields of up to two legacy entries and three TRES pairs.
- **The violated properties**, beyond the two findings restated as theorems above. `PollLimitThrottles` has the counterexample TLC prints.

## Not modelled, and the plan

**Not modelled:**

- The cext `InitPromServer`: its fetchers are not in `src/`.
- NewConfig's log level, listen address, metrics path, trace path and rate. They are copied through and affect nothing the properties tell apart.
- The families of the collectors other than GPU.
- `CliScraper`, `AtomicThrottledCache` and the other domains' collectors, which are not under `src/`.
- `Describe`, which sends constants.

**Plan:**

1. Compose GresParse with the fetchers: render cluster nodes and jobs into JSON fields and CSV rows, and parse them.
2. A history variable for the cluster during a fetch, so that the positive side of the snapshot race can be stated and proved: a snapshot is consistent when no GPU node left between the two scrapes.
