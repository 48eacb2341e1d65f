---------------------------- MODULE Startup_proofs ----------------------------
(***************************************************************************)
(* Proofs about the start-up for every flag combination and environment,  *)
(* any override and exclude strings included.                              *)
(***************************************************************************)
EXTENDS Startup, TLAPS

LEMMA TypeCorrect == Spec => []TypeOK
<1>1. Init => TypeOK
    BY InputAssumption DEF Init, TypeOK
<1>2. TypeOK /\ [Next]_vars => TypeOK'
    BY DEF TypeOK, Next, Restart, vars
<1>3. QED
    BY <1>1, <1>2, PTL DEF Spec

(* A Config that NewConfig returns is the record of its success branch.   *)
LEMMA ConfigFields ==
    ASSUME ~cfg.err
    PROVE  /\ cfg.args = FallbackArgs(flags, OverrideArgs(flags))
           /\ cfg.fallback = flags.SlurmCliFallback
           /\ cfg.jobFetcher = SharedJobFetcher(flags, env)
           /\ cfg.exclude = flags.MetricsExcludeFilterRegex
BY DEF cfg, NewConfig

(* A domain whose override flag is empty keeps the vector NewConfig       *)
(* starts from, and in fallback mode gets its legacy form if it has one.  *)
LEMMA NotOverriddenArgs ==
    ASSUME NEW d \in {"squeue", "sinfoGpu", "sacctGpu"},
           flags[OverrideFlag[d]] = <<>>
    PROVE  FallbackArgs(flags, OverrideArgs(flags))[d] =
               IF flags.SlurmCliFallback THEN FallbackDefaults[d] ELSE DefaultArgs[d]
<1>1. OverrideArgs(flags)[d] = DefaultArgs[d]
    BY DEF OverrideArgs, Domains
<1>2. d \in DOMAIN FallbackDefaults
    BY DEF FallbackDefaults
<1>3. QED
    BY <1>1, <1>2 DEF FallbackArgs, Domains

(* The legacy vectors carry no --json, the default vectors do.             *)
LEMMA VectorFormats ==
    ASSUME NEW d \in {"squeue", "sinfoGpu", "sacctGpu"}
    PROVE  /\ Format(FallbackDefaults[d]) = "text"
           /\ Format(DefaultArgs[d]) = "json"
<1>1. CASE d = "squeue"
    <2> DEFINE fb == <<"squeue", "--states=all", "-h", "-r", "-o", "{squeue-json-line}">>
               df == <<"squeue", "--json">>
    <2>1. FallbackDefaults[d] = fb /\ DefaultArgs[d] = df
        BY <1>1 DEF FallbackDefaults, DefaultArgs
    <2>2. "--json" \notin Range(fb)
        <3>1. fb[1] # "--json" /\ fb[2] # "--json" /\ fb[3] # "--json" /\ fb[4] # "--json" /\ fb[5] # "--json" /\ fb[6] # "--json"
            OBVIOUS
        <3>2. DOMAIN fb = 1..6
            OBVIOUS
        <3>3. \A x \in 1..6 : x \in {1, 2, 3, 4, 5, 6}
            OBVIOUS
        <3>4. QED
            BY <3>1, <3>2, <3>3 DEF Range
    <2>3. "--json" \in Range(df)
        BY df[2] = "--json", 2 \in DOMAIN df DEF Range
    <2>4. QED
        BY <2>1, <2>2, <2>3 DEF Format
<1>2. CASE d = "sinfoGpu"
    <2> DEFINE fb == <<"sinfo", "-h", "-O", "Gres:30|">>
               df == <<"sinfo", "--json">>
    <2>1. FallbackDefaults[d] = fb /\ DefaultArgs[d] = df
        BY <1>2 DEF FallbackDefaults, DefaultArgs
    <2>2. "--json" \notin Range(fb)
        <3>1. fb[1] # "--json" /\ fb[2] # "--json" /\ fb[3] # "--json" /\ fb[4] # "--json"
            OBVIOUS
        <3>2. DOMAIN fb = 1..4
            OBVIOUS
        <3>3. \A x \in 1..4 : x \in {1, 2, 3, 4}
            OBVIOUS
        <3>4. QED
            BY <3>1, <3>2, <3>3 DEF Range
    <2>3. "--json" \in Range(df)
        BY df[2] = "--json", 2 \in DOMAIN df DEF Range
    <2>4. QED
        BY <2>1, <2>2, <2>3 DEF Format
<1>3. CASE d = "sacctGpu"
    <2> DEFINE fb == <<"sacct", "-a", "-X", "--format=AllocGRES", "--state=RUNNING", "--noheader", "--parsable2">>
               df == <<"sacct", "-a", "-X", "--format=AllocGRES", "--state=RUNNING", "--json">>
    <2>1. FallbackDefaults[d] = fb /\ DefaultArgs[d] = df
        BY <1>3 DEF FallbackDefaults, DefaultArgs
    <2>2. "--json" \notin Range(fb)
        <3>1. fb[1] # "--json" /\ fb[2] # "--json" /\ fb[3] # "--json" /\ fb[4] # "--json" /\ fb[5] # "--json" /\ fb[6] # "--json" /\ fb[7] # "--json"
            OBVIOUS
        <3>2. DOMAIN fb = 1..7
            OBVIOUS
        <3>3. \A x \in 1..7 : x \in {1, 2, 3, 4, 5, 6, 7}
            OBVIOUS
        <3>4. QED
            BY <3>1, <3>2, <3>3 DEF Range
    <2>3. "--json" \in Range(df)
        BY df[6] = "--json", 6 \in DOMAIN df DEF Range
    <2>4. QED
        BY <2>1, <2>2, <2>3 DEF Format
<1>4. QED
    BY <1>1, <1>2, <1>3

(* For every input, each command NewConfig leaves at its default emits    *)
(* the format of the fetcher that reads it: the fallback block replaces   *)
(* a vector exactly when the mode and that domain's override flag say so, *)
(* and the shared job fetcher is chosen by the same mode flag.            *)
THEOREM FetchersMatchFormatsHolds == Spec => []FetchersMatchFormats
<1>1. TypeOK => FetchersMatchFormats
    <2> SUFFICES ASSUME TypeOK, ~cfg.err,
                        NEW d \in {"squeue", "sinfoGpu", "sacctGpu"},
                        flags[OverrideFlag[d]] = <<>>
                 PROVE  Format(cfg.args[d]) = FetcherFormat(d)
        BY DEF FetchersMatchFormats
    <2>1. flags.SlurmCliFallback \in BOOLEAN
        BY DEF TypeOK, CliFlagsType
    <2>2. Format(cfg.args[d]) =
              IF flags.SlurmCliFallback THEN "text" ELSE "json"
        BY <2>1, ConfigFields, NotOverriddenArgs, VectorFormats
    <2>3. FetcherFormat(d) = IF flags.SlurmCliFallback THEN "text" ELSE "json"
        BY <2>1, ConfigFields DEF FetcherFormat, SharedJobFetcher
    <2>4. QED
        BY <2>2, <2>3
<1>2. QED
    BY <1>1, TypeCorrect, PTL

-----------------------------------------------------------------------------
(* The findings of the violation runs, for every input rather than for   *)
(* the one TLC reports.                                                   *)

(* For every input, gpu_scrape_errors is never among the families the     *)
(* handler serves: GpuCollector's Describe and Collect send only the four *)
(* gauges, InitPromServer registers only the collector, and the exclude   *)
(* filter can only remove families.                                        *)
THEOREM ErrorCounterNeverExposed ==
    Spec => [](~cfg.err => GpuErrorCounter \notin Exposed(cfg))
<1>1. \A c : GpuErrorCounter \notin Families(c)
    BY DEF Families, GpuGauges, GpuErrorCounter
<1>2. GpuErrorCounter \notin Gathered(Registered(cfg))
    BY <1>1 DEF Gathered
<1>3. Exposed(cfg) \subseteq Gathered(Registered(cfg))
    BY DEF Exposed, NewPromHTTPServer
<1>4. ~cfg.err => GpuErrorCounter \notin Exposed(cfg)
    BY <1>2, <1>3
<1>5. QED
    BY <1>4, PTL

(* For every input, the fallback mode leaves the license and sdiag        *)
(* commands that were not overridden in their --json form: the fallback   *)
(* block of NewConfig has no legacy vector for them.                      *)
THEOREM FallbackKeepsJsonVectors ==
    Spec => [](~cfg.err =>
                 \A d \in {"lic", "sdiag"} :
                     flags[OverrideFlag[d]] = <<>> => Format(cfg.args[d]) = "json")
<1>1. ASSUME ~cfg.err, NEW d \in {"lic", "sdiag"}, flags[OverrideFlag[d]] = <<>>
      PROVE  Format(cfg.args[d]) = "json"
    <2>1. OverrideArgs(flags)[d] = DefaultArgs[d]
        BY <1>1 DEF OverrideArgs, Domains
    <2>2. d \notin DOMAIN FallbackDefaults
        BY DEF FallbackDefaults
    <2>3. cfg.args[d] = DefaultArgs[d]
        BY <1>1, <2>1, <2>2, ConfigFields DEF FallbackArgs, Domains
    <2>4. CASE d = "lic"
        <3>1. DefaultArgs[d] = <<"scontrol", "show", "lic", "--json">>
            BY <2>4 DEF DefaultArgs
        <3>2. QED
            BY <2>3, <3>1 DEF Format, Range
    <2>5. CASE d = "sdiag"
        <3>1. DefaultArgs[d] = <<"sdiag", "--json">>
            BY <2>5 DEF DefaultArgs
        <3>2. QED
            BY <2>3, <3>1 DEF Format, Range
    <2>6. QED
        BY <2>4, <2>5
<1>2. ~cfg.err =>
          \A d \in {"lic", "sdiag"} :
              flags[OverrideFlag[d]] = <<>> => Format(cfg.args[d]) = "json"
    BY <1>1
<1>3. QED
    BY <1>2, PTL

(* The default fallback sinfo vector, "sinfo -h -O Gres:30|", prints the  *)
(* GRES of a node in column 0, followed by an empty column after the "|". *)
LEMMA FallbackSinfoColumn ==
    GresColumn(<<"sinfo", "-h", "-O", "Gres:30|">>) = 0
<1> DEFINE a == <<"sinfo", "-h", "-O", "Gres:30|">>
<1>1. {i \in 1..Len(a) : a[i] = "-O"} = {3}
    OBVIOUS
<1>2. SelectInSeq(a, LAMBDA w : w = "-O") = 3
    BY <1>1 DEF SelectInSeq, Min
<1>3. "Gres:30|" \in DOMAIN GresColumnOf /\ GresColumnOf["Gres:30|"] = 0
    BY DEF GresColumnOf
<1>4. QED
    BY <1>2, <1>3 DEF GresColumn

(* For every input that selects the CLI fallback without overriding the   *)
(* sinfoGpu command, NewConfig hands GpuCliFallbackFetcher a sinfo whose  *)
(* GRES is in column 0, while fetchTotalGpus reads record[1]: the premise *)
(* of GpuCache_proofs' FallbackReportsNoTotal holds for every such start, *)
(* so the fallback GPU total is 0 whatever the cluster.                   *)
THEOREM FallbackSinfoMissesGres ==
    Spec => [](/\ ~cfg.err
               /\ flags.SlurmCliFallback
               /\ flags[OverrideFlag["sinfoGpu"]] = <<>>
               => GresColumn(cfg.args["sinfoGpu"]) = 0)
<1>1. ASSUME ~cfg.err, flags.SlurmCliFallback, flags[OverrideFlag["sinfoGpu"]] = <<>>
      PROVE  GresColumn(cfg.args["sinfoGpu"]) = 0
    <2>1. cfg.args["sinfoGpu"] = FallbackDefaults["sinfoGpu"]
        BY <1>1, ConfigFields, NotOverriddenArgs
    <2>2. FallbackDefaults["sinfoGpu"] = <<"sinfo", "-h", "-O", "Gres:30|">>
        BY DEF FallbackDefaults
    <2>3. QED
        BY <2>1, <2>2, FallbackSinfoColumn
<1>2. (/\ ~cfg.err
       /\ flags.SlurmCliFallback
       /\ flags[OverrideFlag["sinfoGpu"]] = <<>>)
       => GresColumn(cfg.args["sinfoGpu"]) = 0
    BY <1>1
<1>3. QED
    BY <1>2, PTL
=============================================================================
