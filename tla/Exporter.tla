------------------------------ MODULE Exporter ------------------------------
(***************************************************************************)
(* Start-up of the exporter, src/exporter/server.go: NewConfig turns the   *)
(* command-line flags and the environment into a Config (TTL, mode, the   *)
(* argument vector of every command, the shared job fetcher), and         *)
(* InitPromServer registers the collectors the Config enables behind the  *)
(* handler NewPromHTTPServer builds from the exclude regex.               *)
(*                                                                         *)
(* Text is a sequence of lexemes, as in GresParse: words, digits, signs,  *)
(* the separator " " and the regex wildcard ".*".  A metric name is cut   *)
(* so that no pattern of the model spans two lexemes.  Only the GPU       *)
(* collector's metric families are known here (the other collectors are  *)
(* not under src/): the exposition is modelled for those families.       *)
(* The log level, listen address, metrics path and trace path and rate   *)
(* are copied from flags to Config with no effect on what is checked and  *)
(* are left out.                                                           *)
(***************************************************************************)
EXTENDS Integers, SequencesExt

LOCAL Gres == INSTANCE GresParse

(* The domains that own a command argument vector in CliOpts.             *)
Domains == {"squeue", "sinfo", "lic", "sdiag", "sacctmgr", "sinfoGpu", "sacctGpu"}

(* A float as strconv.ParseFloat returns it: an integer, or a special.    *)
PosInf == "+Inf"
NegInf == "-Inf"
NaN == "NaN"

(* The numeral words of the model and their values.                       *)
NumeralValue == ("0" :> 0) @@ ("1" :> 1) @@ ("5" :> 5) @@ ("10" :> 10)

(* strconv.ParseFloat(s, 64): an optional sign and a numeral, or "NaN",   *)
(* or an optionally signed "Inf"/"Infinity" in any case; else an error.  *)
ParseFloatText(s) ==
    LET signed == Len(s) = 2 /\ s[1] \in {"+", "-"}
        neg    == signed /\ s[1] = "-"
        body   == IF signed THEN s[2] ELSE s[1]
    IN  IF Len(s) \notin {1, 2} \/ (Len(s) = 2 /\ ~signed) THEN [ok |-> FALSE]
        ELSE IF body \in DOMAIN NumeralValue
             THEN [ok |-> TRUE,
                   val |-> IF neg THEN -NumeralValue[body] ELSE NumeralValue[body]]
        ELSE IF body \in {"Inf", "inf", "Infinity", "infinity"}
             THEN [ok |-> TRUE, val |-> IF neg THEN NegInf ELSE PosInf]
        ELSE IF body \in {"NaN", "nan"} /\ ~signed
             THEN [ok |-> TRUE, val |-> NaN]
        ELSE [ok |-> FALSE]

(* x > 0 on a float: false for NaN and for -Inf.                          *)
IsPositive(x) == IF x \in Int THEN x > 0 ELSE x = PosInf

(* regexp.Compile: in the model's patterns only an unbalanced "(" fails.  *)
Compiles(re) == "(" \notin Range(re)

(* Regexp.MatchString: an unanchored search; m[i, j] says whether re from *)
(* i on matches a prefix of s from j on, ".*" matching any run of lexemes; *)
(* the empty pattern matches every string.                                 *)
MatchString(re, s) ==
    LET m[i \in 1..Len(re) + 1, j \in 1..Len(s) + 1] ==
            IF i > Len(re) THEN TRUE
            ELSE IF re[i] = ".*" THEN \E k \in j..Len(s) + 1 : m[i + 1, k]
            ELSE j <= Len(s) /\ s[j] = re[i] /\ m[i + 1, j + 1]
    IN  \E j \in 1..Len(s) + 1 : m[1, j]

-----------------------------------------------------------------------------
(* CliFlags as main fills it when no flag is given, in either mode.       *)
DefaultFlags(fallback) ==
    [SlurmLicEnabled |-> FALSE, SlurmDiagEnabled |-> FALSE,
     SlurmGpusEnabled |-> FALSE, SlurmCliFallback |-> fallback,
     TraceEnabled |-> FALSE, SacctEnabled |-> FALSE, SlurmPollLimit |-> 0,
     SlurmSqueueOverride |-> <<>>, SlurmSinfoOverride |-> <<>>,
     SlurmDiagOverride |-> <<>>, SlurmAcctOverride |-> <<>>,
     SlurmSinfoGpuOverride |-> <<>>, SlurmSacctGpuOverride |-> <<>>,
     SlurmLicenseOverride |-> <<>>, MetricsExcludeFilterRegex |-> <<>>]

(* No POLL_LIMIT in the environment.                                       *)
NoEnv == [POLL_LIMIT |-> <<>>]

(* The argument vectors NewConfig starts from (the --json forms, and the  *)
(* parsable sacctmgr form).                                                *)
DefaultArgs ==
    [squeue   |-> <<"squeue", "--json">>,
     sinfo    |-> <<"sinfo", "--json">>,
     lic      |-> <<"scontrol", "show", "lic", "--json">>,
     sdiag    |-> <<"sdiag", "--json">>,
     sacctmgr |-> <<"sacctmgr", "show", "assoc", "format=User,Account,GrpCPU,GrpMem,GrpJobs,GrpSubmit",
                    "--noheader", "--parsable2">>,
     sinfoGpu |-> <<"sinfo", "--json">>,
     sacctGpu |-> <<"sacct", "-a", "-X", "--format=AllocGRES", "--state=RUNNING", "--json">>]

(* The legacy text forms the fallback mode puts in place of the defaults. *)
FallbackDefaults ==
    [squeue   |-> <<"squeue", "--states=all", "-h", "-r", "-o", "{squeue-json-line}">>,
     sinfo    |-> <<"sinfo", "-h", "-O", "StateCompact:12|,...,AllocMem:15">>,
     sinfoGpu |-> <<"sinfo", "-h", "-O", "Gres:30|">>,
     sacctGpu |-> <<"sacct", "-a", "-X", "--format=AllocGRES", "--state=RUNNING",
                    "--noheader", "--parsable2">>]

(* The flag that overrides each domain's vector.                           *)
OverrideFlag ==
    [squeue |-> "SlurmSqueueOverride", sinfo |-> "SlurmSinfoOverride",
     lic |-> "SlurmLicenseOverride", sdiag |-> "SlurmDiagOverride",
     sacctmgr |-> "SlurmAcctOverride", sinfoGpu |-> "SlurmSinfoGpuOverride",
     sacctGpu |-> "SlurmSacctGpuOverride"]

(* PollLimit: 10, then POLL_LIMIT if set (an unparsable one is an error), *)
(* then the flag if it is positive.                                        *)
ResolvePollLimit(flags, env) ==
    LET parsed == ParseFloatText(env.POLL_LIMIT)
        fromEnv == IF env.POLL_LIMIT = <<>> \/ ~parsed.ok THEN 10 ELSE parsed.val
    IN  IF IsPositive(flags.SlurmPollLimit) THEN flags.SlurmPollLimit ELSE fromEnv

(* A non-empty override replaces the vector by its space-separated words. *)
OverrideArgs(flags) ==
    [d \in Domains |->
        IF flags[OverrideFlag[d]] # <<>>
        THEN Gres!Split(flags[OverrideFlag[d]], " ")
        ELSE DefaultArgs[d]]

(* A mutant: the sinfoGpu default is guarded by the sinfo override flag. *)
FallbackArgsSinfoFlag(flags, args) ==
    IF ~flags.SlurmCliFallback THEN args
    ELSE [d \in Domains |->
            LET guard == IF d = "sinfoGpu" THEN "SlurmSinfoOverride" ELSE OverrideFlag[d]
            IN  IF d \in DOMAIN FallbackDefaults /\ flags[guard] = <<>>
                THEN FallbackDefaults[d] ELSE args[d]]

(* Fallback mode: each fallback-capable domain that was not overridden    *)
(* takes its legacy text form.                                             *)
FallbackArgs(flags, args) ==
    IF ~flags.SlurmCliFallback THEN args
    ELSE [d \in Domains |->
            IF d \in DOMAIN FallbackDefaults /\ flags[OverrideFlag[d]] = <<>>
            THEN FallbackDefaults[d] ELSE args[d]]

(* The job fetcher shared by the job and trace collectors, built with the *)
(* resolved TTL.                                                           *)
SharedJobFetcher(flags, env) ==
    [kind |-> IF flags.SlurmCliFallback THEN "JobCliFallbackFetcher" ELSE "JobJsonFetcher",
     limit |-> ResolvePollLimit(flags, env)]

(* NewConfig: an error for an exclude regex that does not compile or a    *)
(* POLL_LIMIT that does not parse, else the Config.                        *)
NewConfig(flags, env) ==
    IF ~Compiles(flags.MetricsExcludeFilterRegex)
       \/ (env.POLL_LIMIT # <<>> /\ ~ParseFloatText(env.POLL_LIMIT).ok)
    THEN [err |-> TRUE]
    ELSE [err          |-> FALSE,
          PollLimit    |-> ResolvePollLimit(flags, env),
          fallback     |-> flags.SlurmCliFallback,
          gpusEnabled  |-> flags.SlurmGpusEnabled,
          licEnabled   |-> flags.SlurmLicEnabled,
          diagsEnabled |-> flags.SlurmDiagEnabled,
          sacctEnabled |-> flags.SacctEnabled,
          traceEnabled |-> flags.TraceEnabled,
          args         |-> FallbackArgs(flags, OverrideArgs(flags)),
          exclude      |-> flags.MetricsExcludeFilterRegex,
          jobFetcher   |-> SharedJobFetcher(flags, env)]

-----------------------------------------------------------------------------
(* The four gauges NewGpuCollector describes, and the error counter it    *)
(* creates inside the fetcher.                                             *)
GpuGauges ==
    {<<"slurm", "_", "gpu", "s", "_", "alloc">>, <<"slurm", "_", "gpu", "s", "_", "idle">>,
     <<"slurm", "_", "gpu", "s", "_", "total">>,
     <<"slurm", "_", "gpu", "s", "_", "utilization">>}
GpuErrorCounter == <<"gpu", "_", "scrape", "_", "errors">>

(* What a registered collector contributes to a gather: GpuCollector's    *)
(* Describe and Collect send the four gauges and nothing else.            *)
Families(c) == IF c = "gpu" THEN GpuGauges ELSE {}

(* InitPromServer: node and job collectors always, the others by flag.   *)
Registered(cfg) ==
    {"node", "jobs"}
    \cup (IF cfg.traceEnabled THEN {"trace"} ELSE {})
    \cup (IF cfg.licEnabled THEN {"lic"} ELSE {})
    \cup (IF cfg.diagsEnabled THEN {"diag"} ELSE {})
    \cup (IF cfg.sacctEnabled THEN {"limit"} ELSE {})
    \cup (IF cfg.gpusEnabled THEN {"gpu"} ELSE {})

Gathered(collectors) == UNION {Families(c) : c \in collectors}

(* NewPromHTTPServer: with an empty regex, the plain handler; else the    *)
(* gathered families whose name the regex does not match.                 *)
NewPromHTTPServer(re, collectors) ==
    IF re = <<>> THEN Gathered(collectors)
    ELSE {f \in Gathered(collectors) : ~MatchString(re, f)}

Exposed(cfg) == NewPromHTTPServer(cfg.exclude, Registered(cfg))

(* The output format of an argument vector.                                *)
Format(args) == IF "--json" \in Range(args) THEN "json" ELSE "text"

(* The column of a fallback sinfo row holding GRES, from the -O format    *)
(* (sinfo prints one column per field, and the "|" suffix of the last     *)
(* field opens one more, empty, column).                                   *)
GresColumnOf ==
    [f \in {"Gres:30|", "NodeHost:20|,Gres:30"} |-> IF f = "Gres:30|" THEN 0 ELSE 1]
GresColumn(args) ==
    LET o == SelectInSeq(args, LAMBDA w : w = "-O")
    IN  IF o # 0 /\ o < Len(args) /\ args[o + 1] \in DOMAIN GresColumnOf
        THEN GresColumnOf[args[o + 1]] ELSE -1
=============================================================================
