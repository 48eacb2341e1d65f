------------------------------- MODULE Startup -------------------------------
(***************************************************************************)
(* One start of the exporter, main calling NewConfig and InitPromServer:  *)
(* the state is the input of the start, the flags main parsed and the     *)
(* environment, drawn from FlagValues and EnvValues.  The Config is a     *)
(* function of the input, so a restart with the same flags and            *)
(* environment (Restart) reaches nothing new.                              *)
(***************************************************************************)
EXTENDS Exporter

CONSTANTS
    FlagValues,  \* the CliFlags main may have parsed
    EnvValues    \* the environments the process may start in

(* CliFlags: booleans, the float poll-limit flag (an integer here), and   *)
(* strings as lexeme sequences.                                           *)
CliFlagsType ==
    [SlurmLicEnabled: BOOLEAN, SlurmDiagEnabled: BOOLEAN,
     SlurmGpusEnabled: BOOLEAN, SlurmCliFallback: BOOLEAN,
     TraceEnabled: BOOLEAN, SacctEnabled: BOOLEAN,
     SlurmPollLimit: Int,
     SlurmSqueueOverride: Seq(STRING), SlurmSinfoOverride: Seq(STRING),
     SlurmDiagOverride: Seq(STRING), SlurmAcctOverride: Seq(STRING),
     SlurmSinfoGpuOverride: Seq(STRING), SlurmSacctGpuOverride: Seq(STRING),
     SlurmLicenseOverride: Seq(STRING), MetricsExcludeFilterRegex: Seq(STRING)]
EnvType == [POLL_LIMIT: Seq(STRING)]

ASSUME InputAssumption ==
    /\ FlagValues \subseteq CliFlagsType
    /\ EnvValues \subseteq EnvType

VARIABLES flags, env
vars == <<flags, env>>

Init == flags \in FlagValues /\ env \in EnvValues
Restart == UNCHANGED vars
Next == Restart
Spec == Init /\ [][Next]_vars

(* The input is one main could have parsed.                                *)
TypeOK == flags \in CliFlagsType /\ env \in EnvType

cfg == NewConfig(flags, env)

(* The fetcher that reads each command's output and the format it needs:  *)
(* the shared job fetcher reads squeue, the GPU fetcher NewGpuCollector    *)
(* builds from the fallback flag reads sinfoGpu and sacctGpu.             *)
FetcherFormat(d) ==
    IF d = "squeue"
    THEN IF cfg.jobFetcher.kind = "JobJsonFetcher" THEN "json" ELSE "text"
    ELSE IF cfg.fallback THEN "text" ELSE "json"

(* Spec 4.5 and 6: in either mode, every command whose vector the user   *)
(* did not override emits the format its fetcher parses: NewConfig's      *)
(* fallback block replaces exactly the defaults that were not overridden. *)
FetchersMatchFormats ==
    ~cfg.err =>
        \A d \in {"squeue", "sinfoGpu", "sacctGpu"} :
            flags[OverrideFlag[d]] = <<>> => Format(cfg.args[d]) = FetcherFormat(d)

(* Spec 4.2 and 6: PollLimit is a TTL in seconds that throttles the      *)
(* scrapes to one per window, so a Config that starts has a finite        *)
(* positive one.                                                           *)
PollLimitThrottles ==
    ~cfg.err => cfg.PollLimit \in Int /\ cfg.PollLimit > 0

(* Spec 6: the GPU domain's error counter gpu_scrape_errors is exposed as *)
(* its own series when the GPU collector is enabled and not excluded.     *)
ErrorCounterExposed ==
    (~cfg.err /\ cfg.gpusEnabled
       /\ ~(cfg.exclude # <<>> /\ MatchString(cfg.exclude, GpuErrorCounter)))
        => GpuErrorCounter \in Exposed(cfg)

(* Spec 6: with the fallback flag, every domain's command uses its legacy *)
(* text form instead of --json, unless the user overrode it.              *)
FallbackEveryDomain ==
    (~cfg.err /\ cfg.fallback) =>
        \A d \in Domains : flags[OverrideFlag[d]] = <<>> => Format(cfg.args[d]) = "text"
=============================================================================
