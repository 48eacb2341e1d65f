----------------------------- MODULE MC_Exporter -----------------------------
(***************************************************************************)
(* Startup over small sets of flags and environments: one value per      *)
(* branch of NewConfig and of the exclude filter.                          *)
(***************************************************************************)
EXTENDS Startup

(* The texts a flag or POLL_LIMIT may hold, as lexeme sequences.          *)
PollLimitTexts ==
    {<<>>, <<"5">>, <<"0">>, <<"-", "1">>, <<"NaN">>, <<"Inf">>, <<"5", "s">>}
ExcludeRegexes ==
    {<<>>, <<"gpu">>, <<"idle">>, <<"slurm", "_", "gpu", "s", "_", ".*">>, <<"(">>}

Flags ==
    [SlurmLicEnabled: BOOLEAN, SlurmDiagEnabled: BOOLEAN,
     SlurmGpusEnabled: BOOLEAN, SlurmCliFallback: BOOLEAN,
     TraceEnabled: BOOLEAN, SacctEnabled: BOOLEAN,
     SlurmPollLimit: {0, -1, 5},
     SlurmSqueueOverride: {<<>>, <<"squeue", " ", "--json">>},
     SlurmSinfoOverride: {<<>>, <<"sinfo", " ", "--json">>},
     SlurmDiagOverride: {<<>>},
     SlurmAcctOverride: {<<>>},
     SlurmSinfoGpuOverride: {<<>>, <<"sinfo", " ", "-h", " ", "-O", " ", "NodeHost:20|,Gres:30">>},
     SlurmSacctGpuOverride: {<<>>, <<"sacct", " ", "-a", " ", "--noheader", " ", "--parsable2">>},
     SlurmLicenseOverride: {<<>>},
     MetricsExcludeFilterRegex: ExcludeRegexes]
Envs == [POLL_LIMIT: PollLimitTexts]
=============================================================================
