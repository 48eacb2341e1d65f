----------------------------- MODULE MC_GpuCache -----------------------------
(* Small instances of GpuCache for TLC.                                    *)
EXTENDS GpuCache, TLC

(* The gathering goroutines are interchangeable.                           *)
ProcSymmetry == Permutations(Procs)

(* The start-up that builds the GPU fetcher's commands.                   *)
Startup == INSTANCE Exporter

(* The GRES column of the sinfo vector NewConfig gives the fallback       *)
(* fetcher when no flag overrides it: the fetcher runs on the command the *)
(* exporter really builds rather than on a column chosen by hand.         *)
DefaultSinfoGresField ==
    Startup!GresColumn(
        Startup!NewConfig(Startup!DefaultFlags(TRUE), Startup!NoEnv).args.sinfoGpu)
=============================================================================
