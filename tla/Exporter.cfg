\* Every start over the flag and environment sets of MC_Exporter.
CONSTANTS
    FlagValues <- Flags
    EnvValues <- Envs
SPECIFICATION Spec
INVARIANTS
    FetchersMatchFormats
