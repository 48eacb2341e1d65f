\* Fallback mode keeps the --json forms of lic and sdiag.
CONSTANTS
    FlagValues <- Flags
    EnvValues <- Envs
SPECIFICATION Spec
INVARIANT FallbackEveryDomain
