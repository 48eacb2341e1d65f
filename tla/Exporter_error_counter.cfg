\* The GPU error counter is never registered.
CONSTANTS
    FlagValues <- Flags
    EnvValues <- Envs
SPECIFICATION Spec
INVARIANT ErrorCounterExposed
