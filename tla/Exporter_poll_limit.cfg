\* A POLL_LIMIT of 0, -1, NaN or Inf is accepted.
CONSTANTS
    FlagValues <- Flags
    EnvValues <- Envs
SPECIFICATION Spec
INVARIANT PollLimitThrottles
