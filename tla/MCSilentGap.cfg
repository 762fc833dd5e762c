CONSTANTS
    NULL = NULL
    published = published
    updated = updated
    named = named
    renamed = renamed
    scheduled = scheduled
    opened = opened
    Facts <- FirstFacts
    KindOf <- FirstKinds
    VersionOf <- FirstVersions
    Written <- FirstWritten
    PublicAtFirst = FALSE
    Tiers = 1
    MaxFaults = 0
SPECIFICATION Spec
INVARIANT
    NoSilentGap
\* Every message handled, nothing is left to do.
CHECK_DEADLOCK FALSE
