CONSTANTS
    NULL = NULL
    published = published
    updated = updated
    named = named
    renamed = renamed
    scheduled = scheduled
    opened = opened
    Facts <- PublicFacts
    KindOf <- PublicKinds
    VersionOf <- PublicVersions
    Written <- PublicWritten
    PublicAtFirst = TRUE
    Tiers = 1
    MaxFaults = 1
SPECIFICATION Spec
INVARIANT
    NoSilentGap
    NoFactLost
PROPERTY
    IndexNeverBack
\* Every message handled, nothing is left to do.
CHECK_DEADLOCK FALSE
