SPECIFICATION MCSpec
CONSTANTS
    ros = ros
    backend = backend
    p1 = p1
    Order <- MCOrder
    Pull = {p1}
    Kinds = {"breaking", "otherBreaking", "feat", "fix", "perf", "fixes", "other"}
    MaxCommits = 3
    MaxFaults = 1
    MaxReruns = 1
INVARIANTS
    TypeOK
    VersionIsOneBuild
    TaggedReleaseIsWhole
    ReleasedCommentIsTrue
PROPERTIES
    PreviewIsKept
    CommitsAreReleased
CHECK_DEADLOCK FALSE
