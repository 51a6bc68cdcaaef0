SPECIFICATION Spec
CONSTANTS
    r1 = r1
    r2 = r2
    v0 = v0
    v1 = v1
    Request = {r1, r2}
    Content <- MCContent
    PullRequestsFitOnePage = TRUE
SYMMETRY Symmetry
CHECK_DEADLOCK FALSE
PROPERTY
    UpdateReplacesWhatWasEdited
