SPECIFICATION Spec
CONSTANTS
    Drafts = {d1, d2}
    Requests = {r1, r2}
    Bodies = {b0, b1, broken}
    Broken = broken
    Installed = b0
    Proposals = {b1, broken}
    Bases = {1, 2}
    MaxVersion = 2
    MaxRevisions = 2
SYMMETRY Symmetric
CHECK_DEADLOCK FALSE
INVARIANT DeprecatedStaysDeprecated
