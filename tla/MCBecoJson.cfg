SPECIFICATION Spec
CONSTANTS
    Docs <- MCDocs
    Additions <- MCAdditions
    Command <- MCCommand
    Width = 16
    NoCmd = NoCmd
    MaxHops = 2
    MaxPuts = 1
INVARIANTS OnlyKnownLosses IntsRead CommandAgrees
CHECK_DEADLOCK FALSE
