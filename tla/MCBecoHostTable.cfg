SPECIFICATION Spec
CONSTANTS
    hello = hello  close = close  f = f  g = g
    Cmds <- MCCmds
    Funs <- MCFuns
    NoCmd = NoCmd  BadJson = BadJson  NullFun = NullFun  Unset = Unset
    InCap = 1
    OutCap = 1
    MaxFrames = 1
    MaxEntries = 3
    MaxTable = 9
    MaxSends = 0
INVARIANT HeapExact
PROPERTY ImplementsTable
SYMMETRY MCSymmetry
CHECK_DEADLOCK FALSE
