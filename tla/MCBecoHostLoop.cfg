SPECIFICATION FairSpec
CONSTANTS
    hello = hello  close = close  f = f  g = g
    Cmds <- MCCmds
    Funs <- OneFun
    NoCmd = NoCmd  BadJson = BadJson  NullFun = NullFun  Unset = Unset
    InCap = 2
    OutCap = 1
    MaxFrames = 3
    MaxEntries = 1
    MaxTable = 9
    MaxSends = 1
INVARIANT LateBound
PROPERTIES Served Stops
CHECK_DEADLOCK FALSE
