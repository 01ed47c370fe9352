SPECIFICATION Spec
CONSTANTS
    Blocks = 6
    Reserve = 2
    MaxHeld = 2
    MaxSize = 3
    Rules <- AllRules
INVARIANTS NoDangling OneOwner KnownLeaks NullsWrap
CONSTRAINT Room
CHECK_DEADLOCK FALSE
