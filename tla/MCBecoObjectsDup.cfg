SPECIFICATION Spec
CONSTANTS
    Blocks = 6
    Reserve = 2
    MaxHeld = 2
    MaxSize = 3
    Rules <- DupRules
INVARIANTS OneOwner
CHECK_DEADLOCK FALSE
