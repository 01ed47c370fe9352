SPECIFICATION MCSpec
CONSTANTS
    Texts <- MCTexts
    Padding = 4
    NumberTexts <- MCNumberTexts
    Halves <- MCHalves
    Word = 10
    SafeDig = 3
    MaxDig = 5
    MinExp <- Lowest
    MaxExp = 4
INVARIANTS Decodes InPlace Rereads ReadsNumbers Rounds
CHECK_DEADLOCK FALSE
