SPECIFICATION MCSpec
CONSTANTS
    Calls = {c1, c2}
    Flags <- TwoFlags
    Others <- TwoMore
    MaxMistakes = 1
    Passwords <- FourPasswords
    Valid <- ThreeValid
    Ascii <- ThreeAscii
INVARIANTS TypeOK FilesOfOneHand ServesDistinctFlags LoginFindsPassword
PROPERTIES FilledTogether
