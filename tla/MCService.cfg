SPECIFICATION ServiceSpec
INVARIANTS
    CodeTellsSpent
    StrangersCostNothing
    WrongKeySpendsNothing
