CONSTANTS
    Texts <- MCTexts
    Commands <- MCCommands
    Missing = Missing
SPECIFICATION Spec
INVARIANT SeparableArrive
CHECK_DEADLOCK FALSE
