CONSTANTS
    MaxLines = 20
    Texts = {0, 1, 7}
    Heights = {10, 30, 50}

CHECK_DEADLOCK FALSE
SPECIFICATION Spec
INVARIANTS
    WindowInside
    FocusFollows
