SPECIFICATION Spec
CONSTANTS
    HeadMin = 6
    BodyMax = 8
    Scripts <- Peers
    Managers <- AllManagers
INVARIANTS
    IdentifiedRight
    Exact
    NothingInvented
CONSTRAINT FewTexts
CHECK_DEADLOCK FALSE
