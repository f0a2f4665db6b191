SPECIFICATION Spec
CONSTANTS
    N = 4
    MAX_NEST_DEPTH = 4
    States <- MCStates
    Top <- MCTop
    Hierarchies <- MCHierarchies
INVARIANTS
    ActiveConfiguration
    HistoryIsLastActive
PROPERTIES
    EntryExitOrder
    ScopeOrOutermostSelf
