SPECIFICATION FairSpec
CONSTANTS
    None = None
    Horizon = 3
    Most = 2
    Rates = {2}
    Looks <- OneThingAmiss
    Faults = {"unread", "lost"}
    MaxTurns = 1
INVARIANTS BudgetIsKept
PROPERTIES ImplementsDayTrade TradeIsClosed
CHECK_DEADLOCK FALSE
