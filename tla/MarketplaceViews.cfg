SPECIFICATION ViewSpec
CONSTANTS
    Identities = {"k1", "k2"}
    MaxAsks = 3
    Names = {"a", "b"}
    Price <- MCPrice
    MaxModals = 2
    MaxQuotes = 2
    MaxSubmits = 2
    MaxPolls = 1
    Operators = {"o1", "o2"}
    Addresses = {"n1", "n2"}
    Targets = {"t1", "t2"}
    Holdings <- MCHoldings
    MaxTables = 2
    MaxActions = 2
INVARIANTS ViewConsistency QuoteIsCurrent TableIsTrue
PROPERTIES FinalIsFinal PaymentIsShown ManageSettles
CHECK_DEADLOCK FALSE
