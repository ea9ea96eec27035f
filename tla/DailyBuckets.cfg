\* A card on its learning steps, after its step is due.
SPECIFICATION DailySpec
CONSTANTS
    DeckCards = {n1, n2}
    DayLength = 2
    Cutoff = 1
    NewTarget = 1
    ReviewCeiling = 2
    MaxCards = 2
    ForecastDays = 3
    Failures = {"step"}
    LastInstant = 3
    MaxSessions = 1
    MaxAnswers = 2
INVARIANTS
    LearningCardsAreCounted
CHECK_DEADLOCK FALSE
