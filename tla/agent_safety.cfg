SPECIFICATION AFairSpec
CONSTANTS
    MAX_TURNS = 3
    SELF_REVIEW_MAX_TURNS = 2
    LLM_MAX_RETRIES = 2
    MaxCalls = 2
    SelfReview = TRUE
INVARIANTS
    Conversation
    Earned
    CancelBound
PROPERTIES
    Ends
CHECK_DEADLOCK FALSE
