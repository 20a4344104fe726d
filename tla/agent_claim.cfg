SPECIFICATION ASpec
CONSTANTS
    MAX_TURNS = 3
    SELF_REVIEW_MAX_TURNS = 2
    LLM_MAX_RETRIES = 2
    MaxCalls = 2
    SelfReview = TRUE
CHECK_DEADLOCK FALSE
INVARIANT
    ReviewClaim
