SPECIFICATION DialectSpec
CONSTANTS
    Oracles = {"openai", "anthropic", "bedrock", "gemini", "ollama"}
    Action = {find, order}
    MaxBatch = 2
    MaxAnswers = 2
INVARIANTS
    CallsAreAnswered
CHECK_DEADLOCK FALSE
