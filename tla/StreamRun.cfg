SPECIFICATION Spec
CONSTANTS
    None = None
    MaxCalls = 2
    Protocols = {"openai", "proxy", "anthropic", "responses", "codex", "gemini"}
    Apis = {"chat", "messages", "responses"}
    Labels = {{}, {"item"}, {"out"}}
    Attempts = 2
    MaxPieces = 3
INVARIANTS OneEnding Faithful BlocksWellFormed Answered 
CHECK_DEADLOCK FALSE
