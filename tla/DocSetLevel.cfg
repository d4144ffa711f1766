CONSTANTS
    Levels = {1, 2, 4, 6}
SPECIFICATION LoggingSpec
INVARIANTS
    LevelIsObeyed
