SPECIFICATION Spec
CONSTANTS
    Textures <- MCTextures
    MaxUses = 3
    MaxCommands = 3
INVARIANTS
    UsagesAreTrue
    
    NoRace
    NoDirtyRead
    ValidationIsExact
CHECK_DEADLOCK FALSE
