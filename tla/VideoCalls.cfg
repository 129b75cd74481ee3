SPECIFICATION Spec
CONSTANTS
    Images = {a, b, c}
    NoImage = NoImage
    Uses = {"spaced", "eager", "player"}
    MaxFrames = 6
CHECK_DEADLOCK FALSE
INVARIANTS TypeOK QueueInv NothingTakenBack
PROPERTIES SequentialIfSpaced
