SPECIFICATION Spec
CONSTANTS
    Images = {a, b, c}
    NoImage = NoImage
    Uses = {"player"}
    MaxFrames = 5
CHECK_DEADLOCK FALSE
PROPERTIES Sequential
