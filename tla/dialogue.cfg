\* Six rounds over a window of two: the window is full after three rounds and moves
\* for three more.  Two retries of each kind, two past images, one extra view; the
\* configurations and replies of MCDialogue.
CONSTANTS
    MaxRounds = 6
    Window = 2
    ParseRetries = 2
    PostRetries = 2
    PastImages = 2
    ExtraViews = 1
    Modes = {"episode", "round1", "stateless"}
    Bounds <- MCBounds
    Configs <- MCConfigs
    Heard <- MCHeard
SPECIFICATION RoundSpec
INVARIANTS
    PayloadIsPromised
    PastImagesOnce
    PostsBounded
    RepliesAreMeant
PROPERTIES
    RoundResolves
CHECK_DEADLOCK FALSE
