\* Six links and two slots: the third link to hold a button evicts another.  Four
\* frames are a hold on three links and a stop; the sequence wraps after three.
CONSTANTS
    SLOTS = 2
    Links <- MCLinks
    LastSequence = 3
    MaxFrames = 4
SPECIFICATION Spec
INVARIANTS
    ActionIsGesture
    NothingLost
    SlotsTellHolds
CHECK_DEADLOCK FALSE
