SPECIFICATION Spec
CONSTANTS
    MaxIds = 2
    IntHalf = 4
    Hold = 10
    MaxNow = 8
CHECK_DEADLOCK FALSE
PROPERTY HeldBack
