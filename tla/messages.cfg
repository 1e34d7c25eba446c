SPECIFICATION Spec
CONSTANTS
    max_string = 4
    max_container = 2
    kMaxReasonBytes = 3
    Tried <- All
    Texts <- Ascii
    Accented <- TwoBytes
    Lengths = {0, 1}
    Overwrites = {127}
INVARIANT SurvivesRoundTrip
INVARIANT OneEncoding
INVARIANT UnreadableOnlyIfCut
CHECK_DEADLOCK FALSE
