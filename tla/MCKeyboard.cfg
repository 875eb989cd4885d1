CONSTANTS
    KeyNames = {"LShift", "RShift", "LCtl", "RCtl", "RAlt", "Caps", "A", "Enter", "Point", "Del"}
    MaxDown = 3
    MaxSent = 3
SPECIFICATION Spec
INVARIANTS
    ModifiersFollowKeys
    EscapeIsTransient
    RebootOnlyByCtrlAltDel
PROPERTIES
    CharacterOfKey
CHECK_DEADLOCK FALSE
