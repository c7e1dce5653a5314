SPECIFICATION Spec
CONSTANTS
    None = None
    Junk = Junk
    Number = {1, 9}
    Words <- MCWords
    Slots = {1}
    Lines = {}
    Keys <- MCKeys
    Second = 3
    Word = 64
    MixerMax = 7
    Wide = 2048
CHECK_DEADLOCK FALSE
PROPERTIES WinPlusKey
