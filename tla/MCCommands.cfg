SPECIFICATION QuickSpec
CONSTANTS
    None = None
    Junk = None
    Number = {8, 1020}
    Words <- QuickWords
    Slots = {8, 9}
    Lines = {notepad}
    Keys = {}
    Second = 3
    Word = 2048
    MixerMax = 7
    Wide = 2048
PROPERTIES VolumeDirection EnteredIsSaved StartsWhatWasAccepted
