SPECIFICATION Spec
CONSTANTS
    Computer = Computer
    Music = Music
    Folders = {Computer, Music}
    Saved <- MCSaved
    MaxActs = 4
    MaxSaved = 2
    Null = Null
    Broken = Broken
INVARIANTS OneViewPerTab TabsFollowViews 
PROPERTY SessionSurvives
