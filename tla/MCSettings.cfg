SPECIFICATION SettingsSpec
CONSTANTS
    Typed = {1024, 60000}
    Trial = 3
    IpMayFail = TRUE
INVARIANTS PortRemembered
PROPERTIES StartsAgain StaysRegistered TrialEnds
