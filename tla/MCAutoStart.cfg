SPECIFICATION SettingsSpec
CONSTANTS
    Typed = {60000}
    Trial = 3
    IpMayFail = TRUE
PROPERTIES StartsByItself
