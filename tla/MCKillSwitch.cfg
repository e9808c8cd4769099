INIT SettingsInit
NEXT SettingsNext
CONSTANTS
    OptionsPages = {o1, o2}
    MaxPresses = 2
INVARIANT KillSwitchHolds
CHECK_DEADLOCK FALSE
