SPECIFICATION Spec
CONSTANTS
    c1 = c1
    c2 = c2
    p1 = p1
    p2 = p2
    Commands = {c1}
    Procs = {p1, p2}
    First = p1
    Changes <- MCSettings
    May <- MCSets
    CaddyVars <- MCCaddyVars
    Polls = 1
    Unset = Unset
CHECK_DEADLOCK FALSE
INVARIANTS
    SettingTakesEffect
