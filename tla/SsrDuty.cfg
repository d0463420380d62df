SPECIFICATION DutySpec
CONSTANTS
    Modulo = 40
    Percents = {5, 50, 95, 100}
    CountWrap = 2
INVARIANTS
    DriveJustified
    SteadyDuty
    OneBurst
PROPERTIES
    OnDrives
