SPECIFICATION Spec
CONSTANTS
    Tasks = {t1}
    Browsers = {b1, b2}
    Presets = {hourly, daily}
    Off = Off
    Absent = Absent
    NoRow = NoRow
    Gone = Gone
    NoTask = NoTask
    MaxActs = 4
    MaxIncidents = 1
SYMMETRY Interchangeable
INVARIANT OffMeansOff
CHECK_DEADLOCK FALSE
