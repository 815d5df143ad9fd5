SPECIFICATION MCSpec
CONSTANTS
    NoFigure = NoFigure
    Nights = {n1, n2}
    Reporters = {r1}
    Figures <- MCFigures
    Predicted = 8
    Window = 1
    MaxDay = 2
    MaxCycle = 2
    MaxReports = 2
    MaxCrashes = 1
INVARIANTS HonestVerdicts OneVerdict
PROPERTIES MeasuredIsFinal DueIsJudged NewerReportScored
CHECK_DEADLOCK FALSE
