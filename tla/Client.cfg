SPECIFICATION Spec
CONSTANTS
    MaxStarts = 2
    AppTesters = {app}
    Testers = {1, 2, app}
    Ports = {1080, 1081}
INVARIANTS TypeOK OneVerdict OnlyTheLastProxy
PROPERTY TestAnswered
CHECK_DEADLOCK FALSE
