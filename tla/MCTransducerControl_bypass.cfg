SPECIFICATION FairSpec
CONSTANTS
    q1 = q1
    q2 = q2
    s1 = s1
    s2 = s2
    a1 = a1
    Request = {q1, q2}
    Sensor = {s1, s2}
    Actuator = {}
    Asks <- AnySensor
    Heartbeat = Heartbeat
    None = None
    MaxFaults = 0
CHECK_DEADLOCK FALSE
PROPERTY RulesetRepopulated
