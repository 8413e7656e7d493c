SPECIFICATION PollingSpec
CONSTANTS
    t1 = t1
    t2 = t2
    Tags = {t1, t2}
    MaxChanges = 2
    MaxRules = 2
    MaxRuleChanges = 1
    MaxPushes = 3
    MaxFaults = 1
INVARIANT
    PollingTypeOK
PROPERTIES
    ChangeIsApplied
    EventIsServed
    RulesComeIntoForce
CHECK_DEADLOCK FALSE
