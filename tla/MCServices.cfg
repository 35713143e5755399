CONSTANTS
    Services = {"a", "b", "c"}
    Subs <- SomeSubs
    Types = {"intent"}
    Callers = {1}
    Actions = {"device:write", "system:reboot"}
    Capabilities = {"", "device:write"}
    Evaluators = {1}
    SafeDefaults <- SomeDefaults
SPECIFICATION ServicesSpec
INVARIANTS
    CallsFollowMembership
    RoutedInPriorityOrder
    JudgedAtOneMoment
