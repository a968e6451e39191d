SPECIFICATION WarmSpec
CONSTANTS
    Route = {"sender", "jito"}
    DefaultRoute = "sender"
    Target = {"rpc", "ping", "tips"}
    StateTargets = {"rpc"}
    EndpointOf <- MCEndpointOf
    FallbackOf <- MCFallbackOf
    Presets <- MCPresets
    Client = {c1}
    Forms <- MCForms
    JobRoutes = {{}, {"jito"}}
    IdleSuspend = TRUE
    MaxChanges = 1
PROPERTIES
    RoutesProbed
    WarmStops
CHECK_DEADLOCK FALSE
