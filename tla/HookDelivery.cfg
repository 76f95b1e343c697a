SPECIFICATION DeliverySpec
CONSTANTS
    s1 = s1
    c1 = c1
    e1 = e1
    e2 = e2
    e3 = e3
    a1 = a1
    a2 = a2
    plugin = plugin
    settings = settings
    Session = {s1}
    Change = {c1}
    Lease = 2
    Within = 1
    NoBinding = NoBinding
    MaxBinds = 1
    Bound0 <- BoundAtFirst
    Place0 <- PlaceAtFirst
    Event = {e1, e2, e3}
    Channel = {plugin, settings}
    SessionOf <- MCSessionOf
    AgentOf <- MCAgentOf
    Scenario <- MCScenario
    Limit <- MCLimit
    Fragile = {plugin, settings}
    NoHook = NoHook
SYMMETRY ChannelSymmetry
CHECK_DEADLOCK FALSE
INVARIANT WritesAreDecided
INVARIANT LeasesFitCalls
INVARIANT ReadsAreBudgeted
PROPERTY BindingsLapse
