SPECIFICATION FairBoundedSpec
CONSTANTS
    Clients = {c1, c2}
    None = None
    Capacity = 1
    Kinds = {"good", "chatty"}
    Faults = {"server", "path"}
PROPERTIES
    BrokerProgress
