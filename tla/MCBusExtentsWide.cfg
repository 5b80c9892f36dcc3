CONSTANTS
    Hosts = {h1}
    None = None
    LbaMax = 8191
    Capacities = {8191}
    Maxima = {256}
    Lists <- MCLongLists
SPECIFICATION Spec
PROPERTIES
    SendReplacesAllOrNothing
