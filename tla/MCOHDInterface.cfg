CONSTANTS
    Ips = {"ip1", "ip2", "host"}
    Manual = {"ip2"}
    HostIps = {"host"}
    Clients = {"c1", "c2"}
    ClientIp <- MCClientIp
    MaxEvents = 3
    Units <- MCUnits
    CardOrder <- MCCardOrder
    CardType <- MCCardType
    MaxPolls = 1
SPECIFICATION InterfaceSpec
INVARIANTS DevicesServed RolesSettle AnsweredAsTaken
PROPERTIES StopCompletes
CHECK_DEADLOCK FALSE
