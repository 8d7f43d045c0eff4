\* One v4 host, two v6 hosts (g6 is this machine), a name of both; two threads that
\* call the Communicator; two alarms.
CONSTANTS
    h6 = h6
    g6 = loopback
    name = name
    V4 = {h4}
    V6 = {h6, loopback}
    Name = {name}
    HostsOf <- MCHostsOf
    Loopback6 = loopback
    CentralHost = central
    Caller = {script, http}
    MaxPort = 4
    MaxDatagrams = 2
    Pair <- MCPair
SYMMETRY MCSymmetry
SPECIFICATION Spec
INVARIANTS AnswerFindsItsKeys OnlyKillsAreKills AlarmTypeOK StoredIsSent ConfirmedIsStored
 
