\* Two requests of two tenants for the platform's server and two other hosts.
CONSTANTS
    Requests = {q1, q2}
    Tenants = {t1, t2}
    Hosts = {local, h1, h2}
    Old = {local, h1}
    SshKeys = {"a", "b"}
    Pastes <- MCPastes
    Localhost = local
    First = First
    Nobody = Nobody
    NoHost = NoHost
    NoPaste = NoPaste
    NoKey = NoKey
SPECIFICATION Spec
INVARIANTS TypeOK KeyIsAsAsked TakenByOthers
PROPERTIES RequestsEnd
CHECK_DEADLOCK FALSE
