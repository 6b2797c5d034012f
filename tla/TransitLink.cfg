\* Two machines and two connections of hosts, one of the machines online by another
\* channel too; a restart of the client; under the fairness of its thread.
CONSTANTS
    Machine = {m1, m2}
    Elsewhere = {m1}
    Conn = {a, b}
    Stranger = stranger
    None = None
    ReconnectGap = 0
    ReceiveGap = 0
    SuppressGap = 1
    MaxIn = 1
    MaxOut = 2
    MaxRestarts = 1
SPECIFICATION FairSpec
INVARIANTS TypeOK RoutesLive Accounted
PROPERTIES LossShown Reconnects
