\* Both receive functions; the waits of agent_recv_filter may end spuriously.
CONSTANTS
    Senders = {s1, s2}
    Kinds = {k1, k2}
    Calls = {"recv", "recv_filter"}
    SpuriousIn = {"recv_filter"}
    MaxSends = 2
SPECIFICATION Spec
INVARIANTS
    TypeOK
    NoLostWakeup
PROPERTIES
    IsMessageQueue
    CallsReturn
\* The senders may have nothing more to send: the receiver then sleeps on.
CHECK_DEADLOCK FALSE
