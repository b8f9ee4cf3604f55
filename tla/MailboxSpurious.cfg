\* The wait of agent_recv may end spuriously.
CONSTANTS
    Senders = {s1, s2}
    Kinds = {k1, k2}
    Calls = {"recv", "recv_filter"}
    SpuriousIn = {"recv"}
    MaxSends = 2
SPECIFICATION Spec
INVARIANTS
    FirstEntryExists
CHECK_DEADLOCK FALSE
