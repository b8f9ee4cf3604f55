CONSTANTS
    Agents = {a1, a2, a3, a4}
SPECIFICATION Spec
INVARIANTS
    TypeOK
    ReadyCountsThreads
    RegionIsCommon
PROPERTIES
    EntryIsRendezvous
    ExitIsRendezvous
    EveryoneGetsOut
