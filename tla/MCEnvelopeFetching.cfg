CONSTANTS
    e3 = e3
    e6 = e6
    q = q
    t = t
    p1 = p1
    p2 = p2
    Envelope = {e3, e6}
    Item = {q, t}
    Peer = {p1, p2}
    Helper = p1
    NoItem = NoItem
    NoPeer = NoPeer
    SlotOf <- MCSlotOf
    ItemsOf <- MCItemsOf
    MaxSlots = 1
    Bracket = 1
    StartIndex = 2
    MaxIndex = 4
SPECIFICATION FairSpec
INVARIANTS
    NobodyForgotten
PROPERTIES
    GivenOnce
    EventuallyDecided
CHECK_DEADLOCK FALSE
