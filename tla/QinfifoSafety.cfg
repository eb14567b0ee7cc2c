\* Three commands on four hardware SCBs and a ring of four entries; the second
\* device is on the other channel, whose resets do not stop a fetch, and may
\* leave the bus at a negotiation.
CONSTANTS
    Reqs = {r1, r2, r3}
    Device <- TwoDevices
    Scbs = {s1, s2, s3, s4}
    Tags = {t1, t2, t3, t4}
    next_queued_scb = s4
    RingSize = 4
    None = None
    ChannelB = {r3}
    Rejecting = {r3}
    ResetsPerFetch = 1
SPECIFICATION Spec
VIEW LiveState
SYMMETRY ScbSymmetry
INVARIANTS
    QueueConsistent
    NoStaleCommand
    SenseComesFirst
PROPERTY
    ImplementsRequestQueue
