\* Two consoles come and go, each with its first broadcast, while a thread publishes; and
\* two threads publish twice each to one console; with fairness.
SPECIFICATION MCSpec
CONSTANTS
    s1 = s1
    s2 = s2
    p1 = p1
    p2 = p2
    Sessions = {s1, s2}
    Publishers = {p1, p2}
    MaxPublishes = 2
INVARIANTS
    ReturnsOnlyWhenDelivered
    SetFollowsSessions
    InOrderOnce
PROPERTY
    PublishEnds
CHECK_DEADLOCK FALSE
