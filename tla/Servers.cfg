CONSTANTS
 None = None
 Handlers = {h1, h2}
 Loop = "loop"
 Booters = {}
 MaxSid = 1
 Clients = {c1, c2}
 Announcers = {t1}
 MaxId = 2
 Bad = Bad
 Kinds <- TwoUsers
 MaxRequests = 2
SPECIFICATION FairSpec
CHECK_DEADLOCK FALSE
INVARIANTS  WaitersKnown EachItsOwn DeafIsTimed
PROPERTIES ClosedIsForgotten WaitersAnswered
