\* Two handlers, two sessions, a channel of one and two updates.
CONSTANTS
    None = None
    Handlers = {h1, h2}
    Sessions = {s1, s2}
    Chapters = {1, 2}
    ChanCap = 1
    MaxUpdates = 2
SPECIFICATION FairSpec
INVARIANTS
    TypeOK
    LastLineIsRow
PROPERTY FeedSpec
