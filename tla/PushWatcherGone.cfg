SPECIFICATION Spec
CONSTANTS
    topic = topic
    inbox = inbox
    Ids = {s1}
    CutIds = {}
    Tokens = {k1, k2}
    Endpoints = {}
    TopicTags = {topic}
    InboxTags = {inbox}
    Like <- Matching
    Filters <- Registrable
    Events = {1, 2}
    TagsOf <- EventTags
    Ephemeral = {1}
    NoRow = NoRow
    RingSize = 1
    MaxRequests = 2
    MaxFaults = 2
CHECK_DEADLOCK FALSE
PROPERTIES DeletedTokensAreGone
