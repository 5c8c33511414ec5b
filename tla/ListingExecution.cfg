SPECIFICATION FairSpec
CONSTANTS
    item = item
    published_item = published_item
    missing = missing
    blank = blank
    text = text
    nan = nan
    s1 = s1
    s2 = s2
    a1 = a1
    a2 = a2
    Services = {s1, s2}
    Attempts = {a1, a2}
    Listings <- TwoIds
    ListingOf <- SameListing
    EbayIdOf <- SamePublished
    Requests <- Ordinary
    Numbers = {1}
    None = None
    MaxCalls = 2
    MaxFaults = 1
INVARIANTS
    PublishedOnce
    ExecutedIsPublished
    Settled
    ActiveIsPublished
PROPERTIES
    AuditedFirst
    CallsEnd
CHECK_DEADLOCK FALSE
