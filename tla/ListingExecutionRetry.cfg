SPECIFICATION Spec
CONSTANTS
    item = item
    published_item = published_item
    missing = missing
    blank = blank
    text = text
    nan = nan
    s1 = s1
    a1 = a1
    Services = {s1}
    Attempts = {a1}
    Listings <- TwoIds
    ListingOf <- SameListing
    EbayIdOf <- SamePublished
    Requests <- LiveOnly
    Numbers = {1}
    None = None
    MaxCalls = 1
    MaxFaults = 1
INVARIANTS
    RetryIsSafe
CHECK_DEADLOCK FALSE
