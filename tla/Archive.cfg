SPECIFICATION Spec
CONSTANTS
    Names <- WithDot
    SizeOf <- Sizes
    MaxPage = 2
    MaxFiles = 8
INVARIANTS
    PathsAnswered
    PrefixExact
    ListingExact
    PagesExact
    OneRangePerDirectory
