\* Two slammers and a reader, with fewer descriptors than they all need; one round of two
\* pages, so that the sum so far differs from the page.
SPECIFICATION Spec
CONSTANTS
    Slammers = {s1, s2}
    Readers = {r1}
    MaxPages = 2
    MaxRounds = 1
    NFd = 3
INVARIANTS
    NoStrayFile
    OwnDescriptors
    ErrorsCloseAll
    LostUpdatesOnlyLower
PROPERTIES
    EverybodyEnds
