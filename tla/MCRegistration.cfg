CONSTANTS
    VTime = 1
    NonceIds = {1, 2, 3, 4}
    Offers <- MCOffers
SPECIFICATION FairSpec
INVARIANT FailureJustified
PROPERTY KeepsRegistering
