SPECIFICATION Spec
CONSTANTS
    Variants = {v1,v2}
    Listings = {l1,l2}
    Shop = s1
    Shops = {s1}
    ShopOf <- OneShop
    Cases = {c1,c2}
    Matchers = {m1,m2}
    Reviewers = {p1,p2}
    MaxDrifts = 1
    MaxTurns = 3
    None = None
INVARIANTS TypeOK OneQuestion
PROPERTIES PersonOverMatcher TakenCasesLeft
SYMMETRY Interchangeable
CHECK_DEADLOCK FALSE
