SPECIFICATION Spec
CONSTANTS
    NoDomain = NoDomain
    Parts <- AllParts
    Domains <- AllDomains
    LimitKeys <- AllKeys
INVARIANT BucketsAreApart
