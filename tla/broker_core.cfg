SPECIFICATION Spec
CONSTANTS
    g1 = g1
    g2 = g2
    Agent <- Agents
    Uri <- Uris
    Prefix <- Prefixes
    Identity <- Identities
    Config <- Started
    NotWatching = NotWatching
    MaxEvents = 3
    MaxTime = 2
SYMMETRY Interchangeable
INVARIANTS
    TypeOK
    HearsOwnOrg
    HearsItsPrompt
    ReaderMayWatch
    OnlyPublishersAreHeard
    ListingsAreExact
PROPERTIES
    NothingSentAfterExpiry
CHECK_DEADLOCK FALSE
