CONSTANTS
    k1 = k1
    k2 = k2
    Keys = {k1, k2}
    Identities = {"tenant"}
    IdentityOf <- SharedIdentity
    Consumers = {"c1", "c2"}
    Contexts = {"manager", "other"}
    Informers = {i1, i2}
    Handles = {h1, h2, h3}
    Slices <- ReaderSlices
    Readers = {r1}
    None = None
SPECIFICATION ReadersSpec
INVARIANTS
    ServedWasLive
    RefusalIsJustified
    LiveRegistrationIsFed
