CONSTANTS
    k1 = k1
    k2 = k2
    c1 = c1
    c2 = c2
    i1 = i1
    i2 = i2
    i3 = i3
    h1 = h1
    h2 = h2
    h3 = h3
    h4 = h4
    Keys = {k1, k2}
    Identities = {"a", "b"}
    IdentityOf <- OwnIdentity
    Consumers = {c1, c2}
    Contexts = {"manager"}
    Informers = {i1, i2, i3}
    Handles = {h1, h2, h3}
    Slices <- MCSlices
    None = None
SPECIFICATION Spec
INVARIANT ReleasedClientIdle
