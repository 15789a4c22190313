SPECIFICATION FairSpec
CONSTANTS
    Pages = {p1, p2}
    Tokens = {k1, k2}
    Calls = {c1, c2}
    NoToken = NoToken
    NoCall = NoCall
INVARIANTS PairingViewUsable
PROPERTIES CredentialKept WaitsEnd
