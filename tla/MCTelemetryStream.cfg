SPECIFICATION FairSpec
CONSTANTS
    Streams = {s1, s2}
    MaxLives = 2
    MaxSequence = 2
PROPERTIES SentInOrder BrowsersCatchUp OfflineSettles
