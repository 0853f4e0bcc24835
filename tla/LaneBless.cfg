CONSTANTS
    MaxSeqNr = 5
    MaxEvents = 3
    Report <- MCReport
    DestEvent <- MCDestEvent
SPECIFICATION LaneSpec
INVARIANTS DestExact VerifiesGenuine StatusIsGenuine
