SPECIFICATION Spec
CONSTANTS
    Params <- AllParams
    Name <- MCName
    KTMap <- MCKTMap
    Octet <- MCOctet
    Ranges <- MCRanges
    Values <- MCValues
INVARIANTS
    ReadsInBuffer
    AcceptedIsSerialised
    SerialisedIsAccepted

    
