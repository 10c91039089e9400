SPECIFICATION Spec
CONSTANTS
    x = x
    y = y
    Documents = {d1, d2}
    ChunkNumbers = {1}
    Entities <- MCEntities
    Relations <- MCRelations
    NoSnapshot = NoSnapshot
    MaxFaults = 1
    MaxExtractions = 2
    MaxRequests = 1
SYMMETRY MCSymmetry
INVARIANTS
    CitedEndpoints
    EvidenceOfSucceededRuns
    ReportedCompleteIsComplete
PROPERTIES
    
    DecisionsStay
    
CHECK_DEADLOCK FALSE
