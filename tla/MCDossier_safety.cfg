SPECIFICATION DossierSpec
CONSTANTS
    Templates <- Pages
    MaxRecords = 3
    SamePairs <- LikeNames
    Latin <- LatinNames
    Length <- Lengths
    Norm <- Norms
    Schemas <- Prompts
    PartyDocs = {"loan"}
    Bound = {"loan"}
    TextLayers <- Layers
CHECK_DEADLOCK FALSE
INVARIANTS WhoIsWho PagesSettled NumbersHold
