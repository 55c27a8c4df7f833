SPECIFICATION Spec
CONSTANTS
    Files <- MCFiles
    Offers <- MCOffers
INVARIANTS
    AgentsProvided
    SdpsFit
