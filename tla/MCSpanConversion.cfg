CONSTANTS
    TreeSize = 4
    Batches <- MCBatches
    Parts <- MCParts
    Names <- MCNames
    NewIds <- MCNewIds
    EnvResource <- MCEnvResource
SPECIFICATION Spec
INVARIANTS
    SpansUnderTheirResource
    ParentsFirst
    TreeSurvivesRebuild
