CONSTANTS
    Callers <- MCCallers
    Envs <- MCEnvs
SPECIFICATION Spec
INVARIANTS
    TypeOK
    ReturnsDocumentedMetadata
