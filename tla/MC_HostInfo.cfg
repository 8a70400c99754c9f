CONSTANTS
    g1 = g1
    g2 = g2
    Callers <- MCCallers
    Envs <- MCEnvs
    IfaceLists <- MCIfaceLists
SPECIFICATION Spec
INVARIANTS
    TypeOK
    ReturnsDocumentedDistro
    IPAddressesAsDocumented
