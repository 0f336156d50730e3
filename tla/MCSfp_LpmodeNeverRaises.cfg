CONSTANTS
    Ports <- MCPorts
    CageIds <- MCCageIds
    NoValue = NoValue
    Raised = Raised
SPECIFICATION Spec
INVARIANT LpmodeNeverRaises
