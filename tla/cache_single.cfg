SPECIFICATION Spec
CONSTANTS
    Process = {p1, p2, p3}
    None = None
    Faults = {"crash"}
    MaxVersion = 2
SYMMETRY ProcessSymmetry
INVARIANT OneExecution
PROPERTY FlightSpec
