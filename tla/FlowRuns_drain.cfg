SPECIFICATION Spec
CONSTANTS
    Runs = {r1}
    Calls = {c1, c2, c3}
    None = None
PROPERTY DrainWaitsForAll
