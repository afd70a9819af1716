SPECIFICATION FairSpec
CONSTANTS
    Runs = {r1}
    Calls = {c1, c2, c3}
    None = None
INVARIANTS TypeOK OneDriver RunningIsDriven PausedIsAnswerable
PROPERTIES FinalStays ShutdownEnds
