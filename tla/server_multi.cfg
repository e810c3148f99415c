SPECIFICATION Spec
CONSTANTS
    Conn = {c1, c2}
    NoConn = none
    Args <- Standard
    Stalling = {}
    MaxEvents = 8
    MaxActions = 1
    MaxSent = 0
SYMMETRY Perms
INVARIANTS RegistryOwnsDescriptors EndWaitToken EndsOnlyWhenEmpty StateAfterReady NoStateAfterDeath JoinsRegisteredThreads
PROPERTIES KeepsItsWord
