SPECIFICATION Spec
CONSTANTS
    None = None
    w1 = w1
    w2 = w2
    r1 = r1
    Package <- MCPackage
    Version <- MCVersion
    Name <- MCName
    Wheel <- MCWheel
    KeyOf <- MCKeyOf
    Query <- MCQuery
    Writer <- MCWriter
    Reader <- MCReader
    MaxRestarts = 1
    MaxCopies = 2
INVARIANT StartsAgain
CHECK_DEADLOCK FALSE
