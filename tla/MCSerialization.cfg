CONSTANTS
    Lengths <- MCLengths
    Fill <- MCFill
    Garbage = 256
SPECIFICATION WireSpec
INVARIANTS
    RoundTrip
    NothingOverread
