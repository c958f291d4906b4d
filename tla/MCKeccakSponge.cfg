SPECIFICATION Spec
CONSTANTS
    Rate = 3
    Data <- MCData
    MaxIn = 4
    MaxOut = 6
    MaxBytes = 7
INVARIANTS TypeOK BytesAccounted
PROPERTY ImplementsXof
