SPECIFICATION Spec
CONSTANTS
    Size = 4
    Byte = {0, 1}
    Zero = 0
    MaxLen = 3
    Null = Null
INVARIANT TypeOK
PROPERTY ImplementsPipe
