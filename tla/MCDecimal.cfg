SPECIFICATION Spec
CONSTANTS
    HalfBits = 4
    Ten = 3
    ScaleDigits = 2
    Texts <- MCTexts
INVARIANTS
    ArithmeticExact
    TextRoundTrip
