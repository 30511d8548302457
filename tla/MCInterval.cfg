SPECIFICATION Spec
CONSTANTS
    W32 = 16
    W64 = 1024
    Second = 100
    Minute = 200
    Hour = 400
    Digits = 2
    Intervals <- SomeIntervals
    Texts <- SomeTexts
INVARIANTS RoundTrip ReadsTotal
