SPECIFICATION Spec
CONSTANTS
    Start <- StartMotion
    Commands <- ToAndFro
    MaxPos = 1
INVARIANTS
    TypeOK
    UndisturbedIsExact
