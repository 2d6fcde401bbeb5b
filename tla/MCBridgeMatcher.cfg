CONSTANTS
    Transfers = {t1, t2}
    This = This
    That = That
    MaxFaults = 1
SPECIFICATION MCSpec
INVARIANTS OneActivity ActivityIsTrue
PROPERTIES ActivityNeverForgets EventuallySettled
