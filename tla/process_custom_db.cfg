\* The unit of the README's systemd example: --db names a file of its own.
SPECIFICATION FairSpec
CONSTANTS
    DefaultDb = FALSE
    MaxBackoff = 4
    MaxStarts = 2
PROPERTIES
    KeepsSampling
CHECK_DEADLOCK FALSE
