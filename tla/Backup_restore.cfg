\* Two processes, backups by hand and by night, restores in and out of order.
SPECIFICATION Spec
CONSTANTS
    Processes = {service, cli}
    NumPages = 2
    Retention = 1
    None = None
    MaxTxns = 2
    MaxBackups = 2
    LastDay = 3
SYMMETRY ProcessSymmetry
INVARIANT TypeOK
PROPERTIES
    
    FileIsAtomic
CHECK_DEADLOCK FALSE
