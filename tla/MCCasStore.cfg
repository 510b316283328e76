CONSTANTS
    Client = {p1, p2}
    Key = {meta, c1}
    Meta = meta
    Removable = {c1}
    MaxStored = 2
SPECIFICATION StoreSpec
PROPERTIES
    NoLostUpdate
    ReadsItsWrites
    
CHECK_DEADLOCK FALSE
SYMMETRY Symmetry
