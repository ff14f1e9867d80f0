CONSTANTS
    c1 = c1  c2 = c2  n1 = n1  v1 = v1  v2 = v2
    NsUnset = NsUnset  NsDefault = NsDefault  NsOther = NsOther
    NoName = NoName  NoObj = NoObj
    Callers <- MC_Callers
    Names <- MC_Names
    Contents <- MC_Contents
    MaxOtherWrites = 1
    MaxFailures = 1
    Requests <- MC_RequestsAll
SPECIFICATION Spec
INVARIANT UncontendedSucceeds
CHECK_DEADLOCK FALSE
