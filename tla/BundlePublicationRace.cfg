CONSTANTS
    Importers = {i1, i2}
    Overwrite = {}
    Original = Original
    NoBundle = NoBundle
    Absent = Absent
SPECIFICATION Spec
CHECK_DEADLOCK FALSE
PROPERTY
    ChangedTargetIsRejected
