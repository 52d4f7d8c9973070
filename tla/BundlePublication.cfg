CONSTANTS
    Importers = {i1, i2, i3}
    Overwrite = {i1, i2}
    Original = Original
    NoBundle = NoBundle
    Absent = Absent
SPECIFICATION Spec
CHECK_DEADLOCK FALSE
INVARIANTS
    OutputIsComplete
PROPERTIES
    SomeBundleSurvives
    UnmanagedSurvives
