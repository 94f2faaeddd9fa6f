CONSTANTS
    TypeNames = {"heat"}
    MeterNames = {"flat1"}
    NoName = NoName
    NoArray = NoArray
    Registers <- FileRegisters
    Formulas <- FileFormulas
    Sinks <- Field3
    Settings = {}
    Given = {}
    BadMult = {}
    Global = Global
    Unset = Unset
    Addresses = {0, 5}
    AddressWidth = 8
    MaxMeters = 1
    MaxLines = 8
SPECIFICATION Spec
INVARIANTS QueriedHasHandle
CHECK_DEADLOCK FALSE
