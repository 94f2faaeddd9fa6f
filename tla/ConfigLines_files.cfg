CONSTANTS
    TypeNames = {"heat"}
    MeterNames = {"flat1", "flat2"}
    NoName = NoName
    NoArray = NoArray
    Registers <- FileRegisters
    Formulas <- FileFormulas
    Sinks <- Field3
    Settings = {"influxwritemult", "measurement"}
    Given = {1, 2}
    BadMult = {1}
    Global = Global
    Unset = Unset
    Addresses = {5}
    AddressWidth = 8
    MaxMeters = 2
    MaxLines = 9
SPECIFICATION Spec
INVARIANTS TextsWellFormed EnabledFieldsSent SettingsPrecedence EnabledNamesUnique
CHECK_DEADLOCK FALSE
