SPECIFICATION Spec
CONSTANTS
    Handlers = {n1}
    MaxLosses = 1
    Injectors = {j1}
    Messages <- FourMessages
    Conditions <- TwoReadings
    MaxDevices = 1
    MaxReports = 2
INVARIANTS TypeOK HandlersHear RegistryExact LastOneCurrent
