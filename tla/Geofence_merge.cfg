SPECIFICATION Spec
CONSTANTS
    Width = 3
    Height = 2
    MaxConfigured = 2
    MaxZones = 4
INVARIANT ConfiguredAreasAreRespected
