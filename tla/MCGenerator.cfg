CONSTANTS
    Packages <- ThePackages
    Order <- TheOrder
    Required = {"temurin"}
    Direct = {1, 2, 3, 4, 5, 6}
    Rebuilt = {2}
    Budget = 1
    MaxShrink = 40
    Stamps = {"one", "two"}
SPECIFICATION GeneratorSpec
INVARIANTS GeneratorTypeOK
PROPERTIES ShrinkIsBounded TrustedOnce NothingIsForgotten
