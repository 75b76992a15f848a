SPECIFICATION MCSpec
CONSTANTS
    Window = 2
    MaxNumber = 7
PROPERTIES
    AcceptsOnce
    DropsNothingNew
