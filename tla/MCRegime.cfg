CONSTANTS
    None = None
    Readings <- MCReadings
    MinDwell = 2
    ConfirmationCount = 2
    ConfirmationWindow = 3
    MaxFaults = 2
SPECIFICATION Spec
PROPERTY LabelIsSteady
PROPERTY RestartKeepsTheLabelOfTheDay
PROPERTY Settles
