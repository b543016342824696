SPECIFICATION ConnectorSpec
CONSTANTS
    Tasks = {t1, t2}
    None = None
INVARIANTS
    IntentSurvivesSeeding
PROPERTIES
    DisabledIsOff
    CallsEnd
