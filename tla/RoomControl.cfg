\* Two zones, one of them disabled, two editors whose changes may overlap, and three
\* commands, keypad changes, configuration changes or failures, under fairness.
CONSTANTS
    NumZones = 2
    Enabled = {1}
    Sources = {"radio"}
    Shortcut = {1}
    e1 = e1  e2 = e2
    Editors = {e1, e2}
    MaxEvents = 3
    Nobody = Nobody
SPECIFICATION FairSpec
INVARIANT TypeOK NoLostUpdate WakeUpsAreKept
PROPERTY PresentConnectionOnly Settles
