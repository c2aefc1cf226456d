SPECIFICATION ClaimSpec
CONSTANTS
    Portals <- TwoPortals
    Fillings <- Full
    Types <- PanCard
    Offerings <- DocumentCheck
    MaxFiles = 2
    MaxSends = 2
\* Uploads and sends run out.
CHECK_DEADLOCK FALSE
PROPERTY RunsOnPreferredFile
