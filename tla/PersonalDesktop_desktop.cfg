SPECIFICATION FairSpec
CONSTANTS
    MaxEvents = 2
INVARIANTS FinalizerGuardsObjects GatewayHoldsGuestToken
PROPERTIES DiskOutlivesDesktop RuntimeCanStart DesktopConverges DeletionFinishes
CHECK_DEADLOCK FALSE
