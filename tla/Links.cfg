CONSTANTS
    Flows = {"vision", "vision-udp443"}
    NoFlow = ""
SPECIFICATION Spec
INVARIANTS
    TypeOK
    SecurityOffered
    FlowServed
    PanelReadsItsLinks
    SubscriptionInSync
