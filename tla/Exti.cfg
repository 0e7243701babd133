CONSTANT Causes = {rxDone, txDone, rxError}
SPECIFICATION Spec
INVARIANTS
    NoLostInterrupt
    DriverAttachedWhenServing
PROPERTIES
    ServiceSpec
