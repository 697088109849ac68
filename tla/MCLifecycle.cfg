SPECIFICATION Spec
CONSTANTS
    Ifaces <- MCIfaces
INVARIANTS
    TypeOK
    NeverFatal
    MaintenanceGoesOn
    MainAddressBound
