SPECIFICATION Spec
CONSTANTS
    Depositors = {alice, bob}
    Ilks = {eth}
    Tokens = {weth}
    NoToken = NoToken
    PRECISION = 36
    Endowment = 4
    Seizable = 2
    Dust = 2
SYMMETRY Symmetry
INVARIANTS DepositsCovered SnapshotsBehind
PROPERTIES NoRetroactiveGains ImplementsBackstop
