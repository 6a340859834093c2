SPECIFICATION Spec
CONSTANTS
    alice = alice
    bob = bob
    GD = GD
    USDC = USDC
    Users = {alice, bob}
    Tokens = {GD, USDC}
    L2Tokens = {x1, x2}
    ETH = ETH
    Unmapped = Unmapped
    Endowment <- MCEndowment
    NativeETH <- MCNativeETH
    Prefund = 1
    MaxAmount = 2
SYMMETRY Symmetry
INVARIANTS TokenConserved MintedIsHeld ETHConserved ReservedETHHeld
