SPECIFICATION Spec
CONSTANTS
    ChunkSize = 16
    Dims <- MCDims
    Player = {ann, bob}
    Operators = {}
    Points <- MCPoints
    Origin <- MCOrigin
    Perms <- MCPerms
    IntHalf = 16
    InitMoney = 9
    BuyPrice = 11
    SellPrice = 2
    MaxSide = 4
    MaxArea = 9
    MaxPrice = 4
    Buyers = {ann}
    MaxLands = 2
    MaxOwners = 2
    MaxCrashes = 0
PROPERTY PaysPerSquare
