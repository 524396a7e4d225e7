SPECIFICATION Spec
CONSTANTS
    Player = {ann, bob}
    IntHalf = 8
    Box = {b1, b2}
    SlotNo = {1}
    Prices = {3}
    Wealth = 4
    MaxGoods = 2
INVARIANT BuysWhatWasShown
CHECK_DEADLOCK FALSE
