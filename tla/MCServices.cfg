SPECIFICATION ServicesSpec
CONSTANTS
    Player = {ann, bob}
    IntHalf = 8
    Inits <- MCInits
    Typed <- MCTyped
    Bonuses <- MCBonuses
    MaxPay = 5
    MaxCrashes = 2
    WarpName = {base, mine}
    Place = {here, there}
    HomePlayer = {eve}
    MaxHomes = 1
    MaxWarps = 2
    OldLands = 1
    MaxId = 2
    MaxDeaths = 2
    Account = {1, 2}
    PlayerName = {11, 12, 13}
    BanTimes = {0, 1}
    Clock = {1, 3}
    Talker = {cat, dan}
    RingSize = 3
    Delta = 2
    Mutes <- MCMutes
    MaxClock = 4
    Mod = {"a", "b", "c"}
    Prio <- MCPrio
    Version <- MCVersion
    DepLists <- MCDepLists
    Viewer = {fay, gus}
    Menu = {root, sub}
    MaxForms = 3
    Code = {gift, prize}
    MaxFalls = 2
    Box = {chest}
    SlotNo = {1}
    Prices = {3, 5}
    Wealth = 4
    MaxGoods = 2
INVARIANTS
    AllTypeOK
    WarpsSurvive
    LandsSurviveRepair
    NeedsFirst
    LoopsAreReal
    AnswerFromMenuShown
    CodesOnce
    GoodsPaidFor
PROPERTIES
    NoMoneyFromPaying
    CreditsAreBacked
    RepairCures
    BannedStaysOut
    PatientHeard
CHECK_DEADLOCK FALSE
