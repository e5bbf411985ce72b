SPECIFICATION GameSpec
CONSTANTS
    Types = {}
    Coups = {"coup"}
    SixRules <- SixTable
    LoveRules <- LoveTable
    FoxRules <- FoxTable
    SnitchRules <- SnitchTable
    ZombieRules <- ZombieTable
    WerewolfRules <- WerewolfTable
    SuperfightRules <- SuperfightTable
    WordpartyRules <- WordpartyTable
    ChameleonRules <- ChameleonTable
PROPERTIES SurvivorWins
CHECK_DEADLOCK FALSE
