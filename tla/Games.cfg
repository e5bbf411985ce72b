SPECIFICATION GameSpec
CONSTANTS
    Types = {"six", "love", "fox", "snitch", "zombie", "werewolf", "superfight", "wordparty", "chameleon"}
    Coups = {"coup", "coup3"}
    SixRules <- SixTable
    LoveRules <- LoveTable
    FoxRules <- FoxTable
    SnitchRules <- SnitchTable
    ZombieRules <- ZombieTable
    WerewolfRules <- WerewolfTable
    SuperfightRules <- SuperfightTable
    WordpartyRules <- WordpartyTable
    ChameleonRules <- ChameleonTable
INVARIANTS TypeOK CardsConserved TurnsSound VerdictsSound TablesSuffice
PROPERTIES GamesEnd
CHECK_DEADLOCK FALSE
