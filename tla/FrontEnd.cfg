SPECIFICATION Spec
CONSTANTS
    OptionalSemicolons = TRUE
    Alphabet <- Names
    Texts <- AllTexts
    Accepted <- Written
INVARIANTS TreeFaithful StaysInZone FormattingKeeps EveryTurnAdvances SirFaithful
CHECK_DEADLOCK FALSE
