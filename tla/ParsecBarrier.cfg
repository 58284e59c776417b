SPECIFICATION FairBarrierSpec
CONSTANTS
    Caller = {t1, t2, t3}
    Max = 3
    Rounds = 3
INVARIANTS
    BarrierTypeOK
    NoOvertaking
PROPERTIES
    ImplementsBarrierRounds
    EverybodyLeaves
