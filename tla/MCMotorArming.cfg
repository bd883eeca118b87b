SPECIFICATION Spec
CONSTANT MaxLate = 3
INVARIANTS TypeOK FloatingWhenDisarmed NoBlindSample LawIsLive TimingsRenewed BrakeGuards
PROPERTIES ArmingResolves ImplementsPowerStage
