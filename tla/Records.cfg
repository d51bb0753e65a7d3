SPECIFICATION Spec
INVARIANTS RecordsAreTrue CurrentIsSound PlansAreSound
PROPERTIES EndsStand
CHECK_DEADLOCK FALSE
