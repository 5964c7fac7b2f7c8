CONSTANT VOTE_THRESHOLD = 20
SPECIFICATION Spec
INVARIANTS TypeOK LostGpsIsLeft
PROPERTY EntersVslamOnGoodExtnav
