\* Two places between the ends are enough for a door to move on between.
CONSTANT TOP = 3
SPECIFICATION FairSpec
INVARIANTS TypeOK ServiceIsObeyed ChangesAreReported
PROPERTIES StateFollowsDoor ServiceIsCompleted
