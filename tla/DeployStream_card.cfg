\* Two deployments, one after the other, followed by a stream each and a poll.
CONSTANTS
    Deployments = {1, 2}
    Polls = {p1}
    None = None
    MaxWrites <- MCMaxWrites
SPECIFICATION FairSpec
INVARIANTS TypeOK DoneEndsTheStream
PROPERTIES CardHearsOfTheEnd
CHECK_DEADLOCK FALSE
