SPECIFICATION FairSpec
CONSTANTS
    created = created
    approved = approved
    p1 = p1  p2 = p2
    m1 = m1  m2 = m2
    Events <- MCEvents
    Topics <- MCTopics
    TopicOf <- MCTopicOf
    Publishers <- TwoPublishers
    Members <- TwoMembers
    BatchSize = 2
    MaxRetries = 5
    MaxFaults = 1
    MaxFailures = 2
INVARIANTS
    TypeOK
    NoSilentLoss
    NoFaultNoDuplicate
    AuditsBounded
    CommittedUnlessFailed
PROPERTIES
    EventuallyMarked
    EventuallyAccountedFor
    ImplementsDelivery
CHECK_DEADLOCK FALSE
