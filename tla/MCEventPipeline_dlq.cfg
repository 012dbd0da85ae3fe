SPECIFICATION Spec
CONSTANTS
    created = created
    approved = approved
    p1 = p1  p2 = p2
    m1 = m1  m2 = m2
    Events <- MCEvents
    Topics <- MCTopics
    TopicOf <- MCTopicOf
    Publishers <- OnePublisher
    Members <- OneMember
    BatchSize = 2
    MaxRetries = 5
    MaxFaults = 2
    MaxFailures = 2
INVARIANTS
    DeadLettersExhaustedRetries
CHECK_DEADLOCK FALSE
