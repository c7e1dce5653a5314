SPECIFICATION Spec
CONSTANTS
    command = command
    other = other
    noise = noise
    alien = alien
    phone = phone
    tablet = tablet
    stranger = stranger
    None = None
    Terminal = {phone, tablet, stranger}
    Datagram <- MixedDatagrams
    From <- MCFrom
    Dispatchable <- OneCommand
    Configs <- OneConfig
    FirstConfig <- Both
    Worker = {w1}
    SyncCall = TRUE
CHECK_DEADLOCK FALSE
INVARIANT AnsweredOnce
PROPERTIES EveryOneHandled WorkersEnd
