SPECIFICATION Spec
CONSTANTS
    command = command
    other = other
    noise = noise
    alien = alien
    phone = phone
    tablet = tablet
    stranger = stranger
    None = None
    Terminal = {phone, tablet, stranger}
    Datagram <- TwoDatagrams
    From <- MCFrom
    Dispatchable <- TwoDatagrams
    Configs <- NoEdits
    FirstConfig <- Both
    Worker = {w1, w2}
    SyncCall = FALSE
CHECK_DEADLOCK FALSE
SYMMETRY Workers
INVARIANTS RunsInOrder ShownKept LogComplete NoticeTrue
