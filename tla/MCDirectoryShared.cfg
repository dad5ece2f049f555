SPECIFICATION SceneSpec
CONSTANTS
    here = here
    there = there
    owner = owner
    rival = rival
    x = x
    Claimant <- MCClaimant
    Careful <- MCCareful
    Owner <- MCOwner
    Content = {x}
    Date = {1}
    Elsewhere <- OwnerToo
    MaxSequence <- MCMaxSequence
    MaxClock = 1
    MaxLoose = 1
    MaxPending = 2
    MaxReservations = 2
    MaxRecovery = 1
    MaxPublic = 1
    PendingExpire = 1
    PromoteAfter = 0
    RemoveAfter = 1
    DegradeAfter = 1
    ProbeInterval = 0
INVARIANTS ReservationsRecoverable
CHECK_DEADLOCK FALSE
