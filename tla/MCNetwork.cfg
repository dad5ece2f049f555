SPECIFICATION MCSpec
CONSTANTS
    l1 = l1
    l2 = l2
    a = a
    b = b
    Loft = {l1, l2}
    Message = {a, b}
    Attributed = {a}
    Unopenable = {}
    Required = FALSE
    Evidences = {"known"}
    AcceptAll = FALSE
    PageLimit = 1
    MaxPages = 2
    InboxLimit = 1
    MaxTombstones = 1
    Expiring = {l2}
    Copies <- MCCopies
    MaxCursor <- MCMaxCursor
    here = here
    there = there
    owner = owner
    rival = rival
    x = x
    Claimant <- MCClaimant
    Careful <- MCCareful
    Owner <- MCOwner
    Content = {x}
    Date = {1}
    Elsewhere <- RivalToo
    MaxSequence <- MCMaxSequence
    MaxClock = 1
    MaxLoose = 1
    MaxPending = 2
    MaxReservations = 2
    MaxRecovery = 1
    MaxPublic = 1
    PendingExpire = 1
    PromoteAfter = 0
    RemoveAfter = 1
    DegradeAfter = 1
    ProbeInterval = 0
INVARIANTS NoMailSkipped CountedOnce ReservedCanBeApplied TablesFollowLog ProvenIsOwner ReservationsRecoverable
PROPERTIES ErasedStaysErased ProvenStays
CHECK_DEADLOCK FALSE
