SPECIFICATION Spec
CONSTANTS
    None = None
    HeartbeatRequests <- HeartbeatsAsked
    HeartbeatOffers <- HeartbeatsOffered
    LimitRequests <- LimitsAsked
    LimitOffers <- LimitsOffered
    SocketMayDrop = TRUE
    MaxUnsolicited = 3
    MaxSilence = 7
INVARIANTS TypeOK PeerLossReported RefusalIsReported BlockedAgrees TimerStops AcceptedAsAgreed
PROPERTIES ClosedStaysClosed OpenFinishes CloseFinishes
CHECK_DEADLOCK FALSE
