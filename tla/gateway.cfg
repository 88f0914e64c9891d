SPECIFICATION GatewaySpec
CONSTANTS
  Clients = {c1, c2}
  Rooms = {r1}
  MaxAsked = 1
  MaxSent = 3
  MaxNames = 2
INVARIANTS
  GatewayTypeOK
  ClientsSeeWhatIsAsked
  TitleGivesWay
PROPERTIES
  OneDecision
  DialogsGoAway
  NamingEnds
CHECK_DEADLOCK FALSE
