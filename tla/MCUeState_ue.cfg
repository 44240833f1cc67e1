\* A UE named by SUPI, phone number and address, one address shared by all states.
SPECIFICATION Spec
CONSTANTS
  None = None
  Supis = {s1}
  Gpsis = {g1}
  Addrs = {a1, a2}
  NamingAddrs = {a1}
  PduIds = {p1}
  Qods = {q1}
  MaxUes = 2
  PdusPassed = FALSE
  MaxPdus = 2
CONSTRAINT FewPdus
INVARIANTS OneStatePerSupi IndexSound
PROPERTIES IdentityChangeKeepsSessions
CHECK_DEADLOCK FALSE
