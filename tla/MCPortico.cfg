SPECIFICATION FairSpec
CONSTANTS
  NULL = NULL
  d1 = d1
  d2 = d2
  a = a
  b = b
  w = w
  p = p
  q = q
  Domains <- MCDomains
  Configs <- MCConfigs
  Slots = 2
  Faults = {"ca", "key", "cert", "thread", "crash"}
  MaxFaults = 1
  MaxOrders = 2
  Handshakes = {h1}
  ConfigSni <- MCConfigSni
  Sites <- MCSites
  Wild <- MCWild
  MaxGroups = 4
  MaxAdds = 2
INVARIANTS
  ChallengesAnswered
  CurrentLoads
  AddedIsPresented
  ServedIsCurrent
PROPERTIES
  SwapsLikeHotSwap
  RenewalCompletes
