\* Two requests at a time and one fault.
SPECIFICATION Spec
CONSTANTS
  i1 = i1
  i2 = i2
  u1 = u1
  u2 = u2
  NoUrl = NoUrl
  Names = {i1, i2}
  Urls = {u1, u2}
  Requests = {r1, r2}
  Fresh <- MCFresh
  FormConfigs <- MCFormConfigs
  FirstConfigs <- MCFirstConfigs
  MaxInstances = 2
  MaxRequests = 2
  MaxFaults = 1
PROPERTY AuthNeverReverts
