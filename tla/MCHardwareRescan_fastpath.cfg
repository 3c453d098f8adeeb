CONSTANTS
  laptop = laptop
  docked = docked
  egpu = egpu
  wifi = wifi
  gpu = gpu
  rules = rules
  disable = disable
  power = power
  amd = amd
  nvidia = nvidia
  Hw = {laptop, docked, egpu}
  NoPci = NoPci
  File = {wifi, gpu, rules}
  Module = {wifi, gpu}
  Content <- TheContent
  Wants <- TheWants
  Driver = {amd, nvidia}
  DriverOf <- TheDrivers
  NoFile = NoFile
  Foreign = Foreign
  Partial = Partial
  Torn = Torn
  Garbled = Garbled
  NoProfile = NoProfile
  NoPrint = NoPrint
  Invocations <- ServiceOnly
  MaxChanges = 1
  MaxFaults = 1
SPECIFICATION Spec
PROPERTY FastPathSound
