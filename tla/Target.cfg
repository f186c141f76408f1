SPECIFICATION FairTargetSpec
CONSTANTS
  Ips = {ip1, ip2, ip3}
  None = None
  EnvIp = ip1
  CliIp = None
  MaxPosts = 2
  MaxChanges = 3
  MaxMishaps = 2
PROPERTIES SavedOnce Agreement
CHECK_DEADLOCK FALSE
