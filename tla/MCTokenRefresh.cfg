CONSTANTS
  here = here
  there = there
  request = request
  service = service
  other = other
  Requests = {request}
  Services = {service, other}
  HostOf <- OnHosts
  MaxRetries = 2
  MaxIssued = 2
  MaxFaults = 2
  None = None
SPECIFICATION FairSpec
INVARIANTS NewestIsKept DisabledIsDead CachesNoOlder
PROPERTIES CredentialsNeverRegress RenewsOrFails
