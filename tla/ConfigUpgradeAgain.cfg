SPECIFICATION Spec
CONSTANTS
  Packages = {1}
  Identities = 4
  RunsPerPackage = 2
INVARIANT NoIdentityLost
