SPECIFICATION Spec
CONSTANTS
  Packages = {1, 2}
  Identities = 4
  RunsPerPackage = 1
INVARIANTS TypeOK NoIdentityLost IdentityKept RunsWithSavedIdentity
