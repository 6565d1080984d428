\* One Contour, every kind of resource, up-to-date informers, faults and a crash.
SPECIFICATION SafetySpec

CONSTANTS
  a = a
  b = b
  n1 = n1
  n2 = n2
  None = None
  Foreign = Foreign
  Contours = {a}
  NameOf <- OwnNames
  Home <- Elsewhere
  Namespaces = {n1}
  CoreNamespaces = {}
  PreExisting = {}
  Managed <- AllKinds
  Revs = {"v1"}
  Specs <- SpecsInN1
  Manifest <- InN1
  Limits <- AdversitySingle
  InformersKeepUp = TRUE
  Tamperable = {}
  Resyncing = FALSE

INVARIANTS
  TypeOK
  NoOrphans
  NoLostWork
  ClaimHolds

PROPERTIES
  CreatesOnlyWhileFinalized

\* With the budgets spent and every Contour settled nothing is left to do.
CHECK_DEADLOCK FALSE
