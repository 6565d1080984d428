\* Two Contours of one name from different namespaces claim the same spec namespace.
SPECIFICATION SafetySpec

CONSTANTS
  a = a
  b = b
  n1 = n1
  n2 = n2
  None = None
  Foreign = Foreign
  Contours = {a, b}
  NameOf <- SameName
  Home <- Elsewhere
  Namespaces = {n1}
  CoreNamespaces = {}
  PreExisting = {}
  Managed <- OneOfEach
  Revs = {"v1"}
  Specs <- SpecsInN1
  Manifest <- InN1
  Limits <- AdversityRivals
  InformersKeepUp = TRUE
  Tamperable = {}
  Resyncing = FALSE

INVARIANTS
  WorkloadsHeld
  Alone
  WorkKept

PROPERTIES
  NamespaceSparesTenants
  KeepsLifecycle

\* With the budgets spent and every Contour settled nothing is left to do.
CHECK_DEADLOCK FALSE
