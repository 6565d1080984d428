\* Users move two Contours between two namespaces.
SPECIFICATION SafetySpec

CONSTANTS
  a = a
  b = b
  n1 = n1
  n2 = n2
  None = None
  Foreign = Foreign
  Contours = {a, b}
  NameOf <- SameName
  Home <- Elsewhere
  Namespaces = {n1, n2}
  CoreNamespaces = {}
  PreExisting = {}
  Managed <- RolesAndWorkloads
  Revs = {"v1"}
  Specs <- SpecsMoving
  Manifest <- Apart
  Limits <- AdversityEdits
  InformersKeepUp = TRUE
  Tamperable = {}
  Resyncing = FALSE

INVARIANTS
  NoLostWork

PROPERTIES
  LiveNeverTornDown

\* With the budgets spent and every Contour settled nothing is left to do.
CHECK_DEADLOCK FALSE
