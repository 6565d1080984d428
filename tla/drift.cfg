\* Child objects are deleted, changed or replaced, the spec is revised, the
\* finalizer is stripped. Unwatched kinds are repaired by the resync.
SPECIFICATION Spec

CONSTANTS
  a = a
  b = b
  n1 = n1
  n2 = n2
  None = None
  Foreign = Foreign
  Contours = {a}
  NameOf <- OwnNames
  Home <- Elsewhere
  Namespaces = {n1}
  CoreNamespaces = {}
  PreExisting = {n1}
  Managed <- Drifting
  Revs = {"v1", "v2"}
  Specs <- SpecsRevising
  Manifest <- Revision1
  Limits <- AdversityDrift
  InformersKeepUp = TRUE
  Tamperable = {"deployment", "job", "contourService"}
  Resyncing = TRUE

PROPERTIES
  Convergence

\* With the budgets spent and every Contour settled nothing is left to do.
CHECK_DEADLOCK FALSE
