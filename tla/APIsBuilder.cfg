CONSTANTS
  Decls = {"W1", "W2", "SR", "G", "C"}
  DeclPkg <- MCDeclPkg
  DeclName <- MCDeclName
  ResourceDecls = {"W1", "W2", "G"}
  SubresourceDecls = {"SR"}
  HasSubDecls = {"W1"}
  NonNamespaced = {}
  ControllerDecls = {"C"}
  UniverseChoices <- MCUniverseChoices
  TagChoices <- MCTagChoices
  UniversePkgs <- MCUniversePkgs
  DomainTag <- MCDomainTag

SPECIFICATION Spec

\* NewAPIsBuilder returns or the process exits
CHECK_DEADLOCK FALSE

INVARIANT TypeOK
INVARIANT SubresourcePathsUnique
INVARIANT GroupPackageConsistent
