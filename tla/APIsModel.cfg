CONSTANTS
  Decls = {"W1", "W2", "SR", "G"}
  DeclPkg <- MCDeclPkg
  DeclName <- MCDeclName
  ResourceDecls = {"W1", "W2", "G"}
  SubresourceDecls = {"SR"}
  HasSubDecls = {"W1"}
  NonNamespaced = {}
  ControllerDecls = {}
  UniverseChoices <- MCUniverseChoices
  TagChoices <- MCTagChoices
  UniversePkgs <- MCUniversePkgs
  DomainTag <- MCDomainTag
  Types <- MCTypes
  TypeKind <- MCTypeKind
  TypeName <- MCTypeName
  TypePkg <- MCTypePkg
  TypeElem <- MCTypeElem
  NoType <- MCNoType
  UnversionedOff = {}
  MetaV1Pkg <- Meta
  MemberChoices <- MCMemberChoices

SPECIFICATION ModelSpec

\* NewAPIsBuilder returns or the process exits
CHECK_DEADLOCK FALSE

INVARIANT GeneratedStructsComplete
PROPERTY ModelTermination
