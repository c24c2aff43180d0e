CONSTANTS
  Types <- MCTypes
  TypeKind <- MCTypeKind
  TypeName <- MCTypeName
  TypePkg <- MCTypePkg
  TypeElem <- MCTypeElem
  NoType <- MCNoType
  ResourceTagged = {"W1", "W2"}
  SubresourceRequestTagged = {"SR"}
  UnversionedOff = {"E2"}
  MetaV1Pkg <- Meta
  MemberChoices <- MCMemberChoices
  ResourcesByVersion <- MCResourcesByVersion
  SubresourcesByVersion <- MCSubresourcesByVersion

SPECIFICATION Spec

\* ParseStructs returns once its work-list is empty
CHECK_DEADLOCK FALSE

INVARIANT FieldTargetsFlattened
