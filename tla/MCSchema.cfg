SPECIFICATION Spec
CONSTANTS
  SchemaItems <- MCItems
  MaxItems = 4
INVARIANTS
  MapsIndexTheArray
  RelationSchemaIsTheScan
