\* Documents and built invocations against releases that replace each other.
SPECIFICATION Spec
CONSTANTS
  SCALE = 10
  MAX = 63
  Bundles = {"first", "retyped", "widened", "narrowed", "dangling", "empty", "unsound", "foreign"}
  Schemas <- ModelSchemas
  Documents <- ModelDocuments
  Built <- ModelBuilt
INVARIANTS
  TypeOK
  AdmittedIsWellTyped
  ParsedIsAdmitted
  RecordTypesResolve
