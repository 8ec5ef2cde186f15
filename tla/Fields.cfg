CONSTANTS
  Letters = {"a"}
  Others = {"A"}
  Names <- MCNames
  POST_BUF_LENGTH = 7
  MaxLen = 7
SPECIFICATION Spec
INVARIANTS FieldsExact NothingLost NothingInvented
CHECK_DEADLOCK FALSE
