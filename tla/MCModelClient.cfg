SPECIFICATION Spec
CONSTANTS
  Routes = {"openai", "anthropic"}
  Formats = {"json_schema", "json_object"}
  Sources <- MCSources
  MaxChars = 4
  Marker = 1
CHECK_DEADLOCK FALSE
INVARIANTS
  TypeOK
  MetricsReconcile
  RequestsAreBounded
  ConversationIsOwn
  ContextFitsBudget
  ContextHasNoGap
