CONSTANTS
  a = a
  b = b
  r1 = r1
  r2 = r2
  s = s
  tools_list = tools_list
  none = none
  page = page
  None = None
  Adapters = {a, b}
  ListMethods = {tools_list}
  Params = {none, page}
  NoParams = none
  Requests = {r1, r2}
  MaxEntries = 1
  Sessions = {s}
  Calls <- MCCalls
  SidecarAdapters = {b}
  ChangingAdapters = {a}
  MaxVersion = 1
SPECIFICATION Spec
INVARIANTS
  ForgottenForGood
  CapabilitiesForgotten
  CapabilitiesOfOwnAdapter
PROPERTIES
  ResponsesImplemented
