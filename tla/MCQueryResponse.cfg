CONSTANTS
    Names = {"d", "e"}
    Unparsable = Unparsable
    Responses <- MCResponses
SPECIFICATION RSpec
INVARIANTS ErrorsSurface DatabasesExact PoliciesExact
CHECK_DEADLOCK FALSE
