CONSTANTS
    Names = {"d", "e"}
    Unparsable = Unparsable
    Responses <- MCResponses
SPECIFICATION RSpec
INVARIANT EmptyResponseIsEmptyList
CHECK_DEADLOCK FALSE
