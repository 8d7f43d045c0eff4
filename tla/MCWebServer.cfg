\* Two connections, a session id, two requests on a connection; a file that just
\* fills the buffer, and one of which a part is left after that.
CONSTANTS
    Conn = {c1, c2}
    Id = {i1}
    Kind = {"list", "refresh", "add", "login", "logout", "file", "unknown"}
    NoCookie = NoCookie
    OtherCookie = OtherCookie
    Length = {2, 3}
    BufferSize = 2
    MaxRequests = 2
SPECIFICATION Spec
INVARIANTS ResponsesInStep FilesKeepApart
PROPERTIES LoggedOutIsRefused RequestsAreServed
CHECK_DEADLOCK FALSE
