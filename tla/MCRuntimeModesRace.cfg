SPECIFICATION Spec
CONSTANTS
    None = None
    Lisp = Lisp
    ui = ui
    Client <- MCClient
    Requests <- MCRequests
INVARIANT DeniedStaysDenied
