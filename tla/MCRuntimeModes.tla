--------------------------- MODULE MCRuntimeModes ---------------------------
(* One UI request beside the interpreter: every single knob, and the        *)
(* combinations whose setters can get in each other's way.                  *)
EXTENDS RuntimeModes

CONSTANT ui

MCClient == {ui}

Ask(h, c, t) == [health |-> h, command |-> c, telemetry |-> t]

MCRequests ==
    {Ask(h, None, None) : h \in Healths}
        \cup {Ask(None, c, None) : c \in Commands}
        \cup {Ask(None, None, t) : t \in Telemetries}
        \cup {Ask("ok", "normal", "normal"), Ask("error", None, "normal"),
              Ask("standby", "normal", None), Ask(None, "fault", "normal"),
              Ask("error", "normal", None)}
=============================================================================
