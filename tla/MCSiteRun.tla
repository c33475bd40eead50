----------------------------- MODULE MCSiteRun ------------------------------
(* Two requests, so that one can hold the gateway lock another waits for,   *)
(* one stream, and two resets: the second finds what the first left.        *)
EXTENDS SiteRun

CONSTANTS one, two, tele

MCClient == {one, two}
MCStream == {tele}
=============================================================================
