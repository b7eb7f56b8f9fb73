---------------------------- MODULE MC_TrayMenu ----------------------------
(* As a library: two calls of Run, so that ErrAlreadyRunning and a second   *)
(* Run after the first returned both happen.  Under the tray: one call, and *)
(* two clicks in flight, so that they overlap.  Two accepted dials, so that *)
(* a reconnect happens.                                                     *)
EXTENDS TrayMenu

CONSTANTS r1, r2  \* the two calls of Run

=============================================================================
