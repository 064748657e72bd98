--------------------------- MODULE MCEventEmitter ---------------------------
(* Two channels, a class with a method for one of them and one for both.   *)
EXTENDS EventEmitter

CONSTANTS orders, mails

MCDeclared == <<orders, mails, orders>>

=============================================================================
