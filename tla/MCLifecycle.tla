---------------------------- MODULE MCLifecycle ----------------------------
(* Two applications that share a scoped service, each with a global one of *)
(* its own.  Two of the hooks may reject, and the guard   *)
(* of the request is declared by no module.                                *)
EXTENDS Lifecycle, TLC

CONSTANTS shop, admin, log, db, feed, key, r1

MCDeclares == shop :> <<log, db>> @@ admin :> <<feed, log>>
MCRejecting == {<<db, "close">>, <<feed, "init">>}
MCGuardOf == r1 :> key

=============================================================================
