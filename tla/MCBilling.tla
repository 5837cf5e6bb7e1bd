----------------------------- MODULE MCBilling -----------------------------
(* Two checkouts of one workspace.  The first session is confirmed by the client
   and by an event that is delivered twice; another event is of a type the code
   does not support. *)
EXTENDS Billing, TLC

CONSTANTS w1, c1, c2, e1, e2, buy1, buy2, confirm1, hook1, hook2, other

MCWorkspace == {w1}
MCSession == {c1, c2}
MCWorkspaceOf == [s \in MCSession |-> w1]
MCEvent == {e1, e2}
MCRequest == {buy1, buy2, confirm1, hook1, hook2, other}

MCOp ==
    buy1 :> "checkout" @@ buy2 :> "checkout" @@ confirm1 :> "confirm"
    @@ hook1 :> "webhook" @@ hook2 :> "webhook" @@ other :> "webhook"
MCAbout ==
    buy1 :> c1 @@ buy2 :> c2 @@ confirm1 :> c1 @@ hook1 :> c1 @@ hook2 :> c1
    @@ other :> NoSession
MCId ==
    buy1 :> NoEvent @@ buy2 :> NoEvent @@ confirm1 :> NoEvent
    @@ hook1 :> e1 @@ hook2 :> e1 @@ other :> e2
=============================================================================
