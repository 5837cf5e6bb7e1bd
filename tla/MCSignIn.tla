------------------------------ MODULE MCSignIn ------------------------------
(* An administrator signs in, makes a workspace and, while others sign in, allows the
   domain.  The callback of one OAuth flow arrives twice; one of its sessions makes
   another workspace, after which the same address signs in by dev-login, and the
   other is used and revoked. *)
EXTENDS SignIn, TLC

CONSTANTS admin, make1, allow1, start1, call1, call2, dev1, make2, me1, out1, ann, bob

MCRequest == {admin, make1, allow1, start1, call1, call2, dev1, make2, me1, out1}

MCOp ==
    admin :> "dev" @@ make1 :> "make" @@ allow1 :> "allow" @@ start1 :> "start"
    @@ call1 :> "callback" @@ call2 :> "callback" @@ dev1 :> "dev"
    @@ make2 :> "make" @@ me1 :> "me" @@ out1 :> "logout"
MCMail == [r \in MCRequest |-> IF r \in {admin, make1, allow1} THEN ann ELSE bob]
MCAbout ==
    make1 :> admin @@ allow1 :> admin @@ start1 :> make1 @@ dev1 :> make2
    @@ call1 :> start1 @@ call2 :> start1 @@ make2 :> call2 @@ me1 :> call1 @@ out1 :> call1
    @@ admin :> NoRequest
MCTarget == allow1 :> make1 @@ [r \in MCRequest |-> NoRequest]
MCExpiring == {call1}
=============================================================================
