---------------------------- MODULE SignIn_proofs ----------------------------
(***************************************************************************)
(* Proofs about SignIn, for any number of requests, logins, workspaces,    *)
(* threads and crashes.                                                    *)
(***************************************************************************)
EXTENDS SignIn, FiniteSetTheorems, TLAPS

Place == AtRest \cup
            {"consume", "exchange", "login", "add", "settings", "reconcile", "loop", "join",
             "session", "found", "serve", "owner", "account", "default", "crashed"}
LoggingIn == {"add", "settings", "reconcile", "loop", "join", "session"}
Serving == {"found", "serve", "owner", "account", "default"}

\* Which requests are served at which places, and for which users.
PlacesOK ==
    /\ \A r \in Request :
           /\ pc[r] \in {"consume", "exchange", "login"} => Op[r] = "callback"
           /\ pc[r] \in LoggingIn => Op[r] \in {"callback", "dev"} /\ user[r] \in Request
           /\ pc[r] = "join" => at[r] \in Request
           /\ pc[r] \in Serving =>
                  /\ Op[r] \in Authenticated
                  /\ About[r] \in Request /\ user[About[r]] \in Request
           /\ pc[r] \in {"owner", "account", "default"} => Op[r] = "make"
           /\ Op[r] \in {"start", "logout"} => pc[r] \in {"idle", "done"}
    /\ \A t \in mem.sessions \cup disk.sessions : user[t] \in Request

TypesOK == SignInTypeOK /\ PlacesOK

-----------------------------------------------------------------------------
\* The collections that an addition to the one named f leaves alone.
Keep(m, n, f) ==
    /\ f # "open" => n.open = m.open
    /\ f # "consumed" => n.consumed = m.consumed
    /\ f # "users" => n.users = m.users
    /\ f # "settings" => n.settings = m.settings
    /\ f # "workspaces" => n.workspaces = m.workspaces
    /\ f # "accounts" => n.accounts = m.accounts
    /\ f # "allowing" => n.allowing = m.allowing
    /\ f # "members" => n.members = m.members
    /\ f # "sessions" => n.sessions = m.sessions
    /\ f # "revoked" => n.revoked = m.revoked

LEMMA SetOpen ==
    ASSUME NEW m \in Collections, NEW x \in SUBSET Request, NEW n, n = [m EXCEPT !.open = x]
    PROVE  n \in Collections /\ n.open = x /\ Keep(m, n, "open")
BY DEF Collections, Keep

LEMMA SetConsumed ==
    ASSUME NEW m \in Collections, NEW x \in SUBSET Request, NEW n, n = [m EXCEPT !.consumed = x]
    PROVE  n \in Collections /\ n.consumed = x /\ Keep(m, n, "consumed")
BY DEF Collections, Keep

LEMMA SetUsers ==
    ASSUME NEW m \in Collections, NEW x \in SUBSET Request, NEW n, n = [m EXCEPT !.users = x]
    PROVE  n \in Collections /\ n.users = x /\ Keep(m, n, "users")
BY DEF Collections, Keep

LEMMA SetSettings ==
    ASSUME NEW m \in Collections, NEW x \in SUBSET Request, NEW n, n = [m EXCEPT !.settings = x]
    PROVE  n \in Collections /\ n.settings = x /\ Keep(m, n, "settings")
BY DEF Collections, Keep

LEMMA SetWorkspaces ==
    ASSUME NEW m \in Collections, NEW x \in SUBSET Request, NEW n, n = [m EXCEPT !.workspaces = x]
    PROVE  n \in Collections /\ n.workspaces = x /\ Keep(m, n, "workspaces")
BY DEF Collections, Keep

LEMMA SetAccounts ==
    ASSUME NEW m \in Collections, NEW x \in SUBSET Request, NEW n, n = [m EXCEPT !.accounts = x]
    PROVE  n \in Collections /\ n.accounts = x /\ Keep(m, n, "accounts")
BY DEF Collections, Keep

LEMMA SetAllowing ==
    ASSUME NEW m \in Collections, NEW x \in SUBSET Request, NEW n, n = [m EXCEPT !.allowing = x]
    PROVE  n \in Collections /\ n.allowing = x /\ Keep(m, n, "allowing")
BY DEF Collections, Keep

LEMMA SetMembers ==
    ASSUME NEW m \in Collections, NEW x \in SUBSET Membership, NEW n, n = [m EXCEPT !.members = x]
    PROVE  n \in Collections /\ n.members = x /\ Keep(m, n, "members")
BY DEF Collections, Keep

LEMMA SetSessions ==
    ASSUME NEW m \in Collections, NEW x \in SUBSET Request, NEW n, n = [m EXCEPT !.sessions = x]
    PROVE  n \in Collections /\ n.sessions = x /\ Keep(m, n, "sessions")
BY DEF Collections, Keep

LEMMA SetRevoked ==
    ASSUME NEW m \in Collections, NEW x \in SUBSET Request, NEW n, n = [m EXCEPT !.revoked = x]
    PROVE  n \in Collections /\ n.revoked = x /\ Keep(m, n, "revoked")
BY DEF Collections, Keep

\* What every action adds to the collections; the others leave them as they are.
LEMMA Additions ==
    ASSUME TypesOK, NEW r \in Request
    PROVE
        /\ CreateState(r) =>
               /\ mem' \in Collections /\ Keep(mem, mem', "open")
               /\ mem'.open = mem.open \cup {r}
        /\ Consume(r) =>
               /\ mem' \in Collections /\ Keep(mem, mem', "consumed")
               /\ mem'.consumed = mem.consumed \cup {About[r]}
        /\ AddUser(r) =>
               /\ mem' \in Collections /\ Keep(mem, mem', "users")
               /\ mem'.users = mem.users \cup {r}
        /\ AddSettings(r) =>
               /\ mem' \in Collections /\ Keep(mem, mem', "settings")
               /\ mem'.settings = mem.settings \cup {r}
        /\ AddWorkspace(r) =>
               /\ mem' \in Collections /\ Keep(mem, mem', "workspaces")
               /\ mem'.workspaces = mem.workspaces \cup {r}
        /\ AddAccount(r) =>
               /\ mem' \in Collections /\ Keep(mem, mem', "accounts")
               /\ mem'.accounts = mem.accounts \cup {r}
        /\ AllowDomain(r) =>
               /\ mem' \in Collections /\ Keep(mem, mem', "allowing")
               /\ mem'.allowing = mem.allowing \cup {x \in {Target[r]} : pc'[r] = "done"}
        /\ Join(r) =>
               /\ mem' \in Collections /\ Keep(mem, mem', "members")
               /\ mem'.members = mem.members \cup {[by |-> r, user |-> user[r], workspace |-> at[r]]}
        /\ AddOwner(r) =>
               /\ mem' \in Collections /\ Keep(mem, mem', "members")
               /\ mem'.members = mem.members \cup {[by |-> r, user |-> Caller(r), workspace |-> r]}
        /\ CreateSession(r) =>
               /\ mem' \in Collections /\ Keep(mem, mem', "sessions")
               /\ mem'.sessions = mem.sessions \cup {r}
        /\ Logout(r) =>
               /\ mem' \in Collections /\ Keep(mem, mem', "revoked")
               /\ mem'.revoked = mem.revoked \cup {About[r]}
<1>1. mem \in Collections /\ pc \in [Request -> Place]
  BY DEF TypesOK, SignInTypeOK, Place
<1>2. ASSUME CreateState(r)
      PROVE  /\ mem' \in Collections /\ Keep(mem, mem', "open")
             /\ mem'.open = mem.open \cup {r}
  <2> DEFINE x == mem.open \cup {r}
  <2>1. r \in Request
    OBVIOUS
  <2>2. x \in SUBSET Request
    BY <1>1, <2>1 DEF Collections
  <2>3. mem' = [mem EXCEPT !.open = x]
    BY <1>2 DEF CreateState
  <2> HIDE DEF x
  <2>4. mem' \in Collections /\ Keep(mem, mem', "open") /\ mem'.open = x
    BY <1>1, <2>2, <2>3, SetOpen
  <2>5. QED BY <2>4 DEF x
<1>3. ASSUME Consume(r)
      PROVE  /\ mem' \in Collections /\ Keep(mem, mem', "consumed")
             /\ mem'.consumed = mem.consumed \cup {About[r]}
  <2> DEFINE x == mem.consumed \cup {About[r]}
  <2>1. About[r] \in Request
    BY <1>3, SignInAssumption DEF Consume, Goto, TypesOK, PlacesOK
  <2>2. x \in SUBSET Request
    BY <1>1, <2>1 DEF Collections
  <2>3. mem' = [mem EXCEPT !.consumed = x]
    BY <1>3 DEF Consume
  <2> HIDE DEF x
  <2>4. mem' \in Collections /\ Keep(mem, mem', "consumed") /\ mem'.consumed = x
    BY <1>1, <2>2, <2>3, SetConsumed
  <2>5. QED BY <2>4 DEF x
<1>4. ASSUME AddUser(r)
      PROVE  /\ mem' \in Collections /\ Keep(mem, mem', "users")
             /\ mem'.users = mem.users \cup {r}
  <2> DEFINE x == mem.users \cup {r}
  <2>1. r \in Request
    OBVIOUS
  <2>2. x \in SUBSET Request
    BY <1>1, <2>1 DEF Collections
  <2>3. mem' = [mem EXCEPT !.users = x]
    BY <1>4 DEF AddUser
  <2> HIDE DEF x
  <2>4. mem' \in Collections /\ Keep(mem, mem', "users") /\ mem'.users = x
    BY <1>1, <2>2, <2>3, SetUsers
  <2>5. QED BY <2>4 DEF x
<1>5. ASSUME AddSettings(r)
      PROVE  /\ mem' \in Collections /\ Keep(mem, mem', "settings")
             /\ mem'.settings = mem.settings \cup {r}
  <2> DEFINE x == mem.settings \cup {r}
  <2>1. r \in Request
    OBVIOUS
  <2>2. x \in SUBSET Request
    BY <1>1, <2>1 DEF Collections
  <2>3. mem' = [mem EXCEPT !.settings = x]
    BY <1>5 DEF AddSettings
  <2> HIDE DEF x
  <2>4. mem' \in Collections /\ Keep(mem, mem', "settings") /\ mem'.settings = x
    BY <1>1, <2>2, <2>3, SetSettings
  <2>5. QED BY <2>4 DEF x
<1>6. ASSUME AddWorkspace(r)
      PROVE  /\ mem' \in Collections /\ Keep(mem, mem', "workspaces")
             /\ mem'.workspaces = mem.workspaces \cup {r}
  <2> DEFINE x == mem.workspaces \cup {r}
  <2>1. r \in Request
    OBVIOUS
  <2>2. x \in SUBSET Request
    BY <1>1, <2>1 DEF Collections
  <2>3. mem' = [mem EXCEPT !.workspaces = x]
    BY <1>6 DEF AddWorkspace
  <2> HIDE DEF x
  <2>4. mem' \in Collections /\ Keep(mem, mem', "workspaces") /\ mem'.workspaces = x
    BY <1>1, <2>2, <2>3, SetWorkspaces
  <2>5. QED BY <2>4 DEF x
<1>7. ASSUME AddAccount(r)
      PROVE  /\ mem' \in Collections /\ Keep(mem, mem', "accounts")
             /\ mem'.accounts = mem.accounts \cup {r}
  <2> DEFINE x == mem.accounts \cup {r}
  <2>1. r \in Request
    OBVIOUS
  <2>2. x \in SUBSET Request
    BY <1>1, <2>1 DEF Collections
  <2>3. mem' = [mem EXCEPT !.accounts = x]
    BY <1>7 DEF AddAccount
  <2> HIDE DEF x
  <2>4. mem' \in Collections /\ Keep(mem, mem', "accounts") /\ mem'.accounts = x
    BY <1>1, <2>2, <2>3, SetAccounts
  <2>5. QED BY <2>4 DEF x
<1>8. ASSUME AllowDomain(r)
      PROVE  /\ mem' \in Collections /\ Keep(mem, mem', "allowing")
             /\ mem'.allowing = mem.allowing \cup {x \in {Target[r]} : pc'[r] = "done"}
  <2> DEFINE owner == [by |-> Target[r], user |-> Caller(r), workspace |-> Target[r]]
                          \in mem.members
  <2>1. Target[r] \in Request
    BY <1>8, SignInAssumption DEF AllowDomain
  <2>2. (pc'[r] = "done") <=> owner
    BY <1>1, <1>8 DEF AllowDomain, Goto
  <2>3. mem' = [mem EXCEPT !.allowing = @ \cup {x \in {Target[r]} : owner}]
    BY <1>8 DEF AllowDomain
  <2> HIDE DEF owner
  <2>4. mem' = [mem EXCEPT !.allowing = mem.allowing \cup {x \in {Target[r]} : pc'[r] = "done"}]
    BY <2>2, <2>3
  <2>5. mem.allowing \cup {x \in {Target[r]} : pc'[r] = "done"} \in SUBSET Request
    BY <1>1, <2>1 DEF Collections
  <2>6. QED BY <1>1, <2>4, <2>5, SetAllowing
<1>9. ASSUME Join(r)
      PROVE  /\ mem' \in Collections /\ Keep(mem, mem', "members")
             /\ mem'.members = mem.members \cup {[by |-> r, user |-> user[r], workspace |-> at[r]]}
  <2> DEFINE x == mem.members \cup {[by |-> r, user |-> user[r], workspace |-> at[r]]}
  <2>1. [by |-> r, user |-> user[r], workspace |-> at[r]] \in Membership
    BY <1>9 DEF Join, Goto, TypesOK, PlacesOK, LoggingIn, Membership
  <2>2. x \in SUBSET Membership
    BY <1>1, <2>1 DEF Collections
  <2>3. mem' = [mem EXCEPT !.members = x]
    BY <1>9 DEF Join
  <2> HIDE DEF x
  <2>4. mem' \in Collections /\ Keep(mem, mem', "members") /\ mem'.members = x
    BY <1>1, <2>2, <2>3, SetMembers
  <2>5. QED BY <2>4 DEF x
<1>10. ASSUME AddOwner(r)
      PROVE  /\ mem' \in Collections /\ Keep(mem, mem', "members")
             /\ mem'.members = mem.members \cup {[by |-> r, user |-> Caller(r), workspace |-> r]}
  <2> DEFINE x == mem.members \cup {[by |-> r, user |-> Caller(r), workspace |-> r]}
  <2>1. [by |-> r, user |-> Caller(r), workspace |-> r] \in Membership
    BY <1>10 DEF AddOwner, Goto, Caller, TypesOK, PlacesOK, Serving, Membership
  <2>2. x \in SUBSET Membership
    BY <1>1, <2>1 DEF Collections
  <2>3. mem' = [mem EXCEPT !.members = x]
    BY <1>10 DEF AddOwner
  <2> HIDE DEF x
  <2>4. mem' \in Collections /\ Keep(mem, mem', "members") /\ mem'.members = x
    BY <1>1, <2>2, <2>3, SetMembers
  <2>5. QED BY <2>4 DEF x
<1>11. ASSUME CreateSession(r)
      PROVE  /\ mem' \in Collections /\ Keep(mem, mem', "sessions")
             /\ mem'.sessions = mem.sessions \cup {r}
  <2> DEFINE x == mem.sessions \cup {r}
  <2>1. r \in Request
    OBVIOUS
  <2>2. x \in SUBSET Request
    BY <1>1, <2>1 DEF Collections
  <2>3. mem' = [mem EXCEPT !.sessions = x]
    BY <1>11 DEF CreateSession
  <2> HIDE DEF x
  <2>4. mem' \in Collections /\ Keep(mem, mem', "sessions") /\ mem'.sessions = x
    BY <1>1, <2>2, <2>3, SetSessions
  <2>5. QED BY <2>4 DEF x
<1>12. ASSUME Logout(r)
      PROVE  /\ mem' \in Collections /\ Keep(mem, mem', "revoked")
             /\ mem'.revoked = mem.revoked \cup {About[r]}
  <2> DEFINE x == mem.revoked \cup {About[r]}
  <2>1. About[r] \in Request
    BY <1>12, SignInAssumption DEF Logout
  <2>2. x \in SUBSET Request
    BY <1>1, <2>1 DEF Collections
  <2>3. mem' = [mem EXCEPT !.revoked = x]
    BY <1>12 DEF Logout
  <2> HIDE DEF x
  <2>4. mem' \in Collections /\ Keep(mem, mem', "revoked") /\ mem'.revoked = x
    BY <1>1, <2>2, <2>3, SetRevoked
  <2>5. QED BY <2>4 DEF x
<1>13. QED BY <1>2, <1>3, <1>4, <1>5, <1>6, <1>7, <1>8, <1>9, <1>10, <1>11, <1>12

-----------------------------------------------------------------------------
\* The step of r from one place to another.
Moved(r, from, to) ==
    /\ pc[r] = from /\ pc'[r] \in to /\ pc' \in [Request -> Place]
    /\ \A q \in Request \ {r} : pc'[q] = pc[q]

LEMMA Moves ==
    ASSUME TypesOK, NEW r \in Request
    PROVE
        /\ CreateState(r) => Op[r] = "start" /\ Moved(r, "idle", {"done"})
        /\ ReadState(r) => Op[r] = "callback" /\ Moved(r, "idle", {"consume"})
        /\ RefuseState(r) => Op[r] = "callback" /\ Moved(r, "idle", {"raised"})
        /\ Consume(r) => Moved(r, "consume", {"exchange"})
        /\ Exchange(r) => Moved(r, "exchange", {"login", "raised"})
        /\ AddUser(r) => Moved(r, "add", {"settings"})
        /\ AddSettings(r) => Moved(r, "settings", {"reconcile"})
        /\ BeginReconcile(r) => Moved(r, "reconcile", {"loop"})
        /\ PassBy(r) => Moved(r, "loop", {"loop"})
        /\ VisitWorkspace(r) => Moved(r, "loop", {"join"})
        /\ Join(r) => Moved(r, "join", {"loop", "raised"})
        /\ LoopRaises(r) => Moved(r, "loop", {"raised"})
        /\ EndLoop(r) => Moved(r, "loop", {"session"})
        /\ CreateSession(r) => Moved(r, "session", {"done"})
        /\ FindSession(r) => Op[r] \in Authenticated /\ Moved(r, "idle", {"found", "refused"})
        /\ CheckSession(r) => Moved(r, "found", {"refused", "serve"})
        /\ Logout(r) => Op[r] = "logout" /\ Moved(r, "idle", {"done"})
        /\ ReadMe(r) => Op[r] = "me" /\ Moved(r, "serve", {"done", "raised"})
        /\ AddWorkspace(r) => Op[r] = "make" /\ Moved(r, "serve", {"owner"})
        /\ AddOwner(r) => Moved(r, "owner", {"account"})
        /\ AddAccount(r) => Moved(r, "account", {"default"})
        /\ SetDefault(r) => Moved(r, "default", {"done", "raised"})
        /\ AllowDomain(r) => Op[r] = "allow" /\ Moved(r, "serve", {"done", "refused"})
        /\ FindUser(r) =>
               /\ pc[r] = "login" \/ (Op[r] = "dev" /\ pc[r] = "idle")
               /\ Moved(r, pc[r], {"reconcile", "add"})
<1>1. pc \in [Request -> Place]
  BY DEF TypesOK, SignInTypeOK, Place
<1> USE DEF Moved, Place, AtRest
<1>2. CreateState(r) => Op[r] = "start" /\ Moved(r, "idle", {"done"})
  BY <1>1 DEF CreateState, Goto
<1>3. ReadState(r) => Op[r] = "callback" /\ Moved(r, "idle", {"consume"})
  BY <1>1 DEF ReadState, Goto
<1>4. RefuseState(r) => Op[r] = "callback" /\ Moved(r, "idle", {"raised"})
  BY <1>1 DEF RefuseState, Goto
<1>5. Consume(r) => Moved(r, "consume", {"exchange"})
  BY <1>1 DEF Consume, Goto
<1>6. Exchange(r) => Moved(r, "exchange", {"login", "raised"})
  BY <1>1 DEF Exchange, Goto
<1>7. AddUser(r) => Moved(r, "add", {"settings"})
  BY <1>1 DEF AddUser, Goto
<1>8. AddSettings(r) => Moved(r, "settings", {"reconcile"})
  BY <1>1 DEF AddSettings, Goto
<1>9. BeginReconcile(r) => Moved(r, "reconcile", {"loop"})
  BY <1>1 DEF BeginReconcile, Goto
<1>10. PassBy(r) => Moved(r, "loop", {"loop"})
  BY <1>1 DEF PassBy, Goto
<1>11. VisitWorkspace(r) => Moved(r, "loop", {"join"})
  BY <1>1 DEF VisitWorkspace, Goto
<1>12. Join(r) => Moved(r, "join", {"loop", "raised"})
  BY <1>1 DEF Join, Goto
<1>13. LoopRaises(r) => Moved(r, "loop", {"raised"})
  BY <1>1 DEF LoopRaises, Goto
<1>14. EndLoop(r) => Moved(r, "loop", {"session"})
  BY <1>1 DEF EndLoop, Goto
<1>15. CreateSession(r) => Moved(r, "session", {"done"})
  BY <1>1 DEF CreateSession, Goto
<1>16. FindSession(r) => Op[r] \in Authenticated /\ Moved(r, "idle", {"found", "refused"})
  BY <1>1 DEF FindSession, Goto
<1>17. CheckSession(r) => Moved(r, "found", {"refused", "serve"})
  BY <1>1 DEF CheckSession, Goto
<1>18. Logout(r) => Op[r] = "logout" /\ Moved(r, "idle", {"done"})
  BY <1>1 DEF Logout, Goto
<1>19. ReadMe(r) => Op[r] = "me" /\ Moved(r, "serve", {"done", "raised"})
  BY <1>1 DEF ReadMe, Goto
<1>20. AddWorkspace(r) => Op[r] = "make" /\ Moved(r, "serve", {"owner"})
  BY <1>1 DEF AddWorkspace, Goto
<1>21. AddOwner(r) => Moved(r, "owner", {"account"})
  BY <1>1 DEF AddOwner, Goto
<1>22. AddAccount(r) => Moved(r, "account", {"default"})
  BY <1>1 DEF AddAccount, Goto
<1>23. SetDefault(r) => Moved(r, "default", {"done", "raised"})
  BY <1>1 DEF SetDefault, Goto
<1>24. AllowDomain(r) => Op[r] = "allow" /\ Moved(r, "serve", {"done", "refused"})
  BY <1>1 DEF AllowDomain, Goto
<1>25. FindUser(r) => /\ pc[r] = "login" \/ (Op[r] = "dev" /\ pc[r] = "idle")
                     /\ Moved(r, pc[r], {"reconcile", "add"})
  BY <1>1 DEF FindUser, BeginsLogin, FoundNoUser, Ready, Goto
<1>26. QED BY <1>2, <1>3, <1>4, <1>5, <1>6, <1>7, <1>8, <1>9, <1>10, <1>11, <1>12, <1>13,
           <1>14, <1>15, <1>16, <1>17, <1>18, <1>19, <1>20, <1>21, <1>22, <1>23, <1>24,
           <1>25

-----------------------------------------------------------------------------
\* Type correctness.
LEMMA RequestTypes ==
    ASSUME TypesOK, NEW r \in Request, mem' \in Collections, disk' = mem' \/ disk' = disk,
           pc' \in [Request -> Place], \A q \in Request \ {r} : pc'[q] = pc[q],
           user' = user \/ (pc[r] \in {"idle", "login"} /\
                            \E u \in Request : user' = [user EXCEPT ![r] = u]),
           seen' \in [Request -> SUBSET Request], todo' \in [Request -> SUBSET Request],
           at' = at \/ \E w \in Request : at' = [at EXCEPT ![r] = w],
           due' \in [Request -> SUBSET Request], late' \subseteq Request,
           torn' = torn \/ torn' = Halves(pc'),
           mem'.sessions = mem.sessions \/ (mem'.sessions = mem.sessions \cup {r}
                                            /\ user[r] \in Request),
           pc'[r] \in {"consume", "exchange", "login"} => Op[r] = "callback",
           pc'[r] \in LoggingIn => Op[r] \in {"callback", "dev"} /\ user'[r] \in Request,
           pc'[r] = "join" => at'[r] \in Request,
           pc'[r] \in Serving =>
               Op[r] \in Authenticated /\ About[r] \in Request /\ user[About[r]] \in Request,
           pc'[r] \in {"owner", "account", "default"} => Op[r] = "make",
           Op[r] \in {"start", "logout"} => pc'[r] \in {"idle", "done"},
           expired' \subseteq Request, exchanged' \subseteq Request,
           UNCHANGED <<split, crashes>>
    PROVE  TypesOK'
<1>1. /\ mem \in Collections /\ disk \in Collections /\ pc \in [Request -> Place]
      /\ user \in [Request -> Request \cup {NoRequest}]
      /\ at \in [Request -> Request \cup {NoRequest}]
      /\ torn \subseteq Request /\ split \subseteq Request /\ crashes \in 0..MaxCrashes
      /\ PlacesOK
  BY DEF TypesOK, SignInTypeOK, Place
<1>2. disk' \in Collections /\ torn' \subseteq Request
  BY <1>1 DEF Halves
<1>3. user' \in [Request -> Request \cup {NoRequest}]
  BY <1>1
<1>4. at' \in [Request -> Request \cup {NoRequest}]
  BY <1>1
<1>5. SignInTypeOK'
  BY <1>1, <1>2, <1>3, <1>4 DEF SignInTypeOK, Place
<1>6. \A q \in Request : user[q] \in Request => user'[q] \in Request
  BY <1>1
<1>7. \A q \in Request \ {r} : user'[q] = user[q] /\ at'[q] = at[q]
  BY <1>1
<1>8. ASSUME NEW q \in Request
      PROVE  /\ pc'[q] \in {"consume", "exchange", "login"} => Op[q] = "callback"
             /\ pc'[q] \in LoggingIn => Op[q] \in {"callback", "dev"} /\ user'[q] \in Request
             /\ pc'[q] = "join" => at'[q] \in Request
             /\ pc'[q] \in Serving =>
                    /\ Op[q] \in Authenticated
                    /\ About[q] \in Request /\ user'[About[q]] \in Request
             /\ pc'[q] \in {"owner", "account", "default"} => Op[q] = "make"
             /\ Op[q] \in {"start", "logout"} => pc'[q] \in {"idle", "done"}
  <2>1. CASE q = r
    BY <1>6, <2>1
  <2>2. CASE q # r
    BY <1>1, <1>6, <1>7, <2>2 DEF PlacesOK
  <2>3. QED BY <2>1, <2>2
<1>9. \A t \in mem'.sessions \cup disk'.sessions : user'[t] \in Request
  <2>1. mem.sessions \subseteq Request /\ disk.sessions \subseteq Request
    BY <1>1 DEF Collections
  <2>2. \A t \in mem.sessions \cup disk.sessions : user'[t] \in Request
    BY <1>1, <1>6, <2>1 DEF PlacesOK
  <2>3. QED BY <1>6, <2>2
<1>10. QED BY <1>5, <1>8, <1>9 DEF TypesOK, PlacesOK

\* A step of r that leaves what the threads work with as it was.
LEMMA QuietTypes ==
    ASSUME TypesOK, NEW r \in Request, mem' \in Collections, mem'.sessions = mem.sessions,
           Sync \/ NoSync, UNCHANGED <<local, split, crashes, due>>,
           late' \subseteq Request, expired' \subseteq Request, exchanged' \subseteq Request,
           pc' \in [Request -> Place], \A q \in Request \ {r} : pc'[q] = pc[q],
           pc'[r] \in {"consume", "exchange", "login"} => Op[r] = "callback",
           pc'[r] \in LoggingIn => Op[r] \in {"callback", "dev"} /\ user[r] \in Request,
           pc'[r] # "join",
           pc'[r] \in Serving =>
               Op[r] \in Authenticated /\ About[r] \in Request /\ user[About[r]] \in Request,
           pc'[r] \in {"owner", "account", "default"} => Op[r] = "make",
           Op[r] \in {"start", "logout"} => pc'[r] \in {"idle", "done"}
    PROVE  TypesOK'
<1>1. /\ user' = user /\ seen' = seen /\ todo' = todo /\ at' = at /\ due' = due
      /\ split' = split /\ crashes' = crashes
  BY DEF local
<1>2. /\ seen \in [Request -> SUBSET Request] /\ todo \in [Request -> SUBSET Request]
      /\ due \in [Request -> SUBSET Request]
  BY DEF TypesOK, SignInTypeOK
<1>3. (disk' = mem' \/ disk' = disk) /\ (torn' = torn \/ torn' = Halves(pc'))
  BY DEF Sync, NoSync
<1>4. QED BY <1>1, <1>2, <1>3, RequestTypes

LEMMA SignInTypesStep ==
    ASSUME TypesOK, [Next]_vars
    PROVE  TypesOK'
<1>t. /\ mem \in Collections /\ disk \in Collections /\ pc \in [Request -> Place]
      /\ user \in [Request -> Request \cup {NoRequest}]
      /\ seen \in [Request -> SUBSET Request] /\ todo \in [Request -> SUBSET Request]
      /\ at \in [Request -> Request \cup {NoRequest}] /\ due \in [Request -> SUBSET Request]
      /\ late \subseteq Request /\ expired \subseteq Request /\ exchanged \subseteq Request
      /\ torn \subseteq Request /\ split \subseteq Request /\ crashes \in 0..MaxCrashes
      /\ PlacesOK
  BY DEF TypesOK, SignInTypeOK, Place
<1> USE DEF LoggingIn, Serving, Authenticated
<1>1. ASSUME NEW r \in Request, CreateState(r) PROVE TypesOK'
  <2>1. mem' \in Collections /\ mem'.sessions = mem.sessions
    BY <1>1, Additions DEF Keep
  <2>2. /\ (Sync \/ NoSync) /\ UNCHANGED <<local, split, crashes, due>>
        /\ late' \subseteq Request /\ expired' \subseteq Request /\ exchanged' \subseteq Request
    BY <1>t, <1>1 DEF CreateState, world, history
  <2>3. Op[r] = "start" /\ Moved(r, "idle", {"done"})
    BY <1>1, Moves
  <2>4. QED BY <1>t, <2>1, <2>2, <2>3, QuietTypes DEF Moved, PlacesOK
<1>2. ASSUME NEW r \in Request, ReadState(r) PROVE TypesOK'
  <2>1. mem' \in Collections /\ mem'.sessions = mem.sessions
    BY <1>t, <1>2 DEF ReadState
  <2>2. /\ (Sync \/ NoSync) /\ UNCHANGED <<local, split, crashes, due>>
        /\ late' \subseteq Request /\ expired' \subseteq Request /\ exchanged' \subseteq Request
    BY <1>t, <1>2 DEF ReadState, world, history
  <2>3. Op[r] = "callback" /\ Moved(r, "idle", {"consume"})
    BY <1>2, Moves
  <2>4. QED BY <1>t, <2>1, <2>2, <2>3, QuietTypes DEF Moved, PlacesOK
<1>3. ASSUME NEW r \in Request, RefuseState(r) PROVE TypesOK'
  <2>1. mem' \in Collections /\ mem'.sessions = mem.sessions
    BY <1>t, <1>3 DEF RefuseState
  <2>2. /\ (Sync \/ NoSync) /\ UNCHANGED <<local, split, crashes, due>>
        /\ late' \subseteq Request /\ expired' \subseteq Request /\ exchanged' \subseteq Request
    BY <1>t, <1>3 DEF RefuseState, world, history
  <2>3. Op[r] = "callback" /\ Moved(r, "idle", {"raised"})
    BY <1>3, Moves
  <2>4. QED BY <1>t, <2>1, <2>2, <2>3, QuietTypes DEF Moved, PlacesOK
<1>4. ASSUME NEW r \in Request, Consume(r) PROVE TypesOK'
  <2>1. mem' \in Collections /\ mem'.sessions = mem.sessions
    BY <1>4, Additions DEF Keep
  <2>2. /\ (Sync \/ NoSync) /\ UNCHANGED <<local, split, crashes, due>>
        /\ late' \subseteq Request /\ expired' \subseteq Request /\ exchanged' \subseteq Request
    BY <1>t, <1>4 DEF Consume, world, history
  <2>3. Moved(r, "consume", {"exchange"})
    BY <1>4, Moves
  <2>4. QED BY <1>t, <2>1, <2>2, <2>3, QuietTypes DEF Moved, PlacesOK
<1>5. ASSUME NEW r \in Request, Exchange(r) PROVE TypesOK'
  <2>1. mem' \in Collections /\ mem'.sessions = mem.sessions
    BY <1>t, <1>5 DEF Exchange
  <2>2. /\ (Sync \/ NoSync) /\ UNCHANGED <<local, split, crashes, due>>
        /\ late' \subseteq Request /\ expired' \subseteq Request /\ exchanged' \subseteq Request
    BY <1>t, <1>5 DEF Exchange, world, history
  <2>3. Moved(r, "exchange", {"login", "raised"})
    BY <1>5, Moves
  <2>4. QED BY <1>t, <2>1, <2>2, <2>3, QuietTypes DEF Moved, PlacesOK
<1>6. ASSUME NEW r \in Request, AddUser(r) PROVE TypesOK'
  <2>1. mem' \in Collections /\ mem'.sessions = mem.sessions
    BY <1>6, Additions DEF Keep
  <2>2. /\ (Sync \/ NoSync) /\ UNCHANGED <<local, split, crashes, due>>
        /\ late' \subseteq Request /\ expired' \subseteq Request /\ exchanged' \subseteq Request
    BY <1>t, <1>6 DEF AddUser, world, history
  <2>3. Moved(r, "add", {"settings"})
    BY <1>6, Moves
  <2>4. QED BY <1>t, <2>1, <2>2, <2>3, QuietTypes DEF Moved, PlacesOK
<1>7. ASSUME NEW r \in Request, AddSettings(r) PROVE TypesOK'
  <2>1. mem' \in Collections /\ mem'.sessions = mem.sessions
    BY <1>7, Additions DEF Keep
  <2>2. /\ (Sync \/ NoSync) /\ UNCHANGED <<local, split, crashes, due>>
        /\ late' \subseteq Request /\ expired' \subseteq Request /\ exchanged' \subseteq Request
    BY <1>t, <1>7 DEF AddSettings, world, history
  <2>3. Moved(r, "settings", {"reconcile"})
    BY <1>7, Moves
  <2>4. QED BY <1>t, <2>1, <2>2, <2>3, QuietTypes DEF Moved, PlacesOK
<1>8. ASSUME NEW r \in Request, Join(r) PROVE TypesOK'
  <2>1. mem' \in Collections /\ mem'.sessions = mem.sessions
    BY <1>8, Additions DEF Keep
  <2>2. /\ (Sync \/ NoSync) /\ UNCHANGED <<local, split, crashes, due>>
        /\ late' \subseteq Request /\ expired' \subseteq Request /\ exchanged' \subseteq Request
    BY <1>t, <1>8 DEF Join, world, history
  <2>3. Moved(r, "join", {"loop", "raised"})
    BY <1>8, Moves
  <2>4. QED BY <1>t, <2>1, <2>2, <2>3, QuietTypes DEF Moved, PlacesOK
<1>9. ASSUME NEW r \in Request, LoopRaises(r) PROVE TypesOK'
  <2>1. mem' \in Collections /\ mem'.sessions = mem.sessions
    BY <1>t, <1>9 DEF LoopRaises
  <2>2. /\ (Sync \/ NoSync) /\ UNCHANGED <<local, split, crashes, due>>
        /\ late' \subseteq Request /\ expired' \subseteq Request /\ exchanged' \subseteq Request
    BY <1>t, <1>9 DEF LoopRaises, world, history
  <2>3. Moved(r, "loop", {"raised"})
    BY <1>9, Moves
  <2>4. QED BY <1>t, <2>1, <2>2, <2>3, QuietTypes DEF Moved, PlacesOK
<1>10. ASSUME NEW r \in Request, EndLoop(r) PROVE TypesOK'
  <2>1. mem' \in Collections /\ mem'.sessions = mem.sessions
    BY <1>t, <1>10 DEF EndLoop
  <2>2. /\ (Sync \/ NoSync) /\ UNCHANGED <<local, split, crashes, due>>
        /\ late' \subseteq Request /\ expired' \subseteq Request /\ exchanged' \subseteq Request
    BY <1>t, <1>10 DEF EndLoop, world, history
  <2>3. Moved(r, "loop", {"session"})
    BY <1>10, Moves
  <2>4. QED BY <1>t, <2>1, <2>2, <2>3, QuietTypes DEF Moved, PlacesOK
<1>11. ASSUME NEW r \in Request, FindSession(r) PROVE TypesOK'
  <2>1. mem' \in Collections /\ mem'.sessions = mem.sessions
    BY <1>t, <1>11 DEF FindSession
  <2>2. /\ (Sync \/ NoSync) /\ UNCHANGED <<local, split, crashes, due>>
        /\ late' \subseteq Request /\ expired' \subseteq Request /\ exchanged' \subseteq Request
    BY <1>t, <1>11 DEF FindSession, world, history
  <2>3. Op[r] \in Authenticated /\ Moved(r, "idle", {"found", "refused"})
    BY <1>11, Moves
  <2>4. About[r] \in Request /\ (pc'[r] = "found" => user[About[r]] \in Request)
    BY <1>t, <1>11, <2>3, SignInAssumption DEF FindSession, Goto, PlacesOK, Moved
  <2>5. QED BY <2>1, <2>2, <2>3, <2>4, QuietTypes DEF Moved
<1>12. ASSUME NEW r \in Request, CheckSession(r) PROVE TypesOK'
  <2>1. mem' \in Collections /\ mem'.sessions = mem.sessions
    BY <1>t, <1>12 DEF CheckSession
  <2>2. /\ (Sync \/ NoSync) /\ UNCHANGED <<local, split, crashes, due>>
        /\ late' \subseteq Request /\ expired' \subseteq Request /\ exchanged' \subseteq Request
    BY <1>t, <1>12 DEF CheckSession, world, history
  <2>3. Moved(r, "found", {"refused", "serve"})
    BY <1>12, Moves
  <2>4. QED BY <1>t, <2>1, <2>2, <2>3, QuietTypes DEF Moved, PlacesOK
<1>13. ASSUME NEW r \in Request, Logout(r) PROVE TypesOK'
  <2>1. mem' \in Collections /\ mem'.sessions = mem.sessions
    BY <1>13, Additions DEF Keep
  <2>2. /\ (Sync \/ NoSync) /\ UNCHANGED <<local, split, crashes, due>>
        /\ late' \subseteq Request /\ expired' \subseteq Request /\ exchanged' \subseteq Request
    BY <1>t, <1>13 DEF Logout, world, history
  <2>3. Op[r] = "logout" /\ Moved(r, "idle", {"done"})
    BY <1>13, Moves
  <2>4. QED BY <1>t, <2>1, <2>2, <2>3, QuietTypes DEF Moved, PlacesOK
<1>14. ASSUME NEW r \in Request, ReadMe(r) PROVE TypesOK'
  <2>1. mem' \in Collections /\ mem'.sessions = mem.sessions
    BY <1>t, <1>14 DEF ReadMe
  <2>2. /\ (Sync \/ NoSync) /\ UNCHANGED <<local, split, crashes, due>>
        /\ late' \subseteq Request /\ expired' \subseteq Request /\ exchanged' \subseteq Request
    BY <1>t, <1>14 DEF ReadMe, world, history
  <2>3. Op[r] = "me" /\ Moved(r, "serve", {"done", "raised"})
    BY <1>14, Moves
  <2>4. QED BY <1>t, <2>1, <2>2, <2>3, QuietTypes DEF Moved, PlacesOK
<1>15. ASSUME NEW r \in Request, AddWorkspace(r) PROVE TypesOK'
  <2>1. mem' \in Collections /\ mem'.sessions = mem.sessions
    BY <1>15, Additions DEF Keep
  <2>2. /\ (Sync \/ NoSync) /\ UNCHANGED <<local, split, crashes, due>>
        /\ late' \subseteq Request /\ expired' \subseteq Request /\ exchanged' \subseteq Request
    BY <1>t, <1>15 DEF AddWorkspace, world, history
  <2>3. Op[r] = "make" /\ Moved(r, "serve", {"owner"})
    BY <1>15, Moves
  <2>4. QED BY <1>t, <2>1, <2>2, <2>3, QuietTypes DEF Moved, PlacesOK
<1>16. ASSUME NEW r \in Request, AddOwner(r) PROVE TypesOK'
  <2>1. mem' \in Collections /\ mem'.sessions = mem.sessions
    BY <1>16, Additions DEF Keep
  <2>2. /\ (Sync \/ NoSync) /\ UNCHANGED <<local, split, crashes, due>>
        /\ late' \subseteq Request /\ expired' \subseteq Request /\ exchanged' \subseteq Request
    BY <1>t, <1>16 DEF AddOwner, world, history
  <2>3. Moved(r, "owner", {"account"})
    BY <1>16, Moves
  <2>4. QED BY <1>t, <2>1, <2>2, <2>3, QuietTypes DEF Moved, PlacesOK
<1>17. ASSUME NEW r \in Request, AddAccount(r) PROVE TypesOK'
  <2>1. mem' \in Collections /\ mem'.sessions = mem.sessions
    BY <1>17, Additions DEF Keep
  <2>2. /\ (Sync \/ NoSync) /\ UNCHANGED <<local, split, crashes, due>>
        /\ late' \subseteq Request /\ expired' \subseteq Request /\ exchanged' \subseteq Request
    BY <1>t, <1>17 DEF AddAccount, world, history
  <2>3. Moved(r, "account", {"default"})
    BY <1>17, Moves
  <2>4. QED BY <1>t, <2>1, <2>2, <2>3, QuietTypes DEF Moved, PlacesOK
<1>18. ASSUME NEW r \in Request, SetDefault(r) PROVE TypesOK'
  <2>1. mem' \in Collections /\ mem'.sessions = mem.sessions
    BY <1>t, <1>18 DEF SetDefault
  <2>2. /\ (Sync \/ NoSync) /\ UNCHANGED <<local, split, crashes, due>>
        /\ late' \subseteq Request /\ expired' \subseteq Request /\ exchanged' \subseteq Request
    BY <1>t, <1>18 DEF SetDefault, world, history
  <2>3. Moved(r, "default", {"done", "raised"})
    BY <1>18, Moves
  <2>4. QED BY <1>t, <2>1, <2>2, <2>3, QuietTypes DEF Moved, PlacesOK
<1>19. ASSUME NEW r \in Request, AllowDomain(r) PROVE TypesOK'
  <2>1. mem' \in Collections /\ mem'.sessions = mem.sessions
    BY <1>19, Additions DEF Keep
  <2>2. /\ (Sync \/ NoSync) /\ UNCHANGED <<local, split, crashes, due>>
        /\ late' \subseteq Request /\ expired' \subseteq Request /\ exchanged' \subseteq Request
    BY <1>t, <1>19 DEF AllowDomain, world, history
  <2>3. Op[r] = "allow" /\ Moved(r, "serve", {"done", "refused"})
    BY <1>19, Moves
  <2>4. QED BY <1>t, <2>1, <2>2, <2>3, QuietTypes DEF Moved, PlacesOK
<1>20. ASSUME NEW r \in Request, FindUser(r) PROVE TypesOK'
  <2>1. PICK u \in Request : user' = [user EXCEPT ![r] = u]
    <3>1. CASE \E u \in Users(Mail[r]) : user' = [user EXCEPT ![r] = u]
      BY <1>t, <3>1 DEF Users, Collections
    <3>2. CASE FoundNoUser(r)
      BY <3>2 DEF FoundNoUser
    <3>3. QED BY <1>20, <3>1, <3>2 DEF FindUser
  <2>2. UNCHANGED mem /\ (Sync \/ NoSync) /\ due' = [due EXCEPT ![r] = Told] /\ late' = late
        /\ seen' = seen /\ todo' = todo /\ at' = at
        /\ expired' = expired /\ exchanged' = exchanged /\ split' = split /\ crashes' = crashes
    BY <1>20 DEF FindUser, world
  <2>3. /\ due' \in [Request -> SUBSET Request]
        /\ disk' = mem' \/ disk' = disk
        /\ torn' = torn \/ torn' = Halves(pc')
    BY <1>t, <2>2 DEF Told, Sync, NoSync
  <2>4. Op[r] \in {"callback", "dev"} /\ pc[r] \in {"idle", "login"}
        /\ Moved(r, pc[r], {"reconcile", "add"})
    BY <1>t, <1>20, Moves DEF PlacesOK
  <2>5. user'[r] \in Request
    BY <1>t, <2>1
  <2>6. QED BY <1>t, <2>1, <2>2, <2>3, <2>4, <2>5, RequestTypes DEF Moved
<1>21. ASSUME NEW r \in Request, BeginReconcile(r) PROVE TypesOK'
  <2>1. /\ UNCHANGED <<mem, user, due, late, expired, exchanged, split, crashes>> /\ NoSync
        /\ Moved(r, "reconcile", {"loop"})
    BY <1>21, Moves DEF BeginReconcile, world, history
  <2>2. seen' \in [Request -> SUBSET Request] /\ todo' \in [Request -> SUBSET Request]
    BY <1>t, <1>21 DEF BeginReconcile, Collections
  <2>3. disk' = disk /\ torn' = torn
    BY <2>1 DEF NoSync
  <2>4. at' = at
    BY <1>21 DEF BeginReconcile
  <2>5. QED BY <1>t, <2>1, <2>2, <2>3, <2>4, RequestTypes DEF Moved, PlacesOK
<1>22. ASSUME NEW r \in Request, PassBy(r) PROVE TypesOK'
  <2>1. /\ UNCHANGED <<mem, user, due, late, expired, exchanged, split, crashes>> /\ NoSync
        /\ Moved(r, "loop", {"loop"})
    BY <1>22, Moves DEF PassBy, world, history
  <2>2. seen' \in [Request -> SUBSET Request] /\ todo' \in [Request -> SUBSET Request]
    BY <1>t, <1>22 DEF PassBy, Collections
  <2>3. disk' = disk /\ torn' = torn
    BY <2>1 DEF NoSync
  <2>4. at' = at
    BY <1>22 DEF PassBy
  <2>5. QED BY <1>t, <2>1, <2>2, <2>3, <2>4, RequestTypes DEF Moved, PlacesOK
<1>23. ASSUME NEW r \in Request, VisitWorkspace(r) PROVE TypesOK'
  <2>1. /\ UNCHANGED <<mem, user, due, late, expired, exchanged, split, crashes>> /\ NoSync
        /\ Moved(r, "loop", {"join"})
    BY <1>23, Moves DEF VisitWorkspace, world, history
  <2>2. seen' \in [Request -> SUBSET Request] /\ todo' \in [Request -> SUBSET Request]
    BY <1>t, <1>23 DEF VisitWorkspace, Collections
  <2>3. disk' = disk /\ torn' = torn
    BY <2>1 DEF NoSync
  <2>4. PICK w \in Request : at' = [at EXCEPT ![r] = w]
    BY <1>t, <1>23 DEF VisitWorkspace
  <2>5. at'[r] \in Request
    BY <1>t, <2>4
  <2>6. QED BY <1>t, <2>1, <2>2, <2>3, <2>4, <2>5, RequestTypes DEF Moved, PlacesOK
<1>24. ASSUME NEW r \in Request, CreateSession(r) PROVE TypesOK'
  <2>1. /\ mem' \in Collections /\ mem'.sessions = mem.sessions \cup {r}
        /\ Sync /\ UNCHANGED <<local, due, late, expired, exchanged, split, crashes>>
        /\ Moved(r, "session", {"done"})
    BY <1>24, Additions, Moves DEF CreateSession, world, history
  <2>2. /\ user' = user /\ seen' = seen /\ todo' = todo /\ at' = at
        /\ disk' = mem' /\ torn' = Halves(pc')
    BY <2>1 DEF local, Sync
  <2>3. user[r] \in Request /\ Op[r] \in {"callback", "dev"}
    BY <1>t, <2>1 DEF PlacesOK, Moved
  <2>4. QED BY <1>t, <2>1, <2>2, <2>3, RequestTypes DEF Moved
<1>25. ASSUME NEW r \in Request, Expire(r) PROVE TypesOK'
  <2>1. /\ mem' = mem /\ disk' = disk /\ pc' = pc /\ user' = user /\ seen' = seen
        /\ todo' = todo /\ at' = at /\ due' = due /\ late' = late /\ torn' = torn
        /\ exchanged' = exchanged /\ split' = split /\ crashes' = crashes
        /\ expired' \subseteq Request
    BY <1>t, <1>25 DEF Expire, NoSync, local, history
  <2>2. QED BY <1>t, <2>1 DEF TypesOK, SignInTypeOK, PlacesOK, Place
<1>26. CASE Crash
  <2>1. /\ mem' = disk /\ disk' = disk /\ torn' = torn /\ split' = split \cup torn
        /\ crashes' \in 0..MaxCrashes
        /\ user' = user /\ seen' = seen /\ todo' = todo /\ at' = at /\ due' = due
        /\ late' = late /\ expired' = expired /\ exchanged' = exchanged
    BY <1>t, <1>26, SignInAssumption DEF Crash, local, history
  <2>2. /\ pc' \in [Request -> Place]
        /\ \A q \in Request : pc'[q] \in AtRest \cup {"crashed"}
        /\ \A q \in Request : pc[q] \in {"idle", "done"} => pc'[q] = pc[q]
    BY <1>t, <1>26 DEF Crash, AtRest, Place
  <2>3. QED BY <1>t, <2>1, <2>2 DEF TypesOK, SignInTypeOK, PlacesOK, AtRest, Place
<1>27. CASE UNCHANGED vars
  BY <1>t, <1>27 DEF vars, local, world, history, TypesOK, SignInTypeOK, PlacesOK, Place
<1>28. ASSUME NEW r \in Request, SignInStep(r) \/ SessionStep(r) PROVE TypesOK'
  BY <1>28, <1>1, <1>2, <1>3, <1>4, <1>5, <1>6, <1>7, <1>8, <1>9, <1>10, <1>11, <1>12,
     <1>13, <1>14, <1>15, <1>16, <1>17, <1>18, <1>19, <1>20, <1>21, <1>22, <1>23, <1>24
  DEF SignInStep, SessionStep
<1>29. QED BY <1>25, <1>26, <1>27, <1>28 DEF Next

LEMMA InitTypes == Init => TypesOK
<1> SUFFICES ASSUME Init PROVE TypesOK
  OBVIOUS
<1>1. mem \in Collections /\ mem.sessions = {}
  BY DEF Init, Collections
<1>2. disk \in Collections /\ disk.sessions = {} /\ pc = [r \in Request |-> "idle"]
  BY <1>1 DEF Init
<1>3. SignInTypeOK
  BY <1>1, <1>2, SignInAssumption DEF Init, SignInTypeOK, AtRest
<1>4. PlacesOK
  BY <1>1, <1>2 DEF PlacesOK, LoggingIn, Serving
<1>5. QED BY <1>3, <1>4 DEF TypesOK

\* Theorem: memory and disk hold collections of the right types, and every thread is
\* at a place of the code.
THEOREM SignInTypes == Spec => []SignInTypeOK
<1>1. TypesOK => SignInTypeOK
  BY DEF TypesOK
<1>2. QED BY <1>1, InitTypes, SignInTypesStep, PTL DEF Spec

-----------------------------------------------------------------------------
\* What every step does: the disk stays or is the memory, and what the history holds is
\* never forgotten.
LEMMA AnyStep ==
    ASSUME TypesOK, [Next]_vars
    PROVE  /\ disk' = mem' \/ disk' = disk
           /\ overlapped \subseteq overlapped' /\ late \subseteq late'
           /\ expired \subseteq expired' /\ exchanged \subseteq exchanged'
<1> DEFINE Goal == /\ disk' = mem' \/ disk' = disk
                   /\ overlapped \subseteq overlapped' /\ late \subseteq late'
                   /\ expired \subseteq expired' /\ exchanged \subseteq exchanged'
<1>1. ASSUME NEW r \in Request, SignInStep(r) PROVE Goal
  <2>1. CASE CreateState(r) \/ RefuseState(r) \/ Consume(r) \/ AddUser(r) \/ AddSettings(r)
    BY <2>1 DEF CreateState, RefuseState, Consume, AddUser, AddSettings, Sync, NoSync, world,
                history
  <2>2. CASE BeginReconcile(r) \/ PassBy(r) \/ Join(r) \/ LoopRaises(r) \/ EndLoop(r)
             \/ CreateSession(r)
    BY <2>2 DEF BeginReconcile, PassBy, Join, LoopRaises, EndLoop, CreateSession, Sync, NoSync,
                world, history
  <2>3. CASE ReadState(r) \/ Exchange(r) \/ VisitWorkspace(r)
    BY <2>3 DEF ReadState, Exchange, VisitWorkspace, Together, NoSync, world, history
  <2>4. CASE FindUser(r)
    BY <2>4 DEF FindUser, FoundNoUser, Together, Sync, NoSync, world
  <2>5. QED BY <1>1, <2>1, <2>2, <2>3, <2>4 DEF SignInStep
<1>2. ASSUME NEW r \in Request, SessionStep(r) PROVE Goal
  <2>1. CASE FindSession(r) \/ CheckSession(r) \/ Logout(r) \/ ReadMe(r)
    BY <2>1 DEF FindSession, CheckSession, Logout, ReadMe, Sync, NoSync, world, history
  <2>2. CASE AddWorkspace(r) \/ AddOwner(r) \/ AddAccount(r) \/ SetDefault(r) \/ AllowDomain(r)
    BY <2>2 DEF AddWorkspace, AddOwner, AddAccount, SetDefault, AllowDomain, Sync, NoSync, world,
                history
  <2>3. QED BY <1>2, <2>1, <2>2 DEF SessionStep
<1>3. ASSUME NEW r \in Request, Expire(r) PROVE Goal
  BY <1>3 DEF Expire, NoSync, history
<1>4. CASE Crash
  BY <1>4 DEF Crash, history
<1>5. CASE UNCHANGED vars
  BY <1>5 DEF vars, world, history
<1>6. QED BY <1>1, <1>2, <1>3, <1>4, <1>5 DEF Next

\* Every action but a crash lets the collections grow, each by actions of its own.
Step(r) == SignInStep(r) \/ SessionStep(r) \/ Expire(r)

LEMMA Grows ==
    ASSUME TypesOK, NEW r \in Request, Step(r)
    PROVE
        /\ mem.open \subseteq mem'.open /\ (mem'.open = mem.open \/ CreateState(r))
        /\ mem.consumed \subseteq mem'.consumed /\ (mem'.consumed = mem.consumed \/ Consume(r))
        /\ mem.users \subseteq mem'.users /\ (mem'.users = mem.users \/ AddUser(r))
        /\ mem.settings \subseteq mem'.settings /\ (mem'.settings = mem.settings \/ AddSettings(r))
        /\ mem.workspaces \subseteq mem'.workspaces /\ (mem'.workspaces = mem.workspaces \/ AddWorkspace(r))
        /\ mem.accounts \subseteq mem'.accounts /\ (mem'.accounts = mem.accounts \/ AddAccount(r))
        /\ mem.allowing \subseteq mem'.allowing /\ (mem'.allowing = mem.allowing \/ AllowDomain(r))
        /\ mem.members \subseteq mem'.members /\ (mem'.members = mem.members \/ Join(r) \/ AddOwner(r))
        /\ mem.sessions \subseteq mem'.sessions /\ (mem'.sessions = mem.sessions \/ CreateSession(r))
        /\ mem.revoked \subseteq mem'.revoked /\ (mem'.revoked = mem.revoked \/ Logout(r))
<1>1. CASE CreateState(r) \/ Consume(r) \/ AddUser(r) \/ AddSettings(r) \/ AddWorkspace(r)
           \/ AddAccount(r) \/ AllowDomain(r) \/ Join(r) \/ AddOwner(r) \/
           CreateSession(r) \/ Logout(r)
  BY <1>1, Additions DEF Keep
<1>2. CASE ReadState(r) \/ RefuseState(r) \/ Exchange(r) \/ FindUser(r) \/
           BeginReconcile(r) \/ PassBy(r) \/ VisitWorkspace(r) \/ LoopRaises(r)
           \/ EndLoop(r) \/ FindSession(r) \/ CheckSession(r) \/ ReadMe(r) \/
           SetDefault(r) \/ Expire(r)
  <2>1. mem' = mem
    BY <1>2 DEF ReadState, RefuseState, Exchange, FindUser, BeginReconcile, PassBy,
                VisitWorkspace, LoopRaises, EndLoop, FindSession, CheckSession, ReadMe,
                SetDefault, Expire
  <2>2. QED BY <2>1
<1>3. QED BY <1>1, <1>2 DEF Step, SignInStep, SessionStep

\* A step of r moves no other thread, and never one that is done.
LEMMA OneMoves ==
    ASSUME TypesOK, NEW r \in Request, Step(r)
    PROVE  /\ \A q \in Request \ {r} : pc'[q] = pc[q]
           /\ pc[r] \notin {"done", "refused", "raised", "crashed"} \/ pc'[r] = pc[r]
           /\ Op[r] = "logout" => Logout(r) \/ Expire(r)
<1>1. CASE Expire(r)
  BY <1>1 DEF Expire
<1>2. ASSUME CreateState(r) \/ ReadState(r) \/ RefuseState(r) \/ Consume(r) \/ Exchange(r)
             \/ AddUser(r) \/ AddSettings(r) \/ BeginReconcile(r) \/ PassBy(r)
             \/ VisitWorkspace(r) \/ Join(r) \/ LoopRaises(r) \/ EndLoop(r) \/
             CreateSession(r) \/ FindSession(r) \/ CheckSession(r) \/
             Logout(r) \/ ReadMe(r) \/ AddWorkspace(r) \/ AddOwner(r) \/
             AddAccount(r) \/ SetDefault(r) \/ AllowDomain(r) \/ FindUser(r)
      PROVE  /\ \A q \in Request \ {r} : pc'[q] = pc[q]
             /\ pc[r] \notin {"done", "refused", "raised", "crashed"}
             /\ Op[r] = "logout" => Logout(r)
  BY <1>2, Moves DEF Moved, TypesOK, PlacesOK, Authenticated, LoggingIn, Serving
<1>3. QED BY <1>1, <1>2 DEF Step, SignInStep, SessionStep

-----------------------------------------------------------------------------
\* A logout that was answered has revoked its session, on disk too, and a request that
\* came later has not passed the check of its session.
LateOK ==
    /\ \A q \in Request :
           Op[q] = "logout" /\ pc[q] = "done" =>
               About[q] \in mem.revoked /\ About[q] \in disk.revoked
    /\ \A r \in late :
           /\ pc[r] \in {"found", "refused", "crashed"}
           /\ pc[r] = "found" => Gone(About[r])

LEMMA LateStep ==
    ASSUME TypesOK, LateOK, [Next]_vars
    PROVE  LateOK'
<1>t. /\ mem \in Collections /\ disk \in Collections /\ pc \in [Request -> Place]
      /\ late \subseteq Request /\ PlacesOK
      /\ (disk' = mem' \/ disk' = disk) /\ expired \subseteq expired'
  BY AnyStep DEF TypesOK, SignInTypeOK, Place
<1>1. ASSUME NEW r \in Request, Step(r) PROVE LateOK'
  <2>1. mem.revoked \subseteq mem'.revoked /\ disk'.revoked \in {disk.revoked, mem'.revoked}
    BY <1>t, <1>1, Grows
  <2>2. \A q \in Request : pc[q] = "done" => pc'[q] = "done"
    BY <1>1, OneMoves
  <2>3. \A t : Gone(t) => Gone(t)'
    BY <1>t, <2>2 DEF Gone
  <2>4. ASSUME NEW q \in Request, Op[q] = "logout", pc'[q] = "done"
        PROVE  About[q] \in mem'.revoked /\ About[q] \in disk'.revoked
    <3>1. CASE pc[q] = "done"
      BY <2>1, <2>4, <3>1 DEF LateOK
    <3>2. CASE pc[q] # "done"
      <4>1. q = r /\ (Logout(r) \/ Expire(r))
        BY <1>1, <2>4, <3>2, OneMoves
      <4>2. pc' # pc
        BY <2>4, <3>2
      <4>3. Logout(r)
        BY <4>1, <4>2 DEF Expire
      <4>4. mem'.revoked = mem.revoked \cup {About[r]} /\ disk' = mem'
        BY <4>3, Additions DEF Logout, Sync
      <4>5. QED BY <4>1, <4>4
    <3>3. QED BY <3>1, <3>2
  <2>5. ASSUME NEW q \in late'
        PROVE  /\ pc'[q] \in {"found", "refused", "crashed"}
               /\ pc'[q] = "found" => Gone(About[q])'
    <3>1. CASE FindSession(r)
      <4>1. /\ late' = late \cup {x \in {r} : Gone(About[r])}
            /\ Moved(r, "idle", {"found", "refused"})
        BY <3>1, Moves DEF FindSession
      <4>2. QED BY <1>t, <2>3, <2>5, <4>1 DEF LateOK, Moved
    <3>2. CASE CheckSession(r)
      <4>1. late' = late /\ Moved(r, "found", {"refused", "serve"})
        BY <3>2, Moves DEF CheckSession, history
      <4>2. q = r => pc'[q] = "refused"
        <5>1. SUFFICES ASSUME q = r PROVE pc'[q] = "refused"
          OBVIOUS
        <5>2. Gone(About[r])
          BY <2>5, <4>1, <5>1 DEF LateOK, Moved
        <5>3. About[r] \in mem.revoked \cup expired
          BY <5>2 DEF Gone, LateOK
        <5>4. QED BY <1>t, <3>2, <5>1, <5>3 DEF CheckSession, Goto
      <4>3. QED BY <1>t, <2>3, <2>5, <4>1, <4>2 DEF LateOK, Moved
    <3>3. CASE ~FindSession(r) /\ ~CheckSession(r)
      <4>1. late' = late
        BY <1>1, <3>3 DEF Step, SignInStep, SessionStep, CreateState, ReadState, RefuseState,
            Consume, Exchange, FindUser, AddUser, AddSettings, BeginReconcile, PassBy,
            VisitWorkspace, Join, LoopRaises, EndLoop, CreateSession, Logout, ReadMe,
            AddWorkspace, AddOwner, AddAccount, SetDefault, AllowDomain, Expire, history
      <4>2. pc'[q] = pc[q]
        <5>1. pc[q] \in {"found", "refused", "crashed"} /\ q \in Request
          BY <1>t, <2>5, <4>1 DEF LateOK
        <5>2. CASE pc[q] = "found" /\ q = r /\ ~Expire(r)
          BY <1>1, <3>3, <5>2, Moves DEF Step, SignInStep, SessionStep, Moved
        <5>3. QED BY <1>1, <5>1, <5>2, OneMoves DEF Expire
      <4>3. QED BY <2>3, <2>5, <4>1, <4>2 DEF LateOK
    <3>4. QED BY <3>1, <3>2, <3>3
  <2>6. QED BY <2>4, <2>5 DEF LateOK
<1>2. CASE Crash
  <2>1. /\ mem' = disk /\ disk' = disk /\ late' = late
        /\ \A q \in Request :
               pc'[q] = IF pc[q] \in AtRest THEN pc[q] ELSE "crashed"
    BY <1>t, <1>2 DEF Crash, history
  <2>2. QED BY <1>t, <2>1 DEF LateOK, AtRest
<1>3. CASE UNCHANGED vars
  BY <1>3 DEF vars, world, history, LateOK, Gone
<1>4. QED BY <1>1, <1>2, <1>3 DEF Next, Step

\* Theorem: no request that comes with a token after its logout was answered or after it
\* expired passes the check of its session, before or after any number of crashes.
THEOREM LateAreRefused == Spec => []LateIsRefused
<1>1. Init => LateOK
  BY DEF Init, LateOK
<1>2. LateOK => LateIsRefused
  BY DEF LateOK, LateIsRefused
<1>3. QED BY <1>1, <1>2, InitTypes, SignInTypesStep, LateStep, PTL DEF Spec

-----------------------------------------------------------------------------
\* What a step of r changes besides the collections and the places.
LEMMA Changes ==
    ASSUME TypesOK, NEW r \in Request, Step(r)
    PROVE  /\ Sync \/ NoSync
           /\ user' = user \/ FindUser(r)
           /\ due' = due \/ FindUser(r)
           /\ at' = at \/ VisitWorkspace(r)
           /\ todo' = todo \/ BeginReconcile(r) \/ PassBy(r) \/ VisitWorkspace(r)
           /\ exchanged' = exchanged \/ Exchange(r)
           /\ UNCHANGED <<split, crashes>>
<1>1. CASE CreateState(r) \/ RefuseState(r) \/ Consume(r) \/ AddUser(r) \/ AddSettings(r)
           \/ Join(r) \/ LoopRaises(r) \/ EndLoop(r) \/ CreateSession(r)
  BY <1>1 DEF CreateState, RefuseState, Consume, AddUser, AddSettings, Join, LoopRaises, EndLoop,
              CreateSession, local, world, history
<1>2. CASE ReadState(r) \/ Exchange(r) \/ FindUser(r) \/ BeginReconcile(r) \/ PassBy(r)
           \/ VisitWorkspace(r)
  BY <1>2 DEF ReadState, Exchange, FindUser, BeginReconcile, PassBy, VisitWorkspace, local,
              world, history
<1>3. CASE FindSession(r) \/ CheckSession(r) \/ Logout(r) \/ ReadMe(r) \/ Expire(r)
  BY <1>3 DEF FindSession, CheckSession, Logout, ReadMe, Expire, local, world, history
<1>4. CASE AddWorkspace(r) \/ AddOwner(r) \/ AddAccount(r) \/ SetDefault(r) \/ AllowDomain(r)
  BY <1>4 DEF AddWorkspace, AddOwner, AddAccount, SetDefault, AllowDomain, local, world, history
<1>5. QED BY <1>1, <1>2, <1>3, <1>4 DEF Step, SignInStep, SessionStep

-----------------------------------------------------------------------------
\* The callbacks that have used a state, or are about to.
Using(r) == pc[r] = "exchange" \/ r \in exchanged

Used(s) ==
    \A r \in Request :
        About[r] = s =>
            /\ Using(r) => s \in mem.consumed /\ s \in disk.consumed
            /\ Using(r) \/ pc[r] = "consume" =>
                   \A q \in Request \ {r} : About[q] = s => ~Using(q)
            /\ pc[r] = "consume" =>
                   \A q \in Request \ {r} : About[q] = s => pc[q] # "consume"

UsedOK == \A s \in Request \ overlapped : Used(s)

\* A step that no callback about s takes to a state it was not using.
LEMMA UsedStays ==
    ASSUME NEW s, Used(s), mem.consumed \subseteq mem'.consumed,
           disk'.consumed \in {disk.consumed, mem'.consumed},
           \A q \in Request : About[q] = s =>
               (Using(q)' => Using(q)) /\ (pc'[q] = "consume" => pc[q] = "consume")
    PROVE  Used(s)'
BY DEF Used

LEMMA UsedStep ==
    ASSUME TypesOK, UsedOK, [Next]_vars
    PROVE  UsedOK'
<1>t. /\ pc \in [Request -> Place] /\ PlacesOK /\ (disk' = mem' \/ disk' = disk)
      /\ overlapped \subseteq overlapped'
  BY AnyStep DEF TypesOK, SignInTypeOK, Place
<1>1. ASSUME NEW r \in Request, Step(r) PROVE UsedOK'
  <2>1. mem.consumed \subseteq mem'.consumed /\ disk'.consumed \in {disk.consumed, mem'.consumed}
    BY <1>t, <1>1, Grows
  <2>2. \A q \in Request \ {r} : pc'[q] = pc[q]
    BY <1>1, OneMoves
  <2>3. SUFFICES ASSUME NEW s \in Request \ overlapped' PROVE Used(s)'
    BY DEF UsedOK
  <2>4. Used(s)
    BY <1>t DEF UsedOK
  <2>5. CASE ReadState(r)
    <3>1. /\ Moved(r, "idle", {"consume"}) /\ exchanged' = exchanged
          /\ About[r] \notin mem.consumed /\ mem' = mem /\ disk' = disk
          /\ Together(About[r], {q \in At("consume") : About[q] = About[r]})
      BY <2>5, Moves DEF ReadState, NoSync, world
    <3>2. CASE About[r] = s
      <4>1. {q \in At("consume") : About[q] = s} = {}
        BY <3>1, <3>2 DEF Together
      <4>2. \A q \in Request : About[q] = s => ~Using(q) /\ pc[q] # "consume"
        BY <2>4, <3>1, <3>2, <4>1 DEF Used, At
      <4>3. \A q \in Request : About[q] = s => ~Using(q)'
        BY <3>1, <4>2 DEF Using, Moved
      <4>4. \A q \in Request \ {r} : About[q] = s => pc'[q] # "consume"
        BY <2>2, <4>2
      <4>5. QED BY <3>2, <4>3, <4>4 DEF Used
    <3>3. CASE About[r] # s
      BY <2>1, <2>2, <2>4, <3>1, <3>3, UsedStays DEF Using
    <3>4. QED BY <3>2, <3>3
  <2>6. CASE Consume(r)
    <3>1. /\ Moved(r, "consume", {"exchange"}) /\ exchanged' = exchanged
          /\ mem'.consumed = mem.consumed \cup {About[r]} /\ disk' = mem'
      BY <2>6, Moves, Additions DEF Consume, Sync, world
    <3>2. CASE About[r] = s
      <4>1. \A q \in Request \ {r} : About[q] = s => ~Using(q) /\ pc[q] # "consume"
        BY <2>4, <3>1, <3>2 DEF Used, Moved
      <4>2. \A q \in Request \ {r} : About[q] = s => ~Using(q)' /\ pc'[q] # "consume"
        BY <2>2, <3>1, <4>1 DEF Using
      <4>3. s \in mem'.consumed /\ s \in disk'.consumed /\ pc'[r] # "consume"
        BY <3>1, <3>2 DEF Moved
      <4>4. QED BY <4>2, <4>3 DEF Used
    <3>3. CASE About[r] # s
      BY <2>1, <2>2, <2>4, <3>1, <3>3, UsedStays DEF Using
    <3>4. QED BY <3>2, <3>3
  <2>7. CASE Exchange(r)
    <3>1. Moved(r, "exchange", {"login", "raised"}) /\ exchanged' = exchanged \cup {r}
      BY <2>7, Moves DEF Exchange
    <3>2. \A q \in Request : Using(q)' => Using(q)
      BY <2>2, <3>1 DEF Using, Moved
    <3>3. \A q \in Request : pc'[q] = "consume" => pc[q] = "consume"
      BY <2>2, <3>1 DEF Moved
    <3>4. QED BY <2>1, <2>4, <3>2, <3>3, UsedStays
  <2>8. CASE ~ReadState(r) /\ ~Consume(r) /\ ~Exchange(r)
    <3>1. exchanged' = exchanged
      BY <1>1, <2>8, Changes
    <3>2. pc'[r] \in {"consume", "exchange"} => pc'[r] = pc[r]
      <4>1. CASE Expire(r)
        BY <4>1 DEF Expire
      <4>2. CASE ~Expire(r)
        BY <1>1, <2>8, <4>2, Moves DEF Step, SignInStep, SessionStep, Moved
      <4>3. QED BY <4>1, <4>2
    <3>3. QED BY <2>1, <2>2, <2>4, <3>1, <3>2, UsedStays DEF Using
  <2>9. QED BY <2>5, <2>6, <2>7, <2>8
<1>2. CASE Crash
  <2>1. /\ mem' = disk /\ disk' = disk /\ exchanged' = exchanged /\ overlapped' = overlapped
        /\ \A q \in Request : pc'[q] \in AtRest \cup {"crashed"}
    BY <1>t, <1>2 DEF Crash, history
  <2>2. \A q \in Request : (Using(q)' => Using(q)) /\ pc'[q] # "consume"
    BY <2>1 DEF Using, AtRest
  <2>3. QED BY <2>1, <2>2 DEF UsedOK, Used
<1>3. CASE UNCHANGED vars
  BY <1>3 DEF vars, world, history, UsedOK, Used, Using
<1>4. QED BY <1>1, <1>2, <1>3 DEF Next, Step

\* At most one of them makes a cardinality of at most one.
LEMMA AtMostOne ==
    ASSUME NEW S, \A x, y \in S : x = y
    PROVE  Cardinality(S) <= 1
<1>1. CASE S = {}
  BY <1>1, FS_EmptySet
<1>2. ASSUME NEW x \in S PROVE Cardinality(S) <= 1
  <2>1. S = {x}
    OBVIOUS
  <2>2. QED BY <2>1, FS_Singleton
<1>3. QED BY <1>1, <1>2

\* Theorem: the code of at most one callback of an OAuth state is exchanged, before and
\* after any number of crashes, unless two callbacks both found the state unused.
THEOREM StateIsUsedOnce == Spec => []StateUsedOnce
<1>1. Init => UsedOK
  BY DEF Init, UsedOK, Used, Using
<1>2. TypesOK /\ UsedOK => StateUsedOnce
  <2> SUFFICES ASSUME TypesOK, UsedOK, NEW s \in Request \ overlapped
               PROVE  Cardinality({r \in exchanged : About[r] = s}) <= 1
    BY DEF StateUsedOnce
  <2>1. exchanged \subseteq Request /\ Used(s)
    BY DEF TypesOK, SignInTypeOK, UsedOK
  <2>2. \A x, y \in {r \in exchanged : About[r] = s} : x = y
    BY <2>1 DEF Used, Using
  <2>3. QED BY <2>2, AtMostOne
<1>3. QED BY <1>1, <1>2, InitTypes, SignInTypesStep, UsedStep, PTL DEF Spec

-----------------------------------------------------------------------------
\* A user with settings, a workspace with an account and an owner.
UserWhole(m, r) == r \in m.users => r \in m.settings
Owned(m, w) == \E x \in m.members : x.by = w /\ x.workspace = w
WorkspaceWhole(m, r) == r \in m.workspaces => r \in m.accounts /\ Owned(m, r)

Made(r) ==
    /\ pc[r] # "settings" => UserWhole(mem, r)
    /\ pc[r] \notin {"owner", "account"} => WorkspaceWhole(mem, r)
    /\ pc[r] = "account" => Owned(mem, r)

MadeOK ==
    \A r \in Request \ split :
        /\ Made(r)
        /\ r \notin torn => UserWhole(disk, r) /\ WorkspaceWhole(disk, r)

LEMMA MadeStep ==
    ASSUME TypesOK, MadeOK, [Next]_vars
    PROVE  MadeOK'
<1>t. pc \in [Request -> Place]
  BY DEF TypesOK, SignInTypeOK, Place
<1>1. ASSUME NEW r \in Request, Step(r) PROVE MadeOK'
  <2>1. (Sync \/ NoSync) /\ split' = split
    BY <1>1, Changes
  <2>2. /\ mem.settings \subseteq mem'.settings /\ mem.accounts \subseteq mem'.accounts
        /\ mem.members \subseteq mem'.members
        /\ mem'.users = mem.users \/ AddUser(r)
        /\ mem'.workspaces = mem.workspaces \/ AddWorkspace(r)
    BY <1>1, Grows
  <2>3. \A q \in Request \ {r} : pc'[q] = pc[q]
    BY <1>1, OneMoves
  <2>4. \A w : Owned(mem, w) => Owned(mem', w)
    BY <2>2 DEF Owned
  <2>5. ASSUME NEW q \in Request \ split PROVE Made(q)'
    <3>1. Made(q)
      BY DEF MadeOK
    <3>2. CASE q # r
      <4>1. q \in mem'.users => q \in mem.users
        BY <2>2, <3>2, Additions
      <4>2. q \in mem'.workspaces => q \in mem.workspaces
        BY <2>2, <3>2, Additions
      <4>3. QED BY <2>2, <2>3, <2>4, <3>1, <3>2, <4>1, <4>2
                DEF Made, UserWhole, WorkspaceWhole
    <3>3. CASE q = r /\ AddUser(r)
      <4>1. Moved(r, "add", {"settings"}) /\ mem'.workspaces = mem.workspaces
        BY <3>3, Moves, Additions DEF Keep
      <4>2. QED BY <2>2, <2>4, <3>1, <3>3, <4>1 DEF Made, Moved, WorkspaceWhole
    <3>4. CASE q = r /\ AddSettings(r)
      <4>1. /\ Moved(r, "settings", {"reconcile"}) /\ mem'.workspaces = mem.workspaces
            /\ r \in mem'.settings
        BY <3>4, Moves, Additions DEF Keep
      <4>2. QED BY <2>2, <2>4, <3>1, <3>4, <4>1 DEF Made, Moved, UserWhole, WorkspaceWhole
    <3>5. CASE q = r /\ AddWorkspace(r)
      <4>1. Moved(r, "serve", {"owner"}) /\ mem'.users = mem.users
        BY <3>5, Moves, Additions DEF Keep
      <4>2. QED BY <2>2, <3>1, <3>5, <4>1 DEF Made, Moved, UserWhole
    <3>6. CASE q = r /\ AddOwner(r)
      <4>1. /\ Moved(r, "owner", {"account"}) /\ mem'.users = mem.users
            /\ [by |-> r, user |-> Caller(r), workspace |-> r] \in mem'.members
        BY <3>6, Moves, Additions DEF Keep
      <4>2. Owned(mem', r)
        BY <4>1 DEF Owned
      <4>3. QED BY <2>2, <3>1, <3>6, <4>1, <4>2 DEF Made, Moved, UserWhole
    <3>7. CASE q = r /\ AddAccount(r)
      <4>1. /\ Moved(r, "account", {"default"}) /\ mem'.users = mem.users
            /\ r \in mem'.accounts
        BY <3>7, Moves, Additions DEF Keep
      <4>2. QED BY <2>2, <2>4, <3>1, <3>7, <4>1 DEF Made, Moved, UserWhole, WorkspaceWhole
    <3>8. CASE q = r /\ ~AddUser(r) /\ ~AddSettings(r) /\ ~AddWorkspace(r) /\ ~AddOwner(r)
               /\ ~AddAccount(r)
      <4>1. mem'.users = mem.users /\ mem'.workspaces = mem.workspaces
        BY <2>2, <3>8
      <4>2. \/ pc'[r] = pc[r]
            \/ /\ pc[r] \notin {"settings", "owner", "account"}
               /\ pc'[r] \notin {"settings", "owner", "account"}
        <5>1. CASE Expire(r)
          BY <5>1 DEF Expire
        <5>2. CASE ~Expire(r)
          BY <1>1, <3>8, <5>2, Moves DEF Step, SignInStep, SessionStep, Moved
        <5>3. QED BY <5>1, <5>2
      <4>3. QED BY <2>2, <2>4, <3>1, <3>8, <4>1, <4>2 DEF Made, UserWhole, WorkspaceWhole
    <3>9. QED BY <3>2, <3>3, <3>4, <3>5, <3>6, <3>7, <3>8
  <2>6. ASSUME NEW q \in Request \ split, q \notin torn'
        PROVE  UserWhole(disk', q) /\ WorkspaceWhole(disk', q)
    <3>1. CASE NoSync
      BY <2>6, <3>1 DEF NoSync, MadeOK
    <3>2. CASE Sync
      <4>1. disk' = mem' /\ pc'[q] \notin {"settings", "owner", "account"}
        BY <2>6, <3>2 DEF Sync, Halves
      <4>2. Made(q)'
        BY <2>5
      <4>3. QED BY <4>1, <4>2 DEF Made
    <3>3. QED BY <2>1, <3>1, <3>2
  <2>7. QED BY <2>1, <2>5, <2>6 DEF MadeOK
<1>2. CASE Crash
  <2>1. /\ mem' = disk /\ disk' = disk /\ torn' = torn /\ split' = split \cup torn
        /\ \A q \in Request : pc'[q] \in AtRest \cup {"crashed"}
    BY <1>t, <1>2 DEF Crash
  <2>2. \A q \in Request : pc'[q] \notin {"settings", "owner", "account"}
    BY <2>1 DEF AtRest
  <2>3. QED BY <2>1, <2>2 DEF MadeOK, Made
<1>3. CASE UNCHANGED vars
  BY <1>3 DEF vars, world, MadeOK, Made
<1>4. QED BY <1>1, <1>2, <1>3 DEF Next, Step

\* Theorem: whoever looks at a user or a workspace that no thread is making finds it
\* whole, but for those of which a crash has kept what another request's sync had
\* written.
THEOREM StoredAreWhole == Spec => []StoredIsWhole
<1>1. Init => MadeOK
  BY DEF Init, MadeOK, Made, UserWhole, WorkspaceWhole
<1>2. MadeOK => StoredIsWhole
  <2> SUFFICES ASSUME MadeOK, NEW r \in Request \ (split \cup Halves(pc))
               PROVE  /\ r \in mem.users => r \in mem.settings
                      /\ r \in mem.workspaces =>
                             /\ r \in mem.accounts
                             /\ \E m \in mem.members : m.by = r /\ m.workspace = r
    BY DEF StoredIsWhole
  <2>1. pc[r] \notin {"settings", "owner", "account"} /\ Made(r)
    BY DEF Halves, MadeOK
  <2>2. QED BY <2>1 DEF Made, UserWhole, WorkspaceWhole, Owned
<1>3. QED BY <1>1, <1>2, InitTypes, SignInTypesStep, MadeStep, PTL DEF Spec

-----------------------------------------------------------------------------
\* One user of an address.
UsersIn(m, mail) == {u \in m.users : Mail[u] = mail}

Known(x) ==
    /\ \A u, v \in UsersIn(mem, x) : u = v
    /\ \A u, v \in UsersIn(disk, x) : u = v
    /\ \A r \in Request :
           pc[r] = "add" /\ Mail[r] = x =>
               /\ UsersIn(mem, x) = {}
               /\ \A q \in Request \ {r} : pc[q] = "add" => Mail[q] # x

KnownOK == \A x : x \notin overlapped => Known(x)

\* A step that adds no user with address x and looks none up in vain.
LEMMA KnownStays ==
    ASSUME NEW x, Known(x), UsersIn(mem', x) = UsersIn(mem, x), disk' = mem' \/ disk' = disk,
           \A q \in Request : Mail[q] = x /\ pc'[q] = "add" => pc[q] = "add"
    PROVE  Known(x)'
<1>1. \A u, v \in UsersIn(disk', x) : u = v
  BY DEF Known
<1>2. QED BY <1>1 DEF Known

LEMMA KnownStep ==
    ASSUME TypesOK, KnownOK, [Next]_vars
    PROVE  KnownOK'
<1>t. /\ mem \in Collections /\ pc \in [Request -> Place]
      /\ (disk' = mem' \/ disk' = disk) /\ overlapped \subseteq overlapped'
  BY AnyStep DEF TypesOK, SignInTypeOK, Place
<1>1. ASSUME NEW r \in Request, Step(r) PROVE KnownOK'
  <2>1. \A q \in Request \ {r} : pc'[q] = pc[q]
    BY <1>1, OneMoves
  <2>2. SUFFICES ASSUME NEW x, x \notin overlapped' PROVE Known(x)'
    BY DEF KnownOK
  <2>3. Known(x)
    BY <1>t, <2>2 DEF KnownOK
  <2>4. CASE AddUser(r)
    <3>1. Moved(r, "add", {"settings"}) /\ mem'.users = mem.users \cup {r} /\ disk' = disk
      BY <2>4, Moves, Additions DEF AddUser, NoSync
    <3>2. CASE Mail[r] = x
      <4>1. UsersIn(mem, x) = {} /\ \A q \in Request \ {r} : pc[q] = "add" => Mail[q] # x
        BY <2>3, <3>1, <3>2 DEF Known, Moved
      <4>2. UsersIn(mem', x) \subseteq {r}
        BY <3>1, <4>1 DEF UsersIn
      <4>3. pc'[r] # "add"
        BY <3>1 DEF Moved
      <4>4. \A q \in Request : Mail[q] = x => pc'[q] # "add"
        BY <2>1, <4>1, <4>3
      <4>5. \A u, v \in UsersIn(disk', x) : u = v
        BY <2>3, <3>1 DEF Known
      <4>6. QED BY <4>2, <4>4, <4>5 DEF Known
    <3>3. CASE Mail[r] # x
      <4>1. UsersIn(mem', x) = UsersIn(mem, x)
        BY <3>1, <3>3 DEF UsersIn
      <4>2. QED BY <1>t, <2>1, <2>3, <3>3, <4>1, KnownStays
    <3>4. QED BY <3>2, <3>3
  <2>5. CASE FindUser(r) /\ pc'[r] = "add"
    <3>1. mem' = mem /\ disk' = disk
      BY <1>t, <2>5 DEF FindUser, Goto, NoSync
    <3>2. /\ Users(Mail[r]) = {}
          /\ Together(Mail[r], {q \in At("add") : Mail[q] = Mail[r]})
      BY <1>t, <2>5 DEF FindUser, FoundNoUser, Goto
    <3>3. pc[r] # "add"
      BY <2>5, Moves
    <3>4. CASE Mail[r] = x
      <4>1. UsersIn(mem, x) = {} /\ \A q \in Request : pc[q] = "add" => Mail[q] # x
        BY <2>2, <3>2, <3>4 DEF Users, UsersIn, Together, At
      <4>2. \A q \in Request \ {r} : pc'[q] = "add" => Mail[q] # x
        BY <2>1, <4>1
      <4>3. QED BY <2>3, <3>1, <4>1, <4>2 DEF Known
    <3>5. CASE Mail[r] # x
      BY <1>t, <2>1, <2>3, <3>1, <3>5, KnownStays
    <3>6. QED BY <3>4, <3>5
  <2>6. CASE ~AddUser(r) /\ ~(FindUser(r) /\ pc'[r] = "add")
    <3>1. mem'.users = mem.users
      BY <1>1, <2>6, Grows
    <3>2. UsersIn(mem', x) = UsersIn(mem, x)
      BY <3>1 DEF UsersIn
    <3>3. pc'[r] = "add" => pc[r] = "add"
      <4>1. CASE Expire(r)
        BY <4>1 DEF Expire
      <4>2. CASE ~Expire(r)
        BY <1>1, <2>6, <4>2, Moves DEF Step, SignInStep, SessionStep, Moved
      <4>3. QED BY <4>1, <4>2
    <3>4. QED BY <1>t, <2>1, <2>3, <3>2, <3>3, KnownStays
  <2>7. QED BY <2>4, <2>5, <2>6
<1>2. CASE Crash
  <2>1. /\ mem' = disk /\ disk' = disk /\ overlapped' = overlapped
        /\ \A q \in Request : pc'[q] \in AtRest \cup {"crashed"}
    BY <1>t, <1>2 DEF Crash, history
  <2>2. \A q \in Request : pc'[q] # "add"
    BY <2>1 DEF AtRest
  <2>3. QED BY <2>1, <2>2 DEF KnownOK, Known
<1>3. CASE UNCHANGED vars
  BY <1>3 DEF vars, history, KnownOK, Known
<1>4. QED BY <1>1, <1>2, <1>3 DEF Next, Step

LEMMA InitKnown == Init => KnownOK
BY DEF Init, KnownOK, Known, UsersIn

-----------------------------------------------------------------------------
\* One membership of a user in a workspace.  A workspace is joined only after it has its
\* owner, since only its owner may allow the domain.
MemberIn(m, u, w) == \E x \in m.members : x.user = u /\ x.workspace = w

Ordered(m) ==
    /\ \A x \in m.members : x.workspace \in m.workspaces /\ Owned(m, x.workspace)
    /\ \A w \in m.allowing : Owned(m, w)

Single(m, seenTwice) ==
    \A x, y \in m.members :
        x.user = y.user /\ x.workspace = y.workspace /\ x # y
        => <<x.user, x.workspace>> \in seenTwice

Unmade == {"idle", "found", "serve", "owner"}

Joining(r) ==
    /\ Owned(mem, at[r])
    /\ <<user[r], at[r]>> \notin overlapped =>
           /\ ~MemberIn(mem, user[r], at[r])
           /\ \A q \in Request \ {r} :
                  pc[q] = "join" => user[q] # user[r] \/ at[q] # at[r]

MembersOK ==
    /\ Ordered(mem) /\ Ordered(disk)
    /\ Single(mem, overlapped) /\ Single(disk, overlapped)
    /\ \A r \in Request :
           /\ Op[r] = "make" /\ pc[r] \in Unmade => ~Owned(mem, r) /\ ~Owned(disk, r)
           /\ pc[r] = "owner" => r \in mem.workspaces
           /\ pc[r] = "join" => Joining(r)

\* What a step of r that adds no membership leaves true.
LEMMA MembersStay ==
    ASSUME TypesOK, MembersOK, NEW r \in Request, Step(r), mem'.members = mem.members,
           Ordered(mem'),
           pc'[r] \in Unmade => pc[r] \in Unmade,
           pc'[r] = "owner" => pc[r] = "owner" \/ r \in mem'.workspaces,
           pc'[r] = "join" => (pc[r] = "join" /\ at' = at) \/ Joining(r)',
           at' = at \/ pc'[r] = "join",
           \A q \in Request \ {r} : pc[q] = "join" => Joining(q)'
    PROVE  MembersOK'
<1>1. /\ (disk' = mem' \/ disk' = disk) /\ overlapped \subseteq overlapped'
      /\ \A q \in Request \ {r} : pc'[q] = pc[q]
      /\ mem.workspaces \subseteq mem'.workspaces
  BY AnyStep, OneMoves, Grows DEF Next, Step
<1>2. \A w : Owned(mem', w) <=> Owned(mem, w)
  BY DEF Owned
<1>3. \A w : Owned(disk', w) => Owned(disk, w) \/ Owned(mem, w)
  BY <1>1, <1>2
<1>4. Ordered(mem') /\ Ordered(disk')
  BY <1>1 DEF MembersOK
<1>5. Single(mem', overlapped') /\ Single(disk', overlapped')
  BY <1>1 DEF MembersOK, Single
<1>6. pc[r] = "join" /\ pc'[r] = "join" => mem' = mem /\ user' = user /\ at' = at
  <2>1. CASE Expire(r)
    BY <2>1 DEF Expire, local
  <2>2. CASE ~Expire(r)
    BY <2>2, Moves DEF Step, SignInStep, SessionStep, Moved
  <2>3. QED BY <2>1, <2>2
<1>7. pc[r] = "join" /\ pc'[r] = "join" => Joining(r)'
  <2>1. SUFFICES ASSUME pc[r] = "join", pc'[r] = "join" PROVE Joining(r)'
    OBVIOUS
  <2>2. Joining(r) /\ mem' = mem /\ user' = user /\ at' = at
    BY <1>6, <2>1 DEF MembersOK
  <2>3. \A q \in Request : pc'[q] = pc[q]
    BY <1>1, <2>1
  <2>4. QED BY <1>1, <2>2, <2>3 DEF Joining
<1>8. ASSUME NEW q \in Request
      PROVE  /\ Op[q] = "make" /\ pc'[q] \in Unmade => ~Owned(mem', q) /\ ~Owned(disk', q)
             /\ pc'[q] = "owner" => q \in mem'.workspaces
             /\ pc'[q] = "join" => Joining(q)'
  <2>1. CASE q = r
    BY <1>1, <1>2, <1>3, <1>7, <2>1 DEF MembersOK
  <2>2. CASE q # r
    BY <1>1, <1>2, <1>3, <2>2 DEF MembersOK
  <2>3. QED BY <2>1, <2>2
<1>9. QED BY <1>4, <1>5, <1>8 DEF MembersOK

LEMMA MembersStep ==
    ASSUME TypesOK, MembersOK, [Next]_vars
    PROVE  MembersOK'
<1>t. /\ mem \in Collections /\ pc \in [Request -> Place] /\ PlacesOK
      /\ user \in [Request -> Request \cup {NoRequest}]
      /\ at \in [Request -> Request \cup {NoRequest}]
      /\ (disk' = mem' \/ disk' = disk) /\ overlapped \subseteq overlapped'
  BY AnyStep DEF TypesOK, SignInTypeOK, Place
<1>1. ASSUME NEW r \in Request, Step(r) PROVE MembersOK'
  <2>1. \A q \in Request \ {r} : pc'[q] = pc[q]
    BY <1>1, OneMoves
  <2>2. /\ mem.members \subseteq mem'.members /\ mem.workspaces \subseteq mem'.workspaces
        /\ mem'.allowing = mem.allowing \/ AllowDomain(r)
    BY <1>1, Grows
  <2>3. \A w : Owned(mem, w) => Owned(mem', w)
    BY <2>2 DEF Owned
  <2>4. \A q \in Request \ {r} : user'[q] = user[q] /\ at'[q] = at[q]
    <3>1. user' = user \/ \E u : user' = [user EXCEPT ![r] = u]
      BY <1>1, Changes DEF FindUser, FoundNoUser
    <3>2. at' = at \/ \E w : at' = [at EXCEPT ![r] = w]
      BY <1>1, Changes DEF VisitWorkspace
    <3>3. QED BY <1>t, <3>1, <3>2
  <2>5. ASSUME Join(r) \/ AddOwner(r) PROVE MembersOK'
    <3>1. PICK x \in Membership :
              /\ mem'.members = mem.members \cup {x}
              /\ \/ /\ Join(r) /\ x.by = r /\ x.user = user[r] /\ x.workspace = at[r]
                 \/ /\ AddOwner(r) /\ x.by = r /\ x.workspace = r
      <4>1. CASE Join(r)
        <5> DEFINE x == [by |-> r, user |-> user[r], workspace |-> at[r]]
        <5>1. mem'.members = mem.members \cup {x}
          BY <4>1, Additions
        <5>2. x \in Membership /\ x.by = r /\ x.user = user[r] /\ x.workspace = at[r]
          BY <1>t, <4>1, Moves DEF PlacesOK, Moved, LoggingIn, Membership
        <5>3. QED BY <4>1, <5>1, <5>2
      <4>2. CASE AddOwner(r)
        <5> DEFINE x == [by |-> r, user |-> Caller(r), workspace |-> r]
        <5>1. mem'.members = mem.members \cup {x}
          BY <4>2, Additions
        <5>2. x \in Membership /\ x.by = r /\ x.workspace = r
          BY <1>t, <4>2, Moves DEF PlacesOK, Moved, Serving, Caller, Membership
        <5>3. QED BY <4>2, <5>1, <5>2
      <4>3. QED BY <2>5, <4>1, <4>2
    <3>2. /\ mem'.workspaces = mem.workspaces /\ mem'.allowing = mem.allowing
          /\ overlapped' = overlapped /\ user' = user /\ at' = at
      BY <2>5, Additions DEF Keep, Join, AddOwner, local, history
    <3>3. /\ Join(r) => pc[r] = "join" /\ pc'[r] \in {"loop", "raised"} /\ Joining(r)
                        /\ Op[r] # "make"
          /\ AddOwner(r) => /\ pc[r] = "owner" /\ pc'[r] = "account" /\ Op[r] = "make"
                            /\ ~Owned(mem, r) /\ r \in mem.workspaces
      BY <1>t, Moves DEF Moved, MembersOK, PlacesOK, LoggingIn, Unmade
    <3>4. x.workspace \in mem.workspaces
      <4>1. CASE Join(r)
        BY <3>1, <3>3, <4>1 DEF Joining, Owned, MembersOK, Ordered
      <4>2. CASE AddOwner(r)
        BY <3>1, <3>3, <4>2
      <4>3. QED BY <2>5, <4>1, <4>2
    <3>5. Owned(mem', x.workspace)
      BY <2>3, <3>1, <3>3 DEF Joining, Owned
    <3>6. Ordered(mem')
      BY <2>3, <3>1, <3>2, <3>4, <3>5 DEF MembersOK, Ordered
    <3>7. \A y \in mem.members :
              y.user = x.user /\ y.workspace = x.workspace
              => <<x.user, x.workspace>> \in overlapped
      <4>1. CASE Join(r)
        BY <3>1, <3>3, <4>1 DEF Joining, MemberIn
      <4>2. CASE AddOwner(r)
        BY <3>1, <3>3, <4>2 DEF MembersOK, Ordered
      <4>3. QED BY <2>5, <4>1, <4>2
    <3>8. Single(mem', overlapped')
      <4>1. SUFFICES ASSUME NEW y \in mem'.members, NEW z \in mem'.members,
                            y.user = z.user, y.workspace = z.workspace, y # z
                     PROVE  <<y.user, y.workspace>> \in overlapped
        BY <3>2 DEF Single
      <4>2. CASE y \in mem.members /\ z \in mem.members
        BY <4>1, <4>2 DEF MembersOK, Single
      <4>3. CASE y = x \/ z = x
        BY <3>1, <3>7, <4>1, <4>3
      <4>4. QED BY <3>1, <4>2, <4>3
    <3>9. ASSUME NEW q \in Request, Op[q] = "make", pc'[q] \in Unmade
          PROVE  ~Owned(mem', q) /\ ~Owned(disk', q)
      <4>1. q # r
        BY <2>5, <3>3, <3>9 DEF Unmade
      <4>2. ~Owned(mem, q) /\ ~Owned(disk, q)
        BY <2>1, <3>9, <4>1 DEF MembersOK
      <4>3. ~Owned(mem', q)
        <5>1. CASE Join(r)
          BY <3>1, <3>3, <4>2, <5>1 DEF Joining, Owned
        <5>2. CASE AddOwner(r)
          BY <3>1, <3>3, <4>1, <4>2, <5>2 DEF Owned
        <5>3. QED BY <2>5, <5>1, <5>2
      <4>4. QED BY <1>t, <4>2, <4>3
    <3>10. ASSUME NEW q \in Request, pc'[q] = "join" PROVE Joining(q)'
      <4>1. q # r /\ pc[q] = "join" /\ Joining(q)
        BY <2>1, <2>5, <3>3, <3>10 DEF MembersOK
      <4>2. ASSUME <<user[q], at[q]>> \notin overlapped
            PROVE  ~MemberIn(mem', user[q], at[q])
        <5>1. ~MemberIn(mem, user[q], at[q])
          BY <4>1, <4>2 DEF Joining
        <5>2. ~(x.user = user[q] /\ x.workspace = at[q])
          <6>1. CASE Join(r)
            BY <3>1, <3>3, <4>1, <4>2, <6>1 DEF Joining
          <6>2. CASE AddOwner(r)
            BY <3>1, <3>3, <4>1, <6>2 DEF Joining
          <6>3. QED BY <2>5, <6>1, <6>2
        <5>3. QED BY <3>1, <5>1, <5>2 DEF MemberIn
      <4>3. ASSUME NEW p \in Request \ {q}, pc'[p] = "join" PROVE pc[p] = "join"
        BY <2>1, <2>5, <3>3, <4>3
      <4>4. QED BY <2>3, <3>2, <4>1, <4>2, <4>3 DEF Joining
    <3>11. \A q \in Request : pc'[q] = "owner" => q \in mem'.workspaces
      BY <2>1, <2>2, <2>5, <3>3 DEF MembersOK
    <3>12. Ordered(disk') /\ Single(disk', overlapped')
      BY <1>t, <3>2, <3>6, <3>8 DEF MembersOK
    <3>13. QED BY <3>6, <3>8, <3>9, <3>10, <3>11, <3>12 DEF MembersOK
  <2>6. ASSUME ~Join(r), ~AddOwner(r) PROVE MembersOK'
    <3>1. mem'.members = mem.members
      BY <1>1, <2>6, Grows
    <3>2. \A w : Owned(mem', w) <=> Owned(mem, w)
      BY <3>1 DEF Owned
    <3>3. Ordered(mem')
      <4>1. \A w \in mem'.allowing : Owned(mem', w)
        <5>1. CASE AllowDomain(r)
          <6> DEFINE w == Target[r]
                     owner == [by |-> w, user |-> Caller(r), workspace |-> w] \in mem.members
          <6>1. mem'.allowing = mem.allowing \cup {x \in {w} : pc'[r] = "done"}
            BY <5>1, Additions
          <6>2. pc'[r] = "done" => owner
            BY <1>t, <5>1 DEF AllowDomain, Goto
          <6>3. owner => Owned(mem, w)
            BY DEF Owned
          <6>4. QED BY <3>2, <6>1, <6>2, <6>3 DEF MembersOK, Ordered
        <5>2. CASE ~AllowDomain(r)
          BY <2>2, <3>2, <5>2 DEF MembersOK, Ordered
        <5>3. QED BY <5>1, <5>2
      <4>2. QED BY <2>2, <3>1, <3>2, <4>1 DEF MembersOK, Ordered
    <3>4. \A q \in Request \ {r} :
              pc[q] = "join" =>
                  /\ Owned(mem', at'[q])
                  /\ <<user'[q], at'[q]>> \notin overlapped' =>
                         ~MemberIn(mem', user'[q], at'[q])
      BY <1>t, <2>4, <3>1, <3>2 DEF MembersOK, Joining, MemberIn
    <3>5. CASE VisitWorkspace(r)
      <4>1. /\ Moved(r, "loop", {"join"}) /\ mem' = mem /\ user' = user
            /\ \E w \in todo[r] : /\ Lacks(r, w) /\ at' = [at EXCEPT ![r] = w]
                                  /\ Together(<<user[r], w>>,
                                              {q \in At("join") : user[q] = user[r] /\ at[q] = w})
        BY <3>5, Moves DEF VisitWorkspace
      <4>2. PICK w \in todo[r] : /\ Lacks(r, w) /\ at' = [at EXCEPT ![r] = w]
                                 /\ Together(<<user[r], w>>,
                                             {q \in At("join") : user[q] = user[r] /\ at[q] = w})
        BY <4>1
      <4>3. at'[r] = w
        BY <1>t, <4>2
      <4>4. Owned(mem, w) /\ ~MemberIn(mem, user[r], w)
        BY <4>2 DEF Lacks, IsMember, MemberIn, MembersOK, Ordered
      <4>5. <<user[r], w>> \notin overlapped' =>
                \A q \in Request : pc[q] = "join" => user[q] # user[r] \/ at[q] # w
        BY <4>2 DEF Together, At
      <4>6. Joining(r)'
        BY <2>1, <2>4, <4>1, <4>3, <4>4, <4>5 DEF Joining
      <4>7. ASSUME NEW q \in Request \ {r}, pc[q] = "join" PROVE Joining(q)'
        <5>1. Joining(q)
          BY <4>7 DEF MembersOK
        <5>2. user'[q] = user[q] /\ at'[q] = at[q] /\ user'[r] = user[r]
          BY <2>4, <4>1
        <5>3. <<user[q], at[q]>> \notin overlapped' => user[r] # user[q] \/ w # at[q]
          BY <4>5, <4>7
        <5>4. <<user[q], at[q]>> \notin overlapped' =>
                  \A p \in Request \ {q} :
                      pc'[p] = "join" => user'[p] # user[q] \/ at'[p] # at[q]
          BY <1>t, <2>1, <2>4, <4>3, <5>1, <5>2, <5>3 DEF Joining
        <5>5. QED BY <3>4, <4>7, <5>2, <5>4 DEF Joining
      <4>8. pc'[r] = "join" /\ pc'[r] \notin Unmade
        BY <4>1 DEF Moved, Unmade
      <4>9. QED BY <1>1, <3>1, <3>3, <4>6, <4>7, <4>8, MembersStay
    <3>6. CASE ~VisitWorkspace(r)
      <4>1. at' = at
        BY <1>1, <3>6, Changes
      <4>2. /\ pc'[r] \in Unmade => pc[r] \in Unmade
            /\ pc'[r] = "owner" => pc[r] = "owner" \/ AddWorkspace(r)
            /\ pc'[r] = "join" => pc[r] = "join" /\ user' = user
        <5>1. CASE Expire(r)
          BY <5>1 DEF Expire, local
        <5>2. CASE ~Expire(r)
          BY <1>1, <2>6, <3>6, <5>2, Moves DEF Step, SignInStep, SessionStep, Moved, Unmade
        <5>3. QED BY <5>1, <5>2
      <4>3. AddWorkspace(r) => r \in mem'.workspaces
        BY Additions
      <4>4. ASSUME NEW q \in Request \ {r}, pc[q] = "join" PROVE Joining(q)'
        <5>1. Joining(q)
          BY <4>4 DEF MembersOK
        <5>2. \A p \in Request :
                  pc'[p] = "join" => pc[p] = "join" /\ user'[p] = user[p] /\ at'[p] = at[p]
          BY <2>1, <2>4, <4>1, <4>2
        <5>3. user'[q] = user[q] /\ at'[q] = at[q]
          BY <2>4
        <5>4. QED BY <1>t, <3>4, <4>4, <5>1, <5>2, <5>3 DEF Joining
      <4>5. QED BY <1>1, <3>1, <3>3, <4>1, <4>2, <4>3, <4>4, MembersStay
    <3>7. QED BY <3>5, <3>6
  <2>7. QED BY <2>5, <2>6
<1>2. CASE Crash
  <2>1. /\ mem' = disk /\ disk' = disk /\ overlapped' = overlapped
        /\ \A q \in Request :
               pc'[q] = IF pc[q] \in AtRest THEN pc[q] ELSE "crashed"
    BY <1>t, <1>2 DEF Crash, history
  <2>2. \A q \in Request : pc'[q] \notin {"owner", "join"}
                           /\ (pc'[q] \in Unmade => pc[q] \in Unmade)
    BY <2>1 DEF AtRest, Unmade
  <2>3. QED BY <2>1, <2>2 DEF MembersOK
<1>3. CASE UNCHANGED vars
  BY <1>3 DEF vars, local, history, MembersOK, Joining
<1>4. QED BY <1>1, <1>2, <1>3 DEF Next, Step

LEMMA InitMembers == Init => MembersOK
BY DEF Init, MembersOK, Ordered, Single, Owned

\* Theorem: an address has one user and a user one membership of a workspace, through
\* every crash, unless two logins both found none.
THEOREM OneOfEachHolds == Spec => []OneOfEach
<1>1. TypesOK /\ KnownOK /\ MembersOK => OneOfEach
  <2> SUFFICES ASSUME TypesOK, KnownOK, MembersOK PROVE OneOfEach
    OBVIOUS
  <2>1. ASSUME NEW x, x \notin overlapped PROVE Cardinality(Users(x)) <= 1
    <3>1. \A u, v \in Users(x) : u = v
      BY <2>1 DEF KnownOK, Known, UsersIn, Users
    <3>2. QED BY <3>1, AtMostOne
  <2>2. QED BY <2>1 DEF OneOfEach, MembersOK, Single
<1>2. QED
  BY <1>1, InitTypes, InitKnown, InitMembers, SignInTypesStep, KnownStep, MembersStep, PTL
  DEF Spec

-----------------------------------------------------------------------------
\* What a login has done of what was due when it began, and what is left in its loop.
Joined(r, m) == \A w \in due[r] : MemberIn(m, user[r], w)

Progress(r) ==
    /\ pc[r] \in LoggingIn => due[r] \subseteq mem.allowing
    /\ pc[r] \in {"loop", "join"} =>
           \A w \in due[r] :
               w \in todo[r] \/ MemberIn(mem, user[r], w) \/ (pc[r] = "join" /\ at[r] = w)
    /\ pc[r] = "session" => Joined(r, mem)
    /\ Op[r] \in {"callback", "dev"} /\ pc[r] = "done" => Joined(r, mem) /\ Joined(r, disk)

SignedOK ==
    /\ \A w \in Told : w \in mem.allowing /\ w \in disk.allowing
    /\ \A r \in Request : Progress(r)

LEMMA SignedStep ==
    ASSUME TypesOK, MembersOK, SignedOK, [Next]_vars
    PROVE  SignedOK'
<1>t. /\ mem \in Collections /\ pc \in [Request -> Place] /\ PlacesOK
      /\ user \in [Request -> Request \cup {NoRequest}]
      /\ at \in [Request -> Request \cup {NoRequest}]
      /\ todo \in [Request -> SUBSET Request] /\ due \in [Request -> SUBSET Request]
      /\ (disk' = mem' \/ disk' = disk)
  BY AnyStep DEF TypesOK, SignInTypeOK, Place
<1>1. ASSUME NEW r \in Request, Step(r) PROVE SignedOK'
  <2>1. /\ \A q \in Request \ {r} : pc'[q] = pc[q]
        /\ \A q \in Request : pc[q] = "done" => pc'[q] = "done"
    BY <1>1, OneMoves
  <2>2. /\ mem.members \subseteq mem'.members /\ mem.allowing \subseteq mem'.allowing
        /\ mem.workspaces \subseteq mem'.workspaces
    BY <1>1, Grows
  <2>3. \A u, w : MemberIn(mem, u, w) => MemberIn(mem', u, w)
    BY <2>2 DEF MemberIn
  <2>4. \A q \in Request \ {r} :
            user'[q] = user[q] /\ at'[q] = at[q] /\ todo'[q] = todo[q] /\ due'[q] = due[q]
    <3>1. user' = user \/ \E u : user' = [user EXCEPT ![r] = u]
      BY <1>1, Changes DEF FindUser, FoundNoUser
    <3>2. at' = at \/ \E w : at' = [at EXCEPT ![r] = w]
      BY <1>1, Changes DEF VisitWorkspace
    <3>3. todo' = todo \/ \E s : todo' = [todo EXCEPT ![r] = s]
      BY <1>1, Changes DEF BeginReconcile, PassBy, VisitWorkspace
    <3>4. due' = due \/ \E s : due' = [due EXCEPT ![r] = s]
      BY <1>1, Changes DEF FindUser
    <3>5. QED BY <1>t, <3>1, <3>2, <3>3, <3>4
  <2>5. ASSUME NEW q \in Request, Op[q] = "allow", pc'[q] = "done"
        PROVE  Target[q] \in mem'.allowing /\ Target[q] \in disk'.allowing
    <3>1. CASE pc[q] = "done"
      <4>1. Target[q] \in Request
        BY <2>5, SignInAssumption
      <4>2. Target[q] \in Told
        BY <2>5, <3>1, <4>1 DEF Told
      <4>3. QED BY <1>t, <2>2, <4>2 DEF SignedOK
    <3>2. CASE pc[q] # "done"
      <4>1. q = r
        BY <2>1, <2>5, <3>2
      <4>2. AllowDomain(r)
        <5>1. ~Expire(r)
          BY <2>5, <3>2 DEF Expire
        <5>2. ~(CreateState(r) \/ ReadState(r) \/ RefuseState(r) \/ Consume(r) \/ Exchange(r)
                \/ FindUser(r) \/ AddUser(r) \/ AddSettings(r) \/ BeginReconcile(r)
                \/ PassBy(r) \/ VisitWorkspace(r) \/ Join(r) \/ LoopRaises(r) \/ EndLoop(r))
          BY <2>5, <4>1, Moves DEF Moved
        <5>3. ~(CreateSession(r) \/ FindSession(r) \/ CheckSession(r) \/ Logout(r)
                \/ ReadMe(r) \/ AddWorkspace(r) \/ AddOwner(r) \/ AddAccount(r)
                \/ SetDefault(r))
          BY <1>t, <2>5, <4>1, Moves DEF Moved, PlacesOK, LoggingIn
        <5>4. QED BY <1>1, <5>1, <5>2, <5>3 DEF Step, SignInStep, SessionStep
      <4>3. mem'.allowing = mem.allowing \cup {x \in {Target[r]} : pc'[r] = "done"}
        BY <4>2, Additions
      <4>4. disk' = mem'
        BY <1>t, <2>5, <4>1, <4>2 DEF AllowDomain, Goto, Sync
      <4>5. QED BY <2>5, <4>1, <4>3, <4>4
    <3>3. QED BY <3>1, <3>2
  <2>6. \A w \in Told' : w \in mem'.allowing /\ w \in disk'.allowing
    BY <2>5 DEF Told
  <2>7. ASSUME NEW q \in Request, user'[q] = user[q], due'[q] = due[q],
               pc[q] = "done", pc'[q] = "done", Progress(q),
               Op[q] \in {"callback", "dev"}
        PROVE  Joined(q, mem)' /\ Joined(q, disk)'
    BY <1>t, <2>3, <2>7 DEF Progress, Joined
  <2>8. ASSUME NEW q \in Request \ {r} PROVE Progress(q)'
    <3>1. Progress(q) /\ pc'[q] = pc[q]
      BY <2>1 DEF SignedOK
    <3>2. pc'[q] = "session" => Joined(q, mem)'
      BY <2>3, <2>4, <3>1 DEF Progress, Joined
    <3>3. Op[q] \in {"callback", "dev"} /\ pc'[q] = "done" => Joined(q, mem)' /\ Joined(q, disk)'
      BY <2>4, <2>7, <3>1
    <3>4. pc'[q] \in LoggingIn => due'[q] \subseteq mem'.allowing
      BY <2>2, <2>4, <3>1 DEF Progress
    <3>5. pc'[q] \in {"loop", "join"} =>
              \A w \in due'[q] : \/ w \in todo'[q] \/ MemberIn(mem', user'[q], w)
                                 \/ pc'[q] = "join" /\ at'[q] = w
      BY <2>3, <2>4, <3>1 DEF Progress
    <3>6. QED BY <3>2, <3>3, <3>4, <3>5 DEF Progress
  <2>9. Progress(r)'
    <3>p. Progress(r)
      BY DEF SignedOK
    <3>1. CASE FindUser(r)
      <4>1. pc'[r] \in {"reconcile", "add"}
        BY <3>1, Moves DEF Moved
      <4>2. due'[r] = Told
        BY <1>t, <3>1 DEF FindUser
      <4>3. due'[r] \subseteq mem'.allowing
        BY <2>2, <4>2 DEF SignedOK
      <4>4. QED BY <4>1, <4>3 DEF Progress
    <3>2. CASE AddUser(r) \/ AddSettings(r)
      <4>1. pc[r] \in LoggingIn /\ pc'[r] \in {"settings", "reconcile"}
        BY <3>2, Moves DEF Moved, LoggingIn
      <4>2. due' = due
        BY <3>2 DEF AddUser, AddSettings, history
      <4>3. QED BY <2>2, <3>p, <4>1, <4>2 DEF Progress
    <3>3. CASE BeginReconcile(r)
      <4>1. pc[r] = "reconcile" /\ pc'[r] = "loop"
        BY <3>3, Moves DEF Moved
      <4>2. due' = due /\ mem' = mem /\ todo'[r] = mem.workspaces
        BY <1>t, <3>3 DEF BeginReconcile, history
      <4>3. due[r] \subseteq mem.allowing
        BY <3>p, <4>1 DEF Progress, LoggingIn
      <4>4. \A w \in mem.allowing : w \in mem.workspaces
        BY DEF MembersOK, Ordered, Owned
      <4>5. QED BY <4>1, <4>2, <4>3, <4>4 DEF Progress
    <3>4. CASE PassBy(r)
      <4>1. pc[r] = "loop" /\ pc'[r] = "loop"
        BY <3>4, Moves DEF Moved
      <4>2. due' = due /\ mem' = mem /\ user' = user
        BY <3>4 DEF PassBy, history
      <4>3. PICK w \in todo[r] : ~Lacks(r, w) /\ todo' = [todo EXCEPT ![r] = @ \ {w}]
        BY <3>4 DEF PassBy
      <4>4. todo'[r] = todo[r] \ {w}
        BY <1>t, <4>3
      <4>5. w \in mem.allowing => MemberIn(mem, user[r], w)
        BY <4>3 DEF Lacks, IsMember, MemberIn
      <4>6. due[r] \subseteq mem.allowing
        BY <3>p, <4>1 DEF Progress, LoggingIn
      <4>7. \A v \in due[r] : v \in todo[r] \/ MemberIn(mem, user[r], v)
        BY <3>p, <4>1 DEF Progress
      <4>8. QED BY <4>1, <4>2, <4>4, <4>5, <4>6, <4>7 DEF Progress
    <3>5. CASE VisitWorkspace(r)
      <4>1. pc[r] = "loop" /\ pc'[r] = "join"
        BY <3>5, Moves DEF Moved
      <4>2. due' = due /\ mem' = mem /\ user' = user
        BY <3>5 DEF VisitWorkspace
      <4>3. PICK w \in todo[r] : /\ todo' = [todo EXCEPT ![r] = @ \ {w}]
                                 /\ at' = [at EXCEPT ![r] = w]
        BY <3>5 DEF VisitWorkspace
      <4>4. todo'[r] = todo[r] \ {w} /\ at'[r] = w
        BY <1>t, <4>3
      <4>5. due[r] \subseteq mem.allowing
        BY <3>p, <4>1 DEF Progress, LoggingIn
      <4>6. \A v \in due[r] : v \in todo[r] \/ MemberIn(mem, user[r], v)
        BY <3>p, <4>1 DEF Progress
      <4>7. QED BY <4>1, <4>2, <4>4, <4>5, <4>6 DEF Progress
    <3>6. CASE Join(r)
      <4>1. pc[r] = "join" /\ pc'[r] \in {"loop", "raised"}
        BY <3>6, Moves DEF Moved
      <4>2. due' = due /\ user' = user /\ todo' = todo /\ at' = at
        BY <3>6 DEF Join, local, history
      <4>3. MemberIn(mem', user[r], at[r])
        <5> DEFINE x == [by |-> r, user |-> user[r], workspace |-> at[r]]
        <5>1. x \in mem'.members
          BY <3>6, Additions
        <5>2. x.user = user[r] /\ x.workspace = at[r]
          OBVIOUS
        <5>3. QED BY <5>1, <5>2 DEF MemberIn
      <4>4. due[r] \subseteq mem'.allowing
        BY <2>2, <3>p, <4>1 DEF Progress, LoggingIn
      <4>5. \A v \in due[r] : v \in todo[r] \/ MemberIn(mem', user[r], v)
        BY <2>3, <3>p, <4>1, <4>3 DEF Progress
      <4>6. QED BY <4>1, <4>2, <4>4, <4>5 DEF Progress, LoggingIn
    <3>7. CASE EndLoop(r)
      <4>1. pc[r] = "loop" /\ pc'[r] = "session"
        BY <3>7, Moves DEF Moved
      <4>2. due' = due /\ mem' = mem /\ user' = user /\ todo[r] = {}
        BY <3>7 DEF EndLoop, local, history
      <4>3. due[r] \subseteq mem.allowing
        BY <3>p, <4>1 DEF Progress, LoggingIn
      <4>4. Joined(r, mem)'
        BY <3>p, <4>1, <4>2 DEF Progress, Joined
      <4>5. QED BY <4>1, <4>2, <4>3, <4>4 DEF Progress
    <3>8. CASE CreateSession(r)
      <4>1. pc[r] = "session" /\ pc'[r] = "done"
        BY <3>8, Moves DEF Moved
      <4>2. due' = due /\ user' = user /\ disk' = mem'
        BY <3>8 DEF CreateSession, Sync, local, history
      <4>3. Joined(r, mem)' /\ Joined(r, disk)'
        BY <2>3, <3>p, <4>1, <4>2 DEF Progress, Joined
      <4>4. QED BY <4>1, <4>3 DEF Progress, LoggingIn
    <3>9. CASE Expire(r)
      <4>1. UNCHANGED <<pc, mem, user, todo, at, due>>
        BY <3>9 DEF Expire, local, history
      <4>2. disk' = disk
        BY <3>9 DEF Expire, NoSync
      <4>3. QED BY <3>p, <4>1, <4>2 DEF Progress, Joined
    <3>10. CASE ~(FindUser(r) \/ AddUser(r) \/ AddSettings(r) \/ BeginReconcile(r)
                  \/ PassBy(r) \/ VisitWorkspace(r) \/ Join(r) \/ EndLoop(r)
                  \/ CreateSession(r) \/ Expire(r))
      <4>1. pc'[r] \notin LoggingIn
        BY <1>1, <3>10, Moves DEF Step, SignInStep, SessionStep, Moved, LoggingIn
      <4>2. pc'[r] = "done" => Op[r] \notin {"callback", "dev"}
        BY <1>t, <1>1, <3>10, Moves
        DEF Step, SignInStep, SessionStep, Moved, PlacesOK, Serving, Authenticated
      <4>3. QED BY <4>1, <4>2 DEF Progress, LoggingIn
    <3>11. QED BY <3>1, <3>2, <3>3, <3>4, <3>5, <3>6, <3>7, <3>8, <3>9, <3>10
  <2>10. QED BY <2>6, <2>8, <2>9 DEF SignedOK
<1>2. CASE Crash
  <2>1. /\ mem' = disk /\ disk' = disk /\ due' = due /\ user' = user
        /\ \A q \in Request :
               pc'[q] = IF pc[q] \in AtRest THEN pc[q] ELSE "crashed"
    BY <1>t, <1>2 DEF Crash, history, local
  <2>2. \A q \in Request : pc'[q] \notin LoggingIn /\ (pc'[q] = "done" => pc[q] = "done")
    BY <2>1 DEF AtRest, LoggingIn
  <2>3. Told' \subseteq Told
    BY <2>2 DEF Told
  <2>4. ASSUME NEW q \in Request PROVE Progress(q)'
    <3>1. Progress(q)
      BY DEF SignedOK
    <3>2. QED BY <2>1, <2>2, <3>1 DEF Progress, Joined, LoggingIn
  <2>5. QED BY <2>1, <2>3, <2>4 DEF SignedOK
<1>3. CASE UNCHANGED vars
  <2>1. UNCHANGED <<pc, mem, disk, user, todo, at, due>>
    BY <1>3 DEF vars, local, history
  <2>2. QED BY <2>1 DEF SignedOK, Told, Progress, Joined
<1>4. QED BY <1>1, <1>2, <1>3 DEF Next, Step

LEMMA InitSigned == Init => SignedOK
BY DEF Init, SignedOK, Told, Progress, LoggingIn

\* Theorem: whoever was answered with a session is a member of every workspace that had
\* promised it before the login began, through any number of crashes.
THEOREM SignedInAreMembers == Spec => []SignedInIsMember
<1>1. SignedOK => SignedInIsMember
  BY DEF SignedOK, Progress, Joined, SignedInIsMember, IsMember, MemberIn
<1>2. QED
  BY <1>1, InitTypes, InitMembers, InitSigned, SignInTypesStep, MembersStep, SignedStep, PTL
  DEF Spec
=============================================================================
